----------------------------- MODULE MCHubDaemon -----------------------------
(* Small instances of the pipe hub daemon for TLC.                         *)
EXTENDS HubDaemonProps, TLC

PipeModes == {"Writer", "QueueIn", "BroadcastIn"}
QueueModes == {"Writer", "QueueIn"}
SubscribeModes == {"Writer", "BroadcastIn"}
ChannelModes == {"ChannelPeer"}

Symmetry == Permutations(Clients)
==============================================================================
