----------------------------- MODULE MCHubPeers ------------------------------
(* A pipe that is a subscription or a dialogue: which one is settled at the  *)
(* start, and every handle opened on it is of that kind.                     *)
EXTENDS MCHubDaemon

VARIABLE kind

PeerModes == SubscribeModes \union ChannelModes

OfItsKind ==
    \A c \in Clients, k \in Channels, m \in Modes \ kind : handles[c][k][m] = 0

(* Subscribers get one message, and send one request at a time. *)
Bounded ==
    kind = SubscribeModes => sent <= 1 /\ \A c \in Clients : Len(in[c]) <= 1

PeersSpec ==
    /\ Init /\ kind \in {SubscribeModes, ChannelModes}
    /\ [][Next /\ UNCHANGED kind /\ OfItsKind' /\ Bounded']_<<vars, kind>>
==============================================================================
