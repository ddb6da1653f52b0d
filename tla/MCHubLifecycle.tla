---------------------------- MODULE MCHubLifecycle ----------------------------
(* Small instances of the life cycle of the pipe hub for TLC.              *)
EXTENDS HubLifecycleProps, TLC

Symmetry == Permutations(Clients) \union Permutations(Daemons)
===============================================================================
