--------------------------- MODULE HubLifecycleProps ---------------------------
(***************************************************************************)
(* What the start and the end of the pipe hub must guarantee.              *)
(***************************************************************************)
EXTENDS HubLifecycle

InHub == {"check", "pid", "pidwrite", "open", "bind", "listen", "serve",
          "close", "rmpid", "rmsock", "unlock"}

ClientStates == {"idle", "exists", "connect", "refused", "unlink", "poll", "lock", "check",
                 "spawn", "unlock", "attached", "failed", "done"}

(* Where a client can be while it holds hub_lock, or is connected.         *)
Locking == {"exists", "connect", "refused", "unlink", "poll", "check", "spawn", "unlock"}
Connected == {"attached", "unlock"}

(* The types of the three files and of the tables of the processes.  A     *)
(* client that has returned from connect_locked does not hold the lock.    *)
TypeOK ==
    /\ lock \in Clients \union Daemons \union {None}
    /\ pidfile \in Daemons \union {None, Empty}
    /\ sock \in Daemons \union {None}
    /\ dpc \in [Daemons -> Ended \union {"start", "lock"} \union InHub]
    /\ parent \in [Daemons -> Clients \union {None}]
    /\ backlog \in [Daemons -> SUBSET Clients]
    /\ accepted \in [Daemons -> SUBSET Clients]
    /\ served \in [Daemons -> BOOLEAN]
    /\ at \in [Clients -> ClientStates]
    /\ phase \in [Clients -> 1..7]
    /\ child \in [Clients -> Daemons \union {None}]
    /\ conn \in [Clients -> Daemons \union {None}]
    /\ joinable \in [Clients -> BOOLEAN]
    /\ crashes \in 0..MaxCrashes
    /\ \A c \in Clients : lock = c => at[c] \in Locking /\ phase[c] \in {4, 5}
    /\ \A c \in Clients : at[c] = "poll" => phase[c] \in {1, 5, 6}
    /\ \A c \in Clients : child[c] # None => lock = c /\ at[c] = "unlock"
    /\ \A c \in Clients : at[c] = "attached" => conn[c] # None
    /\ \A c \in Clients : conn[c] # None => at[c] \in Connected

(* However many clients spawn a hub, get the lock late or not at all, or   *)
(* are killed while they hold it, only one daemon is past the lock.        *)
OneHub ==
    \A d, e \in Daemons : dpc[d] \in InHub /\ dpc[e] \in InHub => d = e

(* While a hub serves, hub.pid names it, so that no process takes its      *)
(* socket for a stale one from then on, and none spawns another hub.       *)
HubSeenAlive ==
    \A d \in Daemons : Listening(d) => pidfile = d

(* A socket that is there, if it is not the leftover of a dead daemon,     *)
(* belongs to the daemon that holds the lock: a client that connects gets  *)
(* the hub, and the files that a daemon removes on its way out are its own.*)
EndpointOfHolder ==
    /\ \A d \in Daemons : sock = d /\ Running(d) => lock = d
    /\ \A d \in Daemons : dpc[d] \in {"rmpid", "rmsock"} =>
          /\ sock \in {None, d}
          /\ dpc[d] = "rmpid" => pidfile = d

(* "exits when the last client disconnects" (README.md:202): a hub that    *)
(* has had clients does not outlive them.                                  *)
HubExits ==
    \A d \in Daemons :
       <>[](\A c \in Clients : conn[c] # d) => <>[]~(Listening(d) /\ served[d])

(* README.md:201: "The hub starts automatically on the first client that   *)
(* uses pipes": if nobody is killed and a process is left to spawn, no     *)
(* client gives up.                                                        *)
HubStarts ==
    (\E c \in Clients : at[c] = "failed") =>
       crashes > 0 \/ \A d \in Daemons : dpc[d] # "unborn"
================================================================================
