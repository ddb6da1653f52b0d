----------------------------- MODULE HubLifecycle -----------------------------
(***************************************************************************)
(* How processes find, start and leave the pipe hub: run_daemon            *)
(* (pipe_hub_daemon.hpp), connect_locked (pipe_hub_client.hpp), hub_lock,  *)
(* hub_process_alive, hub_listener, connect_hub and spawn_hub_daemon       *)
(* (pipe_hub_transport.hpp), in the POSIX build.                           *)
(*                                                                         *)
(* They meet in three files: hub.lock with its flock, hub.pid and hub.sock.*)
(* Every access to a file is a step of its own; any process can take a     *)
(* step in between.                                                        *)
(***************************************************************************)
EXTENDS Naturals

CONSTANTS
    Clients,     \* processes that use pipes
    Daemons,     \* process ids of the daemons that can be spawned
    None,        \* nobody, no file
    Empty,       \* a pid file that has been opened and not yet written
    Patient,     \* a loop gives up only when no daemon is busy
    MaxCrashes   \* bound: daemons and clients that are killed

ASSUME NamesAssumption ==
    /\ Clients \intersect Daemons = {}
    /\ None \notin Clients \union Daemons
    /\ Empty \notin Daemons \union {None}
ASSUME ModeAssumption == Patient \in BOOLEAN /\ MaxCrashes \in Nat

VARIABLES
    lock,      \* the process that holds the flock on hub.lock
    pidfile,   \* hub.pid: absent (None), Empty, or a process id
    sock,      \* hub.sock: absent, or bound to the listener of a daemon
    dpc,       \* dpc[d]: where daemon d is in run_daemon
    parent,    \* parent[d]: the client that spawned d, None once that has ended
    backlog,   \* backlog[d]: connections d has not accepted
    accepted,  \* accepted[d]: the clients of d
    served,    \* served[d]: daemon_state::served_clients
    at,        \* at[c]: where client c is in connect_locked
    phase,     \* phase[c]: its loop
    child,     \* child[c]: the daemon spawned while c holds hub_lock
    conn,      \* conn[c]: the daemon c is connected to
    joinable,  \* joinable[c]: reader_ is the thread of a connection that has ended
    crashes    \* processes killed so far

files == <<lock, pidfile, sock>>
daemons == <<dpc, parent, backlog, accepted, served>>
clients == <<at, phase, child, conn, joinable>>
vars == <<files, daemons, clients, crashes>>

-----------------------------------------------------------------------------

Starting == {"start", "lock", "check", "pid", "pidwrite", "open", "bind", "listen"}
Leaving == {"close", "rmpid", "rmsock", "unlock"}
Ended == {"unborn", "zombie", "gone"}
Running(d) == dpc[d] \notin Ended

(* kill(pid, 0) also succeeds for a daemon that has ended and that its     *)
(* parent has not waited for: nothing in the program waits for it.         *)
Alive == \E d \in Daemons : pidfile = d /\ dpc[d] \notin {"unborn", "gone"}

Listening(d) == dpc[d] = "serve"

-----------------------------------------------------------------------------
(* The daemon.                                                             *)

Goto(d, where) == dpc' = [dpc EXCEPT ![d] = where]

(* The process ends: the kernel drops its lock and closes its sockets.     *)
End(d) ==
    /\ Goto(d, IF parent[d] = None THEN "gone" ELSE "zombie")
    /\ lock' = IF lock = d THEN None ELSE lock
    /\ backlog' = [backlog EXCEPT ![d] = {}]
    /\ accepted' = [accepted EXCEPT ![d] = {}]
    /\ served' = [served EXCEPT ![d] = FALSE]
    /\ UNCHANGED parent

(* "If the hub is alive, return": before the lock is taken, and under it.  *)
CheckAlive(d) ==
    /\ dpc[d] \in {"start", "check"}
    /\ \/ /\ Alive
          /\ End(d)
       \/ /\ ~Alive
          /\ Goto(d, IF dpc[d] = "start" THEN "lock" ELSE "pid")
          /\ UNCHANGED <<lock, parent, backlog, accepted, served>>
    /\ UNCHANGED <<pidfile, sock, clients, crashes>>

(* The flock can be had.  The variants: it is not needed; a daemon drops   *)
(* it before it cleans up.                                                 *)
Unneeded == TRUE
DroppedEarly == lock = None \/ \E d \in Daemons : lock = d /\ dpc[d] \in Leaving
Untaken == lock = None

TakeLock(d) ==
    /\ dpc[d] = "lock"
    /\ \/ /\ ~Untaken
          /\ End(d)
       \/ /\ Untaken
          /\ lock' = d
          /\ Goto(d, "check")
          /\ UNCHANGED <<parent, backlog, accepted, served>>
    /\ UNCHANGED <<pidfile, sock, clients, crashes>>

(* std::ofstream truncates the file; its destructor writes the id.         *)
WritePid(d) ==
    /\ \/ dpc[d] = "pid" /\ pidfile' = Empty /\ Goto(d, "pidwrite")
       \/ dpc[d] = "pidwrite" /\ pidfile' = d /\ Goto(d, "open")
    /\ UNCHANGED <<lock, sock, parent, backlog, accepted, served, clients, crashes>>

(* hub_listener::open: remove, bind, listen.                               *)
OpenListener(d) ==
    /\ \/ dpc[d] = "open" /\ sock' = None /\ Goto(d, "bind")
       \/ dpc[d] = "bind" /\ sock' = d /\ Goto(d, "listen")
       \/ dpc[d] = "listen" /\ Goto(d, "serve") /\ UNCHANGED sock
    /\ UNCHANGED <<lock, pidfile, parent, backlog, accepted, served, clients, crashes>>

Accept(d, c) ==
    /\ Listening(d)
    /\ c \in backlog[d]
    /\ backlog' = [backlog EXCEPT ![d] = @ \ {c}]
    /\ accepted' = [accepted EXCEPT ![d] = @ \union {c}]
    /\ served' = [served EXCEPT ![d] = TRUE]
    /\ UNCHANGED <<files, dpc, parent, clients, crashes>>

(* poll reports that a client has closed its end.                          *)
HangUp(d, c) ==
    /\ Listening(d)
    /\ c \in accepted[d] /\ conn[c] # d
    /\ accepted' = [accepted EXCEPT ![d] = @ \ {c}]
    /\ UNCHANGED <<files, dpc, parent, backlog, served, clients, crashes>>

(* No client is left.  Connections that wait to be accepted do not count.  *)
(* The variant takes the flag the other way round.                         *)
NobodyYet(d) == ~served[d] /\ accepted[d] = {}
NobodyLeft(d) == served[d] /\ accepted[d] = {}

StopServing(d) ==
    /\ Listening(d)
    /\ NobodyLeft(d)
    /\ Goto(d, "close")
    /\ UNCHANGED <<files, parent, backlog, accepted, served, clients, crashes>>

(* listener.close(), then the two files, then the end of run_daemon drops  *)
(* the lock.                                                               *)
CleanUp(d) ==
    /\ \/ dpc[d] = "close" /\ Goto(d, "rmpid")
          /\ backlog' = [backlog EXCEPT ![d] = {}] /\ UNCHANGED <<pidfile, sock>>
       \/ dpc[d] = "rmpid" /\ pidfile' = None /\ Goto(d, "rmsock") /\ UNCHANGED <<sock, backlog>>
       \/ dpc[d] = "rmsock" /\ sock' = None /\ Goto(d, "unlock") /\ UNCHANGED <<pidfile, backlog>>
    /\ UNCHANGED <<lock, parent, accepted, served, clients, crashes>>

Finish(d) ==
    /\ dpc[d] = "unlock"
    /\ End(d)
    /\ UNCHANGED <<pidfile, sock, clients, crashes>>

(* SIGPIPE, or a kill: the files stay as they are.                         *)
Crash(d) ==
    /\ Running(d)
    /\ crashes < MaxCrashes
    /\ crashes' = crashes + 1
    /\ End(d)
    /\ UNCHANGED <<pidfile, sock, clients>>

-----------------------------------------------------------------------------
(* The client: connect_locked.  Its loops try to connect; 1 and 2 before   *)
(* it takes hub_lock, 3 when it does not get the lock, 4 and 5 under the   *)
(* lock, 6 after the spawn, 7 when the hub has been seen alive then.       *)

AtStep(c, where) == at[c] = where
Step(c, where) == at' = [at EXCEPT ![c] = where]
Loop(c, n, where) ==
    /\ phase' = [phase EXCEPT ![c] = n]
    /\ Step(c, where)

(* The attempts of a loop are used up: 400 (40 in loop 5) of 25 ms each.   *)
(* With Patient, that is time enough for a daemon to start or to leave,    *)
(* and for another client to give up a lock.                               *)
TimeOut(c) ==
    Patient => /\ \A d \in Daemons : dpc[d] \notin Starting \union Leaving
               /\ \A b \in Clients \ {c} : lock # b /\ at[b] \notin {"spawn", "unlock"}

(* ensure_connected.                                                       *)
Begin(c) ==
    /\ at[c] \in {"idle", "failed"}
    /\ Loop(c, 1, "exists")
    /\ UNCHANGED <<files, daemons, child, conn, joinable, crashes>>

(* What follows an attempt that did not connect.                           *)
Missed(c) ==
    CASE phase[c] \in {1, 5, 6} -> Step(c, "poll") /\ UNCHANGED phase
      [] phase[c] = 2 -> \/ Step(c, "exists") /\ UNCHANGED phase
                         \/ TimeOut(c) /\ Step(c, "lock") /\ UNCHANGED phase
      [] phase[c] = 3 -> \/ Step(c, "exists") /\ UNCHANGED phase
                         \/ TimeOut(c) /\ Loop(c, 4, "exists")   \* an error is recorded
      [] phase[c] = 4 -> Loop(c, 5, "exists")
      [] OTHER        -> \/ Step(c, "exists") /\ UNCHANGED phase
                         \/ TimeOut(c) /\ Loop(c, 6, "exists")   \* an error is recorded

(* hub_endpoint_ready.                                                     *)
Exists(c) ==
    /\ AtStep(c, "exists")
    /\ \/ sock # None /\ Step(c, "connect") /\ UNCHANGED phase
       \/ sock = None /\ Missed(c)
    /\ UNCHANGED <<files, daemons, child, conn, joinable, crashes>>

(* connect().  The return of connect_locked releases a lock that is held.  *)
Connect(c) ==
    /\ AtStep(c, "connect")
    /\ \/ \E d \in Daemons :
          /\ sock = d /\ Listening(d)
          /\ conn' = [conn EXCEPT ![c] = d]
          /\ backlog' = [backlog EXCEPT ![d] = @ \union {c}]
          /\ IF phase[c] \in {4, 5} THEN Step(c, "unlock") /\ UNCHANGED phase
                                    ELSE Loop(c, 1, "attached")
       \/ /\ ~ \E d \in Daemons : sock = d /\ Listening(d)
          /\ Step(c, "refused")
          /\ UNCHANGED <<conn, backlog, phase>>
    /\ UNCHANGED <<files, dpc, parent, accepted, served, child, joinable, crashes>>

(* connect() failed: is there a hub at all?                                *)
Refused(c) ==
    /\ AtStep(c, "refused")
    /\ \/ Alive /\ Missed(c)
       \/ ~Alive /\ Step(c, "unlink") /\ UNCHANGED phase
    /\ UNCHANGED <<files, daemons, child, conn, joinable, crashes>>

(* The socket path is removed, whatever it names by now.                   *)
Unlink(c) ==
    /\ AtStep(c, "unlink")
    /\ sock' = None
    /\ Missed(c)
    /\ UNCHANGED <<lock, pidfile, daemons, child, conn, joinable, crashes>>

(* hub_process_alive in the loops 1, 5 and 6.                              *)
Poll(c) ==
    /\ AtStep(c, "poll")
    /\ \/ /\ Alive
          /\ CASE phase[c] = 1 -> Loop(c, 2, "exists")
               [] phase[c] = 5 -> Step(c, "check") /\ UNCHANGED phase
               [] OTHER        -> Loop(c, 7, "exists")
       \/ /\ ~Alive
          /\ Step(c, "exists") /\ UNCHANGED phase
       \/ /\ ~Alive /\ TimeOut(c)
          /\ CASE phase[c] = 1 -> Loop(c, 2, "exists")
               [] phase[c] = 5 -> Step(c, "check") /\ UNCHANGED phase
               [] OTHER        -> Loop(c, 1, "failed")
    /\ UNCHANGED <<files, daemons, child, conn, joinable, crashes>>

(* hub_lock::try_acquire.                                                  *)
TryLock(c) ==
    /\ AtStep(c, "lock")
    /\ \/ Untaken /\ lock' = c /\ Loop(c, 4, "exists")
       \/ ~Untaken /\ Loop(c, 3, "exists") /\ UNCHANGED lock
    /\ UNCHANGED <<pidfile, sock, daemons, child, conn, joinable, crashes>>

(* The last look before the spawn.                                         *)
CheckHub(c) ==
    /\ AtStep(c, "check")
    /\ Step(c, IF Alive THEN "unlock" ELSE "spawn")
    /\ UNCHANGED <<files, daemons, phase, child, conn, joinable, crashes>>

(* posix_spawn: the daemon inherits the open lock file.  It fails only if  *)
(* no process is left.                                                     *)
Spawn(c) ==
    /\ AtStep(c, "spawn")
    /\ \/ \E d \in Daemons :
          /\ dpc[d] = "unborn"
          /\ Goto(d, "start")
          /\ parent' = [parent EXCEPT ![d] = c]
          /\ child' = [child EXCEPT ![c] = IF lock = c THEN d ELSE None]
       \/ /\ \A d \in Daemons : dpc[d] # "unborn"
          /\ UNCHANGED <<dpc, parent, child>>
    /\ Step(c, "unlock")
    /\ UNCHANGED <<files, backlog, accepted, served, phase, conn, joinable, crashes>>

(* hub_lock::release                                                       *)
Released(c) == IF lock = c THEN None ELSE lock

Unlock(c) ==
    /\ AtStep(c, "unlock")
    /\ lock' = Released(c)
    /\ child' = [child EXCEPT ![c] = None]
    /\ IF conn[c] # None THEN Loop(c, 1, "attached")
                         ELSE Loop(c, 6, "exists")
    /\ UNCHANGED <<pidfile, sock, daemons, conn, joinable, crashes>>

(* The end of a client; nobody is left to wait for the daemons it spawned. *)
Gone(c) ==
    /\ Loop(c, 1, "done")
    /\ conn' = [conn EXCEPT ![c] = None]
    /\ joinable' = [joinable EXCEPT ![c] = FALSE]
    /\ dpc' = [d \in Daemons |-> IF parent[d] = c /\ dpc[d] = "zombie" THEN "gone" ELSE dpc[d]]
    /\ parent' = [d \in Daemons |-> IF parent[d] = c THEN None ELSE parent[d]]

(* disconnect() and the end of the program; or, on a second connection,    *)
(* the assignment to a reader_ that is still joinable, which terminates.   *)
Leave(c) ==
    /\ at[c] \in {"idle", "attached", "failed"}
    /\ Gone(c)
    /\ UNCHANGED <<files, backlog, accepted, served, child, crashes>>

(* The daemon has closed the connection: the reader thread ends.           *)
Eof(c) ==
    /\ AtStep(c, "attached") /\ ~joinable[c]
    /\ c \notin backlog[conn[c]] \union accepted[conn[c]]
    /\ Step(c, "idle")
    /\ conn' = [conn EXCEPT ![c] = None]
    /\ joinable' = [joinable EXCEPT ![c] = TRUE]
    /\ UNCHANGED <<files, daemons, phase, child, crashes>>

(* The client is killed.  If it holds the lock, the daemon it has just     *)
(* spawned goes on holding it through the descriptor it inherited.         *)
Killed(c) ==
    /\ at[c] # "done"
    /\ crashes < MaxCrashes
    /\ crashes' = crashes + 1
    /\ Gone(c)
    /\ child' = [child EXCEPT ![c] = None]
    /\ lock' = IF lock # c THEN lock
               ELSE IF child[c] # None /\ Running(child[c]) THEN child[c] ELSE None
    /\ UNCHANGED <<pidfile, sock, backlog, accepted, served>>

-----------------------------------------------------------------------------

Init ==
    /\ lock = None /\ pidfile = None /\ sock = None
    /\ dpc = [d \in Daemons |-> "unborn"]
    /\ parent = [d \in Daemons |-> None]
    /\ backlog = [d \in Daemons |-> {}]
    /\ accepted = [d \in Daemons |-> {}]
    /\ served = [d \in Daemons |-> FALSE]
    /\ at = [c \in Clients |-> "idle"]
    /\ phase = [c \in Clients |-> 1]
    /\ child = [c \in Clients |-> None]
    /\ conn = [c \in Clients |-> None]
    /\ joinable = [c \in Clients |-> FALSE]
    /\ crashes = 0

DaemonStep(d) ==
    \/ CheckAlive(d) \/ TakeLock(d) \/ WritePid(d) \/ OpenListener(d)
    \/ StopServing(d) \/ CleanUp(d) \/ Finish(d)
    \/ \E c \in Clients : Accept(d, c) \/ HangUp(d, c)

ClientStep(c) ==
    \/ Exists(c) \/ Connect(c) \/ Refused(c) \/ Unlink(c) \/ Poll(c)
    \/ TryLock(c) \/ CheckHub(c) \/ Spawn(c) \/ Unlock(c) \/ Eof(c)

Next ==
    \/ \E d \in Daemons : DaemonStep(d) \/ Crash(d)
    \/ \E c \in Clients : Begin(c) \/ ClientStep(c) \/ Leave(c) \/ Killed(c)

Spec == Init /\ [][Next]_vars

(* poll returns within 500 ms, and every step of a daemon's way in and out *)
(* is a system call that returns.                                          *)
Fairness == \A d \in Daemons : WF_vars(DaemonStep(d))

FairSpec == Spec /\ Fairness
===============================================================================
