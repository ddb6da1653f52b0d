-------------------------- MODULE HubLifecycleProofs --------------------------
(***************************************************************************)
(* The safety of the pipe hub's start and end, for any number of clients   *)
(* and daemons, with and without patience, and with any number of kills.   *)
(***************************************************************************)
EXTENDS HubLifecycleProps, TLAPS

(* hub.pid is not touched between the write and the removal of its owner.  *)
Named == {"open", "bind", "listen", "serve", "close", "rmpid"}

(* The listener is bound; the socket path is the daemon's or nobody's.     *)
Bound == {"listen", "serve", "close", "rmpid", "rmsock"}
Swept == {"bind", "listen", "serve", "close", "rmpid", "rmsock", "unlock"}

LockHeld == \A d \in Daemons : dpc[d] \in InHub => lock = d
PidOwned == \A d \in Daemons : dpc[d] \in Named => pidfile = d
SockBound == \A d \in Daemons : sock = d => dpc[d] \in Bound \union {"zombie", "gone"}
SockOwned == \A d \in Daemons : dpc[d] \in Swept => sock \in {None, d}

HubOwned == LockHeld /\ PidOwned /\ SockBound /\ SockOwned

-----------------------------------------------------------------------------
(* Types.                                                                  *)

(* The initial state of hub.lock, hub.pid, hub.sock and the processes is   *)
(* well typed.                                                             *)
LEMMA TypeInit == Init => TypeOK
BY NamesAssumption, ModeAssumption
DEF Init, TypeOK, Ended, InHub, ClientStates, Locking, Connected

(* The end of a daemon's process keeps the types.                          *)
LEMMA TypeEnd ==
    ASSUME TypeOK, NEW d \in Daemons, End(d)
    PROVE /\ lock' \in Clients \union Daemons \union {None}
          /\ dpc' \in [Daemons -> Ended \union {"start", "lock"} \union InHub]
          /\ parent' = parent /\ backlog' \in [Daemons -> SUBSET Clients]
          /\ accepted' \in [Daemons -> SUBSET Clients]
          /\ served' \in [Daemons -> BOOLEAN]
          /\ \A c \in Clients : lock' = c => lock = c
          /\ \A c \in Clients : lock = c => lock' = c
BY NamesAssumption DEF End, Goto, TypeOK, Ended

(* The steps of run_daemon keep the types: they change no client.          *)
LEMMA TypeDaemon ==
    ASSUME TypeOK, NEW d \in Daemons, DaemonStep(d) \/ Crash(d)
    PROVE TypeOK'
<1>1. CASE CheckAlive(d)
    <2>1. CASE End(d)
        BY <1>1, <2>1, TypeEnd DEF CheckAlive, TypeOK, clients
    <2>2. CASE ~Alive /\ Goto(d, IF dpc[d] = "start" THEN "lock" ELSE "pid")
               /\ UNCHANGED <<lock, parent, backlog, accepted, served>>
        BY <1>1, <2>2 DEF CheckAlive, Goto, TypeOK, Ended, InHub, clients
    <2> QED
        BY <1>1, <2>1, <2>2 DEF CheckAlive
<1>2. CASE TakeLock(d)
    <2>1. CASE End(d)
        BY <1>2, <2>1, TypeEnd DEF TakeLock, TypeOK, clients
    <2>2. CASE lock = None /\ lock' = d /\ Goto(d, "check")
               /\ UNCHANGED <<parent, backlog, accepted, served>>
        BY <1>2, <2>2, NamesAssumption
        DEF TakeLock, Goto, TypeOK, Ended, InHub, clients
    <2> QED
        BY <1>2, <2>1, <2>2 DEF TakeLock, Untaken
<1>3. CASE WritePid(d)
    BY <1>3 DEF WritePid, Goto, TypeOK, Ended, InHub, clients
<1>4. CASE OpenListener(d)
    BY <1>4 DEF OpenListener, Goto, TypeOK, Ended, InHub, clients
<1>5. CASE StopServing(d)
    BY <1>5 DEF StopServing, Goto, TypeOK, Ended, InHub, clients, files
<1>6. CASE CleanUp(d)
    BY <1>6 DEF CleanUp, Goto, TypeOK, Ended, InHub, clients
<1>7. CASE Finish(d)
    BY <1>7, TypeEnd DEF Finish, TypeOK, clients
<1>8. ASSUME NEW c \in Clients, Accept(d, c) \/ HangUp(d, c)
      PROVE TypeOK'
    <2>1. CASE Accept(d, c)
        BY <2>1 DEF Accept, TypeOK, clients, files
    <2>2. CASE HangUp(d, c)
        BY <2>2 DEF HangUp, TypeOK, clients, files
    <2> QED
        BY <1>8, <2>1, <2>2
<1>9. CASE Crash(d)
    BY <1>9, TypeEnd, ModeAssumption DEF Crash, TypeOK, clients
<1> QED
    BY <1>1, <1>2, <1>3, <1>4, <1>5, <1>6, <1>7, <1>8, <1>9 DEF DaemonStep

(* The steps of connect_locked keep the types, and a client that returns   *)
(* from it has let go of hub_lock.                                         *)
LEMMA TypeClient ==
    ASSUME TypeOK, NEW c \in Clients,
           Begin(c) \/ ClientStep(c) \/ Leave(c) \/ Killed(c)
    PROVE TypeOK'
<1> USE NamesAssumption DEF TypeOK, ClientStates, Locking, Connected, AtStep, Step, Loop
<1>1. CASE Begin(c)
    BY <1>1 DEF Begin, files, daemons
<1>2. CASE Exists(c)
    BY <1>2 DEF Exists, Missed, files, daemons
<1>3. CASE Connect(c)
    BY <1>3 DEF Connect, files
<1>4. CASE Refused(c)
    BY <1>4 DEF Refused, Missed, files, daemons
<1>5. CASE Unlink(c)
    BY <1>5 DEF Unlink, Missed, daemons
<1>6. CASE Poll(c)
    <2>1. at[c] = "poll" /\ UNCHANGED <<files, daemons, child, conn, joinable, crashes>>
        BY <1>6 DEF Poll
    <2>2. CASE (Loop(c, 2, "exists") \/ Loop(c, 7, "exists")) /\ phase[c] \notin {4, 5}
        BY <2>1, <2>2 DEF files, daemons
    <2>3. CASE (Step(c, "check") \/ Step(c, "exists")) /\ UNCHANGED phase
        BY <2>1, <2>3 DEF files, daemons
    <2>4. CASE Loop(c, 1, "failed") /\ phase[c] \notin {4, 5}
        BY <2>1, <2>4 DEF files, daemons
    <2>5. phase[c] \in {1, 5, 6}
        BY <2>1
    <2> QED
        BY <1>6, <2>2, <2>3, <2>4, <2>5 DEF Poll
<1>7. CASE TryLock(c)
    BY <1>7 DEF TryLock, Untaken, daemons
<1>8. CASE CheckHub(c)
    BY <1>8 DEF CheckHub, files, daemons
<1>9. CASE Spawn(c)
    BY <1>9, SMTT(30) DEF Spawn, Goto, Ended, InHub, files
<1>10. CASE Unlock(c)
    BY <1>10 DEF Unlock, Released, daemons
<1>11. CASE Eof(c)
    BY <1>11 DEF Eof, files, daemons
<1>12. CASE Leave(c)
    BY <1>12 DEF Leave, Gone, Ended, InHub, files
<1>13. CASE Killed(c)
    BY <1>13, ModeAssumption DEF Killed, Gone, Ended, InHub
<1> QED
    BY <1>1, <1>2, <1>3, <1>4, <1>5, <1>6, <1>7, <1>8, <1>9, <1>10, <1>11, <1>12, <1>13
    DEF ClientStep

-----------------------------------------------------------------------------
(* The files belong to the holder of the lock.                             *)

(* Init has no running daemon and no file.                                 *)
LEMMA OwnedInit == Init => HubOwned
BY NamesAssumption
DEF Init, HubOwned, LockHeld, PidOwned, SockBound, SockOwned, InHub, Named, Bound, Swept

(* The end of a process takes nothing from a daemon that holds the lock.   *)
LEMMA OwnedEnd ==
    ASSUME TypeOK, HubOwned, NEW d \in Daemons, End(d), UNCHANGED <<pidfile, sock>>
    PROVE HubOwned'
<1>1. dpc'[d] \in {"zombie", "gone"} /\ \A e \in Daemons \ {d} : dpc'[e] = dpc[e]
    BY DEF End, Goto, TypeOK
<1>2. \A e \in Daemons \ {d} : lock = e => lock' = e
    BY DEF End
<1> QED
    BY <1>1, <1>2
    DEF HubOwned, LockHeld, PidOwned, SockBound, SockOwned, InHub, Named, Bound, Swept

(* A step of a daemon that holds the lock, and goes on holding it: as no   *)
(* other daemon is past the lock, only its own place matters.              *)
LEMMA OwnedByHolder ==
    ASSUME TypeOK, HubOwned, NEW d \in Daemons, dpc[d] \in InHub, NEW where,
           Goto(d, where), UNCHANGED lock, where \in InHub,
           pidfile' \in {pidfile, Empty, None, d}, where \in Named => pidfile' = d,
           where \in Swept => sock' \in {None, d}, sock' \in {sock, None, d},
           sock' = d => where \in Bound
    PROVE HubOwned'
<1>1. dpc'[d] = where /\ \A e \in Daemons \ {d} : dpc'[e] = dpc[e] /\ dpc[e] \notin InHub
    BY DEF Goto, TypeOK, HubOwned, LockHeld
<1>2. \A e \in Daemons \ {d} : dpc[e] \notin Named \union Swept
    BY <1>1 DEF Named, Swept, InHub
<1>3. LockHeld' /\ PidOwned'
    BY <1>1, <1>2 DEF HubOwned, LockHeld, PidOwned
<1>4. SockOwned'
    BY <1>1, <1>2 DEF SockOwned
<1>5. SockBound'
    BY <1>1, NamesAssumption DEF HubOwned, SockBound
<1> QED
    BY <1>3, <1>4, <1>5 DEF HubOwned

(* The steps of run_daemon.                                                *)
LEMMA OwnedDaemon ==
    ASSUME TypeOK, HubOwned, NEW d \in Daemons, DaemonStep(d) \/ Crash(d)
    PROVE HubOwned'
<1> USE DEF InHub, Named, Bound, Swept
<1>1. CASE CheckAlive(d) \/ TakeLock(d) \/ Finish(d) \/ Crash(d)
    <2>1. CASE End(d)
        BY <1>1, <2>1, OwnedEnd DEF CheckAlive, TakeLock, Finish, Crash
    <2>2. CASE dpc[d] = "start" /\ Goto(d, "lock") /\ UNCHANGED files
        BY <2>2 DEF Goto, TypeOK, HubOwned, LockHeld, PidOwned, SockBound, SockOwned, files
    <2>3. CASE dpc[d] = "check" /\ Goto(d, "pid") /\ UNCHANGED files
        BY <2>3, OwnedByHolder DEF HubOwned, SockBound, files
    <2>4. CASE dpc[d] = "lock" /\ lock = None /\ lock' = d /\ Goto(d, "check")
               /\ UNCHANGED <<pidfile, sock>>
        <3>1. \A e \in Daemons : dpc[e] \notin InHub
            BY <2>4, NamesAssumption DEF HubOwned, LockHeld
        <3>2. dpc'[d] = "check" /\ \A e \in Daemons \ {d} : dpc'[e] = dpc[e]
            BY <2>4 DEF Goto, TypeOK
        <3> QED
            BY <2>4, <3>1, <3>2 DEF HubOwned, LockHeld, PidOwned, SockBound, SockOwned
    <2> QED
        BY <1>1, <2>1, <2>2, <2>3, <2>4
        DEF CheckAlive, TakeLock, Untaken, Finish, Crash, files
<1>2. CASE WritePid(d)
    <2>1. sock # d
        BY <1>2 DEF WritePid, HubOwned, SockBound
    <2> QED
        BY <1>2, <2>1, OwnedByHolder DEF WritePid
<1>3. CASE OpenListener(d)
    <2>1. pidfile = d
        BY <1>3 DEF OpenListener, HubOwned, PidOwned
    <2>2. dpc[d] = "listen" => sock \in {None, d}
        BY DEF HubOwned, SockOwned
    <2> QED
        BY <1>3, <2>1, <2>2, NamesAssumption, OwnedByHolder DEF OpenListener
<1>4. CASE StopServing(d) \/ CleanUp(d)
    <2>1. dpc[d] \in {"serve", "close", "rmpid"} => pidfile = d
        BY DEF HubOwned, PidOwned
    <2>2. dpc[d] \in {"serve", "close", "rmpid", "rmsock"} => sock \in {None, d}
        BY DEF HubOwned, SockOwned
    <2>3. CASE StopServing(d)
        BY <2>1, <2>2, <2>3, OwnedByHolder DEF StopServing, Listening, files
    <2>4. CASE dpc[d] = "close" /\ CleanUp(d)
        BY <2>1, <2>2, <2>4, OwnedByHolder DEF CleanUp
    <2>5. CASE dpc[d] = "rmpid" /\ CleanUp(d)
        BY <2>1, <2>2, <2>5, OwnedByHolder DEF CleanUp
    <2>6. CASE dpc[d] = "rmsock" /\ CleanUp(d)
        BY <2>1, <2>2, <2>6, NamesAssumption, OwnedByHolder DEF CleanUp
    <2> QED
        BY <1>4, <2>3, <2>4, <2>5, <2>6 DEF CleanUp
<1>5. ASSUME NEW c \in Clients, Accept(d, c) \/ HangUp(d, c)
      PROVE HubOwned'
    BY <1>5
    DEF Accept, HangUp, files, HubOwned, LockHeld, PidOwned, SockBound, SockOwned
<1> QED
    BY <1>1, <1>2, <1>3, <1>4, <1>5 DEF DaemonStep

(* The steps of a client: it never writes hub.pid, can only remove the     *)
(* socket, and moves the lock only when no daemon holds it.                *)
LEMMA OwnedClient ==
    ASSUME TypeOK, HubOwned, NEW c \in Clients,
           Begin(c) \/ ClientStep(c) \/ Leave(c) \/ Killed(c)
    PROVE HubOwned'
<1>1. pidfile' = pidfile
    BY DEF Begin, ClientStep, Leave, Killed, Exists, Connect, Refused, Unlink, Poll, TryLock,
           CheckHub, Spawn, Unlock, Eof, files
<1>2. sock' \in {sock, None}
    BY DEF Begin, ClientStep, Leave, Killed, Exists, Connect, Refused, Unlink, Poll, TryLock,
           CheckHub, Spawn, Unlock, Eof, files
<1>3. lock' = lock \/ lock \notin Daemons
    BY NamesAssumption
    DEF Begin, ClientStep, Leave, Killed, Exists, Connect, Refused, Unlink, Poll, TryLock,
        Untaken, CheckHub, Spawn, Unlock, Released, Eof, files
<1>4. \A e \in Daemons : \/ dpc'[e] = dpc[e]
                         \/ dpc[e] = "unborn" /\ dpc'[e] = "start"
                         \/ dpc[e] = "zombie" /\ dpc'[e] = "gone"
    <2>1. CASE Spawn(c)
        BY <2>1 DEF Spawn, Goto, TypeOK
    <2>2. CASE Leave(c) \/ Killed(c)
        BY <2>2 DEF Leave, Killed, Gone
    <2>3. CASE Begin(c) \/ (ClientStep(c) /\ ~Spawn(c))
        BY <2>3
        DEF Begin, ClientStep, Exists, Connect, Refused, Unlink, Poll, TryLock,
            CheckHub, Unlock, Eof, daemons
    <2> QED
        BY <2>1, <2>2, <2>3
<1>5. LockHeld' /\ PidOwned'
    BY <1>1, <1>3, <1>4 DEF HubOwned, LockHeld, PidOwned, InHub, Named
<1>6. SockBound' /\ SockOwned'
    BY <1>2, <1>4, NamesAssumption DEF HubOwned, SockBound, SockOwned, Bound, Swept
<1> QED
    BY <1>5, <1>6 DEF HubOwned

-----------------------------------------------------------------------------
(* The theorems.                                                           *)

(* A step of Next keeps the types and the ownership of the files.          *)
LEMMA Inductive == TypeOK /\ HubOwned /\ [Next]_vars => TypeOK' /\ HubOwned'
<1> SUFFICES ASSUME TypeOK, HubOwned, [Next]_vars
             PROVE TypeOK' /\ HubOwned'
    OBVIOUS
<1>1. CASE \E d \in Daemons : DaemonStep(d) \/ Crash(d)
    BY <1>1, TypeDaemon, OwnedDaemon
<1>2. CASE \E c \in Clients : Begin(c) \/ ClientStep(c) \/ Leave(c) \/ Killed(c)
    BY <1>2, TypeClient, OwnedClient
<1>3. CASE UNCHANGED vars
    <2>1. TypeOK'
        BY <1>3 DEF vars, files, daemons, clients, TypeOK
    <2>2. HubOwned'
        BY <1>3
        DEF vars, files, daemons, clients, HubOwned, LockHeld, PidOwned, SockBound, SockOwned
    <2> QED
        BY <2>1, <2>2
<1> QED
    BY <1>1, <1>2, <1>3 DEF Next

LEMMA Invariance == Spec => [](TypeOK /\ HubOwned)
BY TypeInit, OwnedInit, Inductive, PTL DEF Spec

(* connect_locked and run_daemon keep the types, and no client returns     *)
(* from connect_locked with hub_lock.                                      *)
THEOREM LifecycleTypes == Spec => []TypeOK
BY Invariance, PTL

(* However many clients spawn daemons, only one is past the lock of        *)
(* run_daemon.                                                             *)
THEOREM AtMostOneHub == Spec => []OneHub
<1>1. HubOwned => OneHub
    BY DEF HubOwned, LockHeld, OneHub
<1> QED
    BY <1>1, Invariance, PTL

(* A daemon that serves is the one hub.pid names, so hub_process_alive     *)
(* finds it.                                                               *)
THEOREM ServingHubIsNamed == Spec => []HubSeenAlive
<1>1. HubOwned => HubSeenAlive
    BY DEF HubOwned, PidOwned, HubSeenAlive, Listening, Named
<1> QED
    BY <1>1, Invariance, PTL

(* hub.sock, if a living daemon is behind it, is the socket of the holder  *)
(* of the lock; a daemon removes only its own files.                       *)
THEOREM EndpointIsOwned == Spec => []EndpointOfHolder
<1>1. TypeOK /\ HubOwned => EndpointOfHolder
    BY DEF TypeOK, HubOwned, LockHeld, PidOwned, SockBound, SockOwned, EndpointOfHolder,
           Running, Ended, InHub, Named, Bound, Swept
<1> QED
    BY <1>1, Invariance, PTL
===============================================================================
