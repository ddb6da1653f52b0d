---------------------------- MODULE HubClientProofs ----------------------------
(***************************************************************************)
(* The pipe hub's client, for any number of threads, handles, calls and    *)
(* messages.  First the reader thread and the end of the connection: while *)
(* the hub lives and the program has not hung up, nothing ends the reader, *)
(* nothing closes a queue, and one thread at most is about to start a      *)
(* reader.  Then the queue of a thread that waits when the reader ends,    *)
(* and whose answer a thread takes for its own.  Last, where the messages  *)
(* are that the hub has sent.                                              *)
(***************************************************************************)
EXTENDS HubClientProps, SequenceTheorems, TLAPS

Gone == hub.died \/ client.shutdown
Ending == {"closing", "closed", "ended"}
AtTheEnd == {"hangup", "join"}

(* A client has its members, and its inbound handles have their queues.    *)
Stored(c) ==
  /\ Len(c.store) \in Nat
  /\ c.store = [q \in 1..Len(c.store) |-> c.store[q]]
  /\ \A q \in 1..Len(c.store) : DOMAIN c.store[q] = {"items", "closed"}
  /\ DOMAIN c.queues = Inbound
  /\ \A side \in Inbound : c.queues[side] \in 0..Len(c.store)
Whole(c) ==
  /\ DOMAIN c = {"process", "mutex", "connected", "valid", "running", "shutdown", "paused",
                 "joinable", "have_header", "queues", "store", "waiting_for_ack",
                 "ack_received", "ack_error", "waiting_for_channel", "channel_received",
                 "channel_reply"}
  /\ Stored(c)
AllOpen(c) == \A q \in 1..Len(c.store) : ~c.store[q].closed

TaskRecords ==
  /\ DOMAIN task = Thread
  /\ \A t \in Thread :
       DOMAIN task[t] = {"at", "call", "handle", "queue", "tries", "overlapped", "fault",
                         "result"}
Records ==
  /\ Whole(client)
  /\ DOMAIN hub = {"attached", "offers", "sent", "calls", "died", "stray", "said"}
  /\ DOMAIN socket = {"up", "down", "hungup"}
  /\ DOMAIN reader = {"at", "held"}
  /\ TaskRecords

(* A thread looks at what has come for it.                                 *)
Settle(t) == LookForAck(t) \/ LookForHub(t) \/ StopOffering(t)

(* Where a thread may be, given the call it makes.                         *)
Placed(t) ==
  /\ task[t].at \in {"ensure", "start"} => task[t].call \in Requests \cup Receives
  /\ task[t].at \in {"announce", "drain", "own", "acknowledge"} => task[t].call = "channel_recv"
  /\ task[t].at = "wait" => task[t].queue \in 1..Len(client.store)
  /\ task[t].at \in AtTheEnd => client.shutdown
  /\ client.shutdown => task[t].at \in AtTheEnd \cup {"idle"}
  /\ task[t].call = "receive" /\ task[t].result = "null" => hub.died
  /\ task[t].fault # "null"

(* A reader that is about to be started is the only one.                   *)
Starting(t) ==
  task[t].at = "start" =>
    /\ client.connected /\ client.valid /\ client.running /\ ~client.joinable
    /\ \A u \in Thread : task[u].at = "start" => u = t
StillThere ==
  /\ reader.at \notin Ending
  /\ reader.at # "none" => client.running /\ client.valid
  /\ client.joinable => client.connected
  /\ AllOpen(client)
  /\ \A t \in Thread : Starting(t)

Lasting ==
  /\ Records
  /\ socket.hungup => hub.died
  /\ \A t \in Thread : Placed(t)
  /\ ~Gone => StillThere
  /\ OneReader

-----------------------------------------------------------------------------
(* Changes of the client that leave the connection and the reader alone.   *)

Keeps(c, d) ==
  /\ Whole(d)
  /\ Len(c.store) <= Len(d.store)
  /\ AllOpen(c) => AllOpen(d)
  /\ d.valid = c.valid /\ d.running = c.running /\ d.shutdown = c.shutdown
  /\ d.joinable = c.joinable /\ d.connected = c.connected
  /\ d.process = c.process

(* The length of a function on 1..n is n.                                  *)
LEMMA LengthOf ==
    ASSUME NEW s, NEW n \in Nat, DOMAIN s = 1..n, s = [q \in 1..n |-> s[q]]
    PROVE Len(s) = n
<1>1. s \in [1..n -> {s[q] : q \in 1..n}]
    OBVIOUS
<1>2. s \in Seq({s[q] : q \in 1..n})
    BY <1>1, SeqDef
<1> QED
    BY <1>2, LenProperties

(* A queue that is appended to the store comes after the others.           *)
LEMMA AppendQueue ==
    ASSUME NEW s, Len(s) \in Nat, s = [q \in 1..Len(s) |-> s[q]], NEW e
    PROVE /\ Len(Append(s, e)) = Len(s) + 1
          /\ Append(s, e) = [q \in 1..Len(Append(s, e)) |-> Append(s, e)[q]]
          /\ \A q \in 1..Len(s) : Append(s, e)[q] = s[q]
          /\ Append(s, e)[Len(s) + 1] = e
<1> DEFINE S == {s[q] : q \in 1..Len(s)} \cup {e}
<1>1. s \in [1..Len(s) -> S]
    OBVIOUS
<1>2. s \in Seq(S) /\ e \in S
    BY <1>1, SeqDef
<1> HIDE DEF S
<1>3. /\ Append(s, e) \in Seq(S) /\ Len(Append(s, e)) = Len(s) + 1
      /\ \A q \in 1..Len(s) : Append(s, e)[q] = s[q]
      /\ Append(s, e)[Len(s) + 1] = e
    BY <1>2, AppendProperties
<1>4. Append(s, e) \in [1..Len(Append(s, e)) -> S]
    BY <1>3, LenProperties
<1> QED
    BY <1>3, <1>4

(* A queue is found, or made: open, and empty.                             *)
LEMMA QueueFound ==
    ASSUME NEW c, Whole(c), NEW side
    PROVE /\ Keeps(c, WithQueue(c, side))
          /\ side \in Inbound => WithQueue(c, side).queues[side] \in 1..Len(WithQueue(c, side).store)
<1>1. CASE c.queues[side] # NoQueue
    BY <1>1 DEF WithQueue, Keeps, Whole, Stored, NoQueue
<1>2. CASE c.queues[side] = NoQueue
    <2> DEFINE e == [items |-> <<>>, closed |-> FALSE]
               d == WithQueue(c, side)
    <2>1. d = [c EXCEPT !.store = Append(@, e), !.queues[side] = Len(c.store) + 1]
        BY <1>2 DEF WithQueue
    <2>2. /\ DOMAIN d = DOMAIN c /\ d.store = Append(c.store, e)
          /\ d.queues = [c.queues EXCEPT ![side] = Len(c.store) + 1]
          /\ d.valid = c.valid /\ d.running = c.running /\ d.shutdown = c.shutdown
          /\ d.joinable = c.joinable /\ d.connected = c.connected /\ d.process = c.process
        BY <2>1 DEF Whole
    <2> HIDE DEF d
    <2>3. /\ Len(d.store) = Len(c.store) + 1
          /\ d.store = [q \in 1..Len(d.store) |-> d.store[q]]
          /\ \A q \in 1..Len(c.store) : d.store[q] = c.store[q]
          /\ d.store[Len(c.store) + 1] = e
        BY <2>2, AppendQueue DEF Whole, Stored
    <2> QED
        BY <2>2, <2>3 DEF d, Keeps, Whole, Stored, AllOpen
<1> QED
    BY <1>1, <1>2

(* What is put into a queue, or taken from it, neither opens nor closes    *)
(* any.                                                                    *)
LEMMA QueueFilled ==
    ASSUME NEW c, Whole(c), NEW q, NEW items
    PROVE Keeps(c, [c EXCEPT !.store[q].items = items])
<1> DEFINE d == [c EXCEPT !.store[q].items = items]
<1>1. /\ DOMAIN d = DOMAIN c /\ d.queues = c.queues
      /\ d.store = [c.store EXCEPT ![q] = [@ EXCEPT !.items = items]]
      /\ d.valid = c.valid /\ d.running = c.running /\ d.shutdown = c.shutdown
      /\ d.joinable = c.joinable /\ d.connected = c.connected /\ d.process = c.process
    BY DEF Whole
<1> HIDE DEF d
<1>2. DOMAIN d.store = 1..Len(c.store) /\ d.store = [p \in 1..Len(c.store) |-> d.store[p]]
    BY <1>1 DEF Whole, Stored
<1>4. ASSUME NEW p \in 1..Len(c.store)
      PROVE DOMAIN d.store[p] = {"items", "closed"} /\ d.store[p].closed = c.store[p].closed
    <2>1. CASE p = q
        <3>1. d.store[p] = [c.store[p] EXCEPT !.items = items]
            BY <1>1, <2>1 DEF Whole, Stored
        <3> QED
            BY <3>1 DEF Whole, Stored
    <2>2. CASE p # q
        BY <1>1, <2>2 DEF Whole, Stored
    <2> QED
        BY <2>1, <2>2
<1>3. Len(d.store) = Len(c.store)
    BY <1>2, LengthOf DEF Whole, Stored
<1> QED
    BY <1>1, <1>2, <1>3, <1>4 DEF d, Keeps, Whole, Stored, AllOpen

(* Whoever handles a message leaves the connection and the reader alone.   *)
LEMMA MessageHandled ==
    ASSUME NEW c, Whole(c), NEW f
    PROVE Keeps(c, handle_message(c, f))
<1>1. CASE f.kind = "Deliver"
    <2> DEFINE w == WithQueue(c, f.side)
               d == Delivered(w, f)
    <2>1. Keeps(c, w)
        BY QueueFound
    <2> DEFINE q == w.queues[f.side]
               items == Append(w.store[q].items, f.of)
    <2>2. d = [w EXCEPT !.store[q].items = items]
        BY DEF Delivered
    <2> HIDE DEF w, d, q, items
    <2>3. Whole(w)
        BY <2>1 DEF Keeps
    <2>4. Keeps(w, [w EXCEPT !.store[q].items = items])
        BY <2>3, QueueFilled
    <2>5. Keeps(w, d)
        BY <2>2, <2>4
    <2>6. handle_message(c, f) = d
        BY <1>1 DEF handle_message, d, w
    <2> QED
        BY <2>1, <2>6, <2>5 DEF Keeps, Whole, Stored
<1>2. CASE f.kind # "Deliver"
    BY <1>2 DEF handle_message, Keeps, Whole, Stored, AllOpen
<1> QED
    BY <1>1, <1>2

(* A handle that is given up loses its queue, not the queue its messages.  *)
LEMMA QueueErased ==
    ASSUME NEW c, Whole(c), NEW side
    PROVE Keeps(c, Erased(c, side))
BY DEF Erased, Keeps, Whole, Stored, AllOpen, NoQueue

(* Closing all queues closes nothing else.                                 *)
LEMMA QueuesClosed ==
    ASSUME NEW c, Whole(c)
    PROVE LET d == close_all_queues(c)
          IN  /\ Whole(d) /\ Len(d.store) = Len(c.store) /\ d.connected = c.connected
              /\ d.shutdown = c.shutdown /\ d.process = c.process
<1> DEFINE d == close_all_queues(c)
<1>1. /\ DOMAIN d = DOMAIN c /\ d.queues = c.queues
      /\ d.store = [q \in DOMAIN c.store |->
           IF \E side \in Inbound : c.queues[side] = q THEN [c.store[q] EXCEPT !.closed = TRUE]
                                                       ELSE c.store[q]]
      /\ d.connected = c.connected /\ d.shutdown = c.shutdown /\ d.process = c.process
    BY DEF Whole, close_all_queues
<1> HIDE DEF d
<1>2. /\ DOMAIN d.store = 1..Len(c.store) /\ d.store = [p \in 1..Len(c.store) |-> d.store[p]]
      /\ \A p \in 1..Len(c.store) : DOMAIN d.store[p] = {"items", "closed"}
    BY <1>1 DEF Whole, Stored
<1>3. Len(d.store) = Len(c.store)
    BY <1>2, LengthOf DEF Whole, Stored
<1> QED
    BY <1>1, <1>2, <1>3 DEF d, Whole, Stored

-----------------------------------------------------------------------------
(* Steps that neither start nor end a reader or a connection.              *)

ClientKept ==
  /\ Whole(client')
  /\ Len(client.store) <= Len(client'.store)
  /\ AllOpen(client) => AllOpen(client')
  /\ client'.valid = client.valid /\ client'.running = client.running
  /\ client'.shutdown = client.shutdown /\ client'.joinable = client.joinable
  /\ client'.connected = client.connected \/ hub.died
  /\ client'.process \in {client.process, "killed", "garbled"}
RestKept ==
  /\ DOMAIN hub' = DOMAIN hub /\ hub'.died = hub.died
  /\ DOMAIN socket' = DOMAIN socket /\ socket'.hungup = socket.hungup
  /\ DOMAIN reader' = DOMAIN reader
  /\ reader'.at = "none" <=> reader.at = "none"
  /\ reader'.at \in Ending => Gone
Stays(u) ==
  /\ task'[u].at = task[u].at /\ task'[u].call = task[u].call
  /\ task'[u].queue = task[u].queue /\ task'[u].result = task[u].result
  /\ task'[u].fault = task[u].fault
TasksMove ==
  /\ TaskRecords'
  /\ \A u \in Thread : Stays(u) \/ (task'[u].at # "start" /\ Placed(u)')

(* Such a step keeps the invariant.                                        *)
LEMMA KeptLasting ==
    ASSUME Lasting, ClientKept, RestKept, TasksMove
    PROVE Lasting'
<1>1. Records'
    BY DEF Lasting, Records, ClientKept, RestKept, TasksMove
<1>2. socket'.hungup => hub'.died
    BY DEF Lasting, RestKept
<1>3. ASSUME NEW u \in Thread PROVE Placed(u)'
    <2>1. CASE Stays(u)
        <3>1. Placed(u)
            BY DEF Lasting
        <3>2. Len(client.store) \in Nat /\ Len(client'.store) \in Nat
            BY DEF Lasting, Records, Whole, Stored, ClientKept
        <3> QED
            BY <2>1, <3>1, <3>2 DEF Placed, Stays, ClientKept, RestKept
    <2> QED
        BY <2>1 DEF TasksMove
<1>4. (~Gone)' => StillThere'
    <2> SUFFICES ASSUME ~Gone' PROVE StillThere'
        OBVIOUS
    <2>1. ~Gone /\ StillThere
        BY DEF Gone, Lasting, ClientKept, RestKept
    <2>2. client'.connected = client.connected
        BY <2>1 DEF ClientKept, Gone
    <2>3. ASSUME NEW t \in Thread PROVE Starting(t)'
        <3>1. \A u \in Thread : task'[u].at = "start" => task[u].at = "start"
            BY DEF TasksMove, Stays
        <3> QED
            BY <2>1, <2>2, <3>1 DEF StillThere, Starting, ClientKept
    <2> QED
        BY <2>1, <2>2, <2>3 DEF StillThere, ClientKept, RestKept
<1>5. OneReader'
    BY DEF Lasting, OneReader, ClientKept, RestKept
<1> QED
    BY <1>1, <1>2, <1>3, <1>4, <1>5 DEF Lasting

(* So is a client whose queues and reader are those it had.                *)
SameStore(c, d) ==
  /\ d.store = c.store /\ d.queues = c.queues
  /\ d.valid = c.valid /\ d.running = c.running /\ d.shutdown = c.shutdown
  /\ d.joinable = c.joinable
LEMMA StoreKept ==
    ASSUME Whole(client), DOMAIN client' = DOMAIN client, SameStore(client, client'),
           client'.process \in {client.process, "killed", "garbled"},
           client'.connected = client.connected \/ hub.died
    PROVE ClientKept
BY DEF SameStore, ClientKept, Whole, Stored, AllOpen

(* A client that keeps its members is kept.                                *)
LEMMA KeepsKept ==
    ASSUME Lasting, Keeps(client, client') PROVE ClientKept
BY DEF Keeps, ClientKept

(* Nothing happens to a client, and to the rest, that is not touched.      *)
LEMMA SameKept ==
    ASSUME Lasting
    PROVE /\ UNCHANGED client => ClientKept
          /\ UNCHANGED <<reader, socket, hub>> => RestKept
          /\ UNCHANGED task => TasksMove
<1>1. Whole(client) /\ TaskRecords /\ (reader.at \in Ending => Gone)
    BY DEF Lasting, Records, StillThere
<1>2. UNCHANGED client => ClientKept
    BY <1>1 DEF ClientKept, Whole, Stored, AllOpen, Inbound
<1>3. UNCHANGED <<reader, socket, hub>> => RestKept
    BY <1>1 DEF RestKept
<1>4. UNCHANGED task => TasksMove
    BY <1>1 DEF TasksMove, TaskRecords, Stays
<1> QED
    BY <1>2, <1>3, <1>4

(* A thread that goes on with its call goes where the call leads, whatever *)
(* it throws on the way.                                                   *)
LEMMA GoesOnMoves ==
    ASSUME Lasting, ClientKept, RestKept, NEW t \in Thread, NEW place, NEW thrown,
           GoesOn(t, place, thrown), thrown # "null",
           task[t].at \notin AtTheEnd \cup {"idle"},
           place \notin {"ensure", "start", "wait"} \cup AtTheEnd,
           place \in {"announce", "drain", "own", "acknowledge"} => Calls(t) = "channel_recv"
    PROVE TasksMove
<1>1. TaskRecords /\ Placed(t)
    BY DEF Lasting, Records
<1>2. /\ TaskRecords'
      /\ task'[t].at = place /\ task'[t].call = task[t].call /\ task'[t].result = task[t].result
      /\ task'[t].fault \in {task[t].fault, thrown}
      /\ \A u \in Thread : u # t => task'[u] = task[u]
    BY <1>1 DEF GoesOn, TaskRecords
<1>3. Placed(t)'
    BY <1>1, <1>2 DEF Placed, Calls, ClientKept, RestKept, AtTheEnd
<1> QED
    BY <1>2, <1>3 DEF TasksMove, Stays

LEMMA GoesMoves ==
    ASSUME Lasting, ClientKept, RestKept, NEW t \in Thread, NEW place, Goes(t, place),
           task[t].at \notin AtTheEnd \cup {"idle"},
           place \notin {"ensure", "start", "wait"} \cup AtTheEnd,
           place \in {"announce", "drain", "own", "acknowledge"} => Calls(t) = "channel_recv"
    PROVE TasksMove
<1>1. GoesOn(t, place, None)
    BY DEF Goes, GoesOn, Lasting, Records, TaskRecords
<1> QED
    BY <1>1, GoesOnMoves, NoneAssumption

(* A call that returns leaves its thread idle.                             *)
LEMMA ReturnsMoves ==
    ASSUME Lasting, ClientKept, RestKept, NEW t \in Thread, NEW result, Returns(t, result),
           Calls(t) = "receive" /\ result = "null" => hub.died
    PROVE TasksMove
<1>1. TaskRecords
    BY DEF Lasting, Records
<1>2. /\ TaskRecords'
      /\ task'[t].at = "idle" /\ task'[t].call = task[t].call /\ task'[t].result = result
      /\ task'[t].fault = None
      /\ \A u \in Thread : u # t => task'[u] = task[u]
    BY <1>1 DEF Returns, TaskRecords, NoTask, Calls
<1>3. Placed(t)'
    BY <1>2, NoneAssumption DEF Placed, Calls, RestKept, AtTheEnd
<1> QED
    BY <1>2, <1>3 DEF TasksMove, Stays

(* So does one that completes with the fault on record.                    *)
LEMMA CompletesMoves ==
    ASSUME Lasting, ClientKept, RestKept, NEW t \in Thread, NEW result, Completes(t, result),
           result # "null" \/ Calls(t) # "receive"
    PROVE TasksMove
<1>1. Placed(t)
    BY DEF Lasting
<1> DEFINE last == IF task[t].fault = None THEN result ELSE task[t].fault
<1>2. Returns(t, last) /\ (Calls(t) = "receive" => last # "null")
    BY <1>1 DEF Completes, Placed
<1> HIDE DEF last
<1> QED
    BY <1>2, ReturnsMoves

(* A call that begins has no result yet.                                   *)
LEMMA BeginsMoves ==
    ASSUME Lasting, NEW t \in Thread, NEW h, NEW call, NEW place, Begins(t, h, call, place),
           \/ place = "ensure" /\ call \in Requests \cup Receives
           \/ place = "detach"
    PROVE ClientKept /\ RestKept /\ TasksMove
<1>1. TaskRecords /\ DOMAIN hub = {"attached", "offers", "sent", "calls", "died", "stray", "said"}
    BY DEF Lasting, Records
<1>2. ClientKept
    BY SameKept DEF Begins
<1>3. RestKept
    BY <1>1 DEF Begins, RestKept, Lasting, StillThere
<1>4. /\ TaskRecords'
      /\ task'[t].at = place /\ task'[t].call = call /\ task'[t].result = None
      /\ task'[t].fault = None
      /\ \A u \in Thread : u # t => task'[u] = task[u]
    BY <1>1 DEF Begins, TaskRecords, NoTask
<1>5. Placed(t)'
    BY <1>4, NoneAssumption DEF Placed, Begins, AtTheEnd
<1> QED
    BY <1>2, <1>3, <1>4, <1>5 DEF TasksMove, Stays

-----------------------------------------------------------------------------
(* The reader and the hub.                                                 *)

(* A reader that reads, or waits, goes on.                                 *)
LEMMA ReaderKeeps ==
    ASSUME Lasting, ReaderPolls \/ ReaderYields \/ ReaderReads \/ ReaderHandles
    PROVE Lasting'
<1> USE DEF ReaderAt, HoldsMessages, Ending
<1>1. Records
    BY DEF Lasting
<1>2. TasksMove
    BY SameKept DEF ReaderPolls, ReaderYields, ReaderReads, ReaderHandles
<1>3. RestKept
    BY <1>1 DEF ReaderPolls, ReaderYields, ReaderReads, ReaderHandles, Records, RestKept
<1>4. CASE ReaderPolls \/ ReaderYields
    BY <1>2, <1>3, <1>4, SameKept, KeptLasting DEF ReaderPolls, ReaderYields
<1>5. CASE ReaderReads
    <2>1. \E half \in BOOLEAN : \/ client' = [client EXCEPT !.have_header = half]
                             \/ client' = [client EXCEPT !.process = "garbled"]
        BY <1>5 DEF ReaderReads
    <2>2. /\ DOMAIN client' = DOMAIN client /\ SameStore(client, client')
          /\ client'.process \in {client.process, "garbled"}
          /\ client'.connected = client.connected
        BY <1>1, <2>1 DEF Records, Whole, SameStore
    <2>3. ClientKept
        BY <1>1, <2>2, StoreKept DEF Records
    <2> QED
        BY <1>2, <1>3, <2>3, KeptLasting
<1>6. CASE ReaderHandles
    <2>1. Keeps(client, client')
        BY <1>1, <1>6, MessageHandled DEF ReaderHandles, Handled, Records
    <2> QED
        BY <1>2, <1>3, <2>1, KeepsKept, KeptLasting
<1> QED
    BY <1>4, <1>5, <1>6

(* A reader ends where the hub has hung up, or the program does.           *)
LEMMA ReaderGoes ==
    ASSUME Lasting, ReaderStops \/ ReaderCloses \/ ReaderEnds
    PROVE Lasting'
<1> USE DEF ReaderAt, Ending
<1>1. Records /\ (~Gone => StillThere) /\ UNCHANGED <<task, socket, hub>>
    BY DEF Lasting, ReaderStops, ReaderCloses, ReaderEnds
<1>2. Gone
    BY <1>1 DEF ReaderStops, ReaderCloses, ReaderEnds, StillThere, Stopping, AtEnd, Lasting, Gone
<1>3. /\ Whole(client') /\ Len(client'.store) = Len(client.store)
      /\ client'.shutdown = client.shutdown /\ client'.process = client.process
    <2>1. CASE ReaderStops
        BY <1>1, <2>1 DEF ReaderStops, Records, Whole, Stored
    <2>2. CASE ReaderCloses
        BY <1>1, <2>2 DEF ReaderCloses, Records, Whole, Stored
    <2>3. CASE ReaderEnds
        BY <1>1, <2>3, QueuesClosed DEF ReaderEnds, ClosedBehind, Records
    <2> QED
        BY <2>1, <2>2, <2>3
<1>4. Records'
    BY <1>1, <1>3 DEF ReaderStops, ReaderCloses, ReaderEnds, Records, TaskRecords
<1>5. Gone'
    BY <1>1, <1>2, <1>3 DEF Gone
<1>6. \A t \in Thread : Placed(t)'
    BY <1>1, <1>3 DEF Lasting, Placed
<1> QED
    BY <1>1, <1>3, <1>4, <1>5, <1>6 DEF Lasting, OneReader

(* What the hub does reaches the client through the socket only.           *)
LEMMA HubKeeps == ASSUME Lasting, Hub PROVE Lasting'
<1>1. Records /\ UNCHANGED <<client, reader, task>>
    BY DEF Lasting, Hub, HubAnswers, HubDecidesOffer, HubDelivers, HubDies, Ours
<1>2. CASE HubDies
    <2>1. /\ Records' /\ hub'.died /\ UNCHANGED <<client, reader, task>>
        BY <1>1, <1>2 DEF HubDies, Records, Whole, Stored, TaskRecords
    <2> QED
        BY <2>1 DEF Lasting, Placed, Gone, OneReader
<1>3. CASE HubAnswers \/ HubDecidesOffer \/ HubDelivers
    <2>1. /\ DOMAIN hub' = DOMAIN hub /\ hub'.died = hub.died
          /\ DOMAIN socket' = DOMAIN socket /\ socket'.hungup = socket.hungup
        <3>1. CASE HubAnswers
            <4>1. \/ socket' = [socket EXCEPT !.up = Tail(@)]
                  \/ \E kind, side, of : Served(kind, side, of)
                BY <3>1 DEF HubAnswers
            <4>2. DOMAIN hub' = DOMAIN hub /\ hub'.died = hub.died
                BY <1>1, <3>1 DEF HubAnswers, Says, Records
            <4> QED
                BY <1>1, <4>1, <4>2 DEF Served, Records
        <3>2. CASE HubDecidesOffer \/ HubDelivers
            BY <1>1, <3>2 DEF HubDecidesOffer, HubDelivers, Sends, Says, Records
        <3> QED
            BY <1>3, <3>1, <3>2
    <2>2. RestKept
        BY <1>1, <2>1 DEF RestKept, Lasting, StillThere
    <2> QED
        BY <1>1, <2>2, SameKept, KeptLasting
<1> QED
    BY <1>2, <1>3 DEF Hub

-----------------------------------------------------------------------------
(* The threads of the program.                                             *)

(* Where a call goes once there is a connection.                           *)
LEMMA EntryOf ==
    ASSUME NEW call \in Requests \cup Receives
    PROVE /\ Entry(call) \in {"reserve", "request", "find", "announce"}
          /\ Entry(call) = "announce" => call = "channel_recv"
BY DEF Entry, Requests, Receives

(* A call of the program begins.                                           *)
LEMMA CallKeeps == ASSUME Lasting, NEW t \in Thread, Call(t) PROVE Lasting'
<1>1. PICK h \in Handle : Open(t, h) \/ Insert(t, h) \/ Extract(t, h) \/ Close(t, h)
    BY DEF Call
<1>2. \E call \in Requests \cup Receives : Begins(t, h, call, "ensure")
        \/ Begins(t, h, "detach", "detach")
    BY <1>1 DEF Open, Insert, Extract, Close, Requests, Receives
<1> QED
    BY <1>2, BeginsMoves, KeptLasting

(* A call that returns without a word to the client.                       *)
LEMMA ReturnKeeps ==
    ASSUME Lasting, NEW t \in Thread, Done(t) \/ ReceiveNothing(t)
    PROVE Lasting'
<1>1. UNCHANGED <<client, reader, socket, hub>>
    BY DEF Done, ReceiveNothing
<1>2. ClientKept /\ RestKept
    BY <1>1, SameKept
<1>3. CASE Done(t)
    BY <1>2, <1>3, CompletesMoves, KeptLasting DEF Done
<1>4. CASE ReceiveNothing(t)
    <2>1. task[t].at = "wait" /\ Placed(t) /\ (~Gone => StillThere)
        BY <1>4 DEF ReceiveNothing, At, Lasting
    <2>2. ~client.shutdown /\ task[t].queue \in 1..Len(client.store)
        BY <2>1 DEF Placed, AtTheEnd
    <2>3. hub.died
        BY <1>4, <2>1, <2>2 DEF ReceiveNothing, StillThere, AllOpen, Gone
    <2> QED
        BY <1>2, <1>4, <2>3, ReturnsMoves, KeptLasting DEF ReceiveNothing
<1> QED
    BY <1>3, <1>4

(* A thread looks at what became of its request.                           *)
LEMMA LookKeeps ==
    ASSUME Lasting, NEW t \in Thread, Abandon(t) \/ OfferStands(t) \/ LookForReply(t)
    PROVE Lasting'
<1>1. UNCHANGED <<client, reader, socket, hub>>
    BY DEF Abandon, OfferStands, LookForReply
<1>2. ClientKept /\ RestKept
    BY <1>1, SameKept
<1>3. CASE Abandon(t)
    BY <1>2, <1>3, GoesMoves, KeptLasting DEF Abandon, At, AtTheEnd
<1>4. CASE OfferStands(t)
    BY <1>2, <1>4, GoesMoves, KeptLasting DEF OfferStands, At, AtTheEnd
<1>5. CASE LookForReply(t)
    <2>1. PICK thrown \in {None, "noreply"} : GoesOn(t, "opcode", thrown)
        BY <1>5 DEF LookForReply
    <2>2. TasksMove
        BY <1>2, <1>5, <2>1, GoesOnMoves, NoneAssumption DEF LookForReply, At, AtTheEnd
    <2> QED
        BY <1>2, <2>2, KeptLasting
<1> QED
    BY <1>3, <1>4, <1>5

(* What a thread does next, the client as it was.                          *)
LEMMA NextKeeps ==
    ASSUME Lasting, NEW t \in Thread,
           AlreadyConnected(t) \/ Accepted(t) \/ Collided(t) \/ DrainNothing(t)
    PROVE Lasting'
<1>1. UNCHANGED <<client, reader, socket, hub>> /\ Placed(t)
    BY DEF AlreadyConnected, Accepted, Collided, DrainNothing, Lasting
<1>2. ClientKept /\ RestKept
    BY <1>1, SameKept
<1>3. CASE AlreadyConnected(t)
    <2>1. task[t].at = "ensure" /\ Goes(t, Entry(Calls(t)))
        BY <1>3 DEF AlreadyConnected, At
    <2>2. Calls(t) \in Requests \cup Receives
        BY <1>1, <2>1 DEF Placed, Calls
    <2>3. TasksMove
        BY <1>2, <2>1, <2>2, EntryOf, GoesMoves DEF AtTheEnd
    <2> QED
        BY <1>2, <2>3, KeptLasting
<1>4. CASE Accepted(t)
    <2>1. /\ TaskRecords'
          /\ task'[t].at = "request" /\ task'[t].call = "channel_send"
          /\ task'[t].fault \in {task[t].fault, "unexpected"}
          /\ \A u \in Thread : u # t => task'[u] = task[u]
          /\ ~client.shutdown
        BY <1>1, <1>4 DEF Accepted, At, TaskRecords, Lasting, Records, Placed, AtTheEnd
    <2>2. Placed(t)'
        BY <1>1, <2>1 DEF Placed, AtTheEnd
    <2> QED
        BY <1>2, <2>1, <2>2, KeptLasting DEF TasksMove, Stays
<1>5. CASE Collided(t)
    <2>1. CASE Returns(t, "collided")
        BY <1>2, <2>1, ReturnsMoves, KeptLasting
    <2>2. CASE task' = [task EXCEPT ![t].at = "request", ![t].tries = @ + 1]
        <3>1. /\ TaskRecords'
              /\ task'[t].at = "request" /\ task'[t].call = task[t].call
              /\ task'[t].result = task[t].result /\ task'[t].fault = task[t].fault
              /\ \A u \in Thread : u # t => task'[u] = task[u]
              /\ ~client.shutdown
            BY <1>1, <1>5, <2>2 DEF Collided, At, TaskRecords, Lasting, Records, Placed, AtTheEnd
        <3>2. Placed(t)'
            BY <1>1, <3>1 DEF Placed, AtTheEnd
        <3> QED
            BY <1>2, <3>1, <3>2, KeptLasting DEF TasksMove, Stays
    <2> QED
        BY <1>5, <2>1, <2>2 DEF Collided
<1>6. CASE DrainNothing(t)
    <2>1. task[t].at = "drain" /\ Calls(t) = "channel_recv"
        BY <1>1, <1>6 DEF DrainNothing, At, Placed, Calls
    <2>2. TasksMove
        <3>1. CASE Completes(t, "null")
            BY <1>2, <2>1, <3>1, CompletesMoves
        <3>2. CASE Goes(t, "own")
            BY <1>2, <2>1, <3>2, GoesMoves DEF AtTheEnd
        <3> QED
            BY <1>6, <3>1, <3>2 DEF DrainNothing
    <2> QED
        BY <1>2, <2>2, KeptLasting
<1> QED
    BY <1>3, <1>4, <1>5, <1>6

(* A write may end the process, and nothing else.                          *)
LEMMA WriteKept ==
    ASSUME Lasting, NEW c, NEW f, Writes(c, f), UNCHANGED reader,
           DOMAIN hub' = DOMAIN hub, hub'.died = hub.died,
           DOMAIN c = DOMAIN client, SameStore(client, c), c.process = client.process,
           c.connected = client.connected
    PROVE ClientKept /\ RestKept
<1>1. Records
    BY DEF Lasting
<1>2. /\ DOMAIN client' = DOMAIN client /\ SameStore(client, client')
      /\ client'.process \in {client.process, "killed"}
      /\ client'.connected = client.connected
    BY <1>1 DEF Writes, SameStore, Records, Whole
<1>3. DOMAIN socket' = DOMAIN socket /\ socket'.hungup = socket.hungup
    BY <1>1 DEF Writes, Records
<1>4. ClientKept
    BY <1>1, <1>2, StoreKept DEF Records
<1> QED
    BY <1>3, <1>4 DEF RestKept, Lasting, StillThere

(* A thread sends a request, or a word that wants no answer.               *)
LEMMA WriteKeeps ==
    ASSUME Lasting, NEW t \in Thread,
           Request(t) \/ Announce(t) \/ Acknowledge(t) \/ Detach(t)
    PROVE Lasting'
<1>1. Records /\ Placed(t)
    BY DEF Lasting
<1>2. CASE Request(t)
    <2> DEFINE c == [(IF Calls(t) = "channel_offer" THEN ForChannel(client) ELSE ForAck(client))
                       EXCEPT !.paused = TRUE, !.mutex = t]
    <2>1. /\ DOMAIN c = DOMAIN client /\ SameStore(client, c) /\ c.process = client.process
          /\ c.connected = client.connected
        BY <1>1 DEF ForChannel, ForAck, SameStore, Records, Whole
    <2>2. /\ Writes(c, Frame(Calls(t), SideOf(t), t)) /\ UNCHANGED reader
          /\ hub' = Says(t, None)
        BY <1>2 DEF Request
    <2> HIDE DEF c
    <2>3. ClientKept /\ RestKept
        <3>1. DOMAIN hub' = DOMAIN hub /\ hub'.died = hub.died
            BY <1>1, <2>2 DEF Says, Records
        <3> QED
            BY <2>1, <2>2, <3>1, WriteKept
    <2>4. ~client.shutdown
        BY <1>1, <1>2 DEF Request, At, Placed, AtTheEnd
    <2>5. /\ TaskRecords'
          /\ task'[t].at = "pump" /\ task'[t].call = task[t].call
          /\ task'[t].result = task[t].result /\ task'[t].fault \in {task[t].fault, "lost"}
          /\ \A u \in Thread : u # t => Stays(u)
        <3>1. DOMAIN task' = Thread
            BY <1>2 DEF Request
        <3>2. task'[t] = [task[t] EXCEPT !.at = "pump",
                            !.fault = IF NotConnected = None THEN @ ELSE NotConnected,
                            !.overlapped = @ \/ Unsettled # {}]
            <4>1. t \notin Unsettled
                BY <1>2 DEF Request, At, Unsettled
            <4> QED
                BY <1>2, <4>1 DEF Request
        <3>3. ASSUME NEW u \in Thread, u # t
              PROVE task'[u] = [task[u] EXCEPT !.overlapped = TRUE] \/ task'[u] = task[u]
            <4>1. CASE u \in Unsettled
                BY <1>2, <3>3, <4>1 DEF Request
            <4>2. CASE u \notin Unsettled
                BY <1>2, <3>3, <4>2 DEF Request
            <4> QED
                BY <4>1, <4>2
        <3>4. DOMAIN task'[t] = DOMAIN task[t] /\ task'[t].at = "pump"
              /\ task'[t].call = task[t].call /\ task'[t].result = task[t].result
              /\ task'[t].fault \in {task[t].fault, "lost"}
            BY <1>1, <3>2 DEF Records, TaskRecords, NotConnected
        <3>5. ASSUME NEW u \in Thread, u # t PROVE Stays(u) /\ DOMAIN task'[u] = DOMAIN task[u]
            BY <1>1, <3>3, <3>5 DEF Stays, Records, TaskRecords
        <3> QED
            BY <1>1, <3>1, <3>4, <3>5 DEF Records, TaskRecords
    <2>6. Placed(t)'
        BY <1>1, <2>3, <2>4, <2>5 DEF Placed, AtTheEnd, ClientKept, RestKept
    <2> QED
        BY <2>3, <2>5, <2>6, KeptLasting DEF TasksMove
<1>3. CASE Announce(t) \/ (client.connected /\ (Acknowledge(t) \/ Detach(t)))
    <2>1. ClientKept /\ RestKept
        <3>1. \E f : Writes(client, f) /\ UNCHANGED <<reader, hub>>
            BY <1>3 DEF Announce, Acknowledge, Detach
        <3> QED
            BY <3>1, WriteKept DEF SameStore
    <2>2. CASE Announce(t)
        <3>1. PICK thrown \in {None, "lost"} : GoesOn(t, "drain", thrown)
            BY <2>2 DEF Announce, NotConnected
        <3>2. task[t].at = "announce" /\ Calls(t) = "channel_recv"
            BY <1>1, <2>2 DEF Announce, At, Placed, Calls
        <3>3. TasksMove
            BY <2>1, <3>1, <3>2, GoesOnMoves, NoneAssumption DEF AtTheEnd
        <3> QED
            BY <2>1, <3>3, KeptLasting
    <2>3. CASE Acknowledge(t)
        BY <2>1, <2>3, CompletesMoves, KeptLasting DEF Acknowledge
    <2>4. CASE client.connected /\ Detach(t)
        <3>1. TasksMove
            BY <2>1, <2>4, GoesMoves DEF Detach, At, AtTheEnd
        <3> QED
            BY <2>1, <3>1, KeptLasting
    <2> QED
        BY <1>3, <2>2, <2>3, <2>4
<1>4. CASE ~client.connected /\ (Acknowledge(t) \/ Detach(t))
    <2>1. ClientKept /\ RestKept
        BY <1>4, SameKept DEF Acknowledge, Detach
    <2>2. Completes(t, "done")
        BY <1>4 DEF Acknowledge, Detach
    <2> QED
        BY <2>1, <2>2, CompletesMoves, KeptLasting
<1> QED
    BY <1>2, <1>3, <1>4

(* A thread makes, fills, empties or drops a queue.                        *)
LEMMA QueueKeeps ==
    ASSUME Lasting, NEW t \in Thread,
           Reserve(t) \/ Find(t) \/ Refused(t) \/ Forget(t) \/ Receive(t) \/ DrainQueue(t)
    PROVE Lasting'
<1>1. Records /\ Placed(t) /\ UNCHANGED <<reader, socket, hub>>
    BY DEF Lasting, Reserve, Find, Refused, Forget, Receive, DrainQueue
<1>2. RestKept
    BY <1>1, SameKept
<1>3. CASE Reserve(t)
    <2>1. ClientKept
        BY <1>1, <1>3, QueueFound, SameKept, KeepsKept DEF Reserve, Records
    <2>2. TasksMove
        BY <1>2, <1>3, <2>1, GoesMoves DEF Reserve, At, AtTheEnd
    <2> QED
        BY <1>2, <2>1, <2>2, KeptLasting
<1>4. CASE Find(t)
    <2>1. Keeps(client, client') /\ client'.queues["in"] \in 1..Len(client'.store)
        BY <1>1, <1>4, QueueFound DEF Find, Records, Inbound
    <2>2. ClientKept
        BY <2>1, KeepsKept
    <2>3. /\ TaskRecords'
          /\ task'[t].at = "wait" /\ task'[t].queue = client'.queues["in"]
          /\ task'[t].call = task[t].call /\ task'[t].result = task[t].result
          /\ task'[t].fault = task[t].fault
          /\ \A u \in Thread : u # t => task'[u] = task[u]
          /\ ~client.shutdown
        BY <1>1, <1>4 DEF Find, At, Placed, AtTheEnd, Records, TaskRecords
    <2>4. Placed(t)'
        BY <1>1, <2>1, <2>2, <2>3 DEF Placed, AtTheEnd, ClientKept
    <2> QED
        BY <1>2, <2>2, <2>3, <2>4, KeptLasting DEF TasksMove, Stays
<1>5. CASE Refused(t) \/ Forget(t)
    <2>1. ClientKept
        BY <1>1, <1>5, QueueErased, SameKept, KeepsKept DEF Refused, Forget, Records
    <2>2. CASE Refused(t)
        <3>1. \/ \E place \in {"detach", "replied"} : GoesOn(t, place, "refused")
              \/ Returns(t, "refused")
            BY <2>2 DEF Refused
        <3>2. TasksMove
            BY <1>2, <2>1, <2>2, <3>1, GoesOnMoves, ReturnsMoves DEF Refused, At, AtTheEnd
        <3> QED
            BY <1>2, <2>1, <3>2, KeptLasting
    <2>3. CASE Forget(t)
        BY <1>2, <2>1, <2>3, CompletesMoves, KeptLasting DEF Forget
    <2> QED
        BY <1>5, <2>2, <2>3
<1>6. CASE Receive(t) \/ DrainQueue(t)
    <2>1. PICK q : Takes(t, q)
        BY <1>6 DEF Receive, DrainQueue
    <2>2. PICK items : client' = [client EXCEPT !.store[q].items = items]
        BY <2>1 DEF Takes
    <2>3. Whole(client)
        BY <1>1 DEF Records
    <2>4. ClientKept
        <3>1. Keeps(client, [client EXCEPT !.store[q].items = items])
            BY <2>3, QueueFilled
        <3> QED
            BY <2>2, <3>1, KeepsKept
    <2>5. CASE Receive(t)
        BY <1>2, <2>4, <2>5, ReturnsMoves, KeptLasting DEF Receive
    <2>6. CASE DrainQueue(t)
        <3>1. TasksMove
            BY <1>1, <1>2, <2>4, <2>6, GoesMoves DEF DrainQueue, At, Placed, Calls, AtTheEnd
        <3> QED
            BY <1>2, <2>4, <3>1, KeptLasting
    <2> QED
        BY <1>6, <2>5, <2>6
<1> QED
    BY <1>3, <1>4, <1>5, <1>6

(* A thread waits for its answer, and reads what comes meanwhile.          *)
LEMMA PumpKeeps ==
    ASSUME Lasting, NEW t \in Thread, PumpEnds(t) \/ PumpReads(t) \/ PumpLost(t) \/ Settle(t)
    PROVE Lasting'
<1>1. Records /\ Placed(t) /\ UNCHANGED reader
    BY DEF Lasting, PumpEnds, PumpReads, PumpLost, Settle, LookForAck, LookForHub, StopOffering
<1>2. RestKept
    <2>1. DOMAIN hub' = DOMAIN hub /\ hub'.died = hub.died
        BY <1>1 DEF PumpEnds, PumpReads, PumpLost, Settle, LookForAck, LookForHub, StopOffering,
                    Records
    <2>2. DOMAIN socket' = DOMAIN socket /\ socket'.hungup = socket.hungup
        BY <1>1 DEF PumpEnds, PumpReads, PumpLost, Settle, LookForAck, LookForHub, StopOffering,
                    TakesFrame, Records
    <2> QED
        BY <1>1, <2>1, <2>2 DEF RestKept, Lasting, StillThere
<1>3. CASE PumpEnds(t) \/ PumpLost(t)
    <2>1. /\ DOMAIN client' = DOMAIN client /\ SameStore(client, client')
          /\ client'.process = client.process
          /\ client'.connected = client.connected \/ hub.died
        BY <1>1, <1>3 DEF PumpEnds, PumpLost, Unlocked, Lost, SameStore, Records, Whole, Lasting
    <2>2. ClientKept
        BY <1>1, <2>1, StoreKept DEF Records
    <2>3. TasksMove
        BY <1>2, <1>3, <2>2, GoesMoves DEF PumpEnds, PumpLost, At, AtTheEnd
    <2> QED
        BY <1>2, <2>2, <2>3, KeptLasting
<1>4. CASE PumpReads(t) /\ OutOfStep
    <2>1. client' = [client EXCEPT !.process = "garbled"] /\ UNCHANGED task
        BY <1>4 DEF PumpReads
    <2>2. /\ DOMAIN client' = DOMAIN client /\ SameStore(client, client')
          /\ client'.process = "garbled" /\ client'.connected = client.connected
        BY <1>1, <2>1 DEF SameStore, Records, Whole
    <2>3. ClientKept
        BY <1>1, <2>2, StoreKept DEF Records
    <2> QED
        BY <1>2, <2>1, <2>3, SameKept, KeptLasting
<1>5. CASE PumpReads(t) /\ ~OutOfStep
    <2> DEFINE c == Handled(Inward)
    <2>1. (client' = c \/ client' = Unlocked(c)) /\ (Goes(t, "answered") \/ UNCHANGED task)
        BY <1>5 DEF PumpReads
    <2>2. Keeps(client, c)
        BY <1>1, MessageHandled DEF Handled, Records
    <2> HIDE DEF c
    <2>3. Keeps(client, client')
        BY <2>1, <2>2 DEF Unlocked, Keeps, Whole, Stored, AllOpen
    <2>4. ClientKept
        BY <2>3, KeepsKept
    <2>5. TasksMove
        BY <1>2, <1>5, <2>1, <2>4, GoesMoves, SameKept DEF PumpReads, At, AtTheEnd
    <2> QED
        BY <1>2, <2>4, <2>5, KeptLasting
<1>6. CASE Settle(t)
    <2>1. /\ DOMAIN client' = DOMAIN client /\ SameStore(client, client')
          /\ client'.process = client.process /\ client'.connected = client.connected
        BY <1>1, <1>6 DEF Settle, LookForAck, LookForHub, StopOffering, SameStore, Records, Whole
    <2>2. ClientKept
        BY <1>1, <2>1, StoreKept DEF Records
    <2>3. task[t].at \in {"answered", "checked"}
        BY <1>6 DEF Settle, LookForAck, LookForHub, StopOffering, At
    <2>4. CASE StopOffering(t)
        BY <1>2, <2>2, <2>3, <2>4, GoesMoves, KeptLasting DEF StopOffering, AtTheEnd
    <2>5. CASE LookForAck(t) \/ LookForHub(t)
        <3>1. PICK place \in {"checked", "settled"}, thrown \in {None, "noreply", "lost"} :
                GoesOn(t, place, thrown)
            BY <2>5 DEF LookForAck, LookForHub
        <3>2. TasksMove
            BY <1>2, <2>2, <2>3, <3>1, GoesOnMoves, NoneAssumption DEF AtTheEnd
        <3> QED
            BY <1>2, <2>2, <3>2, KeptLasting
    <2> QED
        BY <1>6, <2>4, <2>5 DEF Settle
<1> QED
    BY <1>3, <1>4, <1>5, <1>6

(* A thread in channel_recv takes its turn at the socket.                  *)
LEMMA OwnKeeps ==
    ASSUME Lasting, NEW t \in Thread, OwnNothing(t) \/ OwnTurn(t) \/ OwnReads(t)
    PROVE Lasting'
<1>1. Records /\ Placed(t) /\ UNCHANGED <<reader, hub>>
    BY DEF Lasting, OwnNothing, OwnTurn, OwnReads
<1>2. task[t].at = "own" /\ Calls(t) = "channel_recv"
    BY <1>1 DEF OwnNothing, OwnTurn, OwnReads, At, Placed, Calls
<1>3. RestKept
    <2>1. DOMAIN socket' = DOMAIN socket /\ socket'.hungup = socket.hungup
        BY <1>1 DEF OwnNothing, OwnTurn, OwnReads, TakesFrame, Records
    <2> QED
        BY <1>1, <2>1 DEF RestKept, Lasting, StillThere
<1>4. CASE OwnNothing(t)
    <2>1. /\ DOMAIN client' = DOMAIN client /\ SameStore(client, client')
          /\ client'.process = client.process
          /\ client'.connected = client.connected \/ hub.died
        BY <1>1, <1>4 DEF OwnNothing, Readable, Lost, SameStore, Records, Whole, Lasting
    <2>2. ClientKept
        BY <1>1, <2>1, StoreKept DEF Records
    <2>3. Completes(t, "null")
        BY <1>4 DEF OwnNothing
    <2> QED
        BY <1>2, <1>3, <2>2, <2>3, CompletesMoves, KeptLasting
<1>5. CASE OwnTurn(t)
    <2>1. /\ DOMAIN client' = DOMAIN client /\ SameStore(client, client')
          /\ client'.process = client.process /\ client'.connected = client.connected
        BY <1>1, <1>5 DEF OwnTurn, SameStore, Records, Whole
    <2>2. ClientKept
        BY <1>1, <2>1, StoreKept DEF Records
    <2>3. TasksMove
        BY <1>2, <1>3, <1>5, <2>2, GoesMoves DEF OwnTurn, AtTheEnd
    <2> QED
        BY <1>3, <2>2, <2>3, KeptLasting
<1>6. CASE OwnReads(t)
    <2> DEFINE c == handle_message(client, Inward)
    <2>1. \/ client' = [c EXCEPT !.paused = FALSE]
          \/ client' = [client EXCEPT !.process = "garbled"]
          \/ \E end \in {client.process, "killed"} :
                client' = [client EXCEPT !.paused = FALSE, !.process = end]
        BY <1>6 DEF OwnReads
    <2>2. Keeps(client, c)
        BY <1>1, MessageHandled DEF Records
    <2> HIDE DEF c
    <2>3. ClientKept
        <3>1. CASE client' = [c EXCEPT !.paused = FALSE]
            <4>1. Keeps(client, client')
                BY <2>2, <3>1 DEF Keeps, Whole, Stored, AllOpen
            <4> QED
                BY <4>1, KeepsKept
        <3>2. CASE client' # [c EXCEPT !.paused = FALSE]
            <4>1. /\ DOMAIN client' = DOMAIN client /\ SameStore(client, client')
                  /\ client'.process \in {client.process, "killed", "garbled"}
                  /\ client'.connected = client.connected
                BY <1>1, <2>1, <3>2 DEF SameStore, Records, Whole
            <4> QED
                BY <1>1, <4>1, StoreKept DEF Records
        <3> QED
            BY <3>1, <3>2
    <2>4. UNCHANGED task \/ Completes(t, "done") \/ Goes(t, "drain")
        BY <1>6 DEF OwnReads
    <2>5. TasksMove
        BY <1>2, <1>3, <2>3, <2>4, SameKept, CompletesMoves, GoesMoves DEF AtTheEnd
    <2> QED
        BY <1>3, <2>3, <2>5, KeptLasting
<1> QED
    BY <1>4, <1>5, <1>6

-----------------------------------------------------------------------------
(* The connection and the reader begin, and end.                           *)

(* A thread connects where no connection and no reader is left.            *)
LEMMA ConnectKeeps == ASSUME Lasting, NEW t \in Thread, Connect(t) PROVE Lasting'
<1>1. Records /\ Placed(t) /\ task[t].at = "ensure" /\ ~client.connected
    BY DEF Lasting, Connect, At, There
<1>2. /\ DOMAIN client' = DOMAIN client /\ client'.store = client.store
      /\ client'.queues = client.queues /\ client'.shutdown = client.shutdown
      /\ client'.joinable = client.joinable /\ client'.process = client.process
      /\ client'.connected /\ client'.valid /\ client'.running
    BY <1>1 DEF Connect, Connected, Records, Whole
<1>3. /\ DOMAIN hub' = DOMAIN hub /\ hub'.died = hub.died
      /\ DOMAIN socket' = DOMAIN socket /\ ~socket'.hungup /\ UNCHANGED reader
    BY <1>1 DEF Connect, Records
<1>4. /\ TaskRecords'
      /\ task'[t].at = "start" /\ task'[t].call = task[t].call
      /\ task'[t].result = task[t].result /\ task'[t].fault = task[t].fault
      /\ \A u \in Thread : u # t => task'[u] = task[u]
    BY <1>1 DEF Connect, Goes, Records, TaskRecords
<1>5. Records'
    BY <1>1, <1>2, <1>3, <1>4 DEF Records, Whole, Stored
<1>6. \A u \in Thread : Placed(u)'
    BY <1>1, <1>2, <1>3, <1>4 DEF Placed, AtTheEnd, Lasting
<1>7. ASSUME ~Gone PROVE StillThere'
    <2>1. StillThere
        BY <1>7 DEF Lasting
    <2> QED
        BY <1>1, <1>2, <1>3, <1>4, <2>1 DEF StillThere, Starting, AllOpen
<1> QED
    BY <1>2, <1>3, <1>5, <1>6, <1>7 DEF Lasting, Gone, OneReader

(* The thread that connected starts the reader.                            *)
LEMMA StartKeeps == ASSUME Lasting, NEW t \in Thread, StartReader(t) PROVE Lasting'
<1>1. Records /\ Placed(t) /\ task[t].at = "start" /\ UNCHANGED <<socket, hub>>
    BY DEF Lasting, StartReader, At
<1>2. /\ DOMAIN client' = DOMAIN client /\ client'.store = client.store
      /\ client'.queues = client.queues /\ client'.shutdown = client.shutdown
      /\ client'.connected = client.connected /\ client'.valid = client.valid
      /\ client'.running = client.running
      /\ client'.process \in {client.process, "terminated"}
      /\ client'.process # client.process => client.joinable
    BY <1>1 DEF StartReader, Records, Whole
<1>3. reader' = reader \/ reader' = [at |-> "loop", held |-> <<>>]
    BY DEF StartReader
<1>4. Calls(t) \in Requests \cup Receives /\ ~client.shutdown
    BY <1>1 DEF Placed, Calls, AtTheEnd
<1>5. /\ TaskRecords'
      /\ task'[t].at = Entry(Calls(t)) /\ task'[t].call = task[t].call
      /\ task'[t].result = task[t].result /\ task'[t].fault = task[t].fault
      /\ \A u \in Thread : u # t => task'[u] = task[u]
    BY <1>1 DEF StartReader, Goes, Records, TaskRecords
<1>6. Records'
    BY <1>1, <1>2, <1>3, <1>5 DEF Records, Whole, Stored
<1>7. \A u \in Thread : Placed(u)'
    BY <1>1, <1>2, <1>4, <1>5, EntryOf DEF Placed, AtTheEnd, Lasting, Calls
<1>8. client.joinable => hub.died
    BY <1>1, <1>4 DEF Lasting, StillThere, Starting, Gone
<1>9. ASSUME ~Gone PROVE StillThere'
    <2>1. StillThere /\ Starting(t)
        BY <1>9 DEF Lasting, StillThere
    <2>2. client.connected /\ client.valid /\ client.running
        BY <1>1, <2>1 DEF Starting
    <2>3. reader'.at \notin Ending
        BY <1>3, <2>1 DEF StillThere, Ending
    <2>4. AllOpen(client')
        BY <1>2, <2>1 DEF StillThere, AllOpen
    <2>5. \A u \in Thread : task'[u].at # "start"
        BY <1>1, <1>4, <1>5, <2>1, EntryOf DEF Starting
    <2> QED
        BY <1>2, <2>2, <2>3, <2>4, <2>5 DEF StillThere, Starting
<1> QED
    BY <1>1, <1>2, <1>6, <1>7, <1>8, <1>9 DEF Lasting, Gone, OneReader

(* The program hangs up.                                                   *)
LEMMA HangUpKeeps ==
    ASSUME Lasting, NEW t \in Thread, Disconnect(t) \/ HangUp(t) \/ CloseAndJoin(t)
    PROVE Lasting'
<1>1. Records /\ Placed(t)
    BY DEF Lasting
<1>2. CASE Disconnect(t)
    <2>1. /\ DOMAIN client' = DOMAIN client /\ client'.store = client.store
          /\ client'.queues = client.queues /\ client'.shutdown
          /\ client'.process = client.process
        BY <1>1, <1>2 DEF Disconnect, Records, Whole
    <2>2. UNCHANGED <<reader, socket, hub>>
        BY <1>2 DEF Disconnect
    <2>3. /\ TaskRecords'
          /\ task'[t].at = "hangup" /\ task'[t].call = "disconnect" /\ task'[t].fault # "null"
          /\ \A u \in Thread : u # t => task'[u] = task[u]
          /\ \A u \in Thread : task[u].at = "idle"
        BY <1>1, <1>2, NoneAssumption DEF Disconnect, NoTask, Records, TaskRecords
    <2>4. Records'
        BY <1>1, <2>1, <2>2, <2>3 DEF Records, Whole, Stored
    <2>5. \A u \in Thread : Placed(u)'
        BY <2>1, <2>2, <2>3 DEF Placed, AtTheEnd, Lasting
    <2> QED
        BY <2>1, <2>2, <2>4, <2>5 DEF Lasting, Gone, OneReader
<1>3. CASE HangUp(t)
    <2>1. task[t].at = "hangup" /\ client.shutdown
        BY <1>1, <1>3 DEF HangUp, At, Placed, AtTheEnd
    <2>2. /\ DOMAIN client' = DOMAIN client /\ client'.store = client.store
          /\ client'.queues = client.queues /\ client'.shutdown = client.shutdown
          /\ client'.process \in {client.process, "killed", "ended"}
        BY <1>1, <1>3 DEF HangUp, Records, Whole
    <2>3. /\ UNCHANGED <<reader, hub>>
          /\ DOMAIN socket' = DOMAIN socket /\ socket'.hungup = socket.hungup
        BY <1>1, <1>3 DEF HangUp, Records
    <2>4. /\ TaskRecords'
          /\ task'[t].at \in AtTheEnd /\ task'[t].call = task[t].call
          /\ task'[t].result = task[t].result /\ task'[t].fault = task[t].fault
          /\ \A u \in Thread : u # t => task'[u] = task[u]
        BY <1>1, <1>3, <2>1 DEF HangUp, Goes, Records, TaskRecords, AtTheEnd
    <2>5. Records'
        BY <1>1, <2>2, <2>3, <2>4 DEF Records, Whole, Stored
    <2>6. \A u \in Thread : Placed(u)'
        BY <2>1, <2>2, <2>3, <2>4 DEF Placed, AtTheEnd, Lasting
    <2> QED
        BY <2>1, <2>2, <2>3, <2>5, <2>6 DEF Lasting, Gone, OneReader
<1>4. CASE CloseAndJoin(t)
    <2>1. UNCHANGED <<reader, task, socket, hub>>
        BY <1>4 DEF CloseAndJoin
    <2>2. task[t].at = "join" /\ client.shutdown
        BY <1>1, <1>4 DEF CloseAndJoin, At, Placed, AtTheEnd
    <2>3. /\ Whole(client') /\ Len(client'.store) = Len(client.store)
          /\ client'.shutdown = client.shutdown /\ client'.process = "ended"
        <3> DEFINE d == close_all_queues(client)
        <3>1. Whole(d) /\ Len(d.store) = Len(client.store) /\ d.shutdown = client.shutdown
            BY <1>1, QueuesClosed DEF Records
        <3>2. client' = [d EXCEPT !.process = "ended"]
            BY <1>4 DEF CloseAndJoin
        <3> HIDE DEF d
        <3> QED
            BY <3>1, <3>2 DEF Whole, Stored
    <2>4. Records'
        BY <1>1, <2>1, <2>3 DEF Records, TaskRecords
    <2>5. \A u \in Thread : Placed(u)'
        BY <2>1, <2>3 DEF Placed, Lasting
    <2> QED
        BY <2>1, <2>2, <2>3, <2>4, <2>5 DEF Lasting, Gone, OneReader
<1> QED
    BY <1>2, <1>3, <1>4

-----------------------------------------------------------------------------

(* A client that has just been made has nothing to end.                    *)
LEMMA InitLasting == Init => Lasting
<1> SUFFICES ASSUME Init PROVE Lasting
    OBVIOUS
<1>1. Len(<<>>) = 0
    OBVIOUS
<1>2. Whole(client)
    BY <1>1 DEF Init, Whole, Stored, NoQueue
<1>3. Records
    BY <1>2 DEF Init, Records, TaskRecords, NoTask
<1>4. \A t \in Thread : Placed(t)
    BY NoneAssumption DEF Init, Placed, NoTask, AtTheEnd
<1>5. StillThere
    BY <1>1 DEF Init, StillThere, Starting, AllOpen, NoTask, Ending
<1> QED
    BY <1>3, <1>4, <1>5 DEF Lasting, Init, OneReader

(* Every step keeps the invariant.                                         *)
LEMMA NextLasting == Lasting /\ [Next]_vars => Lasting'
<1> SUFFICES ASSUME Lasting, [Next]_vars PROVE Lasting'
    OBVIOUS
<1>1. CASE Hub
    BY <1>1, HubKeeps
<1>2. CASE ReaderLoop
    BY <1>2, ReaderKeeps, ReaderGoes DEF ReaderLoop
<1>3. ASSUME NEW t \in Thread, Work(t) PROVE Lasting'
    BY <1>3, NextKeeps, ConnectKeeps, StartKeeps, QueueKeeps, ReturnKeeps, LookKeeps, WriteKeeps,
       PumpKeeps, OwnKeeps, HangUpKeeps DEF Work, Settle
<1>4. ASSUME NEW t \in Thread, Call(t) PROVE Lasting'
    BY <1>4, CallKeeps
<1>5. ASSUME NEW t \in Thread, Disconnect(t) PROVE Lasting'
    BY <1>5, HangUpKeeps
<1>6. CASE UNCHANGED vars
    <2>1. UNCHANGED <<client, reader, socket, hub, task>>
        BY <1>6 DEF vars
    <2> QED
        BY <2>1, SameKept, KeptLasting
<1> QED
    BY <1>1, <1>2, <1>3, <1>4, <1>5, <1>6 DEF Next

(* The invariant holds of every behaviour.                                 *)
THEOREM ClientLasts == Spec => []Lasting
BY InitLasting, NextLasting, PTL DEF Spec

(***************************************************************************)
(* Only after the hub hung up is a reader assigned to a thread that is     *)
(* joinable, whatever the threads do: ensure_connected is safe on a        *)
(* connection that was never lost, though reader_ is assigned outside its  *)
(* mutex.                                                                  *)
(***************************************************************************)
THEOREM ReaderIsOne == Spec => []OneReader
<1>1. Lasting => OneReader
    BY DEF Lasting
<1> QED
    BY <1>1, ClientLasts, PTL

(***************************************************************************)
(* extract on a pipe gives null only where the hub is gone, for any number *)
(* of threads that share the connection and of handles on it.              *)
(***************************************************************************)
THEOREM NullIsTheEnd == Spec => []NullMeansOver
<1>1. Lasting => NullMeansOver
    BY DEF Lasting, Placed, NullMeansOver
<1> QED
    BY <1>1, ClientLasts, PTL

-----------------------------------------------------------------------------
(* What becomes of a queue somebody waits at when the reader ends.  Inbound *)
(* pipes have one handle each here; a thread at "start" has connected      *)
(* again, and its next step ends a process that still has a reader.        *)

OneInbound == \A g, h \in Handle : Side[g] = "in" /\ Side[h] = "in" => g = h

Asking(t) == task[t].at # "idle" /\ task[t].call = "attach"
Awaiting == {"pump", "answered", "checked", "settled"}
Leaving == {"detach", "forget"}
Fetched(t) == Asking(t) /\ SideOf(t) = "in" /\ task[t].at \in Awaiting \cup {"request"}
Asked(t) == Asking(t) /\ SideOf(t) = "in" /\ task[t].at \in Awaiting
InOpen == \E h \in Handle : Side[h] = "in" /\ handles[h] = "open"
NoStart == \A t \in Thread : task[t].at # "start"
Dead == ~Over /\ reader.at \in {"closed", "ended"} /\ ~client.shutdown /\ NoStart

(* A handle is used as its state allows.                                   *)
Uses(t) ==
  /\ task[t].at \in {"find", "wait"} => task[t].call = "receive"
  /\ task[t].at \in {"replied", "opcode"} => task[t].call = "channel_offer"
  /\ task[t].at # "idle" /\ task[t].call = "receive" =>
       /\ task[t].handle \in Handle
       /\ Side[task[t].handle] = "in" /\ handles[task[t].handle] = "open"
  /\ Asking(t) /\ task[t].at \notin Leaving =>
       task[t].handle \in Handle /\ handles[task[t].handle] = "new"
  /\ task[t].at \in Leaving =>
       task[t].handle \in Handle /\ handles[task[t].handle] \in {"closed", "dropped"}
AskedApart ==
  \A t, u \in Thread : Asking(t) /\ Asking(u) /\ task[t].handle = task[u].handle => t = u

(* A reader of the pipe has its queue, and after the end it is closed.     *)
HasQueue == InOpen \/ (\E t \in Thread : Fetched(t)) => client.queues["in"] # NoQueue
Joinable == ~client.shutdown /\ reader.at # "none" => client.joinable
(* The reader comes to its end only where the hub has hung up.             *)
Reads == {"loop", "read", "handle"}
Live ==
  ~client.shutdown /\ ~Over =>
    /\ reader.at \in Reads => client.running /\ client.valid
    /\ reader.at = "none" /\ ~NoStart => client.running /\ client.valid
    /\ reader.at \in Ending /\ NoStart => socket.hungup
QueueClosed ==
  /\ Dead => ~client.connected
  /\ Dead /\ reader.at = "ended" /\ (InOpen \/ \E t \in Thread : Asked(t)) =>
       client.store[client.queues["in"]].closed
Seated ==
  /\ DOMAIN handles = Handle
  /\ \A t \in Thread : Uses(t)
  /\ AskedApart
  /\ HasQueue
  /\ Joinable
  /\ Live
  /\ QueueClosed

(* A queue that is there stays where it is, and as open as it was.         *)
QueueStays(c, d) ==
  c.queues["in"] # NoQueue =>
    /\ d.queues["in"] = c.queues["in"]
    /\ d.store[c.queues["in"]].closed = c.store[c.queues["in"]].closed

LEMMA FoundStays ==
    ASSUME NEW c, Whole(c), NEW side
    PROVE QueueStays(c, WithQueue(c, side))
<1>1. CASE c.queues[side] # NoQueue
    BY <1>1 DEF WithQueue, QueueStays
<1>2. CASE c.queues[side] = NoQueue
    <2> DEFINE e == [items |-> <<>>, closed |-> FALSE]
               d == WithQueue(c, side)
    <2>1. d = [c EXCEPT !.store = Append(@, e), !.queues[side] = Len(c.store) + 1]
        BY <1>2 DEF WithQueue
    <2>2. /\ d.store = Append(c.store, e)
          /\ d.queues = [c.queues EXCEPT ![side] = Len(c.store) + 1]
        BY <2>1 DEF Whole
    <2> HIDE DEF d
    <2>3. \A q \in 1..Len(c.store) : d.store[q] = c.store[q]
        BY <2>2, AppendQueue DEF Whole, Stored
    <2>4. c.queues["in"] # NoQueue => "in" # side /\ c.queues["in"] \in 1..Len(c.store)
        BY <1>2 DEF Whole, Stored, Inbound, NoQueue
    <2>5. c.queues["in"] # NoQueue => d.queues["in"] = c.queues["in"]
        BY <2>2, <2>4 DEF Whole, Stored, Inbound
    <2> QED
        BY <2>3, <2>4, <2>5 DEF d, QueueStays
<1> QED
    BY <1>1, <1>2

LEMMA FilledStays ==
    ASSUME NEW c, Whole(c), NEW q, NEW items
    PROVE QueueStays(c, [c EXCEPT !.store[q].items = items])
<1> DEFINE d == [c EXCEPT !.store[q].items = items]
<1>1. d.queues = c.queues /\ d.store = [c.store EXCEPT ![q] = [@ EXCEPT !.items = items]]
    BY DEF Whole
<1> HIDE DEF d
<1>2. ASSUME NEW p \in 1..Len(c.store) PROVE d.store[p].closed = c.store[p].closed
    <2>1. CASE p = q
        <3>1. d.store[p] = [c.store[p] EXCEPT !.items = items]
            BY <1>1, <2>1 DEF Whole, Stored
        <3> QED
            BY <3>1 DEF Whole, Stored
    <2>2. CASE p # q
        BY <1>1, <2>2 DEF Whole, Stored
    <2> QED
        BY <2>1, <2>2
<1>3. c.queues["in"] # NoQueue => c.queues["in"] \in 1..Len(c.store)
    BY DEF Whole, Stored, Inbound, NoQueue
<1> QED
    BY <1>1, <1>2, <1>3 DEF d, QueueStays

LEMMA HandledStays ==
    ASSUME NEW c, Whole(c), NEW f
    PROVE QueueStays(c, handle_message(c, f))
<1>1. CASE f.kind = "Deliver"
    <2> DEFINE w == WithQueue(c, f.side)
               d == Delivered(w, f)
    <2>1. Whole(w) /\ QueueStays(c, w)
        BY QueueFound, FoundStays DEF Keeps
    <2> DEFINE q == w.queues[f.side]
               items == Append(w.store[q].items, f.of)
    <2>2. d = [w EXCEPT !.store[q].items = items]
        BY DEF Delivered
    <2> HIDE DEF w, d, q, items
    <2>3. QueueStays(w, [w EXCEPT !.store[q].items = items])
        BY <2>1, FilledStays
    <2>4. QueueStays(w, d)
        BY <2>2, <2>3
    <2>5. handle_message(c, f) = d
        BY <1>1 DEF handle_message, d, w
    <2> QED
        BY <2>1, <2>4, <2>5 DEF QueueStays
<1>2. CASE f.kind # "Deliver"
    BY <1>2 DEF handle_message, QueueStays, Whole
<1> QED
    BY <1>1, <1>2

-----------------------------------------------------------------------------
(* Steps that leave the handles and the connection alone.                  *)

ClientStays ==
  /\ QueueStays(client, client')
  /\ client'.connected => client.connected
  /\ client'.shutdown = client.shutdown /\ client'.joinable = client.joinable
  /\ client'.running = client.running /\ client'.valid = client.valid
  /\ Over => Over'
LineStays == socket.hungup => socket'.hungup
ReaderStays ==
  \/ reader'.at = reader.at
  \/ reader.at \in Reads /\ reader'.at \in Reads
  \/ reader'.at = "closing" /\ reader.at # "none" /\ (socket'.hungup \/ client.shutdown)
SameTask(u) ==
  /\ task'[u].at = task[u].at /\ task'[u].call = task[u].call
  /\ task'[u].handle = task[u].handle
MovesOn(u) ==
  /\ task[u].at \notin {"idle", "start"}
  /\ \/ task'[u].at = "idle"
     \/ /\ task'[u].handle = task[u].handle
        /\ \/ task'[u].call = task[u].call
           \/ task[u].call = "channel_offer" /\ task'[u].call = "channel_send"
        /\ task'[u].at \in {"find", "wait"} => task'[u].call = "receive"
        /\ task'[u].at \in {"replied", "opcode"} => task'[u].call = "channel_offer"
        /\ task'[u].at # "start"
        /\ task'[u].at \in Leaving <=> task[u].at \in Leaving
        /\ task'[u].at = "pump" =>
             task[u].at = "pump" \/ (task[u].at = "request" /\ ~Dead')
        /\ task'[u].at \in {"answered", "checked", "settled"} => task[u].at \in Awaiting
        /\ task'[u].at = "request" /\ task'[u].call = "attach" /\ SideOf(u) = "in" =>
             client'.queues["in"] # NoQueue
TasksGoOn == \A u \in Thread : SameTask(u) \/ MovesOn(u)

LEMMA StaysSeated ==
    ASSUME Lasting, Seated, ClientStays, ReaderStays, LineStays, TasksGoOn, UNCHANGED handles
    PROVE Seated'
<1>1. ASSUME NEW t \in Thread PROVE Uses(t)' /\ (Asking(t)' => Asking(t) /\ task'[t].handle = task[t].handle)
    <2>1. Uses(t) /\ (SameTask(t) \/ MovesOn(t))
        BY DEF Seated, TasksGoOn
    <2> QED
        BY <2>1 DEF Uses, SameTask, MovesOn, Asking, Leaving
<1>2. AskedApart'
    BY <1>1 DEF AskedApart, Seated
<1>3. ASSUME NEW t \in Thread
      PROVE /\ Fetched(t)' => Fetched(t) \/ client'.queues["in"] # NoQueue
            /\ Asked(t)' /\ Dead' => Asked(t)
    <2>1. SameTask(t) \/ MovesOn(t)
        BY DEF TasksGoOn
    <2>2. Fetched(t)' => Fetched(t) \/ client'.queues["in"] # NoQueue
        BY <1>1, <2>1 DEF SameTask, MovesOn, Asking, Fetched, SideOf, Awaiting
    <2>3. Asked(t)' /\ Dead' => Asked(t)
        BY <1>1, <2>1 DEF SameTask, MovesOn, Asking, Asked, SideOf, Awaiting
    <2> QED
        BY <2>2, <2>3
<1>4. InOpen' => InOpen
    BY DEF InOpen
<1>5. HasQueue'
    BY <1>3, <1>4 DEF HasQueue, Seated, ClientStays, QueueStays
<1>6. Joinable'
    BY DEF Joinable, Seated, ClientStays, ReaderStays, Reads
<1>7a. NoStart' <=> NoStart
    <2>1. ASSUME NEW t \in Thread PROVE task'[t].at = "start" <=> task[t].at = "start"
        BY DEF TasksGoOn, SameTask, MovesOn
    <2> QED
        BY <2>1 DEF NoStart
<1>7. Dead' => Dead
    BY <1>7a DEF Dead, ClientStays, ReaderStays, Reads
<1>9. Live'
    BY <1>7a DEF Live, Seated, ClientStays, ReaderStays, LineStays, Reads, Ending
<1>8. QueueClosed'
    <2>1. Dead' => ~client.connected /\ ~client'.connected
        BY <1>7 DEF QueueClosed, Seated, ClientStays
    <2>2. ASSUME Dead', reader'.at = "ended", InOpen' \/ \E t \in Thread : Asked(t)'
          PROVE client'.store[client'.queues["in"]].closed
        <3>1. InOpen \/ \E t \in Thread : Asked(t)
            BY <1>3, <1>4, <2>2
        <3>2. client.queues["in"] # NoQueue
            <4>1. \A t \in Thread : Asked(t) => Fetched(t)
                BY DEF Asked, Fetched
            <4> QED
                BY <3>1, <4>1 DEF HasQueue, Seated
        <3>3. client.store[client.queues["in"]].closed
            BY <1>7, <2>2, <3>1 DEF QueueClosed, Seated, ReaderStays, Reads
        <3> QED
            BY <3>2, <3>3 DEF ClientStays, QueueStays
    <2> QED
        BY <2>1, <2>2 DEF QueueClosed
<1> QED
    BY <1>1, <1>2, <1>5, <1>6, <1>8, <1>9 DEF Seated

LEMMA StoreStays ==
    ASSUME SameStore(client, client'), client'.connected => client.connected, Over => Over'
    PROVE ClientStays
BY DEF SameStore, ClientStays, QueueStays

LEMMA NothingStays ==
    /\ UNCHANGED client => ClientStays
    /\ UNCHANGED reader => ReaderStays
    /\ UNCHANGED task => TasksGoOn
<1>1. UNCHANGED client => ClientStays
    BY DEF ClientStays, QueueStays, Over
<1>2. UNCHANGED task => TasksGoOn
    BY DEF TasksGoOn, SameTask
<1> QED
    BY <1>1, <1>2 DEF ReaderStays

(* A thread returns, or goes where its call leads.                         *)
LEMMA ReturnsGoOn ==
    ASSUME TaskRecords, NEW t \in Thread, task[t].at \notin {"idle", "start"},
           NEW result, Returns(t, result)
    PROVE TasksGoOn
<1>1. /\ task'[t].at = "idle"
      /\ \A u \in Thread : u # t => task'[u] = task[u]
    BY DEF Returns, TaskRecords, NoTask
<1> QED
    BY <1>1 DEF TasksGoOn, SameTask, MovesOn

LEMMA PlaceGoesOn ==
    ASSUME TaskRecords, NEW t \in Thread, task[t].at \notin {"idle", "start"},
           NEW place, Goes(t, place),
           place \in {"find", "wait"} => Calls(t) = "receive",
           place \in {"replied", "opcode"} => Calls(t) = "channel_offer",
           place \in Leaving <=> task[t].at \in Leaving,
           place \in {"answered", "checked", "settled"} => task[t].at \in Awaiting,
           place = "request" /\ Calls(t) = "attach" /\ SideOf(t) = "in" =>
             client'.queues["in"] # NoQueue,
           place \notin {"pump", "start"}
    PROVE TasksGoOn
<1>1. /\ task'[t].at = place /\ task'[t].call = task[t].call
      /\ task'[t].handle = task[t].handle
      /\ \A u \in Thread : u # t => task'[u] = task[u]
    BY DEF Goes, TaskRecords
<1> QED
    BY <1>1 DEF TasksGoOn, SameTask, MovesOn, Calls

LEMMA FaultGoesOn ==
    ASSUME TaskRecords, NEW t \in Thread, task[t].at \notin {"idle", "start"},
           NEW place, NEW thrown, GoesOn(t, place, thrown),
           place \in {"find", "wait"} => Calls(t) = "receive",
           place \in {"replied", "opcode"} => Calls(t) = "channel_offer",
           place \in Leaving <=> task[t].at \in Leaving,
           place \in {"answered", "checked", "settled"} => task[t].at \in Awaiting,
           place = "request" /\ Calls(t) = "attach" /\ SideOf(t) = "in" =>
             client'.queues["in"] # NoQueue,
           place \notin {"pump", "start"}
    PROVE TasksGoOn
<1>1. /\ task'[t].at = place /\ task'[t].call = task[t].call
      /\ task'[t].handle = task[t].handle
      /\ \A u \in Thread : u # t => task'[u] = task[u]
    BY DEF GoesOn, TaskRecords
<1> QED
    BY <1>1 DEF TasksGoOn, SameTask, MovesOn, Calls

LEMMA CompletesGoOn ==
    ASSUME TaskRecords, NEW t \in Thread, task[t].at \notin {"idle", "start"},
           NEW result, Completes(t, result)
    PROVE TasksGoOn
BY ReturnsGoOn DEF Completes

(* A hub that has hung up stays so, until a thread connects again.         *)
LEMMA LineHolds ==
    ASSUME Lasting, [Next]_vars, \A t \in Thread : ~Connect(t)
    PROVE LineStays
<1> SUFFICES ASSUME socket.hungup PROVE socket'.hungup
    BY DEF LineStays
<1>1. DOMAIN socket = {"up", "down", "hungup"}
    BY DEF Lasting, Records
<1>2. ~Hub
    BY DEF Hub, HubAnswers, HubDecidesOffer, HubDelivers, HubDies, HubThere
<1>3. CASE ReaderLoop
    BY <1>1, <1>3 DEF ReaderLoop, ReaderStops, ReaderPolls, ReaderYields, ReaderReads,
                      ReaderHandles, ReaderCloses, ReaderEnds
<1>4. ASSUME NEW t \in Thread, Work(t) PROVE socket'.hungup
    <2>1. CASE UNCHANGED socket
        BY <2>1
    <2>2. CASE TakesFrame
        BY <1>1, <2>2 DEF TakesFrame
    <2>3. CASE \E c, f : Writes(c, f)
        BY <2>3 DEF Writes
    <2>4. CASE OwnReads(t)
        BY <1>1, <2>4 DEF OwnReads, TakesFrame
    <2>5. CASE HangUp(t)
        BY <1>1, <2>5 DEF HangUp
    <2>6. CASE PumpReads(t)
        BY <2>1, <2>2, <2>6 DEF PumpReads
    <2>7. CASE Request(t)
        BY <2>3, <2>7 DEF Request
    <2>8. CASE Announce(t) \/ Acknowledge(t) \/ Detach(t)
        BY <2>1, <2>3, <2>8 DEF Announce, Acknowledge, Detach
    <2>9. CASE \/ AlreadyConnected(t) \/ StartReader(t) \/ Reserve(t) \/ PumpEnds(t)
               \/ PumpLost(t) \/ LookForAck(t) \/ LookForHub(t) \/ StopOffering(t)
               \/ Refused(t) \/ Abandon(t) \/ Done(t) \/ OfferStands(t) \/ LookForReply(t)
               \/ Accepted(t) \/ Collided(t)
        BY <2>1, <2>9 DEF AlreadyConnected, StartReader, Reserve, PumpEnds, PumpLost, LookForAck,
              LookForHub, StopOffering, Refused, Abandon, Done, OfferStands, LookForReply,
              Accepted, Collided
    <2>10. CASE \/ Find(t) \/ Receive(t) \/ ReceiveNothing(t) \/ DrainQueue(t) \/ DrainNothing(t)
                \/ OwnNothing(t) \/ OwnTurn(t) \/ Forget(t) \/ CloseAndJoin(t)
        BY <2>1, <2>10 DEF Find, Receive, ReceiveNothing, DrainQueue, DrainNothing, OwnNothing,
              OwnTurn, Forget, CloseAndJoin
    <2> QED
        BY <1>4, <2>4, <2>5, <2>6, <2>7, <2>8, <2>9, <2>10 DEF Work
<1>5. ASSUME NEW t \in Thread, Call(t) \/ Disconnect(t) PROVE socket'.hungup
    BY <1>5 DEF Call, Open, Insert, Extract, Close, Begins, Disconnect
<1>6. CASE UNCHANGED vars
    BY <1>6 DEF vars
<1> QED
    BY <1>2, <1>3, <1>4, <1>5, <1>6 DEF Next

LEMMA HubTouches == Hub => UNCHANGED <<client, reader, task, handles>>
BY DEF Hub, HubAnswers, HubDecidesOffer, HubDelivers, HubDies, Ours

(* The hub, and a reader that has not come to its end.                     *)
LEMMA OthersSeated ==
    ASSUME Lasting, Seated, LineStays,
           Hub \/ ReaderStops \/ ReaderPolls \/ ReaderYields \/ ReaderReads \/ ReaderHandles
    PROVE Seated'
<1>1. Whole(client) /\ UNCHANGED <<task, handles>> /\ TasksGoOn
    <2>1. UNCHANGED <<task, handles>>
        BY HubTouches DEF ReaderStops, ReaderPolls, ReaderYields, ReaderReads, ReaderHandles
    <2> QED
        BY <2>1, NothingStays DEF Lasting, Records
<1>2. CASE Hub
    <2>1. UNCHANGED <<client, reader>>
        BY <1>2, HubTouches
    <2> QED
        BY <1>1, <2>1, NothingStays, StaysSeated
<1>3. CASE ReaderStops \/ ReaderPolls \/ ReaderYields
    <2>1. UNCHANGED client /\ ReaderStays
        <3>1. CASE ReaderStops
            <4>1. /\ reader'.at = "closing" /\ reader.at \in Reads /\ UNCHANGED <<client, socket>>
                  /\ ~Over
                BY <3>1 DEF ReaderStops, ReaderAt, Reads, Lasting, Records, Running, Over
            <4>2. ~client.shutdown => client.running /\ client.valid
                BY <4>1 DEF Seated, Live
            <4>3. socket.hungup \/ client.shutdown
                BY <3>1, <4>2 DEF ReaderStops, Stopping, AtEnd
            <4> QED
                BY <4>1, <4>3 DEF ReaderStays, Reads
        <3>2. CASE ReaderPolls \/ ReaderYields
            BY <3>2 DEF ReaderPolls, ReaderYields, ReaderAt, ReaderStays, Reads, Lasting, Records
        <3> QED
            BY <1>3, <3>1, <3>2
    <2> QED
        BY <1>1, <2>1, NothingStays, StaysSeated
<1>4. CASE ReaderReads \/ ReaderHandles
    <2>1. ReaderStays /\ ~Over
        BY <1>4 DEF ReaderReads, ReaderHandles, ReaderAt, HoldsMessages, ReaderStays, Reads, Running, Over
    <2>2. ClientStays
        <3>1. CASE ReaderReads
            <4>1. \E half \in BOOLEAN : \/ client' = [client EXCEPT !.have_header = half]
                                     \/ client' = [client EXCEPT !.process = "garbled"]
                BY <3>1 DEF ReaderReads
            <4>2. SameStore(client, client') /\ client'.connected = client.connected
                BY <1>1, <4>1 DEF SameStore, Whole
            <4> QED
                BY <2>1, <4>2, StoreStays
        <3>2. CASE ReaderHandles
            <4> DEFINE f == Head(reader.held)
            <4>1. client' = handle_message(client, f)
                BY <3>2 DEF ReaderHandles, Handled
            <4> HIDE DEF f
            <4>2. Keeps(client, client') /\ QueueStays(client, client')
                BY <1>1, <4>1, MessageHandled, HandledStays
            <4> QED
                BY <2>1, <4>2 DEF ClientStays, Keeps
        <3> QED
            BY <1>4, <3>1, <3>2
    <2> QED
        BY <1>1, <2>1, <2>2, StaysSeated
<1> QED
    BY <1>2, <1>3, <1>4

(* A call that goes on, or returns, without a word to the client.          *)
LEMMA SilentSeated ==
    ASSUME Lasting, Seated, LineStays, NEW t \in Thread,
           \/ AlreadyConnected(t) \/ OfferStands(t) \/ LookForReply(t) \/ Accepted(t)
           \/ Collided(t) \/ ReceiveNothing(t) \/ DrainNothing(t)
    PROVE Seated'
<1>1. TaskRecords /\ Placed(t) /\ Uses(t)
    BY DEF Lasting, Records, Seated
<1>2. UNCHANGED <<client, reader, handles>>
    BY DEF AlreadyConnected, OfferStands, LookForReply, Accepted, Collided, ReceiveNothing,
           DrainNothing
<1>3. task[t].at \notin Leaving \cup {"idle", "start"}
    BY DEF AlreadyConnected, OfferStands, LookForReply, Accepted, Collided, ReceiveNothing,
           DrainNothing, At, Leaving
<1>4. TasksGoOn
    <2>1. CASE \E result : Returns(t, result)
        BY <1>1, <1>3, <2>1, ReturnsGoOn
    <2>2. CASE AlreadyConnected(t)
        <3>1. Calls(t) \in Requests \cup Receives /\ Goes(t, Entry(Calls(t)))
            BY <1>1, <2>2 DEF AlreadyConnected, At, Placed, Calls
        <3>2. /\ Entry(Calls(t)) \in {"reserve", "request", "find", "announce"}
              /\ Entry(Calls(t)) = "find" => Calls(t) = "receive"
              /\ Entry(Calls(t)) = "request" => Calls(t) # "attach"
            BY <3>1 DEF Entry, Requests, Receives
        <3> QED
            BY <1>1, <1>3, <3>1, <3>2, PlaceGoesOn DEF Leaving
    <2>3. CASE Accepted(t)
        <3>1. task[t].call = "channel_offer"
            BY <1>1, <2>3 DEF Accepted, At, Uses
        <3>2. /\ task'[t].at = "request" /\ task'[t].call = "channel_send"
              /\ task'[t].handle = task[t].handle
              /\ \A u \in Thread : u # t => task'[u] = task[u]
            BY <1>1, <2>3 DEF Accepted, TaskRecords
        <3> QED
            BY <1>3, <3>1, <3>2 DEF TasksGoOn, SameTask, MovesOn, Leaving
    <2>4. CASE Collided(t) /\ task' = [task EXCEPT ![t].at = "request", ![t].tries = @ + 1]
        <3>1. task[t].call = "channel_offer"
            BY <1>1, <2>4 DEF Collided, At, Uses
        <3>2. /\ task'[t].at = "request" /\ task'[t].call = task[t].call
              /\ task'[t].handle = task[t].handle
              /\ \A u \in Thread : u # t => task'[u] = task[u]
            BY <1>1, <2>4 DEF TaskRecords
        <3> QED
            BY <1>3, <3>1, <3>2 DEF TasksGoOn, SameTask, MovesOn, Leaving
    <2>5. CASE Goes(t, "own")
        BY <1>1, <1>3, <2>5, PlaceGoesOn DEF Leaving
    <2>8. CASE OfferStands(t)
        BY <1>1, <1>3, <2>8, PlaceGoesOn DEF Leaving, OfferStands, Offering
    <2>6. CASE LookForReply(t)
        <3>1. PICK thrown : GoesOn(t, "opcode", thrown)
            BY <2>6 DEF LookForReply
        <3> QED
            BY <1>1, <1>3, <2>6, <3>1, FaultGoesOn DEF Leaving, LookForReply, At, Uses, Calls
    <2>7. CASE \E result : Completes(t, result)
        BY <1>1, <1>3, <2>7, CompletesGoOn
    <2> QED
        BY <2>1, <2>2, <2>3, <2>4, <2>5, <2>6, <2>7, <2>8
           DEF Collided, ReceiveNothing, DrainNothing
<1> QED
    BY <1>2, <1>4, NothingStays, StaysSeated

(* A thread that sends its request waits for the answer.                   *)
LEMMA RequestSeated ==
    ASSUME Lasting, Seated, LineStays, NEW t \in Thread, Request(t)
    PROVE Seated'
<1>1. Whole(client) /\ TaskRecords
    BY DEF Lasting, Records
<1> DEFINE c == [(IF Calls(t) = "channel_offer" THEN ForChannel(client) ELSE ForAck(client))
                   EXCEPT !.paused = TRUE, !.mutex = t]
<1>2. /\ Running /\ task[t].at = "request"
      /\ Writes(c, Frame(Calls(t), SideOf(t), t))
      /\ UNCHANGED <<reader, handles>>
    BY Zenon DEF Request, At
<1>3. /\ DOMAIN c = DOMAIN client /\ SameStore(client, c)
      /\ c.connected = client.connected
    BY <1>1 DEF ForChannel, ForAck, SameStore, Whole
<1> HIDE DEF c
<1>4. ClientStays
    <2>1. client' = c \/ client' = [c EXCEPT !.process = "killed"]
        BY <1>2 DEF Writes
    <2>2. SameStore(client, client') /\ client'.connected = client.connected
        BY <1>1, <1>3, <2>1 DEF SameStore, Whole
    <2> QED
        BY <1>2, <2>2, StoreStays DEF Running, Over
<1>5. t \notin Unsettled
    BY <1>2 DEF Unsettled
<1> DEFINE asked == Unsettled # {}
           moved(u) == CASE u = t -> [task[u] EXCEPT !.at = "pump",
                                        !.fault = IF NotConnected = None THEN @ ELSE NotConnected,
                                        !.overlapped = @ \/ asked]
                         [] u \in Unsettled -> [task[u] EXCEPT !.overlapped = TRUE]
                         [] OTHER -> task[u]
<1>5a. task' = [u \in Thread |-> moved(u)]
    BY Zenon DEF Request
<1> HIDE DEF asked
<1>6. task'[t] = [task[t] EXCEPT !.at = "pump",
                     !.fault = IF NotConnected = None THEN @ ELSE NotConnected,
                     !.overlapped = @ \/ asked]
    BY <1>5, <1>5a
<1>7. ASSUME NEW u \in Thread, u # t
      PROVE task'[u] = [task[u] EXCEPT !.overlapped = TRUE] \/ task'[u] = task[u]
    BY <1>7, <1>5a
<1>8. /\ task'[t].at = "pump" /\ task'[t].call = task[t].call
      /\ task'[t].handle = task[t].handle
    BY <1>1, <1>6 DEF TaskRecords
<1>9. ASSUME NEW u \in Thread, u # t PROVE SameTask(u)
    BY <1>1, <1>7, <1>9 DEF SameTask, TaskRecords
<1>11. NoStart' => NoStart
    BY <1>2, <1>9 DEF NoStart, SameTask
<1>12. ~Dead'
    <2> SUFFICES ASSUME Dead' PROVE FALSE
        OBVIOUS
    <2>1. ~socket.hungup
        <3>1. client' = IF socket.hungup THEN [c EXCEPT !.process = "killed"] ELSE c
            BY <1>2 DEF Writes
        <3>2. client'.process # "killed"
            BY DEF Dead, Over
        <3> QED
            BY <1>1, <1>3, <3>1, <3>2 DEF Whole
    <2>2. NoStart /\ ~Over /\ ~client.shutdown /\ reader.at \in Ending
        BY <1>2, <1>4, <1>11 DEF Dead, Running, Over, ClientStays, Ending
    <2> QED
        BY <2>1, <2>2 DEF Seated, Live
<1>10. TasksGoOn
    BY <1>2, <1>8, <1>9, <1>12 DEF TasksGoOn, MovesOn, Leaving
<1> QED
    BY <1>2, <1>4, <1>10, NothingStays, StaysSeated

(* A call that writes what wants no answer.                                *)
LEMMA WritersSeated ==
    ASSUME Lasting, Seated, LineStays, NEW t \in Thread, Announce(t) \/ Acknowledge(t) \/ Detach(t)
    PROVE Seated'
<1>1. Whole(client) /\ TaskRecords /\ Placed(t) /\ Uses(t)
    BY DEF Lasting, Records, Seated
<1>2. UNCHANGED <<reader, handles>> /\ ~Over /\ task[t].at \notin {"idle", "start"}
    BY DEF Announce, Acknowledge, Detach, At, Running, Over
<1>3. ClientStays
    <2>1. CASE UNCHANGED client
        BY <2>1, NothingStays
    <2>2. CASE \E f : Writes(client, f)
        <3>1. client' = client \/ client' = [client EXCEPT !.process = "killed"]
            BY <2>2 DEF Writes
        <3>2. SameStore(client, client') /\ client'.connected = client.connected
            BY <1>1, <3>1 DEF SameStore, Whole
        <3> QED
            BY <1>2, <3>2, StoreStays
    <2> QED
        BY <2>1, <2>2 DEF Announce, Acknowledge, Detach
<1>4. TasksGoOn
    <2>1. CASE \E result : Completes(t, result)
        BY <1>1, <1>2, <2>1, CompletesGoOn
    <2>2. CASE Announce(t)
        BY <1>1, <1>2, <2>2, FaultGoesOn DEF Announce, At, Leaving
    <2>3. CASE Detach(t) /\ Goes(t, "forget")
        BY <1>1, <1>2, <2>3, PlaceGoesOn DEF Detach, At, Leaving
    <2> QED
        BY <2>1, <2>2, <2>3 DEF Announce, Acknowledge, Detach
<1> QED
    BY <1>2, <1>3, <1>4, NothingStays, StaysSeated

(* A thread makes, fills or empties a queue.                               *)
LEMMA QueueSeated ==
    ASSUME Lasting, Seated, LineStays, NEW t \in Thread,
           Reserve(t) \/ Find(t) \/ Receive(t) \/ DrainQueue(t)
    PROVE Seated'
<1>1. Whole(client) /\ TaskRecords /\ Placed(t) /\ Uses(t)
    BY DEF Lasting, Records, Seated
<1>2. /\ UNCHANGED <<reader, handles>> /\ ~Over
      /\ task[t].at \notin Leaving \cup {"idle", "start"}
    BY DEF Reserve, Find, Receive, DrainQueue, At, Running, Over, Leaving
<1>3. ClientStays
    <2>1. CASE UNCHANGED client
        BY <2>1, NothingStays
    <2>2. CASE \E side : client' = WithQueue(client, side)
        <3>1. Keeps(client, client') /\ QueueStays(client, client')
            BY <1>1, <2>2, QueueFound, FoundStays
        <3> QED
            BY <1>2, <3>1 DEF ClientStays, Keeps
    <2>3. CASE \E q : Takes(t, q)
        <3>1. PICK q, items : client' = [client EXCEPT !.store[q].items = items]
            BY <2>3 DEF Takes
        <3>2. Keeps(client, client') /\ QueueStays(client, client')
            BY <1>1, <3>1, QueueFilled, FilledStays
        <3> QED
            BY <1>2, <3>2 DEF ClientStays, Keeps
    <2> QED
        BY <2>1, <2>2, <2>3 DEF Reserve, Find, Receive, DrainQueue
<1>4. TasksGoOn
    <2>1. CASE Reserve(t)
        <3>1. SideOf(t) = "in" => client'.queues["in"] # NoQueue
            <4>1. SideOf(t) = "in" => client' = WithQueue(client, "in")
                BY <2>1 DEF Reserve, Inbound
            <4> QED
                BY <1>1, <4>1, QueueFound DEF Inbound, NoQueue
        <3>2. Goes(t, "request")
            BY <2>1 DEF Reserve
        <3> QED
            BY <1>1, <1>2, <3>1, <3>2, PlaceGoesOn DEF Leaving
    <2>2. CASE Find(t)
        <3>1. task[t].call = "receive" /\ TaskRecords
            BY <1>1, <2>2 DEF Find, At, Uses
        <3>2. /\ task'[t].at = "wait" /\ task'[t].call = task[t].call
              /\ task'[t].handle = task[t].handle
              /\ \A u \in Thread : u # t => task'[u] = task[u]
            BY <1>1, <2>2 DEF Find, TaskRecords
        <3> QED
            BY <1>2, <3>1, <3>2 DEF TasksGoOn, SameTask, MovesOn, Leaving
    <2>3. CASE Receive(t)
        BY <1>1, <1>2, <2>3, ReturnsGoOn DEF Receive
    <2>4. CASE DrainQueue(t)
        BY <1>1, <1>2, <2>4, PlaceGoesOn DEF DrainQueue, Leaving
    <2> QED
        BY <2>1, <2>2, <2>3, <2>4
<1> QED
    BY <1>2, <1>3, <1>4, NothingStays, StaysSeated

(* A client that takes a frame, or none, with the connection or without.   *)
LEMMA TurnStays ==
    ASSUME Whole(client), ~Over, NEW f, NEW c, c = client \/ c = handle_message(client, f),
           \/ client' = c \/ client' = [c EXCEPT !.paused = FALSE]
           \/ client' = [c EXCEPT !.paused = FALSE, !.mutex = None]
           \/ client' = [client EXCEPT !.process = "garbled"]
           \/ \E end \in {client.process, "killed"} :
                 client' = [client EXCEPT !.paused = FALSE, !.process = end]
    PROVE ClientStays
<1>1. Keeps(client, c) /\ QueueStays(client, c)
    <2>1. Keeps(client, client)
        BY DEF Keeps, Whole, Stored, AllOpen, Inbound
    <2>2. QueueStays(client, client)
        BY DEF QueueStays
    <2> QED
        BY <2>1, <2>2, MessageHandled, HandledStays
<1>2. CASE client' = c \/ client' = [c EXCEPT !.paused = FALSE]
                \/ client' = [c EXCEPT !.paused = FALSE, !.mutex = None]
    <2>1. /\ client'.queues = c.queues /\ client'.store = c.store
          /\ client'.connected = c.connected /\ client'.shutdown = c.shutdown
          /\ client'.joinable = c.joinable /\ client'.running = c.running
          /\ client'.valid = c.valid
        BY <1>1, <1>2 DEF Keeps, Whole
    <2> QED
        BY <1>1, <2>1 DEF Keeps, QueueStays, ClientStays
<1>3. CASE \/ client' = [client EXCEPT !.process = "garbled"]
           \/ \E end \in {client.process, "killed"} :
                 client' = [client EXCEPT !.paused = FALSE, !.process = end]
    <2>1. SameStore(client, client') /\ client'.connected = client.connected
        BY <1>3 DEF SameStore, Whole
    <2> QED
        BY <2>1, StoreStays
<1> QED
    BY <1>2, <1>3

(* A thread waits for its answer, and reads what comes meanwhile.          *)
LEMMA PumpSeated ==
    ASSUME Lasting, Seated, LineStays, NEW t \in Thread,
           PumpEnds(t) \/ PumpReads(t) \/ PumpLost(t) \/ Settle(t)
    PROVE Seated'
<1> USE DEF Settle
<1>1. Whole(client) /\ TaskRecords
    BY DEF Lasting, Records
<1>2. /\ UNCHANGED <<reader, handles>> /\ ~Over
      /\ task[t].at \in {"pump", "answered", "checked"}
    BY DEF PumpEnds, PumpReads, PumpLost, LookForAck, LookForHub, StopOffering, At, Running, Over
<1>3. ClientStays
    <2>1. CASE PumpReads(t)
        <3>1. \/ client' = Handled(Inward) \/ client' = Unlocked(Handled(Inward))
              \/ client' = [client EXCEPT !.process = "garbled"]
            BY <2>1 DEF PumpReads
        <3> QED
            BY <1>1, <1>2, <3>1, TurnStays DEF Handled, Unlocked
    <2>2. CASE PumpEnds(t) \/ PumpLost(t) \/ Settle(t)
        <3>1. /\ SameStore(client, client')
              /\ client'.connected => client.connected
            <4>1. CASE PumpEnds(t)
                BY <1>1, <4>1 DEF PumpEnds, Unlocked, SameStore, Whole
            <4>2. CASE PumpLost(t)
                BY <1>1, <4>2 DEF PumpLost, Unlocked, Lost, SameStore, Whole
            <4>3. CASE Settle(t)
                BY <1>1, <4>3 DEF LookForAck, LookForHub, StopOffering, SameStore, Whole
            <4> QED
                BY <2>2, <4>1, <4>2, <4>3
        <3> QED
            BY <1>2, <3>1, StoreStays
    <2> QED
        BY <2>1, <2>2
<1>4. TasksGoOn
    <2>1. CASE UNCHANGED task
        BY <2>1, NothingStays
    <2>2. CASE Goes(t, "answered")
        BY <1>1, <1>2, <2>2, PlaceGoesOn DEF Leaving, Awaiting
    <2>4. CASE Goes(t, "settled")
        BY <1>1, <1>2, <2>4, PlaceGoesOn DEF Leaving, Awaiting
    <2>3. CASE \E place \in {"checked", "settled"} : \E thrown : GoesOn(t, place, thrown)
        BY <1>1, <1>2, <2>3, FaultGoesOn DEF Leaving, Awaiting
    <2> QED
        BY <2>1, <2>2, <2>3, <2>4
           DEF PumpEnds, PumpReads, PumpLost, LookForAck, LookForHub, StopOffering
<1> QED
    BY <1>2, <1>3, <1>4, NothingStays, StaysSeated

(* A thread in channel_recv takes its turn at the socket.                  *)
LEMMA OwnSeated ==
    ASSUME Lasting, Seated, LineStays, NEW t \in Thread, OwnNothing(t) \/ OwnTurn(t) \/ OwnReads(t)
    PROVE Seated'
<1>1. Whole(client) /\ TaskRecords
    BY DEF Lasting, Records
<1>2. UNCHANGED <<reader, handles>> /\ ~Over /\ task[t].at = "own"
    BY DEF OwnNothing, OwnTurn, OwnReads, At, Running, Over
<1>3. ClientStays
    <2>1. CASE OwnNothing(t)
        <3>1. SameStore(client, client') /\ (client'.connected => client.connected)
            BY <1>1, <2>1 DEF OwnNothing, Lost, SameStore, Whole
        <3> QED
            BY <1>2, <3>1, StoreStays
    <2>2. CASE OwnTurn(t)
        <3>1. client' = [client EXCEPT !.paused = FALSE]
            BY <2>2 DEF OwnTurn
        <3> QED
            BY <1>1, <1>2, <3>1, TurnStays
    <2>3. CASE OwnReads(t)
        <3>1. \/ client' = [handle_message(client, Inward) EXCEPT !.paused = FALSE]
              \/ client' = [client EXCEPT !.process = "garbled"]
              \/ \E end \in {client.process, "killed"} :
                    client' = [client EXCEPT !.paused = FALSE, !.process = end]
            BY <2>3 DEF OwnReads
        <3> QED
            BY <1>1, <1>2, <3>1, TurnStays
    <2> QED
        BY <2>1, <2>2, <2>3
<1>4. TasksGoOn
    <2>1. CASE UNCHANGED task
        BY <2>1, NothingStays
    <2>2. CASE Goes(t, "drain")
        BY <1>1, <1>2, <2>2, PlaceGoesOn DEF Leaving
    <2>3. CASE \E result : Completes(t, result)
        BY <1>1, <1>2, <2>3, CompletesGoOn
    <2> QED
        BY <2>1, <2>2, <2>3 DEF OwnNothing, OwnTurn, OwnReads
<1> QED
    BY <1>2, <1>3, <1>4, NothingStays, StaysSeated

(* The program makes a call: opens, uses or closes a handle.               *)
LEMMA CallSeated == ASSUME Lasting, Seated, NEW t \in Thread, Call(t) PROVE Seated'
<1>1. TaskRecords
    BY DEF Lasting, Records
<1>2. PICK h \in Handle : Open(t, h) \/ Insert(t, h) \/ Extract(t, h) \/ Close(t, h)
    BY DEF Call
<1>3. /\ UNCHANGED <<client, reader, socket>> /\ task[t].at = "idle"
      /\ DOMAIN handles' = Handle
      /\ \A g \in Handle : handles'[g] = handles[g] \/ (g = h /\ handles'[g] = "closed")
      /\ \A u \in Thread : handles'[h] = handles[h] \/ task[u].handle # h
    <2>1. CASE Open(t, h) \/ Insert(t, h) \/ Extract(t, h)
        BY <2>1 DEF Open, Insert, Extract, At, Begins, Seated
    <2>2. CASE Close(t, h)
        BY <2>2 DEF Close, At, Begins, Seated
    <2> QED
        BY <1>2, <2>1, <2>2
<1> DEFINE begun(call, place) ==
             /\ Begins(t, h, call, place)
             /\ \/ place = "ensure" /\ call # "detach"
                \/ place = "detach" /\ call = "detach"
             /\ call = "receive" => Side[h] = "in" /\ handles'[h] = "open"
             /\ call = "attach" => handles'[h] = "new" /\ ~InUse(h, {"attach"})
             /\ call = "detach" => handles'[h] = "closed"
<1>4. PICK call, place : begun(call, place)
    <2>1. CASE Open(t, h)
        <3>1. begun("attach", "ensure")
            BY <2>1 DEF Open
        <3> QED
            BY <3>1
    <2>2. CASE Insert(t, h)
        <3>1. begun("publish", "ensure") \/ begun("channel_offer", "ensure")
            BY <2>2 DEF Insert
        <3> QED
            BY <3>1
    <2>3. CASE Extract(t, h)
        <3>1. begun("receive", "ensure") \/ begun("channel_recv", "ensure")
            <4>1. CASE Side[h] = "in"
                BY <2>3, <4>1 DEF Extract
            <4>2. CASE Side[h] # "in"
                BY <2>3, <4>2 DEF Extract
            <4> QED
                BY <4>1, <4>2
        <3> QED
            BY <3>1
    <2>4. CASE Close(t, h)
        <3>1. begun("detach", "detach")
            BY <2>4 DEF Close, Seated
        <3> QED
            BY <3>1
    <2> QED
        BY <1>2, <2>1, <2>2, <2>3, <2>4
<1>5. /\ task'[t].handle = h /\ task'[t].at \in {"ensure", "detach"}
      /\ task'[t].at = "detach" <=> task'[t].call = "detach"
      /\ task'[t].call = "receive" => Side[h] = "in" /\ handles'[h] = "open"
      /\ task'[t].call = "attach" => handles'[h] = "new" /\ ~InUse(h, {"attach"})
      /\ task'[t].call = "detach" => handles'[h] = "closed"
      /\ \A u \in Thread : u # t => task'[u] = task[u]
    BY <1>1, <1>4 DEF Begins, TaskRecords, NoTask
<1>6. ASSUME NEW u \in Thread PROVE Uses(u)'
    <2>1. CASE u = t
        BY <1>5, <2>1 DEF Uses, Asking, Leaving
    <2>2. CASE u # t
        <3>1. Uses(u) /\ task'[u] = task[u]
            BY <1>5, <2>2 DEF Seated
        <3>2. task[u].handle \in Handle => handles'[task[u].handle] = handles[task[u].handle]
            BY <1>3
        <3> QED
            BY <3>1, <3>2 DEF Uses, Asking
    <2> QED
        BY <2>1, <2>2
<1>7. AskedApart'
    <2>1. ASSUME NEW u \in Thread, u # t, Asking(u), task'[t].call = "attach"
          PROVE task[u].handle # h
        BY <1>5, <2>1 DEF Asking, InUse, Calls
    <2> QED
        BY <1>5, <2>1 DEF AskedApart, Seated, Asking
<1>8. (InOpen' => InOpen) /\ \A u \in Thread : (Fetched(u)' => Fetched(u)) /\ (Asked(u)' => Asked(u))
    BY <1>3, <1>5 DEF InOpen, Fetched, Asked, Awaiting, Asking, SideOf
<1>9. (Dead' => Dead) /\ (NoStart' <=> NoStart)
    BY <1>3, <1>5 DEF Dead, Over, NoStart
<1> QED
    BY <1>3, <1>6, <1>7, <1>8, <1>9 DEF Seated, HasQueue, Joinable, Live, Over, QueueClosed

(* A thread connects again; until it starts the reader, all is open.       *)
LEMMA ConnectSeated == ASSUME Lasting, Seated, NEW t \in Thread, Connect(t) PROVE Seated'
<1>1. Whole(client) /\ TaskRecords
    BY DEF Lasting, Records
<1>2. /\ client'.queues = client.queues /\ client'.shutdown = client.shutdown
      /\ client'.joinable = client.joinable /\ UNCHANGED <<reader, handles>>
      /\ client'.running /\ client'.valid
    BY <1>1 DEF Connect, Connected, Whole
<1>3. /\ task[t].at = "ensure" /\ task'[t].at = "start" /\ task'[t].call = task[t].call
      /\ task'[t].handle = task[t].handle
      /\ \A u \in Thread : u # t => task'[u] = task[u]
    BY <1>1 DEF Connect, At, Goes, TaskRecords
<1>4. \A u \in Thread : Uses(u)' /\ (Fetched(u)' => Fetched(u)) /\ (Asking(u)' => Asking(u))
    BY <1>2, <1>3 DEF Seated, Uses, Asking, Fetched, Awaiting, Leaving, SideOf
<1>5. AskedApart' /\ ~Dead' /\ ~NoStart'
    BY <1>3, <1>4 DEF AskedApart, Seated, Dead, NoStart
<1> QED
    BY <1>2, <1>4, <1>5 DEF Seated, HasQueue, InOpen, Joinable, Live, QueueClosed

(* The reader starts, or the process ends.                                 *)
LEMMA StartSeated == ASSUME Lasting, Seated, NEW t \in Thread, StartReader(t) PROVE Seated'
<1>1. Whole(client) /\ TaskRecords /\ Placed(t)
    BY DEF Lasting, Records
<1>2. /\ client'.queues = client.queues /\ client'.shutdown = client.shutdown
      /\ UNCHANGED handles
      /\ client'.joinable
      /\ \/ Over'
         \/ /\ reader'.at = "loop" /\ ~client.joinable /\ ~Over
            /\ client'.running = client.running /\ client'.valid = client.valid
    BY <1>1 DEF StartReader, At, Running, Over, Whole
<1>3. /\ task[t].at = "start" /\ task'[t].at = Entry(Calls(t)) /\ task'[t].call = task[t].call
      /\ task'[t].handle = task[t].handle
      /\ \A u \in Thread : u # t => task'[u] = task[u]
    BY <1>1 DEF StartReader, At, Goes, TaskRecords
<1>4. /\ task'[t].at \in {"reserve", "request", "find", "announce"}
      /\ task'[t].at = "find" => task[t].call = "receive"
      /\ task'[t].at = "request" => task[t].call # "attach"
    BY <1>1, <1>3 DEF Entry, Requests, Receives, Calls, Placed
<1>5. \A u \in Thread : Uses(u)' /\ (Fetched(u)' => Fetched(u)) /\ (Asking(u)' => Asking(u))
    BY <1>2, <1>3, <1>4 DEF Seated, Uses, Asking, Fetched, Awaiting, Leaving, SideOf
<1>6. AskedApart' /\ ~Dead'
    BY <1>2, <1>3, <1>5 DEF AskedApart, Seated, Dead
<1>7. Live'
    <2> SUFFICES ASSUME ~client'.shutdown, ~Over' PROVE client'.running /\ client'.valid /\ reader'.at = "loop"
        BY DEF Live, Ending
    <2>1. reader.at = "none" /\ ~NoStart
        BY <1>2, <1>3 DEF Seated, Joinable, NoStart
    <2> QED
        BY <1>2, <2>1 DEF Seated, Live
<1> QED
    BY <1>2, <1>5, <1>6, <1>7 DEF Seated, HasQueue, InOpen, Joinable, QueueClosed

(* Where no thread moves to another place, or only out of one.             *)
LEMMA LiveStays ==
    ASSUME Seated, LineStays, UNCHANGED reader, SameStore(client, client'), Over <=> Over',
           NoStart' <=> NoStart
    PROVE Live' /\ Joinable'
BY DEF Seated, Live, Joinable, LineStays, SameStore

(* An attach that was granted: its handle is open, and has its queue.      *)
LEMMA DoneSeated == ASSUME Lasting, Seated, LineStays, NEW t \in Thread, Done(t) PROVE Seated'
<1>1. /\ TaskRecords /\ Uses(t) /\ task[t].at = "settled" /\ UNCHANGED <<client, reader>>
      /\ Completes(t, "done")
    BY DEF Lasting, Records, Seated, Done, At
<1>2. task'[t].at = "idle" /\ \A u \in Thread : u # t => task'[u] = task[u]
    BY <1>1 DEF Completes, Returns, TaskRecords, NoTask
<1>3. CASE task[t].call # "attach"
    <2>1. UNCHANGED handles
        BY <1>3 DEF Done, Calls
    <2>2. TasksGoOn
        BY <1>1, CompletesGoOn
    <2> QED
        BY <1>1, <2>1, <2>2, NothingStays, StaysSeated
<1>4. CASE task[t].call = "attach"
    <2> DEFINE h == task[t].handle
    <2>1. Asking(t) /\ h \in Handle /\ handles[h] = "new"
        BY <1>1, <1>4 DEF Uses, Asking, Leaving
    <2>2. handles' = [handles EXCEPT ![h] = "open"]
        BY <1>4 DEF Done, Calls
    <2> HIDE DEF h
    <2>3. DOMAIN handles' = Handle /\ handles'[h] = "open"
          /\ \A g \in Handle : g # h => handles'[g] = handles[g]
        BY <2>1, <2>2 DEF Seated
    <2>4. ASSUME NEW u \in Thread
          PROVE Uses(u)' /\ (Fetched(u)' => Fetched(u)) /\ (Asking(u)' => Asking(u))
                /\ (Asked(u)' => Asked(u))
        <3>1. CASE u = t
            BY <1>2, <3>1 DEF Uses, Fetched, Asked, Asking, Leaving
        <3>2. CASE u # t
            <4>1. Uses(u) /\ task'[u] = task[u]
                BY <1>2, <3>2 DEF Seated
            <4>2. Asking(u) => task[u].handle # h
                BY <2>1, <3>2 DEF Seated, AskedApart, h
            <4>3. task[u].handle \in Handle /\ handles[task[u].handle] \in {"closed", "dropped"} =>
                    handles'[task[u].handle] = handles[task[u].handle]
                BY <2>1, <2>3
            <4> QED
                BY <2>1, <2>3, <4>1, <4>2, <4>3 DEF Uses, Fetched, Asked, Asking, SideOf
        <3> QED
            BY <3>1, <3>2
    <2>5. AskedApart'
        BY <1>2, <2>4 DEF AskedApart, Seated, Asking
    <2>6. InOpen' => InOpen \/ (Fetched(t) /\ Asked(t))
        BY <1>1, <2>1, <2>3 DEF InOpen, Fetched, Asked, Awaiting, SideOf, h
    <2>7. (Dead' => Dead) /\ (NoStart' <=> NoStart)
        BY <1>1, <1>2 DEF Dead, Over, NoStart
    <2>8. Live' /\ Joinable'
        BY <1>1, <2>7, LiveStays DEF SameStore, Over
    <2> QED
        BY <1>1, <2>3, <2>4, <2>5, <2>6, <2>7, <2>8 DEF Seated, HasQueue, QueueClosed
<1> QED
    BY <1>3, <1>4

(* A handle that is dropped, or closed, gives up its queue: nobody else    *)
(* reads there, since it is the only inbound handle.                       *)
LEMMA ForgetSeated ==
    ASSUME OneInbound, Lasting, Seated, LineStays, NEW t \in Thread, Forget(t)
    PROVE Seated'
<1>1. Whole(client) /\ TaskRecords /\ Uses(t)
    BY DEF Lasting, Records, Seated
<1>2. /\ task[t].at = "forget" /\ ~Over /\ UNCHANGED <<reader, handles>>
      /\ client' = Erased(client, SideOf(t)) /\ Completes(t, "done")
    BY DEF Forget, At, Running, Over
<1>3. /\ task'[t].at = "idle" /\ \A u \in Thread : u # t => task'[u] = task[u]
      /\ TasksGoOn
    BY <1>1, <1>2, CompletesGoOn DEF Completes, Returns, TaskRecords, NoTask
<1>4. CASE SideOf(t) # "in"
    <2>1. /\ client'.store = client.store
          /\ client'.queues["in"] = client.queues["in"]
          /\ client'.connected = client.connected /\ client'.shutdown = client.shutdown
          /\ client'.joinable = client.joinable /\ client'.process = client.process
          /\ client'.running = client.running /\ client'.valid = client.valid
        BY <1>1, <1>2, <1>4 DEF Erased, Inbound, Whole, Stored
    <2> QED
        BY <1>2, <1>3, <2>1, NothingStays, StaysSeated DEF ClientStays, QueueStays, Over
<1>5. CASE SideOf(t) = "in"
    <2>1. /\ client'.connected = client.connected /\ client'.shutdown = client.shutdown
          /\ client'.joinable = client.joinable /\ client'.process = client.process
          /\ client'.running = client.running /\ client'.valid = client.valid
          /\ client'.store = client.store
        BY <1>1, <1>2, <1>5 DEF Erased, Inbound, Whole
    <2>2. task[t].handle \in Handle /\ handles[task[t].handle] \in {"closed", "dropped"}
        BY <1>1, <1>2 DEF Uses, Leaving
    <2>3. ~InOpen
        BY <1>5, <2>2 DEF OneInbound, InOpen, SideOf
    <2>4. ASSUME NEW u \in Thread
          PROVE Uses(u)' /\ ~Fetched(u)' /\ ~Asked(u)' /\ (Asking(u)' => Asking(u))
        <3>1. CASE u = t
            BY <1>3, <3>1 DEF Uses, Asking, Fetched, Asked, Leaving
        <3>2. CASE u # t
            <4>1. Uses(u) /\ task'[u] = task[u]
                BY <1>3, <3>2 DEF Seated
            <4>2. ~Fetched(u)
                <5>1. SUFFICES ASSUME Fetched(u) PROVE FALSE
                    OBVIOUS
                <5>2. task[u].handle \in Handle /\ handles[task[u].handle] = "new"
                    BY <4>1, <5>1 DEF Uses, Fetched, Asking, Awaiting, Leaving
                <5>3. task[u].handle = task[t].handle
                    BY <1>5, <2>2, <5>1, <5>2 DEF OneInbound, Fetched, SideOf
                <5> QED
                    BY <2>2, <5>2, <5>3
            <4>3. ~Asked(u)
                BY <4>2 DEF Fetched, Asked
            <4> QED
                BY <1>2, <4>1, <4>2, <4>3 DEF Uses, Asking, Fetched, Asked, SideOf
        <3> QED
            BY <3>1, <3>2
    <2>5. AskedApart'
        BY <1>3, <2>4 DEF AskedApart, Seated, Asking
    <2>6. ~InOpen' /\ (Dead' => Dead) /\ (NoStart' <=> NoStart)
        BY <1>2, <1>3, <2>1, <2>3 DEF InOpen, Dead, Over, NoStart
    <2>7. Live' /\ Joinable'
        BY <1>2, <2>1, <2>6 DEF Seated, Live, Joinable, LineStays, Over
    <2> QED
        BY <1>2, <2>1, <2>4, <2>5, <2>6, <2>7 DEF Seated, HasQueue, QueueClosed
<1> QED
    BY <1>4, <1>5

(* An attach that failed: its handle is dropped, with its queue or before  *)
(* the detach that follows erases it.                                      *)
LEMMA DroppedSeated ==
    ASSUME OneInbound, Lasting, Seated, LineStays, NEW t \in Thread,
           task[t].at = "settled", Calls(t) = "attach", Running, UNCHANGED reader,
           client' = client \/ client' = Erased(client, SideOf(t)),
           Drops(t), Goes(t, "detach") \/ \E thrown : GoesOn(t, "detach", thrown)
    PROVE Seated'
<1> DEFINE h == task[t].handle
<1>1. Whole(client) /\ TaskRecords /\ Uses(t) /\ ~Over
    BY DEF Lasting, Records, Seated, Running, Over
<1>2. Asking(t) /\ h \in Handle /\ handles[h] = "new"
    BY <1>1 DEF Uses, Asking, Leaving, Calls
<1>3. /\ task'[t].at = "detach" /\ task'[t].call = "attach" /\ task'[t].handle = h
      /\ \A u \in Thread : u # t => task'[u] = task[u]
    BY <1>1 DEF Goes, GoesOn, TaskRecords, Calls
<1> HIDE DEF h
<1>4. /\ DOMAIN handles' = Handle /\ handles'[h] = "dropped"
      /\ \A g \in Handle : g # h => handles'[g] = handles[g]
    BY <1>2 DEF Drops, Seated, h
<1>5. /\ client'.connected = client.connected /\ client'.shutdown = client.shutdown
      /\ client'.joinable = client.joinable /\ client'.process = client.process
      /\ client'.running = client.running /\ client'.valid = client.valid
      /\ client'.store = client.store
      /\ client'.queues["in"] = client.queues["in"] \/ SideOf(t) = "in"
    BY <1>1 DEF Erased, Inbound, Whole, Stored
<1>6. ASSUME NEW u \in Thread
      PROVE /\ Uses(u)' /\ (Fetched(u)' => Fetched(u)) /\ (Asked(u)' => Asked(u))
            /\ (Asking(u)' => Asking(u) /\ task'[u].handle = task[u].handle)
            /\ SideOf(t) = "in" => ~Fetched(u)'
    <2>1. CASE u = t
        BY <1>2, <1>3, <1>4, <2>1 DEF Uses, Asking, Fetched, Asked, Awaiting, Leaving, h
    <2>2. CASE u # t
        <3>1. Uses(u) /\ task'[u] = task[u]
            BY <1>3, <2>2 DEF Seated
        <3>2. Asking(u) => task[u].handle # h
            BY <1>2, <2>2 DEF Seated, AskedApart, h
        <3>3. task[u].handle \in Handle /\ task[u].handle # h =>
                handles'[task[u].handle] = handles[task[u].handle]
            BY <1>4
        <3>4. task[u].handle \in Handle /\ handles[task[u].handle] \in {"open", "closed", "dropped"} =>
                task[u].handle # h
            BY <1>2
        <3>5. Uses(u)'
            BY <3>1, <3>2, <3>3, <3>4 DEF Uses, Asking
        <3>6. SideOf(t) = "in" => ~Fetched(u)
            <4> SUFFICES ASSUME SideOf(t) = "in", Fetched(u) PROVE FALSE
                OBVIOUS
            <4>1. Asking(u) /\ task[u].handle \in Handle /\ Side[task[u].handle] = "in"
                BY <3>1 DEF Fetched, Asking, Uses, Awaiting, Leaving, SideOf
            <4>2. task[u].handle = h
                BY <1>2, <4>1 DEF OneInbound, SideOf, h
            <4> QED
                BY <3>2, <4>1, <4>2
        <3> QED
            BY <3>1, <3>5, <3>6 DEF Asking, Fetched, Asked, SideOf
    <2> QED
        BY <2>1, <2>2
<1>7. AskedApart'
    BY <1>6 DEF AskedApart, Seated
<1>8. /\ InOpen' => InOpen /\ SideOf(t) # "in"
      /\ (Dead' => Dead) /\ (NoStart' <=> NoStart)
    <2>1. InOpen' => InOpen
        BY <1>4 DEF InOpen
    <2>2. SideOf(t) = "in" => ~InOpen'
        BY <1>2, <1>4 DEF InOpen, OneInbound, SideOf, h
    <2> QED
        BY <1>3, <1>5, <2>1, <2>2 DEF Dead, Over, NoStart
<1>9. Live' /\ Joinable'
    BY <1>5, <1>8 DEF Seated, Live, Joinable, LineStays, Over
<1>10. \A u \in Thread : Asked(u)' => Fetched(u)'
    BY DEF Asked, Fetched
<1>11. HasQueue'
    BY <1>5, <1>6, <1>8 DEF HasQueue, Seated
<1>12. QueueClosed'
    BY <1>5, <1>6, <1>8, <1>10 DEF QueueClosed, Seated
<1> QED
    BY <1>4, <1>6, <1>7, <1>9, <1>11, <1>12 DEF Seated

LEMMA RefusedSeated ==
    ASSUME OneInbound, Lasting, Seated, LineStays, NEW t \in Thread, Refused(t) \/ Abandon(t)
    PROVE Seated'
<1>1. TaskRecords /\ task[t].at = "settled" /\ Running /\ UNCHANGED reader
    BY DEF Lasting, Records, Refused, Abandon, At
<1>2. CASE Calls(t) = "attach"
    <2>1. CASE Refused(t)
        <3>1. client' = Erased(client, SideOf(t)) /\ Drops(t) /\ GoesOn(t, "detach", "refused")
            BY <1>2, <2>1 DEF Refused, Offering
        <3> QED
            BY <1>1, <1>2, <3>1, DroppedSeated
    <2>2. CASE Abandon(t)
        <3>1. client' = client /\ Drops(t) /\ Goes(t, "detach")
            BY <2>2 DEF Abandon
        <3> QED
            BY <1>1, <1>2, <3>1, DroppedSeated
    <2> QED
        BY <2>1, <2>2
<1>3. CASE Calls(t) # "attach"
    <2>1. /\ UNCHANGED <<client, handles>>
          /\ GoesOn(t, "replied", "refused") \/ Returns(t, "refused")
        BY <1>3 DEF Refused, Abandon
    <2>2. TasksGoOn
        BY <1>1, <1>3, <2>1, FaultGoesOn, ReturnsGoOn DEF Leaving, Refused, Abandon, Offering
    <2> QED
        BY <1>1, <2>1, <2>2, NothingStays, StaysSeated
<1> QED
    BY <1>2, <1>3

(* The connection ends, and then the queues are closed.                    *)
LEMMA EndSeated == ASSUME Lasting, Seated, ReaderCloses \/ ReaderEnds PROVE Seated'
<1>1. Whole(client) /\ UNCHANGED <<task, handles, socket>> /\ ~Over
    BY DEF Lasting, Records, ReaderCloses, ReaderEnds, ReaderAt, Running, Over
<1>2. /\ \A t \in Thread : Uses(t)' /\ (Fetched(t)' <=> Fetched(t)) /\ (Asked(t)' <=> Asked(t))
      /\ AskedApart' /\ (InOpen' <=> InOpen) /\ (NoStart' <=> NoStart)
    BY <1>1 DEF Seated, Uses, Asking, Fetched, Asked, SideOf, AskedApart, InOpen, NoStart
<1>3. CASE ReaderCloses
    <2>1. /\ client'.queues = client.queues /\ client'.shutdown = client.shutdown
          /\ client'.joinable = client.joinable /\ ~client'.connected
          /\ reader.at = "closing" /\ reader'.at = "closed"
        BY <1>1, <1>3 DEF ReaderCloses, ReaderAt, Whole, Lasting, Records
    <2>2. Live' /\ Joinable'
        BY <1>1, <1>2, <2>1 DEF Seated, Live, Joinable, Reads, Ending
    <2> QED
        BY <1>1, <1>2, <2>1, <2>2 DEF Seated, HasQueue, QueueClosed
<1>4. CASE ReaderEnds
    <2>1. /\ client' = close_all_queues(client)
          /\ reader.at = "closed" /\ reader'.at = "ended" /\ ~Over
        BY <1>4 DEF ReaderEnds, ClosedBehind, ReaderAt, Running, Over, Lasting, Records
    <2>2. /\ client'.queues = client.queues /\ client'.shutdown = client.shutdown
          /\ client'.joinable = client.joinable /\ client'.connected = client.connected
          /\ client'.store = [q \in DOMAIN client.store |->
               IF \E side \in Inbound : client.queues[side] = q
               THEN [client.store[q] EXCEPT !.closed = TRUE] ELSE client.store[q]]
        BY <1>1, <2>1 DEF Whole, close_all_queues
    <2>3. Dead' => Dead
        BY <1>2, <2>1, <2>2 DEF Dead
    <2>4. ASSUME Dead', InOpen' \/ \E t \in Thread : Asked(t)'
          PROVE client'.store[client'.queues["in"]].closed
        <3> DEFINE q == client.queues["in"]
        <3>1. \A t \in Thread : Asked(t) => Fetched(t)
            BY DEF Asked, Fetched
        <3>2. q # NoQueue
            BY <1>2, <2>4, <3>1 DEF Seated, HasQueue
        <3>3. /\ q \in 1..Len(client.store) /\ DOMAIN client.store = 1..Len(client.store)
              /\ DOMAIN client.store[q] = {"items", "closed"}
            BY <1>1, <3>2 DEF Whole, Stored, Inbound, NoQueue
        <3>4. client'.store[q] = [client.store[q] EXCEPT !.closed = TRUE]
            BY <2>2, <3>3 DEF Inbound
        <3> QED
            BY <2>2, <3>3, <3>4
    <2>5. Live' /\ Joinable'
        BY <1>1, <1>2, <2>1, <2>2 DEF Seated, Live, Joinable, Reads, Ending
    <2> QED
        BY <1>1, <1>2, <2>1, <2>2, <2>3, <2>4, <2>5 DEF Seated, HasQueue, QueueClosed
<1> QED
    BY <1>3, <1>4

(* Where the program hangs up nobody waits.                                *)
LEMMA HangUpSeated ==
    ASSUME Lasting, Seated, NEW t \in Thread, Disconnect(t) \/ HangUp(t) \/ CloseAndJoin(t)
    PROVE Seated'
<1>1. Whole(client) /\ TaskRecords /\ Placed(t) /\ UNCHANGED handles
    BY DEF Lasting, Records, Disconnect, HangUp, CloseAndJoin
<1>2. client'.shutdown /\ client'.queues = client.queues
    <2>1. CASE Disconnect(t)
        BY <1>1, <2>1 DEF Disconnect, Whole
    <2>2. CASE HangUp(t)
        BY <1>1, <2>2 DEF HangUp, At, Placed, AtTheEnd, Whole
    <2>3. CASE CloseAndJoin(t)
        BY <1>1, <2>3 DEF CloseAndJoin, close_all_queues, At, Placed, AtTheEnd, Whole
    <2> QED
        BY <2>1, <2>2, <2>3
<1>3. /\ \A u \in Thread : u # t => task'[u] = task[u]
      /\ \/ task'[t] = task[t]
         \/ task'[t].call = "disconnect" /\ task'[t].at = "hangup"
         \/ /\ task[t].at = "hangup" /\ task'[t].at = "join" /\ task'[t].call = task[t].call
            /\ task'[t].handle = task[t].handle
    <2>1. CASE Disconnect(t)
        BY <1>1, <2>1 DEF Disconnect, NoTask, TaskRecords
    <2>2. CASE HangUp(t)
        BY <1>1, <2>2 DEF HangUp, At, Goes, TaskRecords
    <2>3. CASE CloseAndJoin(t)
        BY <2>3 DEF CloseAndJoin
    <2> QED
        BY <2>1, <2>2, <2>3
<1>4. ASSUME NEW u \in Thread
      PROVE Uses(u)' /\ (Fetched(u)' => Fetched(u))
            /\ (Asking(u)' => Asking(u) /\ task'[u].handle = task[u].handle)
    <2>1. Uses(u)
        BY DEF Seated
    <2> QED
        BY <1>1, <1>3, <2>1 DEF Uses, Asking, Fetched, Awaiting, Leaving, SideOf
<1>5. AskedApart' /\ ~Dead'
    BY <1>2, <1>4 DEF AskedApart, Seated, Dead
<1> QED
    BY <1>1, <1>2, <1>4, <1>5 DEF Seated, HasQueue, InOpen, Joinable, Live, QueueClosed

(* It holds at first, and every step keeps it.                             *)
LEMMA InitSeated == Init => Seated
<1> SUFFICES ASSUME Init PROVE Seated
    OBVIOUS
<1>1. /\ reader.at = "none" /\ DOMAIN handles = Handle
      /\ \A h \in Handle : handles[h] = "new"
      /\ \A t \in Thread : task[t].at = "idle"
    BY DEF Init, NoTask
<1> QED
    BY <1>1 DEF Seated, Uses, Asking, Fetched, Asked, AskedApart, HasQueue, InOpen, Joinable,
                Live, Reads, Ending, Leaving, NoStart, QueueClosed, Dead

LEMMA NextSeated ==
    ASSUME OneInbound, Lasting, Seated, [Next]_vars PROVE Seated'
<1>5. CASE \E t \in Thread : Connect(t)
    BY <1>5, ConnectSeated
<1>6. CASE \A t \in Thread : ~Connect(t)
  <2>1. LineStays
    BY <1>6, LineHolds
  <2>2. CASE Hub \/ ReaderLoop
    BY <2>1, <2>2, OthersSeated, EndSeated DEF ReaderLoop
  <2>3. ASSUME NEW t \in Thread, Work(t) PROVE Seated'
    BY <1>6, <2>1, <2>3, SilentSeated, RequestSeated, WritersSeated, QueueSeated, PumpSeated,
       OwnSeated, StartSeated, DoneSeated, RefusedSeated, ForgetSeated, HangUpSeated
       DEF Work, Settle
  <2>4. ASSUME NEW t \in Thread, Call(t) \/ Disconnect(t) PROVE Seated'
    BY <2>4, CallSeated, HangUpSeated
  <2>5. CASE UNCHANGED vars
    BY <2>1, <2>5, NothingStays, StaysSeated DEF vars
  <2> QED
    BY <2>2, <2>3, <2>4, <2>5 DEF Next
<1> QED
    BY <1>5, <1>6

(***************************************************************************)
(* Whatever the threads and the hub do, a thread that waits in             *)
(* receive_bytes after the reader has ended finds its queue closed,        *)
(* whether the reader came to close_all_queues before it looked or later,  *)
(* on condition that every inbound pipe is opened by one handle: the       *)
(* detach of a second one would take the queue away from the first.        *)
(***************************************************************************)
THEOREM WaitingEnds == ASSUME OneInbound PROVE Spec => []NobodyWaitsForTheDead
<1>1. Init => Lasting /\ Seated
    BY InitLasting, InitSeated
<1>2. Lasting /\ Seated /\ [Next]_vars => (Lasting /\ Seated)'
    BY NextLasting, NextSeated
<1>3. Lasting /\ Seated => NobodyWaitsForTheDead
    <2> SUFFICES ASSUME Lasting, Seated, ~Over, reader.at = "ended", NoStart,
                        NEW t \in Thread, task[t].at = "wait",
                        task[t].queue = client.queues["in"]
                 PROVE client.store[task[t].queue].closed
        BY DEF NobodyWaitsForTheDead, NoStart
    <2>1. Placed(t) /\ Uses(t)
        BY DEF Lasting, Seated
    <2>2. ~client.shutdown
        BY <2>1 DEF Placed, AtTheEnd
    <2>3. InOpen
        BY <2>1 DEF Uses, InOpen
    <2> QED
        BY <2>2, <2>3 DEF Seated, QueueClosed, Dead
<1> QED
    BY <1>1, <1>2, <1>3, PTL DEF Spec


-----------------------------------------------------------------------------
(* Whose answer it is.  A thread that asks holds connection_mutex_ until   *)
(* it has its answer; as long as the hub lives, and has answered nothing   *)
(* that nobody waits for, no request and no answer of an earlier call is   *)
(* on the way then.  What the thread makes of the answer it does without   *)
(* the mutex, and a thread that asks meanwhile marks it `overlapped`.      *)

Ackable == {"attach", "publish", "channel_send", "channel_offer"}
Replies == {"Ack", "Error", "ChannelAccept", "ChannelBusy"}
InTalk == {"pump", "answered", "checked", "settled", "replied", "opcode"}
Busy == InTalk \cup {"reserve", "request"}
Calm == ~hub.died /\ ~hub.stray

(* Requests on their way to the hub, and answers on their way back.        *)
UpAsks(s) == {i \in DOMAIN s : s[i].kind \in Ackable}
DownReplies(s) == {i \in DOMAIN s : s[i][2].kind \in Replies}
OneAsk(s) == \A i, j \in UpAsks(s) : i = j
OneReply(s) == \A i, j \in DownReplies(s) : s[i][1] = "head" /\ s[j][1] = "head" => i = j
Paired(s) ==
  \A i \in DOMAIN s :
    /\ s[i][1] \in {"head", "body"}
    /\ s[i][1] = "head" => i + 1 \in DOMAIN s /\ s[i + 1] = <<"body", s[i][2]>>
    /\ s[i][1] = "body" /\ i > 1 => s[i - 1] = <<"head", s[i][2]>>
NoReplies(s) == \A i \in DOMAIN s : s[i].kind \notin Replies

(* Who holds the mutex, and what a thread may ask.                         *)
IsSeq(s) == Len(s) \in Nat /\ s = [i \in 1..Len(s) |-> s[i]]
Shape(t) ==
  /\ task[t].at = "pump" <=> client.mutex = t
  /\ task[t].at \in InTalk \cup {"request"} => task[t].call \in Ackable
  /\ task[t].at = "checked" => ~Offering(t)
  /\ task[t].at \in {"replied", "opcode"} => Offering(t)
  /\ task[t].at = "reserve" => task[t].call = "attach"
  /\ task[t].at \in {"find", "wait"} => task[t].call = "receive"
  /\ task[t].at \in Leaving => task[t].call \in {"detach", "attach"}
  /\ task[t].at # "idle" => task[t].result = None
Seqs ==
  /\ IsSeq(socket.up) /\ IsSeq(socket.down) /\ IsSeq(reader.held)
  /\ Paired(socket.down)
  /\ reader.at = "handle" => reader.held # <<>>
Shapes ==
  /\ Seqs
  /\ client.mutex \in Thread \cup {None}
  /\ DOMAIN hub.said = Thread
  /\ \A t \in Thread : Shape(t)

(* What is on the way belongs to the thread that waits.                    *)
Quiet == UpAsks(socket.up) = {} /\ DownReplies(socket.down) = {} /\ hub.offers = <<>>
AckWait(t) == task[t].at = "pump" /\ ~Offering(t)
Fits(t, kind) == kind \in IF Offering(t) THEN {"ChannelAccept", "ChannelBusy", "Error"}
                                        ELSE {"Ack", "Error"}
Line(t) ==
  /\ OneAsk(socket.up) /\ OneReply(socket.down)
  /\ \A i \in UpAsks(socket.up) :
       socket.up[i].of = t /\ socket.up[i].kind = Calls(t) /\ hub.said[t] = None
         /\ hub.offers = <<>>
  /\ hub.offers # <<>> => hub.offers = <<t>> /\ Offering(t) /\ hub.said[t] = None
  /\ \A i \in DownReplies(socket.down) :
       /\ socket.down[i][2].of = t /\ socket.down[i][2].kind = hub.said[t]
       /\ Fits(t, hub.said[t])
       /\ UpAsks(socket.up) = {} /\ hub.offers = <<>>
  /\ Offering(t) /\ (client.channel_received \/ client.ack_error # NoError) =>
       hub.said[t] # None /\ DownReplies(socket.down) = {}
Lines ==
  /\ NoReplies(reader.held)
  /\ client.mutex = None => Quiet
  /\ \A t \in Thread : task[t].at = "pump" => Line(t)

(* The flags of a thread that nobody has overlapped are its answer's.      *)
Sole(t) == \A u \in Thread : task[u].at \in InTalk => u = t
Told(t) ==
  \/ hub.said[t] = "Ack" /\ client.ack_error = NoError
  \/ hub.said[t] = "Error" /\ client.ack_error # NoError
OfferTold(t) ==
  /\ client.channel_received
  /\ \/ client.ack_error = NoError /\ client.channel_reply = hub.said[t]
          /\ hub.said[t] \in {"ChannelAccept", "ChannelBusy"}
     \/ client.ack_error # NoError /\ client.channel_reply = "Ack" /\ hub.said[t] = "Error"
Unanswered ==
  ~client.channel_received /\ client.channel_reply = "Ack" /\ client.ack_error = NoError
Replied(t) ==
  /\ client.channel_received
  /\ IF task[t].fault = "refused" THEN hub.said[t] = "Error" /\ client.channel_reply = "Ack"
     ELSE client.channel_reply = hub.said[t] /\ hub.said[t] \in {"ChannelAccept", "ChannelBusy"}
Faultless(t) ==
  \/ task[t].fault = None
  \/ task[t].fault = "unexpected" /\ Calls(t) = "channel_send"
  \/ task[t].fault = "refused" /\ task[t].at \in {"replied", "opcode"}
Returned(t) ==
  /\ task[t].result = "done" => hub.said[t] = "Ack"
  /\ task[t].result = "refused" => hub.said[t] = "Error"
  /\ task[t].result # "noreply"
Own(t) ==
  /\ task[t].at \in InTalk => Sole(t)
  /\ task[t].at \in Busy \cup {"ensure", "start"} => Faultless(t)
  /\ AckWait(t) => client.waiting_for_ack
  /\ task[t].at = "pump" /\ Offering(t) =>
       client.waiting_for_channel /\ (Unanswered \/ OfferTold(t))
  /\ task[t].at \in {"answered", "checked", "settled"} =>
       IF Offering(t) THEN OfferTold(t) ELSE client.ack_received /\ Told(t)
  /\ task[t].at \in {"replied", "opcode"} => Replied(t)
  /\ task[t].at \in Leaving /\ task[t].call = "attach" =>
       task[t].fault = "refused" /\ hub.said[t] = "Error"
  /\ task[t].at = "idle" /\ task[t].call \in Requests \cup {"channel_send"} => Returned(t)
Online(t) == task[t].at \in Busy => client.connected
Fresh(t) == AckWait(t) => ~client.ack_received /\ client.ack_error = NoError
Answers(t) == Online(t) /\ Fresh(t) /\ (~task[t].overlapped => Own(t))
Flags == \A t \in Thread : Answers(t)
Talk == Shapes /\ (Calm => Lines /\ Flags)

-----------------------------------------------------------------------------
(* Sequences.                                                              *)

LEMMA SeqSet ==
    ASSUME NEW s, IsSeq(s)
    PROVE /\ s \in Seq({s[i] : i \in 1..Len(s)}) /\ Len(s) \in Nat
          /\ DOMAIN s = 1..Len(s)
<1> DEFINE S == {s[i] : i \in 1..Len(s)}
<1>1. s \in [1..Len(s) -> S] /\ Len(s) \in Nat
    BY DEF IsSeq
<1>2. s \in Seq(S)
    BY <1>1, SeqDef
<1>3. DOMAIN s = 1..Len(s)
    BY <1>1
<1> QED
    BY <1>1, <1>2, <1>3

LEMMA EmptyIsSeq == IsSeq(<<>>) /\ Len(<<>>) = 0 /\ DOMAIN <<>> = {}
BY DEF IsSeq

LEMMA SeqIsSeq ==
    ASSUME NEW S, NEW s \in Seq(S)
    PROVE IsSeq(s) /\ DOMAIN s = 1..Len(s)
<1>1. Len(s) \in Nat /\ s \in [1..Len(s) -> S]
    BY LenProperties
<1> QED
    BY <1>1 DEF IsSeq

LEMMA SeqAppended ==
    ASSUME NEW s, IsSeq(s), NEW e
    PROVE /\ IsSeq(Append(s, e)) /\ DOMAIN Append(s, e) = 1..(Len(s) + 1)
          /\ \A i \in 1..Len(s) : Append(s, e)[i] = s[i]
          /\ Append(s, e)[Len(s) + 1] = e
<1> DEFINE S == {s[i] : i \in 1..Len(s)} \cup {e}
<1>1. s \in [1..Len(s) -> S] /\ Len(s) \in Nat
    BY DEF IsSeq
<1>2. s \in Seq(S) /\ e \in S
    BY <1>1, SeqDef
<1> HIDE DEF S
<1>3. /\ Append(s, e) \in Seq(S) /\ Len(Append(s, e)) = Len(s) + 1
      /\ \A i \in 1..Len(s) : Append(s, e)[i] = s[i]
      /\ Append(s, e)[Len(s) + 1] = e
    BY <1>2, AppendProperties
<1> QED
    BY <1>3, SeqIsSeq

LEMMA SeqTail ==
    ASSUME NEW s, IsSeq(s), s # <<>>
    PROVE /\ IsSeq(Tail(s)) /\ Len(s) >= 1 /\ Head(s) = s[1] /\ 1 \in DOMAIN s
          /\ Len(Tail(s)) = Len(s) - 1 /\ DOMAIN Tail(s) = 1..(Len(s) - 1)
          /\ \A i \in 1..(Len(s) - 1) : Tail(s)[i] = s[i + 1]
<1> DEFINE S == {s[i] : i \in 1..Len(s)}
<1>1. s \in Seq(S) /\ Len(s) \in Nat /\ DOMAIN s = 1..Len(s)
    BY SeqSet
<1> HIDE DEF S
<1>2. /\ Tail(s) \in Seq(S) /\ Len(Tail(s)) = Len(s) - 1 /\ Head(s) = s[1]
      /\ \A i \in 1..Len(Tail(s)) : Tail(s)[i] = s[i + 1]
      /\ Len(s) # 0
    BY <1>1, HeadTailProperties, EmptySeq
<1>3. IsSeq(Tail(s)) /\ DOMAIN Tail(s) = 1..Len(Tail(s))
    BY <1>2, SeqIsSeq
<1>4. Len(s) >= 1 /\ 1 \in 1..Len(s)
    BY <1>1, <1>2
<1> QED
    BY <1>1, <1>2, <1>3, <1>4

LEMMA SeqJoined ==
    ASSUME NEW s, IsSeq(s), NEW a, NEW b
    PROVE LET t == s \o <<a, b>>
          IN  /\ IsSeq(t) /\ DOMAIN t = 1..(Len(s) + 2)
              /\ \A i \in 1..Len(s) : t[i] = s[i]
              /\ t[Len(s) + 1] = a /\ t[Len(s) + 2] = b
<1> DEFINE S == {s[i] : i \in 1..Len(s)} \cup {a, b}
           p == <<a, b>>
<1>1. s \in [1..Len(s) -> S] /\ Len(s) \in Nat
    BY DEF IsSeq
<1>2. s \in Seq(S)
    BY <1>1, SeqDef
<1>3. p \in Seq(S) /\ Len(p) = 2 /\ p[1] = a /\ p[2] = b
    OBVIOUS
<1> HIDE DEF S, p
<1>4. /\ s \o p \in Seq(S) /\ Len(s \o p) = Len(s) + Len(p)
      /\ \A i \in 1..(Len(s) + Len(p)) : (s \o p)[i] = IF i <= Len(s) THEN s[i] ELSE p[i - Len(s)]
    BY <1>2, <1>3, ConcatProperties
<1>5. (s \o p)[Len(s) + 1] = a /\ (s \o p)[Len(s) + 2] = b
    <2>1. /\ Len(s) + 1 \in 1..(Len(s) + Len(p)) /\ Len(s) + 2 \in 1..(Len(s) + Len(p))
          /\ ~(Len(s) + 1 <= Len(s)) /\ ~(Len(s) + 2 <= Len(s))
          /\ Len(s) + 1 - Len(s) = 1 /\ Len(s) + 2 - Len(s) = 2
        BY <1>1, <1>3
    <2> QED
        BY <1>3, <1>4, <2>1
<1>6. \A i \in 1..Len(s) : (s \o p)[i] = s[i]
    BY <1>1, <1>3, <1>4
<1> QED
    BY <1>3, <1>4, <1>5, <1>6, SeqIsSeq DEF p

LEMMA SeqCut ==
    ASSUME NEW s, IsSeq(s), NEW n \in 1..Len(s)
    PROVE LET a == SubSeq(s, 1, n)
              b == SubSeq(s, n + 1, Len(s))
          IN  /\ IsSeq(a) /\ Len(a) = n /\ \A i \in 1..n : a[i] = s[i]
              /\ IsSeq(b) /\ DOMAIN b = 1..(Len(s) - n)
              /\ \A i \in 1..(Len(s) - n) : b[i] = s[i + n]
<1> DEFINE S == {s[i] : i \in 1..Len(s)}
           a == SubSeq(s, 1, n)
           b == SubSeq(s, n + 1, Len(s))
<1>1. /\ s \in Seq(S) /\ Len(s) \in Nat
      /\ \A i \in 1..n : s[i] \in S
      /\ \A i \in (n + 1)..Len(s) : s[i] \in S
    <2>1. s \in Seq(S) /\ Len(s) \in Nat
        BY SeqSet
    <2> QED
        BY <2>1
<1> HIDE DEF S
<1>2. /\ a \in Seq(S) /\ Len(a) = n /\ \A i \in 1..n : a[i] = s[i]
    <2>1. /\ a \in Seq(S) /\ Len(a) = (IF 1 <= n THEN n - 1 + 1 ELSE 0)
          /\ \A i \in 1..(n - 1 + 1) : a[i] = s[1 + i - 1]
        BY <1>1, SubSeqProperties
    <2> QED
        BY <1>1, <2>1
<1>3. /\ b \in Seq(S) /\ Len(b) = Len(s) - n /\ \A i \in 1..(Len(s) - n) : b[i] = s[i + n]
    <2>1. /\ b \in Seq(S) /\ Len(b) = (IF n + 1 <= Len(s) THEN Len(s) - (n + 1) + 1 ELSE 0)
          /\ \A i \in 1..(Len(s) - (n + 1) + 1) : b[i] = s[n + 1 + i - 1]
        BY <1>1, SubSeqProperties
    <2> QED
        BY <1>1, <2>1
<1> QED
    BY <1>2, <1>3, SeqIsSeq

-----------------------------------------------------------------------------
(* What is on the way, or less of it.                                      *)

FewerAsks(s, t) ==
  /\ OneAsk(s) => OneAsk(t)
  /\ \A i \in UpAsks(t) : \E j \in UpAsks(s) : t[i] = s[j]
FewerReplies(s, t) ==
  /\ Paired(s) => Paired(t)
  /\ OneReply(s) => OneReply(t)
  /\ \A i \in DownReplies(t) : \E j \in DownReplies(s) : t[i] = s[j]

(* A word that asks for nothing.                                           *)
LEMMA WordAppended ==
    ASSUME NEW s, IsSeq(s), NEW f, f.kind \notin Ackable
    PROVE IsSeq(Append(s, f)) /\ FewerAsks(s, Append(s, f))
<1> DEFINE t == Append(s, f)
<1>1. /\ IsSeq(t) /\ DOMAIN t = 1..(Len(s) + 1) /\ Len(s) \in Nat /\ DOMAIN s = 1..Len(s)
      /\ \A i \in 1..Len(s) : t[i] = s[i]
      /\ t[Len(s) + 1] = f
    BY SeqAppended, SeqSet
<1> HIDE DEF t
<1>2. \A i \in UpAsks(t) : i \in UpAsks(s) /\ t[i] = s[i]
    BY <1>1 DEF UpAsks
<1> QED
    BY <1>1, <1>2 DEF FewerAsks, OneAsk, t

LEMMA RequestAppended ==
    ASSUME NEW s, IsSeq(s), NEW f, UpAsks(s) = {}
    PROVE /\ IsSeq(Append(s, f)) /\ OneAsk(Append(s, f))
          /\ \A i \in UpAsks(Append(s, f)) : Append(s, f)[i] = f
<1> DEFINE t == Append(s, f)
<1>1. /\ IsSeq(t) /\ DOMAIN t = 1..(Len(s) + 1) /\ Len(s) \in Nat /\ DOMAIN s = 1..Len(s)
      /\ \A i \in 1..Len(s) : t[i] = s[i]
      /\ t[Len(s) + 1] = f
    BY SeqAppended, SeqSet
<1> HIDE DEF t
<1>2. \A i \in UpAsks(t) : i = Len(s) + 1
    BY <1>1 DEF UpAsks
<1> QED
    BY <1>1, <1>2 DEF OneAsk, t

(* What the hub has read is gone.                                          *)
LEMMA FrameRead ==
    ASSUME NEW s, IsSeq(s), s # <<>>
    PROVE /\ IsSeq(Tail(s)) /\ FewerAsks(s, Tail(s))
          /\ Head(s).kind \in Ackable =>
               /\ 1 \in UpAsks(s) /\ s[1] = Head(s)
               /\ OneAsk(s) => UpAsks(Tail(s)) = {}
<1> DEFINE t == Tail(s)
<1>1. /\ IsSeq(t) /\ Len(s) \in Nat /\ Head(s) = s[1] /\ 1 \in DOMAIN s
      /\ DOMAIN s = 1..Len(s) /\ DOMAIN t = 1..(Len(s) - 1)
      /\ \A i \in 1..(Len(s) - 1) : t[i] = s[i + 1]
    BY SeqTail, SeqSet
<1> HIDE DEF t
<1>2. \A i \in UpAsks(t) : i \in Nat /\ i + 1 \in UpAsks(s) /\ t[i] = s[i + 1] /\ i + 1 # 1
    BY <1>1 DEF UpAsks
<1>3. OneAsk(s) => OneAsk(t)
    BY <1>2 DEF OneAsk
<1>4. Head(s).kind \in Ackable => 1 \in UpAsks(s)
    BY <1>1 DEF UpAsks
<1>5. OneAsk(s) /\ 1 \in UpAsks(s) => UpAsks(t) = {}
    BY <1>2 DEF OneAsk
<1> QED
    BY <1>1, <1>2, <1>3, <1>4, <1>5 DEF FewerAsks, t

(* What the hub writes comes in two pieces.                                *)
LEMMA FrameWritten ==
    ASSUME NEW s, IsSeq(s), NEW f
    PROVE LET t == s \o Pieces(f)
          IN  /\ IsSeq(t)
              /\ Paired(s) => Paired(t)
              /\ f.kind \notin Replies => FewerReplies(s, t)
              /\ DownReplies(s) = {} => OneReply(t) /\ \A i \in DownReplies(t) : t[i][2] = f
<1> DEFINE a == <<"head", f>>
           b == <<"body", f>>
           t == s \o <<a, b>>
<1>1. /\ IsSeq(t) /\ DOMAIN t = 1..(Len(s) + 2) /\ Len(s) \in Nat /\ DOMAIN s = 1..Len(s)
      /\ \A i \in 1..Len(s) : t[i] = s[i]
      /\ t[Len(s) + 1] = a /\ t[Len(s) + 2] = b
    BY SeqJoined, SeqSet
<1>2. a[1] = "head" /\ b[1] = "body" /\ a[2] = f /\ b[2] = f /\ s \o Pieces(f) = t
    BY DEF Pieces
<1> HIDE DEF t
<1>3. Paired(s) => Paired(t)
    <2> SUFFICES ASSUME Paired(s), NEW i \in DOMAIN t
                 PROVE /\ t[i][1] \in {"head", "body"}
                       /\ t[i][1] = "head" => i + 1 \in DOMAIN t /\ t[i + 1] = <<"body", t[i][2]>>
                       /\ t[i][1] = "body" /\ i > 1 => t[i - 1] = <<"head", t[i][2]>>
        BY DEF Paired
    <2>1. CASE i \in 1..Len(s)
        <3>1. t[i] = s[i] /\ s[i][1] \in {"head", "body"}
            BY <1>1, <2>1 DEF Paired
        <3>2. s[i][1] = "head" => i + 1 \in 1..Len(s) /\ s[i + 1] = <<"body", s[i][2]>>
            BY <1>1, <2>1 DEF Paired
        <3>3. s[i][1] = "body" /\ i > 1 => i - 1 \in 1..Len(s) /\ s[i - 1] = <<"head", s[i][2]>>
            BY <1>1, <2>1 DEF Paired
        <3> QED
            BY <1>1, <3>1, <3>2, <3>3
    <2>2. CASE i = Len(s) + 1
        <3>1. t[i] = a /\ i + 1 = Len(s) + 2 /\ i + 1 \in DOMAIN t
            BY <1>1, <2>2
        <3> QED
            BY <1>1, <1>2, <3>1
    <2>3. CASE i = Len(s) + 2
        <3>1. t[i] = b /\ i - 1 = Len(s) + 1
            BY <1>1, <2>3
        <3> QED
            BY <1>1, <1>2, <3>1
    <2> QED
        BY <1>1, <2>1, <2>2, <2>3
<1>4. ASSUME f.kind \notin Replies PROVE FewerReplies(s, t)
    <2>1. \A i \in DownReplies(t) : i \in DownReplies(s) /\ t[i] = s[i]
        BY <1>1, <1>2, <1>4 DEF DownReplies
    <2> QED
        BY <1>3, <2>1 DEF FewerReplies, OneReply
<1>5. ASSUME DownReplies(s) = {} PROVE OneReply(t) /\ \A i \in DownReplies(t) : t[i][2] = f
    <2>1. \A i \in DownReplies(t) : i = Len(s) + 1 \/ i = Len(s) + 2
        BY <1>1, <1>5 DEF DownReplies
    <2> QED
        BY <1>1, <1>2, <2>1 DEF OneReply
<1> QED
    BY <1>1, <1>2, <1>3, <1>4, <1>5

(* The reader takes what is there, or its first part.                      *)
LEMMA PiecesTaken ==
    ASSUME NEW s, IsSeq(s), NEW n \in 1..Len(s)
    PROVE LET a == SubSeq(s, 1, n)
              b == SubSeq(s, n + 1, Len(s))
          IN  /\ IsSeq(b) /\ FewerReplies(s, b)
              /\ IsSeq(Bodies(a))
              /\ DownReplies(s) = {} => NoReplies(Bodies(a))
<1> DEFINE a == SubSeq(s, 1, n)
           b == SubSeq(s, n + 1, Len(s))
<1>1. /\ Len(a) = n /\ (\A i \in 1..n : a[i] = s[i])
      /\ IsSeq(b) /\ DOMAIN b = 1..(Len(s) - n)
      /\ \A i \in 1..(Len(s) - n) : b[i] = s[i + n]
      /\ Len(s) \in Nat /\ DOMAIN s = 1..Len(s)
    BY SeqCut, SeqSet
<1> HIDE DEF a, b
<1>2. \A i \in DOMAIN b : i \in Nat /\ i + n \in DOMAIN s /\ b[i] = s[i + n]
    BY <1>1
<1>3. Paired(s) => Paired(b)
    <2> SUFFICES ASSUME Paired(s), NEW i \in DOMAIN b
                 PROVE /\ b[i][1] \in {"head", "body"}
                       /\ b[i][1] = "head" => i + 1 \in DOMAIN b /\ b[i + 1] = <<"body", b[i][2]>>
                       /\ b[i][1] = "body" /\ i > 1 => b[i - 1] = <<"head", b[i][2]>>
        BY DEF Paired
    <2>1. i \in 1..(Len(s) - n) /\ i + n \in 1..Len(s) /\ b[i] = s[i + n]
        BY <1>1
    <2>2. s[i + n][1] \in {"head", "body"}
        BY <1>1, <2>1 DEF Paired
    <2>3. ASSUME s[i + n][1] = "head"
          PROVE i + 1 \in DOMAIN b /\ b[i + 1] = <<"body", s[i + n][2]>>
        <3>1. i + n + 1 \in 1..Len(s) /\ s[i + n + 1] = <<"body", s[i + n][2]>>
            BY <1>1, <2>1, <2>3 DEF Paired
        <3>2. i + 1 \in 1..(Len(s) - n) /\ (i + 1) + n = i + n + 1
            BY <1>1, <2>1, <3>1
        <3> QED
            BY <1>1, <3>1, <3>2
    <2>4. ASSUME s[i + n][1] = "body", i > 1
          PROVE b[i - 1] = <<"head", s[i + n][2]>>
        <3>1. i + n > 1 /\ s[i + n - 1] = <<"head", s[i + n][2]>>
            BY <1>1, <2>1, <2>4 DEF Paired
        <3>2. i - 1 \in 1..(Len(s) - n) /\ (i - 1) + n = i + n - 1
            BY <1>1, <2>1, <2>4
        <3> QED
            BY <1>1, <3>1, <3>2
    <2> QED
        BY <2>1, <2>2, <2>3, <2>4
<1>4. \A i \in DownReplies(b) : i \in Nat /\ i + n \in DownReplies(s) /\ b[i] = s[i + n]
    BY <1>2 DEF DownReplies
<1>5. OneReply(s) => OneReply(b)
    BY <1>4 DEF OneReply
<1> DEFINE first == IF a # <<>> /\ IsBody(Head(a)) THEN 1 ELSE 2
           bodies == Bodies(a)
<1>6. /\ DOMAIN bodies = 1..((n + 2 - first) \div 2)
      /\ bodies = [i \in 1..((n + 2 - first) \div 2) |-> a[first + 2 * (i - 1)][2]]
    BY <1>1 DEF Bodies
<1>7. first \in {1, 2}
    OBVIOUS
<1> HIDE DEF first, bodies
<1>8. (n + 2 - first) \div 2 \in Nat
    BY <1>1, <1>7
<1>9. \A i \in 1..((n + 2 - first) \div 2) : first + 2 * (i - 1) \in 1..n
    BY <1>1, <1>7
<1>10. IsSeq(bodies)
    <2>1. Len(bodies) = (n + 2 - first) \div 2
        BY <1>6, <1>8, LengthOf
    <2> QED
        BY <1>6, <1>8, <2>1 DEF IsSeq
<1>11. ASSUME DownReplies(s) = {} PROVE NoReplies(bodies)
    <2> SUFFICES ASSUME NEW i \in DOMAIN bodies PROVE bodies[i].kind \notin Replies
        BY DEF NoReplies
    <2> DEFINE j == first + 2 * (i - 1)
    <2>1. bodies[i] = a[j][2] /\ j \in 1..n
        BY <1>6, <1>9
    <2> HIDE DEF j
    <2>2. a[j] = s[j] /\ j \in DOMAIN s
        BY <1>1, <2>1
    <2> QED
        BY <1>11, <2>1, <2>2 DEF DownReplies
<1> QED
    BY <1>1, <1>3, <1>4, <1>5, <1>10, <1>11 DEF FewerReplies, a, b, bodies

(* A thread takes a whole frame.                                           *)
LEMMA FrameTaken ==
    ASSUME NEW s, IsSeq(s), s # <<>>, Paired(s), ~IsBody(Head(s))
    PROVE LET t == Tail(Tail(s))
              f == Head(s)[2]
          IN  /\ IsSeq(t) /\ FewerReplies(s, t)
              /\ f.kind \in Replies => 1 \in DownReplies(s) /\ s[1][2] = f
              /\ f.kind \in Replies /\ OneReply(s) => DownReplies(t) = {}
<1> DEFINE f == Head(s)[2]
<1>1. /\ Head(s) = s[1] /\ 1 \in DOMAIN s /\ DOMAIN s = 1..Len(s) /\ Len(s) \in Nat
    BY SeqTail, SeqSet
<1>2. s[1][1] = "head" /\ 2 \in DOMAIN s
    BY <1>1 DEF Paired, IsBody
<1>3. 2 \in 1..Len(s) /\ s[2] = <<"body", s[1][2]>>
    BY <1>1, <1>2 DEF Paired
<1> DEFINE u == Tail(s)
           t == Tail(u)
<1>4. /\ IsSeq(u) /\ Len(u) = Len(s) - 1 /\ DOMAIN u = 1..(Len(s) - 1)
      /\ \A i \in 1..(Len(s) - 1) : u[i] = s[i + 1]
    BY SeqTail
<1> HIDE DEF u
<1>5. u # <<>>
    <2>1. Len(u) # 0
        BY <1>1, <1>3, <1>4
    <2> QED
        BY <2>1, EmptyIsSeq
<1>6. /\ IsSeq(t) /\ DOMAIN t = 1..(Len(u) - 1) /\ \A i \in 1..(Len(u) - 1) : t[i] = u[i + 1]
    BY <1>4, <1>5, SeqTail
<1> HIDE DEF t
<1>7. \A i \in DOMAIN t : i \in Nat /\ i >= 1 /\ i + 2 \in DOMAIN s /\ t[i] = s[i + 2]
    BY <1>1, <1>4, <1>6
<1>8. \A i \in Nat : i + 2 \in DOMAIN s /\ i >= 1 => i \in DOMAIN t
    BY <1>1, <1>4, <1>6
<1>9. Paired(t)
    <2> SUFFICES ASSUME NEW i \in DOMAIN t
                 PROVE /\ t[i][1] \in {"head", "body"}
                       /\ t[i][1] = "head" => i + 1 \in DOMAIN t /\ t[i + 1] = <<"body", t[i][2]>>
                       /\ t[i][1] = "body" /\ i > 1 => t[i - 1] = <<"head", t[i][2]>>
        BY DEF Paired
    <2>1. i \in Nat /\ i >= 1 /\ i + 2 \in DOMAIN s /\ t[i] = s[i + 2]
        BY <1>7
    <2>2. s[i + 2][1] \in {"head", "body"}
        BY <2>1 DEF Paired
    <2>3. ASSUME s[i + 2][1] = "head"
          PROVE i + 1 \in DOMAIN t /\ t[i + 1] = <<"body", s[i + 2][2]>>
        <3>1. i + 2 + 1 \in DOMAIN s /\ s[i + 2 + 1] = <<"body", s[i + 2][2]>>
            BY <2>1, <2>3 DEF Paired
        <3>2. i + 2 + 1 = (i + 1) + 2 /\ i + 1 \in Nat /\ i + 1 >= 1
            BY <2>1
        <3>3. i + 1 \in DOMAIN t
            BY <1>8, <3>1, <3>2
        <3> QED
            BY <1>7, <3>1, <3>2, <3>3
    <2>4. ASSUME s[i + 2][1] = "body", i > 1
          PROVE t[i - 1] = <<"head", s[i + 2][2]>>
        <3>1. i + 2 > 1 /\ s[i + 2 - 1] = <<"head", s[i + 2][2]>>
            BY <2>1, <2>4 DEF Paired
        <3>2. i + 2 - 1 = (i - 1) + 2 /\ i - 1 \in Nat /\ i - 1 >= 1
            BY <2>1, <2>4
        <3>3. i - 1 \in DOMAIN t
            BY <1>1, <1>8, <2>1, <3>2
        <3> QED
            BY <1>7, <3>1, <3>2, <3>3
    <2> QED
        BY <2>1, <2>2, <2>3, <2>4
<1>10. \A i \in DownReplies(t) : i \in Nat /\ i >= 1 /\ i + 2 \in DownReplies(s) /\ t[i] = s[i + 2]
    BY <1>7 DEF DownReplies
<1>11. OneReply(s) => OneReply(t)
    BY <1>10 DEF OneReply
<1>12. f.kind \in Replies => 1 \in DownReplies(s) /\ s[1][2] = f
    BY <1>1 DEF DownReplies
<1>13. ASSUME f.kind \in Replies, OneReply(s), NEW i \in Nat, i \in DownReplies(t)
       PROVE FALSE
    <2>1. i >= 1 /\ i + 2 \in DOMAIN s /\ i + 2 \in DownReplies(s)
        BY <1>10, <1>13 DEF DownReplies
    <2>2. CASE s[i + 2][1] = "head"
        BY <1>2, <1>12, <1>13, <2>1, <2>2 DEF OneReply
    <2>3. CASE s[i + 2][1] = "body"
        <3>1. i + 2 > 1 /\ s[i + 2 - 1] = <<"head", s[i + 2][2]>>
            BY <2>1, <2>3 DEF Paired
        <3>2. i + 2 - 1 = i + 1 /\ i + 1 # 1 /\ i + 1 \in DOMAIN s
            BY <1>1, <2>1
        <3>3. i + 1 \in DownReplies(s) /\ s[i + 1][1] = "head"
            BY <2>1, <3>1, <3>2 DEF DownReplies
        <3> QED
            BY <1>2, <1>12, <1>13, <3>2, <3>3 DEF OneReply
    <2> QED
        BY <2>1, <2>2, <2>3 DEF Paired
<1> QED
    BY <1>6, <1>9, <1>10, <1>11, <1>12, <1>13 DEF FewerReplies, t, u

-----------------------------------------------------------------------------
(* Steps in which nobody asks, and nobody is answered.                     *)

FlagsSame(c, d) ==
  /\ d.waiting_for_ack = c.waiting_for_ack /\ d.ack_received = c.ack_received
  /\ d.ack_error = c.ack_error
  /\ d.waiting_for_channel = c.waiting_for_channel
  /\ d.channel_received = c.channel_received /\ d.channel_reply = c.channel_reply
SameTalk(u) ==
  /\ task'[u].at = task[u].at /\ task'[u].call = task[u].call
  /\ task'[u].overlapped = task[u].overlapped /\ task'[u].result = task[u].result
  /\ task'[u].fault = task[u].fault
Aside(u) ==
  /\ task[u].at \notin InTalk /\ task'[u].at \notin InTalk
  /\ task'[u].at = "request" => task'[u].call \in Ackable
  /\ task'[u].at = "reserve" => task'[u].call = "attach"
  /\ task'[u].at \in {"find", "wait"} => task'[u].call = "receive"
  /\ task'[u].at \in Leaving => task'[u].call \in {"detach", "attach"}
  /\ task'[u].at # "idle" => task'[u].result = None
  /\ Calm' => Answers(u)'
Talkers == \A u \in Thread : SameTalk(u) \/ Aside(u)
Fewer ==
  /\ FewerAsks(socket.up, socket'.up) /\ FewerReplies(socket.down, socket'.down)
  /\ NoReplies(reader'.held)
  /\ hub'.said = hub.said /\ hub'.offers \in {hub.offers, <<>>}
SaidKept ==
  \A u \in Thread : task[u].at # "pump" \/ hub.said[u] # None => hub'.said[u] = hub.said[u]
Linked == client'.connected = client.connected \/ \A u \in Thread : task[u].at \notin Busy

LEMMA FewerQuiet == ASSUME Fewer, Quiet PROVE Quiet'
BY DEF Fewer, Quiet, FewerAsks, FewerReplies

LEMMA LineKept ==
    ASSUME Fewer, NEW t \in Thread, Line(t), SameTalk(t), FlagsSame(client, client')
    PROVE Line(t)'
<1>1. /\ OneAsk(socket.up) /\ OneReply(socket.down)
      /\ \A i \in UpAsks(socket.up) :
           socket.up[i].of = t /\ socket.up[i].kind = Calls(t) /\ hub.said[t] = None
             /\ hub.offers = <<>>
      /\ \A i \in DownReplies(socket.down) :
           /\ socket.down[i][2].of = t /\ socket.down[i][2].kind = hub.said[t]
           /\ Fits(t, hub.said[t]) /\ UpAsks(socket.up) = {} /\ hub.offers = <<>>
    BY DEF Line
<1>2. /\ OneAsk(socket'.up) /\ OneReply(socket'.down)
      /\ \A i \in UpAsks(socket'.up) : \E j \in UpAsks(socket.up) : socket'.up[i] = socket.up[j]
      /\ \A i \in DownReplies(socket'.down) :
           \E j \in DownReplies(socket.down) : socket'.down[i] = socket.down[j]
    BY <1>1 DEF Fewer, FewerAsks, FewerReplies
<1>3. /\ Calls(t)' = Calls(t) /\ (Offering(t)' <=> Offering(t)) /\ hub'.said = hub.said
      /\ hub.offers = <<>> => hub'.offers = <<>>
    BY DEF SameTalk, Calls, Offering, Fewer
<1>4. \A i \in UpAsks(socket'.up) :
        socket'.up[i].of = t /\ socket'.up[i].kind = Calls(t) /\ hub.said[t] = None
          /\ hub'.offers = <<>>
    BY <1>1, <1>2, <1>3
<1>5. hub'.offers # <<>> => hub'.offers = <<t>> /\ Offering(t) /\ hub.said[t] = None
    BY DEF Line, Fewer
<1>6. UpAsks(socket.up) = {} => UpAsks(socket'.up) = {}
    BY <1>2
<1>7. \A i \in DownReplies(socket'.down) :
        /\ socket'.down[i][2].of = t /\ socket'.down[i][2].kind = hub.said[t]
        /\ Fits(t, hub.said[t]) /\ UpAsks(socket'.up) = {} /\ hub'.offers = <<>>
    <2> SUFFICES ASSUME NEW i \in DownReplies(socket'.down)
                 PROVE /\ socket'.down[i][2].of = t /\ socket'.down[i][2].kind = hub.said[t]
                       /\ Fits(t, hub.said[t]) /\ UpAsks(socket'.up) = {} /\ hub'.offers = <<>>
        OBVIOUS
    <2>1. PICK j \in DownReplies(socket.down) : socket'.down[i] = socket.down[j]
        BY <1>2
    <2> QED
        BY <1>1, <1>3, <1>6, <2>1
<1>8. Fits(t, hub.said[t])' <=> Fits(t, hub.said[t])
    BY <1>3 DEF Fits
<1>9. /\ Offering(t)' /\ (client'.channel_received \/ client'.ack_error # NoError') =>
           hub'.said[t] # None /\ DownReplies(socket'.down) = {}
    <2>1. DownReplies(socket.down) = {} => DownReplies(socket'.down) = {}
        BY <1>2
    <2> QED
        BY <1>3, <2>1 DEF Line, FlagsSame, NoError
<1> QED
    BY <1>2, <1>3, <1>4, <1>5, <1>7, <1>8, <1>9 DEF Line

LEMMA LinesKept ==
    ASSUME Lines, Fewer, Talkers, client'.mutex = client.mutex, FlagsSame(client, client')
    PROVE Lines'
<1>1. NoReplies(reader'.held)
    BY DEF Fewer
<1>2. client'.mutex = None => Quiet'
    BY FewerQuiet DEF Lines
<1>3. ASSUME NEW t \in Thread, task'[t].at = "pump" PROVE Line(t)'
    <2>1. SameTalk(t)
        BY <1>3 DEF Talkers, Aside, InTalk
    <2>2. Line(t)
        BY <1>3, <2>1 DEF Lines, SameTalk
    <2> QED
        BY <2>1, <2>2, LineKept
<1> QED
    BY <1>1, <1>2, <1>3 DEF Lines

(* What a thread has that asks nothing does not depend on the client.      *)
LEMMA OutsideKept ==
    ASSUME NEW u \in Thread, Answers(u), SameTalk(u), task[u].at \notin InTalk,
           hub'.said[u] = hub.said[u], task[u].at \in Busy => client'.connected
    PROVE Answers(u)'
<1>1. Online(u)' /\ Fresh(u)'
    BY DEF Answers, SameTalk, Online, Fresh, AckWait, InTalk
<1>2. ASSUME ~task[u].overlapped PROVE Own(u)'
    <2>1. Own(u)
        BY <1>2 DEF Answers
    <2>2. /\ task[u].at \in Busy \cup {"ensure", "start"} => Faultless(u)
          /\ task[u].at \in Leaving /\ task[u].call = "attach" =>
               task[u].fault = "refused" /\ hub.said[u] = "Error"
          /\ task[u].at = "idle" /\ task[u].call \in Requests \cup {"channel_send"} => Returned(u)
        BY <2>1 DEF Own
    <2>3. (Faultless(u) => Faultless(u)') /\ (Returned(u) => Returned(u)')
        BY DEF Faultless, Returned, SameTalk, Calls
    <2>4. /\ task'[u].at \notin InTalk
          /\ task'[u].at \in Busy \cup {"ensure", "start"} => Faultless(u)'
          /\ task'[u].at \in Leaving /\ task'[u].call = "attach" =>
               task'[u].fault = "refused" /\ hub'.said[u] = "Error"
          /\ task'[u].at = "idle" /\ task'[u].call \in Requests \cup {"channel_send"} => Returned(u)'
        BY <2>2, <2>3 DEF SameTalk
    <2> QED
        BY <2>4 DEF Own, InTalk, AckWait
<1> QED
    BY <1>1, <1>2 DEF Answers, SameTalk

LEMMA OwnKept ==
    ASSUME NEW u \in Thread, Own(u), SameTalk(u), FlagsSame(client, client'),
           Sole(u) => Sole(u)', SaidKept
    PROVE Own(u)'
<1>1. /\ (Offering(u)' <=> Offering(u)) /\ (AckWait(u)' <=> AckWait(u))
      /\ (Faultless(u)' <=> Faultless(u))
    BY DEF SameTalk, Offering, Calls, AckWait, Faultless
<1>2. Unanswered => Unanswered'
    BY DEF Unanswered, FlagsSame, NoError
<1>3. OfferTold(u) => OfferTold(u)'
    <2>1. OfferTold(u) => hub.said[u] # None
        BY NoneAssumption DEF OfferTold
    <2>2. OfferTold(u) => hub'.said[u] = hub.said[u]
        BY <2>1 DEF SaidKept
    <2> QED
        BY <2>2 DEF OfferTold, FlagsSame, NoError
<1>4. task[u].at # "pump" => hub'.said[u] = hub.said[u]
    BY DEF SaidKept
<1>5. task[u].at # "pump" => (Told(u) => Told(u)') /\ (Replied(u) => Replied(u)')
                               /\ (Returned(u) => Returned(u)')
    BY <1>4 DEF Told, Replied, Returned, FlagsSame, SameTalk, NoError
<1>6. client'.waiting_for_ack = client.waiting_for_ack /\ client'.ack_received = client.ack_received
      /\ client'.waiting_for_channel = client.waiting_for_channel
    BY DEF FlagsSame
<1>7. /\ task'[u].at = task[u].at /\ task'[u].call = task[u].call /\ task'[u].fault = task[u].fault
      /\ Leaving' = Leaving
    BY DEF SameTalk, Leaving
<1>8. /\ task'[u].at \in InTalk => Sole(u)'
      /\ task'[u].at \in Busy \cup {"ensure", "start"} => Faultless(u)'
      /\ AckWait(u)' => client'.waiting_for_ack
      /\ task'[u].at = "pump" /\ Offering(u)' =>
           client'.waiting_for_channel /\ (Unanswered' \/ OfferTold(u)')
    BY <1>1, <1>2, <1>3, <1>6, <1>7 DEF Own
<1>9. /\ task'[u].at \in {"answered", "checked", "settled"} =>
           IF Offering(u)' THEN OfferTold(u)' ELSE client'.ack_received /\ Told(u)'
      /\ task'[u].at \in {"replied", "opcode"} => Replied(u)'
    BY <1>1, <1>3, <1>5, <1>6, <1>7 DEF Own
<1>10. /\ task'[u].at \in Leaving /\ task'[u].call = "attach" =>
            task'[u].fault = "refused" /\ hub'.said[u] = "Error"
       /\ task'[u].at = "idle" /\ task'[u].call \in Requests \cup {"channel_send"} => Returned(u)'
    BY <1>4, <1>5, <1>7 DEF Own, Leaving
<1> QED
    BY <1>8, <1>9, <1>10 DEF Own

LEMMA FlagsKept ==
    ASSUME Flags, Calm', Talkers, FlagsSame(client, client'), Linked, SaidKept
    PROVE Flags'
<1> SUFFICES ASSUME NEW t \in Thread PROVE Answers(t)'
    BY DEF Flags
<1>1. CASE SameTalk(t)
    <2>1. Answers(t)
        BY DEF Flags
    <2>2. Sole(t) /\ task[t].at \in InTalk => Sole(t)'
        BY DEF Sole, Talkers, SameTalk, Aside
    <2>3. Online(t)'
        BY <1>1, <2>1 DEF Linked, Answers, Online, SameTalk
    <2>4. Fresh(t)'
        BY <1>1, <2>1 DEF Answers, Fresh, FlagsSame, NoError, SameTalk, AckWait, Offering, Calls
    <2>5. CASE task[t].at \in InTalk
        <3>1. Own(t) => Own(t)'
            BY <1>1, <2>2, <2>5, OwnKept DEF Own
        <3> QED
            BY <1>1, <2>1, <2>3, <2>4, <3>1 DEF Answers, SameTalk
    <2>6. CASE task[t].at \notin InTalk
        <3>1. hub'.said[t] = hub.said[t]
            BY <2>6 DEF SaidKept, InTalk
        <3>2. task[t].at \in Busy => client'.connected
            BY <1>1, <2>3 DEF Online, SameTalk
        <3> QED
            BY <1>1, <2>1, <2>6, <3>1, <3>2, OutsideKept
    <2> QED
        BY <2>5, <2>6
<1>2. CASE Aside(t)
    BY <1>2 DEF Aside
<1> QED
    BY <1>1, <1>2 DEF Talkers

LEMMA ShapesKept ==
    ASSUME Shapes, Seqs', client'.mutex = client.mutex, DOMAIN hub'.said = DOMAIN hub.said,
           Talkers
    PROVE Shapes'
<1>1. ASSUME NEW t \in Thread PROVE Shape(t)'
    <2>1. Shape(t) /\ (SameTalk(t) \/ Aside(t))
        BY DEF Shapes, Talkers
    <2>2. CASE SameTalk(t)
        BY <2>1, <2>2 DEF Shape, SameTalk, Offering, Calls
    <2>3. CASE Aside(t)
        BY <2>1, <2>3 DEF Shape, Aside, InTalk
    <2> QED
        BY <2>1, <2>2, <2>3
<1> QED
    BY <1>1 DEF Shapes

LEMMA TalkKept ==
    ASSUME Talk, Seqs', client'.mutex = client.mutex, DOMAIN hub'.said = DOMAIN hub.said, Talkers,
           Calm' => Calm /\ Fewer /\ FlagsSame(client, client') /\ Linked
    PROVE Talk'
<1>1. Shapes'
    BY ShapesKept DEF Talk
<1>2. ASSUME Calm' PROVE Lines' /\ Flags'
    <2>1. Lines /\ Flags /\ SaidKept
        BY <1>2 DEF Talk, Fewer, SaidKept
    <2> QED
        BY <1>2, <2>1, LinesKept, FlagsKept
<1> QED
    BY <1>1, <1>2 DEF Talk

(* A message that is no answer.                                            *)
LEMMA OtherHandled ==
    ASSUME NEW c, Whole(c), NEW f
    PROVE /\ handle_message(c, f).mutex = c.mutex /\ handle_message(c, f).connected = c.connected
          /\ f.kind \notin Replies => FlagsSame(c, handle_message(c, f))
<1>1. CASE f.kind = "Deliver"
    BY <1>1 DEF handle_message, Delivered, WithQueue, Whole, FlagsSame
<1>2. CASE f.kind # "Deliver"
    BY <1>2 DEF handle_message, Whole, FlagsSame, Replies
<1> QED
    BY <1>1, <1>2

(* Changes of the client that leave the answers alone.                     *)
Left(c, d) == d.mutex = c.mutex /\ d.connected = c.connected /\ FlagsSame(c, d)
ClientLeft == client'.mutex = client.mutex /\ FlagsSame(client, client') /\ Linked
SocketKept ==
  /\ IsSeq(socket'.up) /\ IsSeq(socket'.down)
  /\ FewerAsks(socket.up, socket'.up) /\ FewerReplies(socket.down, socket'.down)

LEMMA FewerOfSame == \A s : FewerAsks(s, s) /\ FewerReplies(s, s)
BY DEF FewerAsks, FewerReplies

LEMMA SocketSame == ASSUME Shapes, UNCHANGED socket PROVE SocketKept
BY FewerOfSame DEF Shapes, Seqs, SocketKept

LEMMA LeftIsLeft == ASSUME Left(client, client') PROVE ClientLeft
BY DEF Left, ClientLeft, Linked

LEMMA StoreLeft ==
    ASSUME NEW c, Whole(c)
    PROVE /\ \A side : Left(c, WithQueue(c, side)) /\ Left(c, Erased(c, side))
          /\ \A q, items : Left(c, [c EXCEPT !.store[q].items = items])
          /\ Left(c, close_all_queues(c))
          /\ Left(c, c)
<1>1. ASSUME NEW side PROVE Left(c, WithQueue(c, side)) /\ Left(c, Erased(c, side))
    BY DEF Whole, WithQueue, Erased, Left, FlagsSame
<1>2. ASSUME NEW q, NEW items PROVE Left(c, [c EXCEPT !.store[q].items = items])
    BY DEF Whole, Left, FlagsSame
<1>3. Left(c, close_all_queues(c)) /\ Left(c, c)
    BY DEF Whole, Left, FlagsSame, close_all_queues
<1> QED
    BY <1>1, <1>2, <1>3

(* What a step does to the client matters only while all is calm.          *)
LEMMA StepKept ==
    ASSUME Talk, Talkers, client'.mutex = client.mutex, SocketKept, UNCHANGED <<reader, hub>>,
           Calm => FlagsSame(client, client') /\ Linked
    PROVE Talk'
<1>1. Seqs' /\ DOMAIN hub'.said = DOMAIN hub.said
    BY DEF Talk, Shapes, Seqs, SocketKept, FewerReplies
<1>2. Calm' => Calm /\ Fewer
    BY DEF Talk, Lines, Fewer, SocketKept, Calm
<1> QED
    BY <1>1, <1>2, TalkKept

LEMMA AsideKept ==
    ASSUME Lasting, Talk, Talkers, ClientLeft, SocketKept, UNCHANGED <<reader, hub>>
    PROVE Talk'
BY StepKept DEF ClientLeft

LEMMA TaskSame == ASSUME UNCHANGED task PROVE Talkers
BY DEF Talkers, SameTalk

(* A thread moves, with a fault on record or none.                         *)
MovesTo(t, place) ==
  /\ task'[t].at = place /\ task'[t].call = task[t].call
  /\ task'[t].result = task[t].result /\ task'[t].overlapped = task[t].overlapped
  /\ \A u \in Thread : u # t => task'[u] = task[u]
LEMMA GoesTo ==
    ASSUME TaskRecords, NEW t \in Thread, NEW place,
           Goes(t, place) \/ \E thrown : GoesOn(t, place, thrown)
    PROVE MovesTo(t, place) /\ (Goes(t, place) => task'[t].fault = task[t].fault)
<1>1. CASE Goes(t, place)
    BY <1>1 DEF Goes, TaskRecords, MovesTo
<1>2. CASE \E thrown : GoesOn(t, place, thrown)
    <2>1. PICK thrown : GoesOn(t, place, thrown)
        BY <1>2
    <2>2. MovesTo(t, place)
        BY <2>1 DEF GoesOn, TaskRecords, MovesTo
    <2> QED
        BY <1>1, <2>2 DEF Goes, TaskRecords
<1> QED
    BY <1>1, <1>2

LEMMA ReturnsTo ==
    ASSUME TaskRecords, NEW t \in Thread, NEW result, Returns(t, result)
    PROVE /\ task'[t].at = "idle" /\ task'[t].call = task[t].call /\ task'[t].result = result
          /\ task'[t].overlapped = task[t].overlapped
          /\ \A u \in Thread : u # t => task'[u] = task[u]
BY DEF Returns, TaskRecords, NoTask, Calls

LEMMA ReturnsAside ==
    ASSUME TaskRecords, NEW t \in Thread, task[t].at \notin InTalk,
           NEW result, Returns(t, result),
           \/ task[t].call \notin Requests \cup {"channel_send"}
           \/ Calm' /\ ~task[t].overlapped => Returned(t)'
    PROVE Talkers
<1>1. /\ task'[t].at = "idle" /\ task'[t].call = task[t].call
      /\ task'[t].overlapped = task[t].overlapped
      /\ \A u \in Thread : u # t => task'[u] = task[u]
    BY ReturnsTo
<1>2. Calm' => Answers(t)'
    <2>1. Online(t)' /\ Fresh(t)'
        BY <1>1 DEF Online, Fresh, AckWait, Busy, InTalk
    <2>2. Calm' /\ ~task[t].overlapped => Own(t)'
        BY <1>1 DEF Own, AckWait, Busy, InTalk, Leaving
    <2> QED
        BY <1>1, <2>1, <2>2 DEF Answers
<1>3. Aside(t)
    BY <1>1, <1>2 DEF Aside, InTalk, Leaving
<1> QED
    BY <1>1, <1>3 DEF Talkers, SameTalk

(* It goes where it asks nothing.                                          *)
LEMMA GoesAside ==
    ASSUME NEW t \in Thread, Shape(t), task[t].at \notin InTalk \cup {"idle"},
           NEW place, MovesTo(t, place),
           place \notin Busy \cup Leaving \cup {"idle", "ensure", "start"},
           place \in {"find", "wait"} => Calls(t) = "receive"
    PROVE Talkers
<1>1. Answers(t)'
    BY DEF MovesTo, Answers, Online, Fresh, Own, AckWait, Busy, InTalk
<1>2. Aside(t)
    BY <1>1 DEF MovesTo, Aside, Busy, InTalk, Calls, Shape
<1> QED
    BY <1>2 DEF MovesTo, Talkers, SameTalk

(* It enters where it will ask.                                            *)
LEMMA EntersAside ==
    ASSUME TaskRecords, Talk, NEW t \in Thread, task[t].at \in {"ensure", "start", "reserve"},
           NEW place \in {"start", "reserve", "request", "find", "announce"}, Goes(t, place),
           place = "request" => Calls(t) \in Ackable,
           place = "reserve" => Calls(t) = "attach",
           place = "find" => Calls(t) = "receive",
           Calm' => Calm,
           Calm' /\ place \in Busy => client'.connected
    PROVE Talkers
<1>1. MovesTo(t, place) /\ task'[t].fault = task[t].fault /\ Shape(t)
    BY GoesTo DEF Talk, Shapes
<1>2. ASSUME Calm' PROVE Answers(t)'
    <2>1. Answers(t)
        BY <1>2 DEF Talk, Flags
    <2>2. Online(t)' /\ Fresh(t)'
        BY <1>1, <1>2 DEF Online, Fresh, AckWait, MovesTo, Busy, InTalk
    <2>3. ASSUME ~task[t].overlapped PROVE Own(t)'
        <3>1. Faultless(t)
            BY <2>1, <2>3 DEF Answers, Own, Busy
        <3>2. Faultless(t)'
            BY <1>1, <3>1 DEF Faultless, MovesTo, Calls
        <3> QED
            BY <1>1, <3>2 DEF Own, MovesTo, AckWait, InTalk, Leaving
    <2> QED
        BY <1>1, <2>2, <2>3 DEF Answers, MovesTo
<1>3. Aside(t)
    BY <1>1, <1>2 DEF MovesTo, Aside, InTalk, Calls, Shape, Leaving
<1> QED
    BY <1>1, <1>3 DEF MovesTo, Talkers, SameTalk

(* What a thread tells the hub without asking.                             *)
LEMMA WordSent ==
    ASSUME Records, Shapes, NEW f, f.kind \notin Ackable, Writes(client, f)
    PROVE SocketKept /\ ClientLeft
<1>1. Left(client, client')
    BY DEF Writes, Left, FlagsSame, Records, Whole
<1>2. CASE socket.hungup
    BY <1>1, <1>2, LeftIsLeft, SocketSame DEF Writes
<1>3. CASE ~socket.hungup
    <2>1. socket'.up = Append(socket.up, f) /\ socket'.down = socket.down
        BY <1>3 DEF Writes, Records
    <2>2. IsSeq(socket'.up) /\ FewerAsks(socket.up, socket'.up)
        BY <2>1, WordAppended DEF Shapes, Seqs
    <2> QED
        BY <1>1, <2>1, <2>2, LeftIsLeft, FewerOfSame DEF SocketKept, Shapes, Seqs
<1> QED
    BY <1>2, <1>3

(* A thread looks for its connection, or for a queue.                      *)
LEMMA EntryAside ==
    ASSUME NEW t \in Thread, Placed(t), task[t].at \in {"ensure", "start"}
    PROVE LET place == Entry(Calls(t))
          IN  /\ place \in {"reserve", "request", "find", "announce"}
              /\ place = "request" => Calls(t) \in Ackable
              /\ place = "reserve" => Calls(t) = "attach"
              /\ place = "find" => Calls(t) = "receive"
BY DEF Placed, Requests, Receives, Entry, Calls, Ackable

LEMMA EnsureTalk ==
    ASSUME Lasting, Talk, NEW t \in Thread, AlreadyConnected(t) \/ Reserve(t) \/ Find(t)
    PROVE Talk'
<1>1. /\ Whole(client) /\ TaskRecords /\ Placed(t) /\ Shapes /\ Shape(t)
      /\ UNCHANGED <<reader, hub, socket>>
    BY DEF Lasting, Records, Talk, Shapes, AlreadyConnected, Reserve, Find
<1>2. Left(client, client')
    BY <1>1, StoreLeft DEF AlreadyConnected, Reserve, Find
<1>3. Calm' <=> Calm
    BY <1>1 DEF Calm
<1>4. Talkers
    <2>1. CASE AlreadyConnected(t)
        <3>1. task[t].at = "ensure" /\ Goes(t, Entry(Calls(t))) /\ client'.connected
            BY <2>1 DEF AlreadyConnected, At, There
        <3> QED
            BY <1>1, <1>3, <3>1, EntryAside, EntersAside
    <2>2. CASE Reserve(t)
        <3>1. task[t].at = "reserve" /\ Goes(t, "request") /\ Calls(t) = "attach"
            BY <1>1, <2>2 DEF Reserve, At, Shape, Calls
        <3>2. Calm => client'.connected
            BY <1>2, <3>1 DEF Talk, Flags, Answers, Online, Busy, Left
        <3> QED
            BY <1>1, <1>3, <3>1, <3>2, EntersAside DEF Ackable
    <2>3. CASE Find(t)
        <3>1. task[t].at = "find" /\ MovesTo(t, "wait")
            BY <1>1, <2>3 DEF Find, At, TaskRecords, MovesTo
        <3>2. Calls(t) = "receive"
            BY <1>1, <3>1 DEF Shape, Calls
        <3> QED
            BY <1>1, <3>1, <3>2, GoesAside DEF Busy, InTalk, Leaving
    <2> QED
        BY <2>1, <2>2, <2>3
<1> QED
    BY <1>1, <1>2, <1>4, LeftIsLeft, SocketSame, AsideKept

(* A thread that receives.                                                 *)
LEMMA ReceiveTalk ==
    ASSUME Lasting, Talk, NEW t \in Thread,
           Receive(t) \/ ReceiveNothing(t) \/ DrainQueue(t) \/ DrainNothing(t) \/ OwnTurn(t)
    PROVE Talk'
<1>1. /\ Whole(client) /\ TaskRecords /\ Placed(t) /\ Shapes /\ Shape(t)
      /\ UNCHANGED <<reader, hub, socket>>
    BY DEF Lasting, Records, Talk, Shapes, Receive, ReceiveNothing, DrainQueue, DrainNothing, OwnTurn
<1>2. task[t].at \in {"wait", "drain", "own"} /\ task[t].call \in Receives
    <2>1. task[t].at \in {"wait", "drain", "own"}
        BY DEF Receive, ReceiveNothing, DrainQueue, DrainNothing, OwnTurn, At
    <2> QED
        BY <1>1, <2>1 DEF Placed, Shape, Receives
<1>3. Left(client, client')
    <2>1. CASE Receive(t) \/ DrainQueue(t)
        <3>1. PICK q : Takes(t, q)
            BY <2>1 DEF Receive, DrainQueue
        <3>2. PICK items : client' = [client EXCEPT !.store[q].items = items]
            BY <3>1 DEF Takes
        <3>3. Left(client, [client EXCEPT !.store[q].items = items])
            BY <1>1, StoreLeft
        <3> QED
            BY <3>2, <3>3
    <2>2. CASE ReceiveNothing(t) \/ DrainNothing(t)
        BY <1>1, <2>2, StoreLeft DEF ReceiveNothing, DrainNothing
    <2>3. CASE OwnTurn(t)
        BY <1>1, <2>3 DEF OwnTurn, Whole, Left, FlagsSame
    <2> QED
        BY <2>1, <2>2, <2>3
<1>4. \/ \E result : Returns(t, result)
      \/ \E place \in {"acknowledge", "own", "drain"} : Goes(t, place)
    BY DEF Receive, ReceiveNothing, DrainQueue, DrainNothing, OwnTurn, Completes
<1>5. Talkers
    <2>1. task[t].at \notin InTalk \cup {"idle"} /\ task[t].call \notin Requests \cup {"channel_send"}
        BY <1>2 DEF InTalk, Receives, Requests
    <2>2. CASE \E result : Returns(t, result)
        BY <1>1, <2>1, <2>2, ReturnsAside
    <2>3. CASE \E place \in {"acknowledge", "own", "drain"} : Goes(t, place)
        <3>1. PICK place \in {"acknowledge", "own", "drain"} : Goes(t, place)
            BY <2>3
        <3>2. MovesTo(t, place)
            BY <1>1, <3>1, GoesTo
        <3> QED
            BY <1>1, <2>1, <3>2, GoesAside DEF Busy, InTalk, Leaving
    <2> QED
        BY <1>4, <2>2, <2>3
<1> QED
    BY <1>1, <1>3, <1>5, LeftIsLeft, SocketSame, AsideKept

(* A thread that tells the hub something, or forgets a queue.              *)
LEMMA LeftAside ==
    ASSUME TaskRecords, Talk, NEW t \in Thread, task[t].at \in Leaving, Completes(t, "done"),
           hub' = hub
    PROVE Talkers
<1>1. Shape(t) /\ task[t].call \in {"detach", "attach"}
    BY DEF Talk, Shapes, Shape
<1>2. PICK result : Returns(t, result) /\ result = IF task[t].fault = None THEN "done"
                                                                         ELSE task[t].fault
    BY DEF Completes
<1>3. CASE task[t].call = "detach"
    BY <1>2, <1>3, ReturnsAside DEF Requests, InTalk, Leaving
<1>4. CASE task[t].call = "attach"
    <2>1. ASSUME Calm', ~task[t].overlapped PROVE Returned(t)'
        <3>1. Calm /\ Own(t)
            BY <2>1 DEF Calm, Talk, Flags, Answers
        <3>2. task[t].fault = "refused" /\ hub.said[t] = "Error"
            BY <1>4, <3>1 DEF Own
        <3>3. task'[t].result = "refused"
            BY <1>2, <3>2, ReturnsTo, NoneAssumption
        <3> QED
            BY <3>2, <3>3 DEF Returned
    <2> QED
        BY <1>2, <2>1, ReturnsAside DEF InTalk, Leaving
<1> QED
    BY <1>1, <1>3, <1>4

LEMMA WordTalk ==
    ASSUME Lasting, Talk, NEW t \in Thread,
           Announce(t) \/ Acknowledge(t) \/ Detach(t) \/ Forget(t)
    PROVE Talk'
<1>1. /\ Records /\ Whole(client) /\ TaskRecords /\ Placed(t) /\ Shapes /\ Shape(t)
      /\ UNCHANGED <<reader, hub>>
    BY DEF Lasting, Records, Talk, Shapes, Announce, Acknowledge, Detach, Forget
<1>2. \/ UNCHANGED socket /\ (client' = client \/ \E side : client' = Erased(client, side))
      \/ \E f : f.kind \notin Ackable /\ Writes(client, f)
    <2>1. \A word, side : word \notin Ackable => Frame(word, side, t).kind \notin Ackable
        BY DEF Frame
    <2>2. CASE Announce(t)
        BY <2>1, <2>2 DEF Announce, Ackable
    <2>3. CASE Acknowledge(t)
        BY <2>1, <2>3 DEF Acknowledge, Ackable
    <2>4. CASE Detach(t)
        BY <2>1, <2>4 DEF Detach, Ackable
    <2>5. CASE Forget(t)
        BY <2>5 DEF Forget
    <2> QED
        BY <2>2, <2>3, <2>4, <2>5
<1>3. ClientLeft /\ SocketKept
    <2>1. CASE UNCHANGED socket /\ (client' = client \/ \E side : client' = Erased(client, side))
        BY <1>1, <2>1, StoreLeft, LeftIsLeft, SocketSame
    <2>2. CASE \E f : f.kind \notin Ackable /\ Writes(client, f)
        BY <1>1, <2>2, WordSent
    <2> QED
        BY <1>2, <2>1, <2>2
<1>4. CASE Announce(t) \/ Acknowledge(t)
    <2>1. task[t].at \in {"announce", "acknowledge"} /\ task[t].call = "channel_recv"
        BY <1>1, <1>4 DEF Announce, Acknowledge, At, Placed
    <2>2. \/ \E result : Returns(t, result)
          \/ \E thrown : GoesOn(t, "drain", thrown)
        BY <1>4 DEF Announce, Acknowledge, Completes
    <2>3. Talkers
        <3>1. CASE \E result : Returns(t, result)
            BY <1>1, <2>1, <3>1, ReturnsAside DEF InTalk, Requests
        <3>2. CASE \E thrown : GoesOn(t, "drain", thrown)
            <4>1. MovesTo(t, "drain")
                BY <1>1, <3>2, GoesTo
            <4> QED
                BY <1>1, <2>1, <4>1, GoesAside DEF Busy, InTalk, Leaving
        <3> QED
            BY <2>2, <3>1, <3>2
    <2> QED
        BY <1>1, <1>3, <2>3, AsideKept
<1>5. CASE Detach(t) \/ Forget(t)
    <2>1. task[t].at \in Leaving /\ (task[t].at = "detach" \/ Completes(t, "done"))
        BY <1>5 DEF Detach, Forget, At, Leaving
    <2>2. Completes(t, "done") \/ Goes(t, "forget")
        BY <1>5 DEF Detach, Forget
    <2>3. CASE Completes(t, "done")
        BY <1>1, <1>3, <2>1, <2>3, LeftAside, AsideKept
    <2>4. CASE Goes(t, "forget")
        <3>1. MovesTo(t, "forget") /\ task'[t].fault = task[t].fault
            BY <1>1, <2>4, GoesTo
        <3>2. ASSUME Calm' PROVE Answers(t)'
            <4>1. Answers(t)
                BY <1>1, <3>2 DEF Calm, Talk, Flags
            <4>2. Online(t)' /\ Fresh(t)'
                BY <3>1 DEF Online, Fresh, AckWait, MovesTo, Busy, InTalk
            <4>3. ASSUME ~task[t].overlapped PROVE Own(t)'
                <5>1. task[t].call = "attach" => task[t].fault = "refused" /\ hub.said[t] = "Error"
                    BY <2>1, <4>1, <4>3 DEF Answers, Own
                <5> QED
                    BY <1>1, <3>1, <5>1 DEF Own, MovesTo, AckWait, Busy, InTalk
            <4> QED
                BY <3>1, <4>2, <4>3 DEF Answers, MovesTo
        <3>3. Aside(t)
            BY <1>1, <2>1, <3>1, <3>2 DEF MovesTo, Aside, InTalk, Shape, Leaving
        <3>4. Talkers
            BY <3>1, <3>3 DEF MovesTo, Talkers, SameTalk
        <3> QED
            BY <1>1, <1>3, <3>4, AsideKept
    <2> QED
        BY <2>2, <2>3, <2>4
<1> QED
    BY <1>4, <1>5

(* Where nobody holds the mutex, nothing is on the way.                    *)
LEMMA QuietLine == ASSUME Talk, Calm, MutexFree PROVE Quiet
BY DEF Talk, Lines, MutexFree

LEMMA DownTaken ==
    ASSUME Shapes, HasFrame, ~OutOfStep
    PROVE /\ IsSeq(Tail(Tail(socket.down)))
          /\ FewerReplies(socket.down, Tail(Tail(socket.down)))
          /\ DownReplies(socket.down) = {} => Inward.kind \notin Replies
<1> DEFINE s == socket.down
<1>1. IsSeq(s) /\ s # <<>> /\ Paired(s) /\ ~IsBody(Head(s))
    BY DEF Shapes, Seqs, HasFrame, OutOfStep
<1> HIDE DEF s
<1>2. /\ IsSeq(Tail(Tail(s))) /\ FewerReplies(s, Tail(Tail(s)))
      /\ Head(s)[2].kind \in Replies => 1 \in DownReplies(s)
    BY <1>1, FrameTaken
<1> QED
    BY <1>2 DEF s, Inward

(* A channel's reader that waits takes what comes.                         *)
LEMMA OwnTalk ==
    ASSUME Lasting, Talk, NEW t \in Thread, OwnNothing(t) \/ OwnReads(t)
    PROVE Talk'
<1>1. /\ Records /\ Whole(client) /\ TaskRecords /\ Shapes /\ Shape(t)
      /\ UNCHANGED <<reader, hub>> /\ MutexFree
      /\ task[t].at = "own" /\ task[t].call = "channel_recv"
      /\ socket.hungup => hub.died
    BY DEF Lasting, Records, Placed, Talk, Shapes, OwnNothing, OwnReads, At
<1>2. /\ task[t].at \notin InTalk \cup {"idle"}
      /\ task[t].call \notin Requests \cup {"channel_send"}
    BY <1>1 DEF InTalk, Requests
<1>3. CASE OwnNothing(t)
    <2>1. /\ client' = client \/ (client' = Lost(client) /\ hub.died)
          /\ UNCHANGED socket
        BY <1>1, <1>3 DEF OwnNothing, Readable
    <2>2. \E result : Returns(t, result)
        BY <1>3 DEF OwnNothing, Completes
    <2>3. /\ client'.mutex = client.mutex
          /\ Calm => FlagsSame(client, client') /\ Linked
        BY <1>1, <2>1 DEF Lost, Whole, FlagsSame, Linked, Calm
    <2>4. Talkers
        BY <1>1, <1>2, <2>2, ReturnsAside
    <2> QED
        BY <1>1, <2>1, <2>3, <2>4, SocketSame, StepKept
<1>4. CASE OwnReads(t) /\ OutOfStep
    <2>1. /\ client' = [client EXCEPT !.process = "garbled"]
          /\ UNCHANGED <<socket, task>>
        BY <1>4 DEF OwnReads
    <2>2. Left(client, client')
        BY <1>1, <2>1 DEF Whole, Left, FlagsSame
    <2> QED
        BY <1>1, <2>1, <2>2, LeftIsLeft, SocketSame, TaskSame, AsideKept
<1>5. CASE OwnReads(t) /\ ~OutOfStep
    <2> DEFINE d == Tail(Tail(socket.down))
    <2>1. HasFrame
        BY <1>5 DEF OwnReads
    <2>2. /\ IsSeq(d) /\ FewerReplies(socket.down, d)
          /\ Calm => Inward.kind \notin Replies
        BY <1>1, <1>5, <2>1, DownTaken, QuietLine DEF Quiet
    <2> HIDE DEF d
    <2>3. CASE Inward.kind = "Deliver" /\ Inward.side = "channel"
        <3> DEFINE w == Frame("DataAck", "channel", t)
        <3>1. /\ client' = [client EXCEPT !.paused = FALSE,
                              !.process = IF socket.hungup THEN "killed" ELSE @]
              /\ socket' = [socket EXCEPT !.down = Tail(Tail(@)),
                              !.up = IF socket.hungup THEN @ ELSE Append(@, w)]
              /\ \E result : Returns(t, result)
            BY <1>5, <2>3 DEF OwnReads, Completes
        <3>2. Left(client, client')
            BY <1>1, <3>1 DEF Whole, Left, FlagsSame
        <3>3. /\ socket'.down = d
              /\ socket'.up = IF socket.hungup THEN socket.up ELSE Append(socket.up, w)
            BY <1>1, <3>1 DEF Records, d
        <3>4. w.kind \notin Ackable
            BY DEF Frame, Ackable
        <3> HIDE DEF w
        <3>5. IsSeq(Append(socket.up, w)) /\ FewerAsks(socket.up, Append(socket.up, w))
            BY <1>1, <3>4, WordAppended DEF Shapes, Seqs
        <3>6. SocketKept
            BY <1>1, <2>2, <3>3, <3>5, FewerOfSame DEF SocketKept, Shapes, Seqs
        <3>7. Talkers
            BY <1>1, <1>2, <3>1, ReturnsAside
        <3> QED
            BY <1>1, <3>2, <3>6, <3>7, LeftIsLeft, AsideKept
    <2>4. CASE ~(Inward.kind = "Deliver" /\ Inward.side = "channel")
        <3>1. /\ client' = [handle_message(client, Inward) EXCEPT !.paused = FALSE]
              /\ socket' = [socket EXCEPT !.down = Tail(Tail(@))] /\ Goes(t, "drain")
            BY <1>5, <2>4 DEF OwnReads, TakesFrame
        <3> DEFINE c == handle_message(client, Inward)
        <3>2. /\ c.mutex = client.mutex /\ c.connected = client.connected
              /\ Calm => FlagsSame(client, c)
            BY <1>1, <2>2, OtherHandled
        <3>3. DOMAIN c = DOMAIN client
            BY <1>1, MessageHandled DEF Keeps, Whole
        <3> HIDE DEF c
        <3>4. /\ client'.mutex = client.mutex /\ client'.connected = client.connected
              /\ Calm => FlagsSame(client, client')
            BY <1>1, <3>1, <3>2, <3>3 DEF c, Whole, FlagsSame
        <3>5. SocketKept
            BY <1>1, <2>2, <3>1, FewerOfSame DEF SocketKept, Shapes, Seqs, Records, d
        <3>6. MovesTo(t, "drain")
            BY <1>1, <3>1, GoesTo
        <3>7. Talkers
            BY <1>1, <1>2, <3>6, GoesAside DEF InTalk, Busy, Leaving
        <3> QED
            BY <1>1, <3>4, <3>5, <3>7, StepKept DEF Linked
    <2> QED
        BY <2>3, <2>4
<1> QED
    BY <1>3, <1>4, <1>5

(* A connection begins with nothing on the way.                            *)
LEMMA ConnectTalk == ASSUME Lasting, Talk, NEW t \in Thread, Connect(t) PROVE Talk'
<1>1. /\ Records /\ Whole(client) /\ TaskRecords /\ Shapes /\ Shape(t) /\ UNCHANGED reader
      /\ task[t].at = "ensure" /\ ~client.connected /\ client' = Connected(client)
      /\ socket'.up = <<>> /\ socket'.down = <<>>
      /\ hub' = [hub EXCEPT !.attached = {}, !.offers = <<>>] /\ Goes(t, "start")
    BY DEF Lasting, Records, Talk, Shapes, Connect, At, There
<1>2. /\ hub'.said = hub.said /\ hub'.died = hub.died /\ hub'.stray = hub.stray
      /\ hub'.offers = <<>>
    BY <1>1 DEF Records
<1>3. client'.mutex = client.mutex /\ FlagsSame(client, client')
    BY <1>1 DEF Connected, Whole, FlagsSame
<1>4. Calm' <=> Calm
    BY <1>2 DEF Calm
<1>5. Talkers
    BY <1>1, <1>4, EntersAside DEF Busy, InTalk
<1>6. Calm => Linked
    BY <1>1 DEF Talk, Flags, Answers, Online, Linked
<1>7. Seqs' /\ \A s : FewerAsks(s, <<>>) /\ FewerReplies(s, <<>>)
    <2>1. IsSeq(<<>>) /\ DOMAIN <<>> = {}
        BY EmptyIsSeq
    <2>2. Paired(<<>>)
        BY <2>1 DEF Paired
    <2>3. Seqs'
        BY <1>1, <2>1, <2>2 DEF Shapes, Seqs
    <2> QED
        BY <2>1, <2>2, <2>3 DEF FewerAsks, FewerReplies, OneAsk, OneReply, UpAsks, DownReplies
<1>8. Calm' => Calm /\ Fewer
    BY <1>1, <1>2, <1>4, <1>7 DEF Talk, Lines, Fewer
<1> QED
    BY <1>2, <1>3, <1>5, <1>6, <1>7, <1>8, TalkKept

LEMMA StartTalk == ASSUME Lasting, Talk, NEW t \in Thread, StartReader(t) PROVE Talk'
<1>1. /\ Whole(client) /\ TaskRecords /\ Placed(t) /\ Shapes /\ Shape(t)
      /\ task[t].at = "start" /\ Goes(t, Entry(Calls(t))) /\ UNCHANGED <<socket, hub>>
    BY DEF Lasting, Records, Talk, Shapes, StartReader, At
<1>2. Left(client, client')
    BY <1>1 DEF StartReader, Whole, Left, FlagsSame
<1>3. Calm' => Calm /\ client'.connected
    <2>1. Calm => client.connected
        <3>1. ~client.shutdown
            BY <1>1 DEF Placed, AtTheEnd
        <3> QED
            BY <1>1, <3>1 DEF Calm, Lasting, Gone, StillThere, Starting
    <2> QED
        BY <1>1, <1>2, <2>1 DEF Calm, Left
<1>4. Talkers
    BY <1>1, <1>3, EntryAside, EntersAside
<1>5. reader' = reader \/ (reader'.held = <<>> /\ reader'.at = "loop")
    BY DEF StartReader
<1>6. IsSeq(<<>>) /\ NoReplies(<<>>)
    BY EmptyIsSeq DEF NoReplies
<1>7. Seqs'
    BY <1>1, <1>5, <1>6 DEF Shapes, Seqs
<1>8. Calm' => Calm /\ Fewer
    BY <1>1, <1>3, <1>5, <1>6, FewerOfSame DEF Talk, Lines, Fewer
<1> QED
    BY <1>1, <1>2, <1>4, <1>7, <1>8, LeftIsLeft, TalkKept DEF ClientLeft

(* A call of the program begins.                                           *)
LEMMA CallTalk == ASSUME Lasting, Talk, NEW t \in Thread, Call(t) PROVE Talk'
<1>1. Records /\ Whole(client) /\ TaskRecords /\ Shapes /\ task[t].at = "idle"
    BY DEF Lasting, Records, Talk, Call, Open, Insert, Extract, Close, At
<1>2. PICK h, call, place : /\ Begins(t, h, call, place)
                            /\ place = "ensure" \/ (place = "detach" /\ call = "detach")
    BY DEF Call, Open, Insert, Extract, Close
<1>3. /\ hub' = [hub EXCEPT !.calls = @ + 1] /\ UNCHANGED <<client, reader, socket>>
      /\ task' = [task EXCEPT ![t] = [NoTask EXCEPT !.at = place, !.call = call, !.handle = h]]
    BY <1>2 DEF Begins
<1>4. /\ hub'.said = hub.said /\ hub'.died = hub.died /\ hub'.stray = hub.stray
      /\ hub'.offers = hub.offers
    BY <1>1, <1>3 DEF Records
<1>5. /\ task'[t].at = place /\ task'[t].call = call /\ task'[t].result = None
      /\ task'[t].fault = None
      /\ \A u \in Thread : u # t => task'[u] = task[u]
    BY <1>1, <1>3 DEF TaskRecords, NoTask
<1>6. Answers(t)'
    <2>1. Faultless(t)'
        BY <1>5 DEF Faultless
    <2> QED
        BY <1>2, <1>5, <2>1
           DEF Answers, Online, Fresh, Own, AckWait, Busy, InTalk, Leaving
<1>7. Aside(t)
    BY <1>1, <1>2, <1>5, <1>6 DEF Aside, InTalk, Leaving
<1>8. Talkers
    BY <1>5, <1>7 DEF Talkers, SameTalk
<1>9. Seqs'
    BY <1>1, <1>3 DEF Shapes, Seqs
<1>10. Calm' => Calm /\ Fewer
    BY <1>3, <1>4, FewerOfSame DEF Calm, Talk, Lines, Fewer
<1>11. client'.mutex = client.mutex /\ FlagsSame(client, client') /\ Linked
    BY <1>3 DEF FlagsSame, Linked
<1> QED
    BY <1>4, <1>8, <1>9, <1>10, <1>11, TalkKept

(* Where the program hangs up nobody asks.                                 *)
LEMMA NobodyAsks == ASSUME Lasting, client.shutdown PROVE \A u \in Thread : task[u].at \notin Busy
BY DEF Lasting, Placed, AtTheEnd, Busy, InTalk

LEMMA HangUpTalk ==
    ASSUME Lasting, Talk, NEW t \in Thread, Disconnect(t) \/ HangUp(t) \/ CloseAndJoin(t)
    PROVE Talk'
<1>1. /\ Records /\ Whole(client) /\ TaskRecords /\ Placed(t) /\ Shapes /\ Shape(t)
      /\ UNCHANGED <<reader, hub>>
    BY DEF Lasting, Records, Talk, Shapes, Disconnect, HangUp, CloseAndJoin
<1>2. CASE Disconnect(t)
    <2>1. Left(client, client') /\ UNCHANGED socket
        BY <1>1, <1>2 DEF Disconnect, Whole, Left, FlagsSame
    <2>2. /\ task[t].at = "idle" /\ task'[t].at = "hangup" /\ task'[t].result = None
          /\ \A u \in Thread : u # t => task'[u] = task[u]
        BY <1>1, <1>2 DEF Disconnect, TaskRecords, NoTask
    <2>3. Answers(t)'
        BY <2>2 DEF Answers, Online, Fresh, Own, AckWait, Busy, InTalk, Leaving
    <2>4. Aside(t)
        BY <2>2, <2>3 DEF Aside, InTalk, Leaving
    <2>5. Talkers
        BY <2>2, <2>4 DEF Talkers, SameTalk
    <2> QED
        BY <1>1, <2>1, <2>5, LeftIsLeft, SocketSame, AsideKept
<1>3. CASE HangUp(t)
    <2>1. task[t].at = "hangup" /\ \A u \in Thread : task[u].at \notin Busy
        <3>1. task[t].at = "hangup" /\ client.shutdown
            BY <1>1, <1>3 DEF HangUp, At, Placed, AtTheEnd
        <3> QED
            BY <3>1, NobodyAsks
    <2>2. ClientLeft
        BY <1>1, <1>3, <2>1 DEF HangUp, Whole, ClientLeft, FlagsSame, Linked
    <2>3. SocketKept
        <3>1. CASE UNCHANGED socket
            BY <1>1, <3>1, SocketSame
        <3>2. CASE socket' = [socket EXCEPT !.up = Append(@, Frame("Bye", "out", t))]
            <4> DEFINE w == Frame("Bye", "out", t)
            <4>1. w.kind \notin Ackable
                BY DEF Frame, Ackable
            <4>2. socket'.up = Append(socket.up, w) /\ socket'.down = socket.down
                BY <1>1, <3>2 DEF Records
            <4> HIDE DEF w
            <4>3. IsSeq(socket'.up) /\ FewerAsks(socket.up, socket'.up)
                BY <1>1, <4>1, <4>2, WordAppended DEF Shapes, Seqs
            <4> QED
                BY <1>1, <4>2, <4>3, FewerOfSame DEF SocketKept, Shapes, Seqs
        <3> QED
            BY <1>3, <3>1, <3>2 DEF HangUp
    <2>4. Talkers
        <3>1. UNCHANGED task \/ Goes(t, "join")
            BY <1>3 DEF HangUp
        <3>2. CASE Goes(t, "join")
            <4>1. MovesTo(t, "join")
                BY <1>1, <3>2, GoesTo
            <4> QED
                BY <1>1, <2>1, <4>1, GoesAside DEF Busy, InTalk, Leaving
        <3> QED
            BY <3>1, <3>2, TaskSame
    <2> QED
        BY <1>1, <2>2, <2>3, <2>4, AsideKept
<1>4. CASE CloseAndJoin(t)
    <2>1. client' = [close_all_queues(client) EXCEPT !.process = "ended"]
          /\ UNCHANGED <<socket, task>>
        BY <1>4 DEF CloseAndJoin
    <2>2. Left(client, client')
        BY <1>1, <2>1 DEF close_all_queues, Whole, Left, FlagsSame
    <2> QED
        BY <1>1, <2>1, <2>2, LeftIsLeft, SocketSame, TaskSame, AsideKept
<1> QED
    BY <1>2, <1>3, <1>4

(* The reader thread: it reads while nobody holds the mutex, and what it   *)
(* reads holds no answer.                                                  *)
LEMMA ReaderTalk == ASSUME Lasting, Talk, ReaderLoop PROVE Talk'
<1>1. /\ Records /\ Whole(client) /\ Shapes /\ UNCHANGED <<task, hub>> /\ Talkers
      /\ (Calm' <=> Calm)
    <2>1. UNCHANGED <<task, hub>>
        BY DEF ReaderLoop, ReaderStops, ReaderPolls, ReaderYields, ReaderReads, ReaderHandles,
               ReaderCloses, ReaderEnds
    <2> QED
        BY <2>1, TaskSame DEF Lasting, Records, Talk, Calm
<1>2. CASE ReaderStops \/ ReaderPolls \/ ReaderYields \/ ReaderCloses \/ ReaderEnds
    <2>1. reader'.held = reader.held /\ reader'.at # "handle" /\ UNCHANGED socket
        BY <1>1, <1>2 DEF ReaderStops, ReaderPolls, ReaderYields, ReaderCloses, ReaderEnds, Records
    <2>2. client'.mutex = client.mutex /\ FlagsSame(client, client') /\ (Calm => Linked)
        <3>1. CASE ReaderStops \/ ReaderPolls \/ ReaderYields
            BY <3>1 DEF ReaderStops, ReaderPolls, ReaderYields, FlagsSame, Linked
        <3>2. CASE ReaderCloses
            <4>1. client' = [client EXCEPT !.running = FALSE, !.connected = FALSE]
                BY <3>2 DEF ReaderCloses
            <4>2. client'.mutex = client.mutex /\ FlagsSame(client, client')
                BY <1>1, <4>1 DEF Whole, FlagsSame
            <4>3. Calm => client.shutdown
                BY <3>2 DEF Calm, ReaderCloses, ReaderAt, Lasting, StillThere, Gone, Ending
            <4> QED
                BY <4>2, <4>3, NobodyAsks DEF Linked
        <3>3. CASE ReaderEnds
            <4>1. Left(client, client')
                BY <1>1, <3>3, StoreLeft DEF ReaderEnds, ClosedBehind
            <4> QED
                BY <4>1, LeftIsLeft DEF ClientLeft
        <3> QED
            BY <1>2, <3>1, <3>2, <3>3
    <2>3. Seqs'
        BY <1>1, <2>1 DEF Shapes, Seqs
    <2>4. Calm' => Calm /\ Fewer
        BY <1>1, <2>1, FewerOfSame DEF Talk, Lines, Fewer
    <2> QED
        BY <1>1, <2>2, <2>3, <2>4, TalkKept
<1>3. CASE ReaderReads
    <2>1. MutexFree /\ HasFrame
        BY <1>3 DEF ReaderReads
    <2>2. PICK n \in 1..Len(socket.down) :
            LET chunk == SubSeq(socket.down, 1, n)
            IN  /\ client' = IF InStep(chunk)
                             THEN [client EXCEPT !.have_header = ~IsBody(Last(chunk))]
                             ELSE [client EXCEPT !.process = "garbled"]
                /\ reader' = HoldsMessages(Bodies(chunk))
                /\ socket' = [socket EXCEPT !.down = SubSeq(@, n + 1, Len(@))]
        <3>1. Len(socket.down) \in 1..Len(socket.down)
            BY <1>1, <2>1, SeqTail DEF HasFrame, Shapes, Seqs, IsSeq
        <3> QED
            BY <1>3, <3>1 DEF ReaderReads
    <2> DEFINE s == socket.down
               a == SubSeq(s, 1, n)
               b == SubSeq(s, n + 1, Len(s))
    <2>3. /\ socket'.up = socket.up /\ socket'.down = b
          /\ reader'.held = Bodies(a)
          /\ reader'.at = "handle" => reader'.held # <<>>
        BY <1>1, <2>2 DEF Records, HoldsMessages
    <2>4. /\ IsSeq(b) /\ FewerReplies(s, b) /\ IsSeq(Bodies(a))
          /\ DownReplies(s) = {} => NoReplies(Bodies(a))
        BY <1>1, PiecesTaken DEF Shapes, Seqs
    <2>5. Left(client, client')
        BY <1>1, <2>2 DEF Whole, Left, FlagsSame
    <2> HIDE DEF a, b
    <2>6. Seqs'
        BY <1>1, <2>3, <2>4 DEF Shapes, Seqs, FewerReplies
    <2>7. Calm' => Calm /\ Fewer
        BY <1>1, <2>1, <2>3, <2>4, QuietLine, FewerOfSame DEF Fewer, Quiet
    <2> QED
        BY <1>1, <2>5, <2>6, <2>7, LeftIsLeft, TalkKept DEF ClientLeft
<1>4. CASE ReaderHandles
    <2> DEFINE f == Head(reader.held)
    <2>1. /\ reader.at = "handle" /\ client' = handle_message(client, f)
          /\ reader' = HoldsMessages(Tail(reader.held)) /\ UNCHANGED socket
        BY <1>4 DEF ReaderHandles, ReaderAt, Handled
    <2>2. /\ IsSeq(Tail(reader.held)) /\ 1 \in DOMAIN reader.held /\ f = reader.held[1]
          /\ NoReplies(reader.held) => NoReplies(Tail(reader.held))
        <3> DEFINE r == reader.held
        <3>1. IsSeq(r) /\ r # <<>>
            BY <1>1, <2>1 DEF Shapes, Seqs
        <3> HIDE DEF r
        <3>2. /\ IsSeq(Tail(r)) /\ Head(r) = r[1] /\ 1 \in DOMAIN r /\ Len(r) \in Nat
              /\ DOMAIN r = 1..Len(r) /\ DOMAIN Tail(r) = 1..(Len(r) - 1)
              /\ \A i \in 1..(Len(r) - 1) : Tail(r)[i] = r[i + 1]
            BY <3>1, SeqTail, SeqSet
        <3>3. NoReplies(r) => NoReplies(Tail(r))
            BY <3>2 DEF NoReplies
        <3> QED
            BY <3>2, <3>3 DEF r
    <2>3. Calm => f.kind \notin Replies /\ NoReplies(Tail(reader.held))
        BY <2>2 DEF Talk, Lines, NoReplies
    <2> HIDE DEF f
    <2>4. /\ client'.mutex = client.mutex /\ client'.connected = client.connected
          /\ Calm => FlagsSame(client, client')
        BY <1>1, <2>1, <2>3, OtherHandled
    <2>5. /\ reader'.held = Tail(reader.held)
          /\ reader'.at = "handle" => reader'.held # <<>>
        BY <2>1 DEF HoldsMessages
    <2>6. Seqs'
        BY <1>1, <2>1, <2>2, <2>5 DEF Shapes, Seqs
    <2>7. Calm' => Calm /\ Fewer
        BY <1>1, <2>1, <2>3, <2>5, FewerOfSame DEF Fewer
    <2> QED
        BY <1>1, <2>4, <2>6, <2>7, TalkKept DEF Linked
<1> QED
    BY <1>2, <1>3, <1>4 DEF ReaderLoop

(* The hub.  What it answers a request with comes back to the thread that  *)
(* waits.                                                                  *)
LEMMA HubTalk == ASSUME Lasting, Talk, HubDelivers \/ HubDies PROVE Talk'
<1>1. Records /\ Shapes /\ UNCHANGED <<client, reader, task>> /\ Talkers
    <2>1. UNCHANGED <<client, reader, task>>
        BY DEF HubDelivers, HubDies, Ours
    <2> QED
        BY <2>1, TaskSame DEF Lasting, Talk
<1>2. FlagsSame(client, client') /\ Linked /\ client'.mutex = client.mutex
    BY <1>1 DEF FlagsSame, Linked
<1>3. CASE HubDies
    <2>1. /\ hub'.died /\ hub'.said = hub.said /\ socket'.up = socket.up
          /\ socket'.down = socket.down
        BY <1>1, <1>3 DEF HubDies, Records
    <2>2. Seqs'
        BY <1>1, <2>1 DEF Shapes, Seqs
    <2> QED
        BY <1>1, <1>2, <2>1, <2>2, TalkKept DEF Calm
<1>4. CASE HubDelivers
    <2>1. /\ hub'.died = hub.died /\ hub'.said = hub.said /\ hub'.stray = hub.stray
          /\ hub'.offers = hub.offers
        BY <1>1, <1>4 DEF HubDelivers, Records
    <2>2. PICK side, of : socket' = Sends("Deliver", side, of)
        BY <1>4 DEF HubDelivers
    <2> DEFINE f == Frame("Deliver", side, of)
    <2>3. /\ socket'.up = socket.up /\ socket'.down = socket.down \o Pieces(f)
          /\ f.kind \notin Replies
        BY <1>1, <2>2 DEF Sends, Records, Frame, Replies
    <2> HIDE DEF f
    <2>4. /\ IsSeq(socket'.down) /\ FewerReplies(socket.down, socket'.down)
        BY <1>1, <2>3, FrameWritten DEF Shapes, Seqs
    <2>5. Seqs'
        BY <1>1, <2>3, <2>4 DEF Shapes, Seqs, FewerReplies
    <2>6. Calm' => Calm /\ Fewer
        BY <1>1, <2>1, <2>3, <2>4, FewerOfSame DEF Calm, Talk, Lines, Fewer
    <2> QED
        BY <1>1, <1>2, <2>1, <2>5, <2>6, TalkKept
<1> QED
    BY <1>3, <1>4

(* The thread that waits for an answer: no other one does.                 *)
Waits(t) == task[t].at = "pump" /\ hub.said[t] = None /\ DownReplies(socket.down) = {}
LEMMA Holder ==
    ASSUME Shapes, NEW t \in Thread, task[t].at = "pump"
    PROVE client.mutex = t /\ \A u \in Thread : task[u].at = "pump" => u = t
BY DEF Shapes, Shape

(* An answer on its way to the thread that waits.                          *)
AnswerSent(t, side, kind) ==
  /\ socket'.down = socket.down \o Pieces(Frame(kind, side, t))
  /\ hub'.said = [hub.said EXCEPT ![t] = kind]
  /\ Calm' => /\ Calm /\ t \in Thread /\ Waits(t) /\ Fits(t, kind)
              /\ UpAsks(socket'.up) = {} /\ hub'.offers = <<>>
LEMMA AnswerTalk ==
    ASSUME Lasting, Talk, UNCHANGED <<client, reader, task>>, NEW t, NEW side,
           NEW kind \in Replies, IsSeq(socket'.up), AnswerSent(t, side, kind)
    PROVE Talk'
<1> DEFINE down == socket.down
           r == Frame(kind, side, t)
<1>1. /\ Shapes /\ Talkers /\ Records /\ r.kind = kind /\ r.of = t
      /\ socket'.down = down \o Pieces(r)
    BY TaskSame DEF Lasting, Talk, Frame, AnswerSent
<1> HIDE DEF r
<1>2. /\ IsSeq(socket'.down) /\ Paired(socket'.down)
      /\ DownReplies(down) = {} =>
           OneReply(socket'.down) /\ \A i \in DownReplies(socket'.down) : socket'.down[i][2] = r
    <2>1. IsSeq(down) /\ Paired(down)
        BY <1>1 DEF Shapes, Seqs
    <2> HIDE DEF down
    <2> DEFINE new == down \o Pieces(r)
    <2>2. IsSeq(new) /\ Paired(new)
        BY <2>1, FrameWritten
    <2>3. DownReplies(down) = {} => OneReply(new) /\ \A i \in DownReplies(new) : new[i][2] = r
        BY <2>1, FrameWritten
    <2>4. socket'.down = new
        BY <1>1
    <2> HIDE DEF new
    <2> QED
        BY <2>2, <2>3, <2>4
<1>3. Seqs' /\ DOMAIN hub'.said = DOMAIN hub.said
    BY <1>1, <1>2 DEF Shapes, Seqs, AnswerSent
<1>4. Shapes'
    BY <1>1, <1>3, ShapesKept
<1>5. ASSUME Calm' PROVE Lines' /\ Flags'
    <2>1. /\ t \in Thread /\ task[t].at = "pump" /\ hub.said[t] = None /\ DownReplies(down) = {}
          /\ Fits(t, kind) /\ UpAsks(socket'.up) = {} /\ hub'.offers = <<>>
          /\ Lines /\ Flags
        BY <1>5 DEF Waits, Talk, AnswerSent
    <2>2. client'.mutex = t /\ \A u \in Thread : task'[u].at = "pump" => u = t
        BY <1>1, <2>1, Holder
    <2>3. hub'.said[t] = kind /\ \A u \in Thread : u # t => hub'.said[u] = hub.said[u]
        BY <1>1, <2>1 DEF Shapes, AnswerSent
    <2>4. Line(t)'
        <3>1. /\ OneReply(socket'.down)
              /\ \A i \in DownReplies(socket'.down) : socket'.down[i][2] = r
            BY <1>2, <2>1
        <3>2. OneAsk(socket'.up)
            BY <2>1 DEF OneAsk
        <3>3. Fits(t, kind)' /\ (Offering(t)' <=> Offering(t))
            BY <2>1 DEF Fits, Offering, Calls
        <3>4. ~(Offering(t) /\ (client.channel_received \/ client.ack_error # NoError))
            <4>1. Line(t)
                BY <2>1 DEF Lines
            <4> QED
                BY <2>1, <4>1 DEF Line
        <3>5. ~(Offering(t)' /\ (client'.channel_received \/ client'.ack_error # NoError'))
            BY <3>3, <3>4 DEF NoError
        <3>6. Fits(t, hub.said[t])'
            BY <2>3, <3>3 DEF Fits
        <3>7. \A i \in DownReplies(socket'.down) :
                socket'.down[i][2].of = t /\ socket'.down[i][2].kind = hub'.said[t]
            BY <1>1, <2>3, <3>1
        <3> QED
            BY <2>1, <3>1, <3>2, <3>5, <3>6, <3>7 DEF Line
    <2>5. Lines'
        <3>1. NoReplies(reader'.held)
            BY <2>1 DEF Lines
        <3>2. client'.mutex # None
            BY <2>1, <2>2, NoneAssumption
        <3> QED
            BY <2>2, <2>4, <3>1, <3>2 DEF Lines
    <2>6. SaidKept
        BY <2>1, <2>3 DEF SaidKept
    <2>7. Flags'
        BY <1>1, <1>5, <2>1, <2>6, FlagsKept DEF FlagsSame, Linked
    <2> QED
        BY <2>5, <2>7
<1> QED
    BY <1>4, <1>5 DEF Talk

(* What is asked, and what is offered, is the waiting thread's.            *)
LEMMA Asker ==
    ASSUME Talk, Calm, UpAsks(socket.up) # {} \/ hub.offers # <<>>
    PROVE \E t \in Thread : task[t].at = "pump" /\ Line(t) /\ Waits(t)
<1>1. client.mutex # None
    BY DEF Talk, Lines, Quiet
<1>2. PICK t \in Thread : task[t].at = "pump"
    BY <1>1 DEF Talk, Shapes, Shape
<1>3. Line(t)
    BY <1>2 DEF Talk, Lines
<1>4. Waits(t)
    BY <1>2, <1>3 DEF Line, Waits
<1> QED
    BY <1>2, <1>3, <1>4

LEMMA DecidesTalk == ASSUME Lasting, Talk, HubDecidesOffer PROVE Talk'
<1> DEFINE t == Head(hub.offers)
<1>1. /\ Records /\ Shapes /\ UNCHANGED <<client, reader, task>> /\ hub.offers # <<>>
    BY DEF Lasting, Talk, HubDecidesOffer, Ours
<1>2. PICK kind \in {"ChannelAccept", "ChannelBusy"} :
        /\ socket' = Sends(kind, "channel", t)
        /\ hub' = [Says(t, kind) EXCEPT !.offers = Tail(@)]
    BY DEF HubDecidesOffer
<1> HIDE DEF t
<1>3. /\ socket'.up = socket.up
      /\ socket'.down = socket.down \o Pieces(Frame(kind, "channel", t))
    BY <1>1, <1>2 DEF Sends, Records
<1>4. /\ hub'.said = [hub.said EXCEPT ![t] = kind] /\ hub'.offers = Tail(hub.offers)
      /\ Calm' <=> Calm
    BY <1>1, <1>2 DEF Says, Records, Calm
<1>5. IsSeq(socket'.up)
    BY <1>1, <1>3 DEF Shapes, Seqs
<1>6. ASSUME Calm
      PROVE t \in Thread /\ Waits(t) /\ Fits(t, kind) /\ UpAsks(socket'.up) = {}
              /\ hub'.offers = <<>>
    <2>1. PICK u \in Thread : task[u].at = "pump" /\ Line(u) /\ Waits(u)
        BY <1>1, <1>6, Asker
    <2>2. hub.offers = <<u>> /\ Offering(u) /\ UpAsks(socket.up) = {}
        BY <1>1, <2>1 DEF Line
    <2>3. t = u /\ Tail(hub.offers) = <<>>
        BY <2>2 DEF t
    <2> QED
        BY <1>2, <1>3, <1>4, <2>1, <2>2, <2>3 DEF Fits
<1>7. kind \in Replies
    BY <1>2 DEF Replies
<1>8. AnswerSent(t, "channel", kind)
    BY <1>3, <1>4, <1>6 DEF AnswerSent
<1> QED
    BY <1>1, <1>5, <1>7, <1>8, AnswerTalk

(* An offer that the hub keeps is still that of the thread that waits.     *)
LEMMA ParkedTalk ==
    ASSUME Lasting, Talk, UNCHANGED <<client, reader, task>>, socket.up # <<>>,
           Head(socket.up).kind = "channel_offer",
           socket' = [socket EXCEPT !.up = Tail(@)],
           hub' = [hub EXCEPT !.offers = Append(@, Head(socket.up).of)]
    PROVE Talk'
<1> DEFINE f == Head(socket.up)
<1>1. /\ Records /\ Shapes /\ Talkers /\ f.kind \in Ackable
      /\ socket'.up = Tail(socket.up) /\ socket'.down = socket.down
    BY TaskSame DEF Lasting, Talk, Records, Ackable
<1>2. /\ IsSeq(socket'.up) /\ 1 \in UpAsks(socket.up) /\ socket.up[1] = f
      /\ OneAsk(socket.up) => UpAsks(socket'.up) = {}
    BY <1>1, FrameRead DEF Shapes, Seqs
<1>3. /\ hub'.said = hub.said /\ hub'.offers = Append(hub.offers, f.of) /\ (Calm' <=> Calm)
    BY <1>1 DEF Records, Calm
<1>4. Seqs'
    BY <1>1, <1>2 DEF Shapes, Seqs
<1>5. Shapes'
    BY <1>1, <1>3, <1>4, ShapesKept
<1>6. ASSUME Calm' PROVE Lines' /\ Flags'
    <2>1. PICK t \in Thread : task[t].at = "pump" /\ Line(t) /\ Waits(t)
        BY <1>2, <1>3, <1>6, Asker
    <2>2. /\ OneAsk(socket.up) /\ f.of = t /\ f.kind = Calls(t) /\ hub.said[t] = None
          /\ hub.offers = <<>>
        BY <1>2, <2>1 DEF Line
    <2>3. client'.mutex = t /\ \A u \in Thread : task'[u].at = "pump" => u = t
        BY <1>1, <2>1, Holder
    <2>4. hub'.offers = <<t>>
        BY <1>3, <2>2
    <2>5. UpAsks(socket'.up) = {} /\ DownReplies(socket'.down) = {} /\ Offering(t)'
        BY <1>1, <1>2, <2>1, <2>2 DEF Waits, Offering, Calls
    <2>6. ~(client.channel_received \/ client.ack_error # NoError)
        BY <2>1, <2>5 DEF Line, Waits, Offering, Calls
    <2>7. Line(t)'
        BY <1>3, <2>2, <2>4, <2>5, <2>6 DEF Line, OneAsk, OneReply, NoError
    <2>8. Lines'
        <3>1. NoReplies(reader'.held)
            BY <1>3, <1>6 DEF Talk, Lines
        <3>2. client'.mutex # None
            BY <2>1, <2>3, NoneAssumption
        <3> QED
            BY <2>3, <2>7, <3>1, <3>2 DEF Lines
    <2>9. Flags'
        BY <1>1, <1>3, <1>6, FlagsKept DEF Talk, FlagsSame, Linked, SaidKept
    <2> QED
        BY <2>8, <2>9
<1> QED
    BY <1>5, <1>6 DEF Talk

LEMMA AnswersTalk == ASSUME Lasting, Talk, HubAnswers PROVE Talk'
<1> DEFINE f == Head(socket.up)
<1>1. /\ Records /\ Shapes /\ UNCHANGED <<client, reader, task>> /\ Talkers
      /\ socket.up # <<>>
    <2>1. UNCHANGED <<client, reader, task>> /\ socket.up # <<>>
        BY DEF HubAnswers, Ours
    <2> QED
        BY <2>1, TaskSame DEF Lasting, Talk
<1>2. /\ IsSeq(Tail(socket.up)) /\ FewerAsks(socket.up, Tail(socket.up))
      /\ f.kind \in Ackable =>
           /\ 1 \in UpAsks(socket.up) /\ socket.up[1] = f
           /\ OneAsk(socket.up) => UpAsks(Tail(socket.up)) = {}
    BY <1>1, FrameRead DEF Shapes, Seqs
<1>3. ASSUME f.kind \in Ackable, NEW kind \in Replies, Served(kind, f.side, f.of),
             hub'.said = [hub.said EXCEPT ![f.of] = kind], Calm' <=> Calm,
             hub'.offers = hub.offers,
             kind = "Error" \/ (kind = "Ack" /\ f.kind # "channel_offer")
      PROVE Talk'
    <2>1. /\ socket'.up = Tail(socket.up)
          /\ socket'.down = socket.down \o Pieces(Frame(kind, f.side, f.of))
        BY <1>1, <1>3 DEF Served, Records
    <2>2. ASSUME Calm
          PROVE f.of \in Thread /\ Waits(f.of) /\ Fits(f.of, kind) /\ UpAsks(socket'.up) = {}
                  /\ hub'.offers = <<>>
        <3>1. PICK t \in Thread : task[t].at = "pump" /\ Line(t) /\ Waits(t)
            BY <1>2, <1>3, <2>2, Asker
        <3>2. /\ OneAsk(socket.up) /\ f.of = t /\ f.kind = Calls(t) /\ hub.offers = <<>>
            BY <1>2, <1>3, <3>1 DEF Line
        <3> QED
            BY <1>2, <1>3, <2>1, <3>1, <3>2 DEF Fits, Offering
    <2>3. AnswerSent(f.of, f.side, kind)
        BY <1>3, <2>1, <2>2 DEF AnswerSent
    <2>4. IsSeq(socket'.up)
        BY <1>2, <2>1
    <2> QED
        BY <1>1, <1>3, <2>3, <2>4, AnswerTalk
<1>4. CASE f.kind \in {"attach", "publish", "channel_send"}
    <2>1. \/ /\ Served("Ack", f.side, f.of)
             /\ hub' = IF f.kind = "attach"
                       THEN [Says(f.of, "Ack") EXCEPT !.attached = @ \cup ({f.side} \cap Inbound)]
                       ELSE Says(f.of, "Ack")
          \/ Served("Error", f.side, f.of) /\ hub' = Says(f.of, "Error")
        BY <1>4 DEF HubAnswers
    <2>2. PICK kind \in {"Ack", "Error"} :
            /\ Served(kind, f.side, f.of)
            /\ hub'.said = [hub.said EXCEPT ![f.of] = kind]
            /\ hub'.offers = hub.offers /\ (Calm' <=> Calm)
        BY <1>1, <2>1 DEF Says, Records, Calm
    <2>3. kind \in Replies /\ f.kind \in Ackable /\ f.kind # "channel_offer"
        BY <1>4 DEF Replies, Ackable
    <2> QED
        BY <1>3, <2>2, <2>3
<1>5. CASE f.kind = "channel_offer" /\ "channel" \notin hub.attached
    <2>1. Served("Error", f.side, f.of) /\ hub' = Says(f.of, "Error")
        BY <1>5 DEF HubAnswers
    <2>2. /\ hub'.said = [hub.said EXCEPT ![f.of] = "Error"]
          /\ hub'.offers = hub.offers /\ (Calm' <=> Calm)
        BY <1>1, <2>1 DEF Says, Records, Calm
    <2>3. "Error" \in Replies /\ f.kind \in Ackable
        BY <1>5 DEF Replies, Ackable
    <2> QED
        BY <1>3, <2>1, <2>2, <2>3
<1>6. CASE f.kind = "channel_offer" /\ "channel" \in hub.attached
    <2>1. /\ socket' = [socket EXCEPT !.up = Tail(@)]
          /\ hub' = [hub EXCEPT !.offers = Append(@, f.of)]
        BY <1>6 DEF HubAnswers
    <2> QED
        BY <1>1, <1>6, <2>1, ParkedTalk
<1>7. CASE f.kind \notin Ackable
    <2>1. \/ /\ socket' = [socket EXCEPT !.up = Tail(@)]
             /\ hub' = hub \/ hub' = [hub EXCEPT !.attached = @ \ {f.side}]
          \/ Served("Error", f.side, f.of) /\ hub' = [hub EXCEPT !.stray = TRUE]
        BY <1>7 DEF HubAnswers, Ackable
    <2>2. CASE /\ socket' = [socket EXCEPT !.up = Tail(@)]
               /\ hub' = hub \/ hub' = [hub EXCEPT !.attached = @ \ {f.side}]
        <3>1. /\ socket'.up = Tail(socket.up) /\ socket'.down = socket.down
              /\ hub'.said = hub.said /\ hub'.offers = hub.offers /\ (Calm' <=> Calm)
            BY <1>1, <2>2 DEF Records, Calm
        <3>2. Seqs'
            BY <1>1, <1>2, <3>1 DEF Shapes, Seqs
        <3>3. Calm' => Calm /\ Fewer
            BY <1>1, <1>2, <3>1, FewerOfSame DEF Talk, Lines, Fewer
        <3> QED
            BY <1>1, <3>1, <3>2, <3>3, TalkKept DEF FlagsSame, Linked
    <2>3. CASE Served("Error", f.side, f.of) /\ hub' = [hub EXCEPT !.stray = TRUE]
        <3> DEFINE r == Frame("Error", f.side, f.of)
        <3>1. /\ socket'.up = Tail(socket.up) /\ socket'.down = socket.down \o Pieces(r)
              /\ hub'.said = hub.said /\ ~Calm'
            BY <1>1, <2>3 DEF Served, Records, Calm
        <3> HIDE DEF r
        <3>2. IsSeq(socket'.down) /\ Paired(socket'.down)
            BY <1>1, <3>1, FrameWritten DEF Shapes, Seqs
        <3>3. Seqs'
            BY <1>1, <1>2, <3>1, <3>2 DEF Shapes, Seqs
        <3> QED
            BY <1>1, <3>1, <3>3, TalkKept
    <2> QED
        BY <2>1, <2>2, <2>3
<1> QED
    BY <1>4, <1>5, <1>6, <1>7 DEF Ackable

-----------------------------------------------------------------------------
(* Steps of a thread that asks.                                            *)

RestSame(t) == \A u \in Thread : u # t => SameTalk(u)
SameAnswers(c, d) ==
  /\ d.connected = c.connected /\ d.ack_received = c.ack_received
  /\ d.ack_error = c.ack_error /\ d.channel_received = c.channel_received

LEMMA RestMoves ==
    ASSUME NEW t \in Thread, NEW place, MovesTo(t, place)
    PROVE RestSame(t)
BY DEF MovesTo, RestSame, SameTalk

LEMMA ShapesMoved ==
    ASSUME Shapes, Seqs', DOMAIN hub'.said = DOMAIN hub.said, NEW t \in Thread, Shape(t)',
           client'.mutex \in Thread \cup {None},
           \A u \in Thread : u # t =>
             /\ task'[u].at = task[u].at /\ task'[u].call = task[u].call
             /\ task'[u].result = task[u].result
             /\ client'.mutex = u <=> client.mutex = u
    PROVE Shapes'
<1>1. ASSUME NEW u \in Thread, u # t PROVE Shape(u)'
    <2>1. Shape(u)
        BY DEF Shapes
    <2> QED
        BY <1>1, <2>1 DEF Shape, Offering, Calls
<1> QED
    BY <1>1 DEF Shapes

(* The others have what they had; those who also wait for their answers    *)
(* are overlapped.                                                         *)
LEMMA OthersAnswered ==
    ASSUME Shapes, Flags, NEW t \in Thread, task[t].at \in InTalk,
           RestSame(t), client'.connected = client.connected, hub'.said = hub.said,
           \/ task[t].at = "pump"
           \/ client'.ack_received = client.ack_received /\ client'.ack_error = client.ack_error,
           NEW u \in Thread, u # t
    PROVE Answers(u)'
<1>1. Answers(u) /\ SameTalk(u)
    BY DEF Flags, RestSame
<1>2. CASE task[u].at \notin InTalk
    <2>1. task[u].at \in Busy => client'.connected
        BY <1>1 DEF Answers, Online
    <2> QED
        BY <1>1, <1>2, <2>1, OutsideKept
<1>3. CASE task[u].at \in InTalk
    <2>1. task[u].overlapped
        BY <1>1, <1>3 DEF Answers, Own, Sole
    <2>2. Online(u)'
        BY <1>1, <1>3 DEF Answers, Online, Busy
    <2>3. task[t].at = "pump" => task[u].at # "pump"
        BY DEF Shapes, Shape
    <2>4. Fresh(u)'
        BY <1>1, <2>3 DEF Answers, Fresh, AckWait, SameTalk, Offering, Calls, NoError
    <2> QED
        BY <1>1, <2>1, <2>2, <2>4 DEF Answers, SameTalk
<1> QED
    BY <1>2, <1>3

(* A thread that has its answer goes on.                                   *)
LEMMA AskerMoves ==
    ASSUME Talk, NEW t \in Thread, task[t].at \in InTalk, task'[t].at # "pump",
           RestSame(t), UNCHANGED <<reader, socket>>,
           hub'.said = hub.said, hub'.offers = hub.offers, Shape(t)',
           client'.mutex = IF task[t].at = "pump" THEN None ELSE client.mutex,
           Calm' => /\ Calm /\ Answers(t)' /\ SameAnswers(client, client')
                    /\ task[t].at = "pump" => Quiet
    PROVE Talk'
<1>1. Shapes /\ Seqs' /\ Shape(t)
    BY DEF Talk, Shapes, Seqs
<1>2. Shapes'
    <2>1. \A u \in Thread : u # t => (client'.mutex = u <=> client.mutex = u)
        BY <1>1, NoneAssumption DEF Shape
    <2>2. client'.mutex \in Thread \cup {None}
        BY <1>1 DEF Shapes
    <2> QED
        BY <1>1, <2>1, <2>2, ShapesMoved DEF RestSame, SameTalk
<1>3. ASSUME Calm' PROVE Lines' /\ Flags'
    <2>1. Lines /\ Flags /\ SameAnswers(client, client')
        BY <1>3 DEF Talk
    <2>2. Lines'
        <3>1. NoReplies(reader'.held)
            BY <2>1 DEF Lines
        <3>2. client'.mutex = None => Quiet'
            BY <1>3, <2>1 DEF Lines, Quiet
        <3>3. ASSUME NEW u \in Thread, task'[u].at = "pump" PROVE Line(u)'
            <4>1. u # t /\ SameTalk(u) /\ task[u].at = "pump"
                BY <3>3 DEF RestSame, SameTalk
            <4>2. Line(u)
                BY <2>1, <4>1 DEF Lines
            <4> QED
                BY <2>1, <4>1, <4>2
                   DEF Line, SameTalk, SameAnswers, Fits, Offering, Calls, NoError
        <3> QED
            BY <3>1, <3>2, <3>3 DEF Lines
    <2>3. \A u \in Thread : Answers(u)'
        <3>1. ASSUME NEW u \in Thread, u # t PROVE Answers(u)'
            BY <1>1, <2>1, <3>1, OthersAnswered DEF SameAnswers
        <3> QED
            BY <1>3, <3>1
    <2> QED
        BY <2>2, <2>3 DEF Flags
<1> QED
    BY <1>2, <1>3 DEF Talk

LEMMA SoleMoves ==
    ASSUME NEW t \in Thread, RestSame(t), task[t].at \in InTalk, Sole(t)
    PROVE Sole(t)'
BY DEF Sole, RestSame, SameTalk

(* A pump that ends without reading has the answer, or there is no hub: an *)
(* offer that is given up on leaves an answer nobody waits for.            *)
LEMMA PumpEndsTalk ==
    ASSUME Lasting, Talk, NEW t \in Thread, PumpEnds(t) \/ PumpLost(t)
    PROVE Talk'
<1>1. /\ Records /\ Whole(client) /\ TaskRecords /\ Shape(t) /\ UNCHANGED <<reader, socket>>
      /\ task[t].at = "pump" /\ Goes(t, "answered")
      /\ ~client.shutdown
    BY DEF Lasting, Records, Placed, AtTheEnd, Talk, Shapes, PumpEnds, PumpLost, At
<1>2. MovesTo(t, "answered") /\ task'[t].fault = task[t].fault
    BY <1>1, GoesTo
<1>3. RestSame(t)
    BY <1>2, RestMoves
<1>4. client'.mutex = None /\ hub'.said = hub.said /\ hub'.offers = hub.offers
    BY <1>1 DEF PumpEnds, PumpLost, Unlocked, Lost, Whole, Records
<1>5. Shape(t)'
    BY <1>1, <1>2, <1>4, NoneAssumption DEF Shape, MovesTo, InTalk, Leaving
<1>6. ASSUME Calm'
      PROVE /\ Calm /\ Answers(t)' /\ SameAnswers(client, client')
            /\ task[t].at = "pump" => Quiet
    <2>1. PumpEnds(t) /\ Calm
        <3>1. ~PumpLost(t)
            BY <1>6 DEF Lasting, PumpLost, Calm
        <3>2. hub' = [hub EXCEPT !.stray = @ \/ (Offering(t) /\ ~Answered(t))]
            BY <3>1 DEF PumpEnds
        <3>3. hub'.died = hub.died /\ (hub.stray => hub'.stray)
            BY <1>1, <3>2 DEF Records
        <3> QED
            BY <1>6, <3>1, <3>3 DEF Calm
    <2>2. /\ Answered(t) \/ GivesUp
          /\ client' = Unlocked(client)
          /\ Offering(t) => Answered(t)
        <3>1. PumpEnds(t)
            BY <2>1
        <3>2. hub' = [hub EXCEPT !.stray = @ \/ (Offering(t) /\ ~Answered(t))]
            BY <2>1 DEF PumpEnds
        <3>3. hub'.stray = (hub.stray \/ (Offering(t) /\ ~Answered(t)))
            BY <1>1, <3>2 DEF Records
        <3> QED
            BY <1>6, <3>1, <3>3 DEF PumpEnds, Calm
    <2>3. FlagsSame(client, client') /\ client'.connected = client.connected
        BY <1>1, <2>2 DEF Unlocked, Whole, FlagsSame
    <2>4. Answers(t) /\ Line(t) /\ client.connected
        BY <1>1, <2>1 DEF Talk, Lines, Flags, Answers, Online, Busy, InTalk
    <2>5. Offering(t)
        <3>1. AckWait(t) => ~client.ack_received /\ client.ack_error = NoError
            BY <2>4 DEF Answers, Fresh
        <3> QED
            BY <1>1, <2>2, <2>4, <3>1 DEF AckWait, Answered, GivesUp
    <2>6. client.channel_received \/ client.ack_error # NoError
        BY <1>1, <2>2, <2>4, <2>5 DEF Answered
    <2>7. Quiet
        <3>1. hub.said[t] # None /\ DownReplies(socket.down) = {}
            BY <2>4, <2>5, <2>6 DEF Line
        <3> QED
            BY <2>4, <3>1 DEF Line, Quiet
    <2>8. Offering(t)'
        BY <1>2, <2>5 DEF MovesTo, Offering, Calls
    <2>9. ASSUME ~task[t].overlapped PROVE Own(t)'
        <3>1. /\ Sole(t) /\ Faultless(t) /\ OfferTold(t)
            BY <1>1, <2>4, <2>5, <2>6, <2>9 DEF Answers, Own, InTalk, Busy, Unanswered, NoError
        <3>2. OfferTold(t)'
            BY <1>4, <2>3, <3>1 DEF OfferTold, FlagsSame, NoError
        <3>3. Sole(t)'
            BY <1>1, <1>3, <3>1, SoleMoves DEF InTalk
        <3>4. Faultless(t)'
            BY <1>1, <1>2, <3>1 DEF Faultless, MovesTo, Calls
        <3> QED
            BY <1>2, <2>8, <3>2, <3>3, <3>4 DEF Own, MovesTo, AckWait, InTalk, Leaving
    <2>10. Answers(t)'
        BY <1>2, <2>3, <2>4, <2>8, <2>9 DEF Answers, Online, Fresh, AckWait, MovesTo
    <2> QED
        BY <2>1, <2>3, <2>7, <2>10 DEF SameAnswers, FlagsSame
<1> QED
    BY <1>1, <1>3, <1>4, <1>5, <1>6, <1>2, AskerMoves DEF InTalk, MovesTo

(* Out of the pump, what a thread has is its own.                          *)
LEMMA OutAnswers ==
    ASSUME NEW t \in Thread, Answers(t), task[t].at \in InTalk \ {"pump"},
           task'[t].at \notin {"pump"}, task'[t].overlapped = task[t].overlapped,
           task'[t].at \in Busy => client'.connected,
           ~task[t].overlapped /\ Own(t) => Own(t)'
    PROVE Answers(t)'
BY DEF Answers, Online, Fresh, AckWait

LEMMA LookTalk == ASSUME Lasting, Talk, NEW t \in Thread, Settle(t) PROVE Talk'
<1>1. /\ Whole(client) /\ TaskRecords /\ Shape(t) /\ UNCHANGED <<reader, hub, socket>>
      /\ task[t].at \in {"answered", "checked"} /\ ~client.shutdown
    BY DEF Lasting, Records, Placed, AtTheEnd, Talk, Shapes, Settle, LookForAck, LookForHub,
           StopOffering, At
<1>2. /\ client'.mutex = client.mutex /\ SameAnswers(client, client')
      /\ client'.channel_reply = client.channel_reply
    BY <1>1 DEF Settle, LookForAck, LookForHub, StopOffering, Whole, SameAnswers
<1>3. /\ MovesTo(t, "checked") \/ MovesTo(t, "settled")
      /\ MovesTo(t, "checked") => ~Offering(t)
    <2>1. CASE LookForAck(t)
        <3>1. MovesTo(t, "checked") /\ ~Offering(t)
            BY <1>1, <2>1, GoesTo DEF LookForAck
        <3> QED
            BY <3>1
    <2>2. CASE LookForHub(t) \/ StopOffering(t)
        <3>1. MovesTo(t, "settled")
            BY <1>1, <2>2, GoesTo DEF LookForHub, StopOffering
        <3> QED
            BY <3>1 DEF MovesTo
    <2> QED
        BY <2>1, <2>2 DEF Settle
<1>4. RestSame(t)
    BY <1>3, RestMoves
<1>5. Shape(t)'
    BY <1>1, <1>2, <1>3 DEF Shape, MovesTo, InTalk, Leaving, Offering, Calls
<1>6. ASSUME Calm PROVE Answers(t)'
    <2>1. Answers(t) /\ client.connected
        BY <1>1, <1>6 DEF Talk, Flags, Answers, Online, Busy, InTalk
    <2>2. ASSUME ~task[t].overlapped, Own(t) PROVE Own(t)'
        <3>1. /\ Sole(t) /\ Faultless(t)
              /\ IF Offering(t) THEN OfferTold(t) ELSE client.ack_received /\ Told(t)
            BY <1>1, <2>2 DEF Own, InTalk, Busy
        <3>2. Sole(t)'
            BY <1>1, <1>4, <3>1, SoleMoves DEF InTalk
        <3>3. IF Offering(t)' THEN OfferTold(t)' ELSE client'.ack_received /\ Told(t)'
            BY <1>1, <1>2, <1>3, <3>1
               DEF MovesTo, Offering, Calls, OfferTold, Told, SameAnswers, NoError
        <3>4. task'[t].fault = task[t].fault
            <4>1. CASE LookForAck(t)
                BY <1>1, <2>1, <3>1, <4>1 DEF LookForAck, GoesOn, TaskRecords
            <4>2. CASE LookForHub(t)
                BY <1>1, <2>1, <4>2 DEF LookForHub, GoesOn, TaskRecords
            <4>3. CASE StopOffering(t)
                BY <1>1, <4>3, GoesTo DEF StopOffering
            <4> QED
                BY <4>1, <4>2, <4>3 DEF Settle
        <3>5. Faultless(t)'
            BY <1>1, <1>3, <3>1, <3>4 DEF Faultless, MovesTo, Calls
        <3> QED
            BY <1>3, <3>2, <3>3, <3>5 DEF Own, MovesTo, AckWait, Leaving
    <2> QED
        BY <1>1, <1>2, <1>3, <2>1, <2>2, OutAnswers DEF MovesTo, SameAnswers, InTalk
<1>7. Calm' <=> Calm
    BY <1>1 DEF Calm
<1> QED
    BY <1>1, <1>2, <1>3, <1>4, <1>5, <1>6, <1>7, AskerMoves DEF InTalk, MovesTo

(* What the thread makes of the answer: the outcome is what it was told.   *)
Outcome(t) ==
  Refused(t) \/ Abandon(t) \/ Done(t) \/ OfferStands(t) \/ LookForReply(t) \/ Accepted(t)
    \/ Collided(t)

LEMMA OutcomeRests ==
    ASSUME Lasting, Talk, NEW t \in Thread, Outcome(t)
    PROVE /\ Whole(client) /\ TaskRecords /\ Shape(t) /\ UNCHANGED <<reader, hub, socket>>
          /\ task[t].at \in {"settled", "replied", "opcode"}
          /\ Left(client, client')
          /\ RestSame(t) /\ task'[t].overlapped = task[t].overlapped
<1>1. /\ Whole(client) /\ TaskRecords /\ Shape(t) /\ UNCHANGED <<reader, hub, socket>>
      /\ task[t].at \in {"settled", "replied", "opcode"}
    BY DEF Lasting, Records, Talk, Shapes, Outcome, Refused, Abandon, Done, OfferStands,
           LookForReply, Accepted, Collided, At
<1>2. Left(client, client')
    BY <1>1, StoreLeft
       DEF Outcome, Refused, Abandon, Done, OfferStands, LookForReply, Accepted, Collided
<1>3. \/ \E result : Returns(t, result)
      \/ \E place : Goes(t, place) \/ \E thrown : GoesOn(t, place, thrown)
      \/ Accepted(t)
      \/ task' = [task EXCEPT ![t].at = "request", ![t].tries = @ + 1]
    BY DEF Outcome, Refused, Abandon, Done, OfferStands, LookForReply, Collided, Completes
<1>4. RestSame(t) /\ task'[t].overlapped = task[t].overlapped
    <2>1. CASE \E result : Returns(t, result)
        BY <1>1, <2>1, ReturnsTo DEF RestSame, SameTalk
    <2>2. CASE \E place : Goes(t, place) \/ \E thrown : GoesOn(t, place, thrown)
        <3>1. PICK place : MovesTo(t, place)
            BY <1>1, <2>2, GoesTo
        <3> QED
            BY <3>1, RestMoves DEF MovesTo
    <2>3. CASE Accepted(t)
        BY <1>1, <2>3 DEF Accepted, TaskRecords, RestSame, SameTalk
    <2>4. CASE task' = [task EXCEPT ![t].at = "request", ![t].tries = @ + 1]
        BY <1>1, <2>4 DEF TaskRecords, RestSame, SameTalk
    <2> QED
        BY <1>3, <2>1, <2>2, <2>3, <2>4
<1> QED
    BY <1>1, <1>2, <1>4

(* Once it has its outcome, it asks no more, or asks again.                *)
LEMMA OutcomeKept ==
    ASSUME Lasting, Talk, NEW t \in Thread, Outcome(t), Shape(t)', task'[t].at # "pump",
           Calm /\ ~task[t].overlapped /\ Own(t) => Own(t)'
    PROVE Talk'
<1>1. /\ UNCHANGED <<reader, hub, socket>>
      /\ task[t].at \in {"settled", "replied", "opcode"}
      /\ Left(client, client')
      /\ RestSame(t) /\ task'[t].overlapped = task[t].overlapped
    BY OutcomeRests
<1>2. Calm' <=> Calm
    BY <1>1 DEF Calm
<1>3. ASSUME Calm PROVE Answers(t)'
    <2>1. Answers(t)
        BY <1>3 DEF Talk, Flags
    <2>2. client'.connected
        BY <1>1, <2>1 DEF Answers, Online, Busy, InTalk, Left
    <2> QED
        BY <1>1, <1>3, <2>1, <2>2, OutAnswers DEF InTalk
<1> QED
    BY <1>1, <1>2, <1>3, AskerMoves DEF Left, FlagsSame, SameAnswers, InTalk

LEMMA OwnReturned ==
    ASSUME TaskRecords, NEW t \in Thread, NEW result, Returns(t, result), Returned(t)'
    PROVE Own(t)'
BY ReturnsTo DEF Own, AckWait, InTalk, Busy, Leaving

LEMMA ReturnShaped ==
    ASSUME TaskRecords, NEW t \in Thread, NEW result, Returns(t, result), Shape(t),
           task[t].at # "pump", client'.mutex = client.mutex
    PROVE Shape(t)' /\ task'[t].at # "pump"
BY ReturnsTo DEF Shape, InTalk, Leaving


LEMMA OutcomeTalk == ASSUME Lasting, Talk, NEW t \in Thread, Outcome(t) PROVE Talk'
<1>1. /\ TaskRecords /\ Shape(t) /\ UNCHANGED <<hub, socket>> /\ client'.mutex = client.mutex
      /\ task[t].at \in {"settled", "replied", "opcode"} /\ RestSame(t)
      /\ FlagsSame(client, client')
    BY OutcomeRests DEF Left
<1>2. ASSUME Own(t)
      PROVE /\ Sole(t)' /\ Faultless(t)
            /\ task[t].at = "settled" => IF Offering(t) THEN OfferTold(t) ELSE Told(t)
            /\ task[t].at \in {"replied", "opcode"} => Replied(t)
    <2>1. Sole(t)
        BY <1>1, <1>2 DEF Own, InTalk
    <2>2. Sole(t)'
        BY <1>1, <2>1, SoleMoves DEF InTalk
    <2> QED
        BY <1>1, <1>2, <2>2 DEF Own, InTalk, Busy
<1> DEFINE Kept == Shape(t)' /\ task'[t].at # "pump" /\ (Own(t) => Own(t)')
<1>3. ASSUME Refused(t) PROVE Kept
    <2>1. task[t].at = "settled" /\ client.ack_error # NoError
        BY <1>3 DEF Refused, At
    <2>2. CASE Calls(t) = "attach"
        <3>1. GoesOn(t, "detach", "refused")
            BY <1>3, <2>2 DEF Refused, Offering
        <3>2. MovesTo(t, "detach")
            BY <1>1, <3>1, GoesTo
        <3>3. task'[t].fault = "refused"
            BY <1>1, <3>1, NoneAssumption DEF GoesOn, TaskRecords
        <3>4. Shape(t)'
            BY <1>1, <2>1, <2>2, <3>2 DEF Shape, MovesTo, InTalk, Leaving, Calls
        <3>5. Own(t) => hub.said[t] = "Error"
            BY <1>2, <2>1, <2>2 DEF Told, Offering
        <3>6. Own(t) => Own(t)'
            BY <1>1, <3>2, <3>3, <3>5
               DEF Own, MovesTo, AckWait, InTalk, Busy, Leaving
        <3> QED
            BY <3>2, <3>4, <3>6 DEF MovesTo
    <2>3. CASE Offering(t)
        <3>1. GoesOn(t, "replied", "refused")
            BY <1>3, <2>3 DEF Refused, Offering
        <3>2. MovesTo(t, "replied")
            BY <1>1, <3>1, GoesTo
        <3>3. task'[t].fault = "refused"
            BY <1>1, <3>1, NoneAssumption DEF GoesOn, TaskRecords
        <3>4. Shape(t)'
            BY <1>1, <2>1, <2>3, <3>2 DEF Shape, MovesTo, InTalk, Leaving, Calls, Offering
        <3>5. Own(t) => Replied(t)'
            BY <1>1, <1>2, <2>1, <2>3, <3>3 DEF Replied, OfferTold, FlagsSame
        <3>6. Own(t) => Faultless(t)'
            BY <3>2, <3>3 DEF Faultless, MovesTo
        <3> QED
            BY <1>2, <3>2, <3>4, <3>5, <3>6 DEF Own, MovesTo, AckWait, Leaving
    <2>4. CASE Calls(t) # "attach" /\ ~Offering(t)
        <3>1. Returns(t, "refused")
            BY <1>3, <2>4 DEF Refused
        <3>2. Shape(t)' /\ task'[t].at # "pump"
            BY <1>1, <2>1, <3>1, ReturnShaped
        <3>3. task'[t].result = "refused"
            BY <1>1, <3>1, ReturnsTo
        <3>4. Own(t) => Returned(t)'
            BY <1>1, <1>2, <2>1, <2>4, <3>3 DEF Returned, Told
        <3> QED
            BY <1>1, <3>1, <3>2, <3>4, OwnReturned
    <2> QED
        BY <2>2, <2>3, <2>4
<1>4. ASSUME Abandon(t) PROVE Kept
    <2>1. /\ task[t].at = "settled" /\ Calls(t) = "attach" /\ task[t].fault # None
          /\ Goes(t, "detach")
        BY <1>4 DEF Abandon, At
    <2>2. MovesTo(t, "detach")
        BY <1>1, <2>1, GoesTo
    <2>3. Shape(t)'
        BY <1>1, <2>1, <2>2 DEF Shape, MovesTo, InTalk, Leaving, Calls
    <2>4. ~Own(t)
        BY <1>2, <2>1 DEF Faultless
    <2> QED
        BY <2>2, <2>3, <2>4 DEF MovesTo
<1>5. ASSUME Done(t) PROVE Kept
    <2>1. /\ task[t].at = "settled" /\ client.ack_error = NoError /\ ~Offering(t)
          /\ Completes(t, "done")
        BY <1>5 DEF Done, At
    <2>2. PICK result : /\ Returns(t, result)
                        /\ result = IF task[t].fault = None THEN "done" ELSE task[t].fault
        BY <2>1 DEF Completes
    <2>3. Shape(t)' /\ task'[t].at # "pump"
        BY <1>1, <2>1, <2>2, ReturnShaped
    <2>4. task'[t].result = result
        BY <1>1, <2>2, ReturnsTo
    <2>5. Own(t) => Returned(t)'
        <3>1. Own(t) => hub'.said[t] = "Ack"
            BY <1>1, <1>2, <2>1 DEF Told
        <3>2. Own(t) => result \in {"done", "unexpected"}
            BY <1>2, <2>1, <2>2 DEF Faultless
        <3> QED
            BY <2>4, <3>1, <3>2 DEF Returned
    <2> QED
        BY <1>1, <2>2, <2>3, <2>5, OwnReturned
<1>6. ASSUME OfferStands(t) PROVE Kept
    <2>1. /\ task[t].at = "settled" /\ client.ack_error = NoError /\ Offering(t)
          /\ Goes(t, "replied")
        BY <1>6 DEF OfferStands, At
    <2>2. MovesTo(t, "replied") /\ task'[t].fault = task[t].fault
        BY <1>1, <2>1, GoesTo
    <2>3. Shape(t)'
        BY <1>1, <2>1, <2>2 DEF Shape, MovesTo, InTalk, Leaving, Calls, Offering
    <2>4. Own(t) => task[t].fault = None
        BY <1>2, <2>1 DEF Faultless, Offering
    <2>5. Own(t) => Replied(t)'
        BY <1>1, <1>2, <2>1, <2>2, <2>4, NoneAssumption DEF Replied, OfferTold, FlagsSame
    <2>6. Own(t) => Faultless(t)'
        BY <2>2, <2>4 DEF Faultless
    <2> QED
        BY <1>2, <2>2, <2>3, <2>5, <2>6 DEF Own, MovesTo, AckWait, Leaving
<1>7. ASSUME LookForReply(t) PROVE Kept
    <2>1. /\ task[t].at = "replied"
          /\ GoesOn(t, "opcode", IF client.channel_received THEN None ELSE "noreply")
        BY <1>7 DEF LookForReply, At
    <2>2. MovesTo(t, "opcode")
        BY <1>1, <2>1, GoesTo
    <2>3. Shape(t)'
        BY <1>1, <2>1, <2>2 DEF Shape, MovesTo, InTalk, Leaving, Calls, Offering
    <2>4. Own(t) => task'[t].fault = task[t].fault
        BY <1>1, <1>2, <2>1 DEF Replied, GoesOn, TaskRecords
    <2>5. Own(t) => Replied(t)'
        BY <1>1, <1>2, <2>1, <2>4 DEF Replied, FlagsSame
    <2>6. Own(t) => Faultless(t)'
        BY <1>2, <2>2, <2>4 DEF Faultless, MovesTo, Calls
    <2> QED
        BY <1>2, <2>2, <2>3, <2>5, <2>6 DEF Own, MovesTo, AckWait, Leaving
<1>8. ASSUME Accepted(t) PROVE Kept
    <2>1. /\ task[t].at = "opcode" /\ client.channel_reply # "ChannelBusy" /\ Offering(t)
          /\ task'[t].at = "request" /\ task'[t].call = "channel_send"
          /\ task'[t].result = task[t].result
          /\ task'[t].fault = IF client.channel_reply = "ChannelAccept" THEN task[t].fault
                                                                       ELSE "unexpected"
        BY <1>1, <1>8 DEF Accepted, At, TaskRecords, Shape
    <2>2. Shape(t)'
        BY <1>1, <2>1 DEF Shape, InTalk, Leaving, Ackable
    <2>3. Own(t) => task[t].fault = None \/ client.channel_reply # "ChannelAccept"
        BY <1>2, <2>1 DEF Faultless, Replied, Offering
    <2>4. Own(t) => Faultless(t)'
        BY <2>1, <2>3 DEF Faultless, Calls
    <2> QED
        BY <2>1, <2>2, <2>4 DEF Own, AckWait, InTalk, Leaving
<1>9. ASSUME Collided(t) PROVE Kept
    <2>1. task[t].at = "opcode" /\ client.channel_reply = "ChannelBusy" /\ Offering(t)
        BY <1>1, <1>9 DEF Collided, At, Shape
    <2>2. CASE Returns(t, "collided")
        <3>1. Shape(t)' /\ task'[t].at # "pump"
            BY <1>1, <2>1, <2>2, ReturnShaped
        <3>2. Returned(t)'
            BY <1>1, <2>2, ReturnsTo DEF Returned
        <3> QED
            BY <1>1, <2>2, <3>1, <3>2, OwnReturned
    <2>3. CASE task' = [task EXCEPT ![t].at = "request", ![t].tries = @ + 1]
        <3>1. /\ task'[t].at = "request" /\ task'[t].call = task[t].call
              /\ task'[t].result = task[t].result /\ task'[t].fault = task[t].fault
            BY <1>1, <2>3 DEF TaskRecords
        <3>2. Shape(t)'
            BY <1>1, <2>1, <3>1 DEF Shape, InTalk, Leaving
        <3>3. Own(t) => task[t].fault = None
            BY <1>2, <2>1 DEF Faultless, Replied, Offering
        <3>4. Own(t) => Faultless(t)'
            BY <3>1, <3>3 DEF Faultless
        <3> QED
            BY <3>1, <3>2, <3>4 DEF Own, AckWait, InTalk, Leaving
    <2> QED
        BY <1>9, <2>2, <2>3 DEF Collided
<1>10. Kept
    BY <1>3, <1>4, <1>5, <1>6, <1>7, <1>8, <1>9 DEF Outcome
<1> QED
    BY <1>10, OutcomeKept


-----------------------------------------------------------------------------
(* The answer comes, and the thread that asks reads it itself.             *)

LEMMA ReplyTalk ==
    ASSUME Lasting, Talk, NEW t \in Thread, task[t].at = "pump", UNCHANGED <<reader, hub>>,
           HasFrame, ~OutOfStep, IsReply(t, Inward),
           client' = Unlocked(Handled(Inward)), TakesFrame, Goes(t, "answered")
    PROVE Talk'
<1> DEFINE c == handle_message(client, Inward)
           f == Inward
           down == socket.down
<1>1. /\ Records /\ Whole(client) /\ TaskRecords /\ Shapes /\ Shape(t) /\ ~Offering(t)
      /\ f.kind \in {"Ack", "Error"}
    BY DEF Lasting, Records, Talk, Shapes, IsReply
<1>2. MovesTo(t, "answered") /\ task'[t].fault = task[t].fault /\ RestSame(t)
    BY <1>1, GoesTo, RestMoves
<1>3. /\ socket'.up = socket.up /\ IsSeq(socket'.down) /\ FewerReplies(down, socket'.down)
      /\ 1 \in DownReplies(down) /\ down[1][2] = f
      /\ OneReply(down) => DownReplies(socket'.down) = {}
    <2>1. IsSeq(down) /\ down # <<>> /\ Paired(down) /\ ~IsBody(Head(down)) /\ f = Head(down)[2]
        BY <1>1 DEF Shapes, Seqs, HasFrame, OutOfStep, Inward
    <2>2. socket'.up = socket.up /\ socket'.down = Tail(Tail(down)) /\ f.kind \in Replies
        BY <1>1 DEF TakesFrame, Records, Replies
    <2> HIDE DEF down, f
    <2>3. /\ IsSeq(Tail(Tail(down))) /\ FewerReplies(down, Tail(Tail(down)))
          /\ Head(down)[2].kind \in Replies => 1 \in DownReplies(down) /\ down[1][2] = Head(down)[2]
          /\ Head(down)[2].kind \in Replies /\ OneReply(down) => DownReplies(Tail(Tail(down))) = {}
        BY <2>1, FrameTaken
    <2> QED
        BY <2>1, <2>2, <2>3
<1>4. /\ Whole(c) /\ c.mutex = client.mutex /\ c.connected = client.connected
      /\ c.waiting_for_ack = client.waiting_for_ack
      /\ f.kind = "Ack" /\ client.waiting_for_ack =>
           c.ack_received /\ c.ack_error = client.ack_error
      /\ f.kind = "Error" /\ client.waiting_for_ack => c.ack_received /\ c.ack_error = f.of
    <2>1. Whole(c)
        BY <1>1, MessageHandled DEF Keeps
    <2> QED
        BY <1>1, <2>1 DEF handle_message, Whole
<1> HIDE DEF c, f
<1>5. /\ client'.mutex = None /\ client'.connected = client.connected
      /\ client'.ack_received = c.ack_received /\ client'.ack_error = c.ack_error
    BY <1>4 DEF Handled, Unlocked, Whole, c, f
<1>6. Shapes'
    <2>1. Seqs'
        BY <1>1, <1>3 DEF Shapes, Seqs, FewerReplies
    <2>2. Shape(t)'
        BY <1>1, <1>2, <1>5, NoneAssumption DEF Shape, MovesTo, InTalk, Leaving
    <2>3. \A u \in Thread : u # t => (client'.mutex = u <=> client.mutex = u)
        BY <1>1, <1>5, NoneAssumption DEF Shape
    <2> QED
        BY <1>1, <1>2, <1>5, <2>1, <2>2, <2>3, ShapesMoved DEF RestSame, SameTalk
<1>7. ASSUME Calm' PROVE Lines' /\ Flags'
    <2>1. Lines /\ Flags /\ Answers(t) /\ Line(t)
        BY <1>7 DEF Talk, Flags, Lines, Calm
    <2>2. /\ OneReply(down) /\ f.of = t /\ f.kind = hub.said[t] /\ UpAsks(socket.up) = {}
          /\ hub.offers = <<>>
        BY <1>3, <2>1 DEF Line
    <2>3. \A u \in Thread : task'[u].at # "pump"
        BY <1>5, <1>6, NoneAssumption DEF Shapes, Shape
    <2>4. Lines'
        BY <1>3, <2>1, <2>2, <2>3 DEF Lines, Quiet
    <2>5. task'[t].at = "answered" /\ ~Offering(t)'
        BY <1>1, <1>2 DEF Offering, Calls, MovesTo
    <2>6. client'.connected /\ client.ack_error = NoError
        BY <1>1, <1>5, <2>1 DEF Answers, Online, Fresh, AckWait, Busy, InTalk
    <2>7. ASSUME ~task[t].overlapped PROVE Own(t)'
        <3>1. Sole(t) /\ Faultless(t) /\ client.waiting_for_ack
            BY <1>1, <2>1, <2>7 DEF Answers, Own, AckWait, InTalk, Busy
        <3>2. Sole(t)'
            BY <1>2, <3>1, SoleMoves DEF InTalk
        <3>3. t # NoError
            BY NoneAssumption DEF NoError
        <3>4. client'.ack_received /\ Told(t)'
            BY <1>1, <1>4, <1>5, <2>2, <2>6, <3>1, <3>3 DEF Told, NoError
        <3>5. Faultless(t)'
            BY <1>2, <3>1 DEF Faultless, MovesTo, Calls
        <3> QED
            BY <2>5, <3>2, <3>4, <3>5 DEF Own, AckWait, InTalk, Leaving
    <2>8. Answers(t)'
        BY <1>2, <2>5, <2>6, <2>7 DEF Answers, Online, Fresh, AckWait, MovesTo
    <2>9. ASSUME NEW u \in Thread, u # t PROVE Answers(u)'
        BY <1>1, <1>2, <1>5, <2>1, <2>9, OthersAnswered DEF InTalk
    <2> QED
        BY <2>4, <2>8, <2>9 DEF Flags
<1> QED
    BY <1>6, <1>7 DEF Talk

(* An offer's answer is a message that the pump handles.                   *)
LEMMA OfferReplyTalk ==
    ASSUME Lasting, Talk, NEW t \in Thread, task[t].at = "pump", UNCHANGED <<reader, hub, task>>,
           HasFrame, ~OutOfStep, Offering(t), Inward.kind \in Replies, ~Answered(t),
           client' = Handled(Inward), TakesFrame
    PROVE Talk'
<1> DEFINE f == Inward
           down == socket.down
<1>1. Records /\ Whole(client) /\ Shapes /\ Shape(t) /\ f.kind \in Replies
    BY DEF Lasting, Records, Talk, Shapes
<1>2. RestSame(t)
    BY DEF RestSame, SameTalk
<1>3. /\ socket'.up = socket.up /\ IsSeq(socket'.down) /\ FewerReplies(down, socket'.down)
      /\ 1 \in DownReplies(down) /\ down[1][2] = f
      /\ OneReply(down) => DownReplies(socket'.down) = {}
    <2>1. IsSeq(down) /\ down # <<>> /\ Paired(down) /\ ~IsBody(Head(down)) /\ f = Head(down)[2]
        BY <1>1 DEF Shapes, Seqs, HasFrame, OutOfStep, Inward
    <2>2. socket'.up = socket.up /\ socket'.down = Tail(Tail(down))
        BY <1>1 DEF TakesFrame, Records
    <2> HIDE DEF down, f
    <2>3. /\ IsSeq(Tail(Tail(down))) /\ FewerReplies(down, Tail(Tail(down)))
          /\ Head(down)[2].kind \in Replies => 1 \in DownReplies(down) /\ down[1][2] = Head(down)[2]
          /\ Head(down)[2].kind \in Replies /\ OneReply(down) => DownReplies(Tail(Tail(down))) = {}
        BY <2>1, FrameTaken
    <2> QED
        BY <1>1, <2>1, <2>2, <2>3
<1>4. /\ client'.mutex = client.mutex /\ client'.connected = client.connected
      /\ client'.waiting_for_channel = client.waiting_for_channel
    BY <1>1 DEF Handled, handle_message, Whole, Replies
<1>5. client.waiting_for_channel =>
        /\ f.kind \in {"ChannelAccept", "ChannelBusy"} =>
             /\ client'.channel_received /\ client'.channel_reply = f.kind
             /\ client'.ack_error = client.ack_error
        /\ f.kind = "Error" =>
             /\ client'.channel_received /\ client'.channel_reply = client.channel_reply
             /\ client'.ack_error = f.of
    BY <1>1 DEF Handled, handle_message, Whole
<1> HIDE DEF f
<1>6. Shapes'
    <2>1. Seqs'
        BY <1>1, <1>3 DEF Shapes, Seqs, FewerReplies
    <2> QED
        BY <1>1, <1>4, <2>1, TaskSame, ShapesKept
<1>7. ASSUME Calm' PROVE Lines' /\ Flags'
    <2>1. Lines /\ Flags /\ Answers(t) /\ Line(t)
        BY <1>7 DEF Talk, Flags, Lines, Calm
    <2>2. /\ DownReplies(socket'.down) = {} /\ f.of = t /\ f.kind = hub.said[t]
          /\ f.kind \in {"ChannelAccept", "ChannelBusy", "Error"}
          /\ UpAsks(socket.up) = {} /\ hub.offers = <<>>
        BY <1>3, <2>1 DEF Line, Fits
    <2>3. client.mutex = t /\ \A u \in Thread : task[u].at = "pump" => u = t
        BY <1>1, Holder
    <2>4. Line(t)'
        <3>1. hub.said[t] # None
            BY <2>2, NoneAssumption
        <3> QED
            BY <1>3, <2>2, <3>1 DEF Line, OneAsk, OneReply
    <2>5. Lines'
        BY <1>4, <2>1, <2>3, <2>4, NoneAssumption DEF Lines
    <2>6. ~client.channel_received /\ client.ack_error = NoError /\ client.connected
        BY DEF Answered
    <2>7. ASSUME ~task[t].overlapped PROVE Own(t)'
        <3>1. /\ Sole(t) /\ Faultless(t) /\ client.waiting_for_channel
              /\ client.channel_reply = "Ack"
            BY <2>1, <2>6, <2>7 DEF Answers, Own, InTalk, Busy, Unanswered, OfferTold
        <3>2. t # NoError
            BY NoneAssumption DEF NoError
        <3>3. OfferTold(t)'
            BY <1>5, <2>2, <2>6, <3>1, <3>2 DEF OfferTold, NoError
        <3>4. Sole(t)' /\ Faultless(t)' /\ Offering(t)' /\ task'[t].at = "pump"
            BY <3>1 DEF Sole, Faultless, Offering, Calls
        <3> QED
            BY <1>4, <3>1, <3>3, <3>4 DEF Own, AckWait, InTalk, Leaving
    <2>8. Answers(t)'
        BY <1>4, <2>6, <2>7 DEF Answers, Online, Fresh, AckWait, Offering, Calls
    <2>9. ASSUME NEW u \in Thread, u # t PROVE Answers(u)'
        BY <1>1, <1>2, <1>4, <2>1, <2>9, OthersAnswered DEF InTalk
    <2> QED
        BY <2>5, <2>8, <2>9 DEF Flags
<1> QED
    BY <1>6, <1>7 DEF Talk

LEMMA PumpReadsTalk == ASSUME Lasting, Talk, NEW t \in Thread, PumpReads(t) PROVE Talk'
<1>1. /\ Records /\ Whole(client) /\ Shapes /\ UNCHANGED <<reader, hub>>
      /\ task[t].at = "pump" /\ HasFrame /\ ~Answered(t)
    BY DEF Lasting, Records, Talk, Shapes, PumpReads, At
<1>2. CASE OutOfStep
    <2>1. client' = [client EXCEPT !.process = "garbled"] /\ UNCHANGED <<socket, task>>
        BY <1>2 DEF PumpReads
    <2>2. Left(client, client')
        BY <1>1, <2>1 DEF Whole, Left, FlagsSame
    <2> QED
        BY <1>1, <2>1, <2>2, LeftIsLeft, SocketSame, TaskSame, AsideKept
<1>3. CASE ~OutOfStep /\ IsReply(t, Inward)
    <2>1. client' = Unlocked(Handled(Inward)) /\ TakesFrame /\ Goes(t, "answered")
        BY <1>3 DEF PumpReads
    <2> QED
        BY <1>1, <1>3, <2>1, ReplyTalk
<1>4. CASE ~OutOfStep /\ ~IsReply(t, Inward)
    <2>1. client' = Handled(Inward) /\ TakesFrame /\ UNCHANGED task
        BY <1>4 DEF PumpReads
    <2>2. CASE Offering(t) /\ Inward.kind \in Replies
        BY <1>1, <1>4, <2>1, <2>2, OfferReplyTalk
    <2>3. CASE ~(Offering(t) /\ Inward.kind \in Replies)
        <3>1. /\ IsSeq(Tail(Tail(socket.down)))
              /\ FewerReplies(socket.down, Tail(Tail(socket.down)))
            BY <1>1, <1>4, DownTaken
        <3>2. Calm => Inward.kind \notin Replies
            <4> SUFFICES ASSUME Calm, Inward.kind \in Replies PROVE FALSE
                OBVIOUS
            <4>1. 1 \in DownReplies(socket.down) /\ socket.down[1][2] = Inward
                <5> DEFINE down == socket.down
                <5>1. IsSeq(down) /\ down # <<>> /\ Paired(down) /\ ~IsBody(Head(down))
                      /\ Inward = Head(down)[2]
                    BY <1>1, <1>4 DEF Shapes, Seqs, HasFrame, OutOfStep, Inward
                <5> HIDE DEF down
                <5>2. Head(down)[2].kind \in Replies =>
                        1 \in DownReplies(down) /\ down[1][2] = Head(down)[2]
                    BY <5>1, FrameTaken
                <5>3. 1 \in DownReplies(down) /\ down[1][2] = Inward
                    BY <5>1, <5>2
                <5> QED
                    BY <5>3 DEF down
            <4>2. Fits(t, hub.said[t]) /\ Inward.kind = hub.said[t] /\ ~Offering(t)
                BY <1>1, <2>3, <4>1 DEF Talk, Lines, Line
            <4> QED
                BY <1>4, <4>2 DEF Fits, IsReply
        <3>3. /\ client'.mutex = client.mutex /\ client'.connected = client.connected
              /\ Calm => FlagsSame(client, client')
            BY <1>1, <2>1, <3>2, OtherHandled DEF Handled
        <3>4. SocketKept
            BY <1>1, <2>1, <3>1, FewerOfSame DEF SocketKept, Shapes, Seqs, Records, TakesFrame
        <3> QED
            BY <1>1, <2>1, <3>3, <3>4, TaskSame, StepKept DEF Linked
    <2> QED
        BY <2>2, <2>3
<1> QED
    BY <1>2, <1>3, <1>4


(* A thread asks: it takes the mutex, and the answer's flags.              *)
LEMMA RequestTalk == ASSUME Lasting, Talk, NEW t \in Thread, Request(t) PROVE Talk'
<1> DEFINE c == [(IF Calls(t) = "channel_offer" THEN ForChannel(client) ELSE ForAck(client))
                   EXCEPT !.paused = TRUE, !.mutex = t]
           f == Frame(Calls(t), SideOf(t), t)
<1>1. /\ Records /\ Whole(client) /\ TaskRecords /\ Shapes /\ Shape(t)
      /\ task[t].at = "request" /\ MutexFree
      /\ Writes(c, f) /\ hub' = Says(t, None) /\ UNCHANGED reader
    BY DEF Lasting, Records, Talk, Shapes, Request, At
<1>2. /\ DOMAIN c = DOMAIN client /\ c.mutex = t /\ c.connected = client.connected
      /\ ~Offering(t) => /\ c.waiting_for_ack /\ ~c.ack_received /\ c.ack_error = NoError
      /\ Offering(t) => /\ c.waiting_for_channel /\ ~c.channel_received
                        /\ c.channel_reply = "Ack" /\ c.ack_error = NoError
    BY <1>1 DEF ForChannel, ForAck, Whole, Offering
<1>3. f.kind = Calls(t) /\ f.of = t
    BY DEF Frame
<1> HIDE DEF c, f
<1>4. /\ client'.mutex = t /\ client'.connected = client.connected
      /\ ~Offering(t) =>
           client'.waiting_for_ack /\ ~client'.ack_received /\ client'.ack_error = NoError
      /\ Offering(t) =>
           /\ client'.waiting_for_channel /\ ~client'.channel_received
           /\ client'.channel_reply = "Ack" /\ client'.ack_error = NoError
    BY <1>1, <1>2 DEF Writes, Whole
<1>5. /\ socket'.down = socket.down
      /\ socket'.up = IF socket.hungup THEN socket.up ELSE Append(socket.up, f)
    BY <1>1 DEF Writes, Records
<1>6. /\ hub'.died = hub.died /\ hub'.stray = hub.stray /\ hub'.offers = hub.offers
      /\ hub'.said = [hub.said EXCEPT ![t] = None]
    BY <1>1 DEF Says, Records
<1>7. /\ task'[t].at = "pump" /\ task'[t].call = task[t].call
      /\ task'[t].result = task[t].result
      /\ task'[t].overlapped = (task[t].overlapped \/ Unsettled # {})
      /\ client.connected => task'[t].fault = task[t].fault
    <2>1. task'[t] = [task[t] EXCEPT !.at = "pump",
                        !.fault = IF NotConnected = None THEN @ ELSE NotConnected,
                        !.overlapped = @ \/ Unsettled # {}]
        <3>1. t \notin Unsettled
            BY <1>1 DEF Unsettled
        <3> QED
            BY <3>1 DEF Request
    <2> QED
        BY <1>1, <2>1 DEF TaskRecords, NotConnected
<1>8. ASSUME NEW u \in Thread, u # t
      PROVE /\ task'[u].at = task[u].at /\ task'[u].call = task[u].call
            /\ task'[u].result = task[u].result
            /\ u \in Unsettled => task'[u].overlapped
            /\ u \notin Unsettled => task'[u] = task[u]
    <2>1. CASE u \in Unsettled
        <3>1. task'[u] = [task[u] EXCEPT !.overlapped = TRUE]
            BY <1>8, <2>1 DEF Request
        <3> QED
            BY <1>1, <2>1, <3>1 DEF TaskRecords
    <2>2. CASE u \notin Unsettled
        <3>1. task'[u] = task[u]
            BY <1>8, <2>2 DEF Request
        <3> QED
            BY <2>2, <3>1
    <2> QED
        BY <2>1, <2>2
<1>9. \A u \in Thread : task[u].at # "pump"
    BY <1>1, NoneAssumption DEF MutexFree, Shapes, Shape
<1>10. Shapes'
    <2>1. IsSeq(Append(socket.up, f))
        BY <1>1, SeqAppended DEF Shapes, Seqs
    <2>2. Seqs'
        BY <1>1, <1>5, <2>1 DEF Shapes, Seqs
    <2>3. Shape(t)'
        BY <1>1, <1>4, <1>7 DEF Shape, InTalk, Leaving
    <2>4. \A u \in Thread : u # t => (client'.mutex = u <=> client.mutex = u)
        BY <1>1, <1>4, NoneAssumption DEF MutexFree
    <2>5. client'.mutex \in Thread \cup {None} /\ DOMAIN hub'.said = DOMAIN hub.said
        BY <1>4, <1>6
    <2> QED
        BY <1>1, <1>8, <2>2, <2>3, <2>4, <2>5, ShapesMoved
<1>11. (Offering(t)' <=> Offering(t)) /\ Calls(t)' = Calls(t)
    BY <1>7 DEF Offering, Calls
<1>12. ASSUME Calm' PROVE Lines' /\ Flags'
    <2>1. /\ Lines /\ Flags /\ Quiet /\ ~socket.hungup /\ Answers(t) /\ client.connected
        <3>1. Calm /\ Lines /\ Flags
            BY <1>6, <1>12 DEF Talk, Calm
        <3>2. Answers(t) /\ client.connected
            BY <1>1, <3>1 DEF Flags, Answers, Online, Busy
        <3> QED
            BY <1>1, <3>1, <3>2, QuietLine DEF Lasting, Calm
    <2>2. socket'.up = Append(socket.up, f)
        BY <1>5, <2>1
    <2>3. /\ OneAsk(socket'.up) /\ \A i \in UpAsks(socket'.up) : socket'.up[i] = f
        <3> DEFINE up == socket.up
        <3>1. IsSeq(up) /\ UpAsks(up) = {}
            BY <1>1, <2>1 DEF Shapes, Seqs, Quiet
        <3> HIDE DEF up
        <3>2. /\ OneAsk(Append(up, f))
              /\ \A i \in UpAsks(Append(up, f)) : Append(up, f)[i] = f
            BY <3>1, RequestAppended
        <3> QED
            BY <2>2, <3>2 DEF up
    <2>4. Line(t)'
        <3>1. DownReplies(socket'.down) = {} /\ OneReply(socket'.down) /\ hub'.offers = <<>>
            BY <1>5, <1>6, <2>1 DEF Quiet, OneReply
        <3>2. hub'.said[t] = None
            BY <1>1, <1>6 DEF Shapes
        <3>3. \A i \in UpAsks(socket'.up) :
                socket'.up[i].of = t /\ socket'.up[i].kind = Calls(t)' /\ hub'.said[t] = None
                  /\ hub'.offers = <<>>
            BY <1>3, <1>11, <2>3, <3>1, <3>2
        <3>4. Offering(t)' => ~client'.channel_received /\ client'.ack_error = NoError
            BY <1>4, <1>11
        <3>5. OneAsk(socket.up)' /\ OneReply(socket.down)'
            BY <2>3, <3>1
        <3>6. \A i \in DownReplies(socket'.down) : FALSE
            BY <3>1
        <3> QED
            BY <3>1, <3>3, <3>4, <3>5, <3>6 DEF Line, NoError, Calls, Offering
    <2>5. Lines'
        BY <1>1, <1>4, <1>8, <1>9, <2>1, <2>4, NoneAssumption DEF Lines
    <2>6. ASSUME ~task'[t].overlapped PROVE Own(t)'
        <3>1. Sole(t)'
            <4>1. \A u \in Thread : u \notin Unsettled
                BY <1>7, <2>6
            <4>2. \A u \in Thread : task[u].at \notin InTalk
                BY <1>9, <4>1 DEF Unsettled, InTalk
            <4> QED
                BY <1>8, <4>2 DEF Sole
        <3>2. Faultless(t)
            BY <1>1, <1>7, <2>1, <2>6 DEF Answers, Own, Busy
        <3>3. Faultless(t)'
            BY <1>1, <1>7, <1>11, <2>1, <3>2 DEF Faultless
        <3>4. AckWait(t)' => client'.waiting_for_ack
            BY <1>4, <1>11 DEF AckWait
        <3>5. Offering(t)' => client'.waiting_for_channel /\ Unanswered'
            BY <1>4, <1>11 DEF Unanswered, NoError
        <3> QED
            BY <1>7, <3>1, <3>3, <3>4, <3>5 DEF Own, InTalk, Leaving
    <2>7. Answers(t)'
        BY <1>4, <1>7, <1>11, <2>1, <2>6 DEF Answers, Online, Fresh, AckWait, NoError
    <2>8. ASSUME NEW u \in Thread, u # t PROVE Answers(u)'
        <3>1. Answers(u) /\ task'[u].at # "pump" /\ client'.connected
            BY <1>4, <1>8, <1>9, <2>1, <2>8 DEF Flags
        <3>2. CASE u \in Unsettled
            BY <1>8, <2>8, <3>1, <3>2 DEF Answers, Online, Fresh, AckWait
        <3>3. CASE u \notin Unsettled
            <4>1. task'[u] = task[u] /\ task[u].at \notin InTalk
                BY <1>8, <1>9, <2>8, <3>3 DEF Unsettled, InTalk
            <4>2. hub'.said[u] = hub.said[u]
                BY <1>1, <1>6, <2>8 DEF Shapes
            <4>3. SameTalk(u)
                BY <4>1 DEF SameTalk
            <4> QED
                BY <3>1, <4>1, <4>2, <4>3, OutsideKept
        <3> QED
            BY <3>2, <3>3
    <2> QED
        BY <2>5, <2>7, <2>8 DEF Flags
<1> QED
    BY <1>10, <1>12 DEF Talk


-----------------------------------------------------------------------------
(* It holds at first, and every step keeps it.                             *)

LEMMA InitTalk == Init => Talk
<1> SUFFICES ASSUME Init PROVE Talk
    OBVIOUS
<1>1. /\ \A t \in Thread : /\ task[t].at = "idle" /\ task[t].call = None
                           /\ task[t].result = None /\ task[t].fault = None
      /\ client.mutex = None /\ hub.offers = <<>>
      /\ reader.at = "none" /\ reader.held = <<>> /\ socket.up = <<>> /\ socket.down = <<>>
      /\ hub.said = [t \in Thread |-> None]
    BY DEF Init, NoTask
<1>2. IsSeq(<<>>) /\ DOMAIN <<>> = {}
    BY EmptyIsSeq
<1>3. Paired(<<>>) /\ NoReplies(<<>>) /\ UpAsks(<<>>) = {} /\ DownReplies(<<>>) = {}
    BY <1>2 DEF Paired, NoReplies, UpAsks, DownReplies
<1>4. Shapes
    <2>1. Seqs
        BY <1>1, <1>2, <1>3 DEF Seqs
    <2>2. \A t \in Thread : Shape(t)
        BY <1>1, NoneAssumption DEF Shape, InTalk, Leaving
    <2> QED
        BY <1>1, <2>1, <2>2 DEF Shapes
<1>5. Lines
    BY <1>1, <1>3 DEF Lines, Quiet
<1>6. Flags
    <2> SUFFICES ASSUME NEW t \in Thread PROVE Answers(t)
        BY DEF Flags
    <2>1. Returned(t)
        BY <1>1, NoneAssumption DEF Returned
    <2> QED
        BY <1>1, <2>1 DEF Answers, Online, Fresh, Own, AckWait, InTalk, Busy, Leaving
<1> QED
    BY <1>4, <1>5, <1>6 DEF Talk

LEMMA NextTalk == ASSUME Lasting, Talk, [Next]_vars PROVE Talk'
<1>1. CASE Hub \/ ReaderLoop
    BY <1>1, AnswersTalk, DecidesTalk, HubTalk, ReaderTalk DEF Hub
<1>2. ASSUME NEW t \in Thread, Work(t) PROVE Talk'
    <2>1. \/ AlreadyConnected(t) \/ Reserve(t) \/ Find(t) \/ Connect(t) \/ StartReader(t)
          \/ Request(t) \/ PumpEnds(t) \/ PumpLost(t) \/ PumpReads(t)
          \/ Settle(t) \/ Outcome(t)
          \/ Receive(t) \/ ReceiveNothing(t) \/ DrainQueue(t) \/ DrainNothing(t) \/ OwnTurn(t)
          \/ Announce(t) \/ Acknowledge(t) \/ Detach(t) \/ Forget(t)
          \/ OwnNothing(t) \/ OwnReads(t) \/ HangUp(t) \/ CloseAndJoin(t)
        BY <1>2 DEF Work, Settle, Outcome
    <2>2. CASE AlreadyConnected(t) \/ Reserve(t) \/ Find(t) \/ Connect(t) \/ StartReader(t)
        BY <2>2, EnsureTalk, ConnectTalk, StartTalk
    <2>3. CASE Request(t) \/ PumpEnds(t) \/ PumpLost(t) \/ PumpReads(t) \/ Settle(t) \/ Outcome(t)
        BY <2>3, RequestTalk, PumpEndsTalk, PumpReadsTalk, LookTalk, OutcomeTalk
    <2>4. CASE Receive(t) \/ ReceiveNothing(t) \/ DrainQueue(t) \/ DrainNothing(t) \/ OwnTurn(t)
        BY <2>4, ReceiveTalk
    <2>5. CASE \/ Announce(t) \/ Acknowledge(t) \/ Detach(t) \/ Forget(t)
               \/ OwnNothing(t) \/ OwnReads(t) \/ HangUp(t) \/ CloseAndJoin(t)
        BY <2>5, WordTalk, OwnTalk, HangUpTalk
    <2> QED
        BY <2>1, <2>2, <2>3, <2>4, <2>5
<1>3. ASSUME NEW t \in Thread, Call(t) \/ Disconnect(t) PROVE Talk'
    BY <1>3, CallTalk, HangUpTalk
<1>4. CASE UNCHANGED vars
    <2>1. UNCHANGED <<client, reader, task, socket, hub>>
        BY <1>4 DEF vars
    <2>2. SocketKept /\ Talkers
        BY <2>1, SocketSame, TaskSame DEF Talk
    <2> QED
        BY <2>1, <2>2, AsideKept DEF ClientLeft, FlagsSame, Linked
<1> QED
    BY <1>1, <1>2, <1>3, <1>4 DEF Next


(***************************************************************************)
(* As long as the hub lives, and has answered nothing that nobody waits    *)
(* for, a call that has its answer while no other thread asks has the one  *)
(* the hub gave to it: wait_for_hub_reply returns its own acknowledgement  *)
(* or error, and the opcode on which channel_send backs off or publishes   *)
(* is the peer's answer to its own offer, or that of an offer the hub has  *)
(* refused.                                                                *)
(***************************************************************************)
THEOREM AnswersReturned == Spec => []AnswerIsOwn
<1>1. Init => Lasting /\ Talk
    BY InitLasting, InitTalk
<1>2. Lasting /\ Talk /\ [Next]_vars => (Lasting /\ Talk)'
    BY NextLasting, NextTalk
<1>3. Talk => AnswerIsOwn
    <2> SUFFICES ASSUME Talk, NEW t \in Thread, Calm, ~task[t].overlapped,
                        task[t].call \in Requests \cup {"channel_send"}
                 PROVE /\ task[t].at = "opcode" =>
                            IF task[t].fault = "refused" THEN hub.said[t] = "Error"
                            ELSE hub.said[t] = client.channel_reply
                       /\ task[t].result = "done" => hub.said[t] = "Ack"
                       /\ task[t].result = "refused" => hub.said[t] = "Error"
                       /\ task[t].result # "noreply"
        BY DEF AnswerIsOwn, Calm
    <2>1. Shape(t) /\ Own(t)
        BY DEF Talk, Shapes, Flags, Answers
    <2>2. CASE task[t].at = "idle"
        BY <2>1, <2>2 DEF Own, Returned
    <2>3. CASE task[t].at # "idle"
        <3>1. task[t].result = None
            BY <2>1, <2>3 DEF Shape
        <3>2. task[t].at = "opcode" => Replied(t)
            BY <2>1 DEF Own
        <3> QED
            BY <3>1, <3>2, NoneAssumption DEF Replied
    <2> QED
        BY <2>2, <2>3
<1> QED
    BY <1>1, <1>2, <1>3, PTL DEF Spec

-----------------------------------------------------------------------------
(* Where the messages are.  A step takes some of them from one place to    *)
(* another, or leaves them where they are.                                 *)

Wire == <<"socket", NoQueue>>
Hand == <<"reader", NoQueue>>
Program == <<"program", NoQueue>>
Queue(q) == <<"queue", q>>
Contents(down, held, store, got) ==
  [p \in {Wire, Hand, Program} \cup {Queue(q) : q \in DOMAIN store} |->
     CASE p[1] = "socket" -> OnTheLine(down)
       [] p[1] = "reader" -> InHand(held)
       [] p[1] = "queue" -> Numbers(store[p[2]].items)
       [] p[1] = "program" -> Numbers(got)]
Apart(F, n) ==
  /\ UNION {Range(F[p]) : p \in DOMAIN F} = 1..n
  /\ \A p \in DOMAIN F : IsInjective(F[p])
  /\ \A p, q \in DOMAIN F : p # q => Range(F[p]) \cap Range(F[q]) = {}

Gives(f, g, X) ==
  /\ Range(f) = Range(g) \cup X
  /\ IsInjective(f) => IsInjective(g) /\ Range(g) \cap X = {}
Gets(f, g, X) ==
  /\ Range(g) = Range(f) \cup X
  /\ IsInjective(f) /\ Range(f) \cap X = {} => IsInjective(g)

Elsewhere(F, G, a, b) == \A p \in DOMAIN F : p # a /\ p # b => G[p] = F[p]
LEMMA Moved ==
    ASSUME NEW F, NEW n, Apart(F, n), NEW G, DOMAIN G = DOMAIN F,
           NEW a \in DOMAIN F, NEW b \in DOMAIN F, a # b, NEW X,
           Gives(F[a], G[a], X), Gets(F[b], G[b], X),
           Elsewhere(F, G, a, b)
    PROVE Apart(G, n)
<1>1. /\ IsInjective(F[a]) /\ IsInjective(F[b]) /\ Range(F[a]) \cap Range(F[b]) = {}
    BY DEF Apart
<1>2. /\ Range(F[a]) = Range(G[a]) \cup X /\ IsInjective(G[a]) /\ Range(G[a]) \cap X = {}
    BY <1>1 DEF Gives
<1>3. /\ Range(G[b]) = Range(F[b]) \cup X /\ IsInjective(G[b])
    BY <1>1, <1>2 DEF Gets
<1>4. UNION {Range(G[p]) : p \in DOMAIN G} = UNION {Range(F[p]) : p \in DOMAIN F}
    <2>1. ASSUME NEW m, NEW p \in DOMAIN F, m \in Range(F[p])
          PROVE \E q \in DOMAIN F : m \in Range(G[q])
        <3>1. m \in Range(G[p]) \/ m \in Range(G[a]) \/ m \in Range(G[b])
            BY <1>2, <1>3, <2>1 DEF Elsewhere
        <3> QED
            BY <3>1
    <2>2. ASSUME NEW m, NEW p \in DOMAIN F, m \in Range(G[p])
          PROVE \E q \in DOMAIN F : m \in Range(F[q])
        <3>1. m \in Range(F[p]) \/ m \in Range(F[a]) \/ m \in Range(F[b])
            BY <1>2, <1>3, <2>2 DEF Elsewhere
        <3> QED
            BY <3>1
    <2> QED
        BY <2>1, <2>2
<1>5. ASSUME NEW p \in DOMAIN F PROVE IsInjective(G[p])
    BY <1>2, <1>3 DEF Apart, Elsewhere
<1>6. ASSUME NEW p \in DOMAIN F, NEW q \in DOMAIN F, p # q
      PROVE Range(G[p]) \cap Range(G[q]) = {}
    <2>1. /\ Range(F[p]) \cap Range(F[q]) = {}
          /\ p # a => Range(F[p]) \cap Range(F[a]) = {}
          /\ q # a => Range(F[q]) \cap Range(F[a]) = {}
        BY <1>6 DEF Apart
    <2>2. (p = a \/ p = b \/ G[p] = F[p]) /\ (q = a \/ q = b \/ G[q] = F[q])
        BY DEF Elsewhere
    <2> QED
        BY <1>2, <1>3, <1>6, <2>1, <2>2
<1> QED
    BY <1>4, <1>5, <1>6 DEF Apart

Laid(F, d, h, s, g) ==
  /\ DOMAIN F = {Wire, Hand, Program} \cup {Queue(q) : q \in DOMAIN s}
  /\ F[Wire] = OnTheLine(d) /\ F[Hand] = InHand(h) /\ F[Program] = Numbers(g)
  /\ \A q \in DOMAIN s : F[Queue(q)] = Numbers(s[q].items)
LEMMA PlacesDiffer ==
    /\ Wire # Hand /\ Wire # Program /\ Hand # Program
    /\ \A q : Queue(q) # Wire /\ Queue(q) # Hand /\ Queue(q) # Program
BY DEF Wire, Hand, Program, Queue

LEMMA ContentsOf ==
    ASSUME NEW d, NEW h, NEW s, NEW g
    PROVE Laid(Contents(d, h, s, g), d, h, s, g)
<1>1. /\ Wire[1] = "socket" /\ Hand[1] = "reader" /\ Program[1] = "program"
      /\ \A q : Queue(q)[1] = "queue" /\ Queue(q)[2] = q
    BY DEF Wire, Hand, Program, Queue
<1>2. \A q \in DOMAIN s : Queue(q) \in {Wire, Hand, Program} \cup {Queue(r) : r \in DOMAIN s}
    OBVIOUS
<1> QED
    BY <1>1, <1>2 DEF Contents, Laid

LEMMA PlacesAre ==
    /\ DOMAIN Contents(socket.down, reader.held, client.store, received) = Places
    /\ \A p \in Places :
         Contents(socket.down, reader.held, client.store, received)[p] = MessagesAt(p)
BY DEF Contents, Places, MessagesAt, Wire, Hand, Program, Queue

(* NothingLost, but for what it says of the names of the queues.           *)
Scattered ==
  ~Over /\ ~hub.died =>
    /\ UNION {Range(MessagesAt(p)) : p \in Places} = 1..hub.sent
    /\ \A p \in Places : IsInjective(MessagesAt(p))
    /\ \A p, q \in Places : p # q => Range(MessagesAt(p)) \cap Range(MessagesAt(q)) = {}
LEMMA LostIsApart ==
    Scattered <=>
      (~Over /\ ~hub.died =>
         Apart(Contents(socket.down, reader.held, client.store, received), hub.sent))
<1> DEFINE F == Contents(socket.down, reader.held, client.store, received)
<1>1. DOMAIN F = Places /\ \A p \in Places : F[p] = MessagesAt(p)
    BY PlacesAre
<1> HIDE DEF F
<1>2. {Range(F[p]) : p \in DOMAIN F} = {Range(MessagesAt(p)) : p \in Places}
    BY <1>1
<1>3. (\A p \in DOMAIN F : IsInjective(F[p])) <=> \A p \in Places : IsInjective(MessagesAt(p))
    BY <1>1
<1>4. (\A p, q \in DOMAIN F : p # q => Range(F[p]) \cap Range(F[q]) = {})
        <=> \A p, q \in Places : p # q => Range(MessagesAt(p)) \cap Range(MessagesAt(q)) = {}
    BY <1>1
<1> QED
    BY <1>2, <1>3, <1>4 DEF Apart, Scattered, F

(* A place that gives nothing, or gets nothing.                            *)
LEMMA NothingGot == ASSUME NEW f PROVE Gets(f, f, {}) /\ Gives(f, f, {})
BY DEF Gets, Gives

(* Queues come, and are closed; their messages stay.                       *)
StoreGrows(s, t) ==
  /\ DOMAIN s \subseteq DOMAIN t
  /\ \A q \in DOMAIN s : t[q].items = s[q].items
  /\ \A q \in DOMAIN t \ DOMAIN s : t[q].items = <<>>
OthersStay(s, t, q) ==
  DOMAIN t = DOMAIN s /\ \A p \in DOMAIN s : p # q => t[p].items = s[p].items
LEMMA QueuesCome ==
    ASSUME NEW d, NEW h, NEW s, NEW g, NEW n, Apart(Contents(d, h, s, g), n),
           NEW t, StoreGrows(s, t)
    PROVE Apart(Contents(d, h, t, g), n)
<1> DEFINE F == Contents(d, h, s, g)
           G == Contents(d, h, t, g)
<1>0. Laid(F, d, h, s, g) /\ Laid(G, d, h, t, g)
    BY ContentsOf
<1> HIDE DEF F, G
<1>1. /\ DOMAIN F = {Wire, Hand, Program} \cup {Queue(q) : q \in DOMAIN s}
      /\ F[Wire] = OnTheLine(d) /\ F[Hand] = InHand(h) /\ F[Program] = Numbers(g)
      /\ \A q \in DOMAIN s : F[Queue(q)] = Numbers(s[q].items)
    BY <1>0, PlacesDiffer DEF Laid
<1>2. /\ DOMAIN G = {Wire, Hand, Program} \cup {Queue(q) : q \in DOMAIN t}
      /\ G[Wire] = OnTheLine(d) /\ G[Hand] = InHand(h) /\ G[Program] = Numbers(g)
      /\ \A q \in DOMAIN t : G[Queue(q)] = Numbers(t[q].items)
    BY <1>0 DEF Laid
<1>3. DOMAIN F \subseteq DOMAIN G
    BY <1>1, <1>2 DEF StoreGrows
<1>4. ASSUME NEW p \in DOMAIN F PROVE G[p] = F[p]
    <2>1. CASE p \in {Wire, Hand, Program}
        BY <1>1, <1>2, <2>1
    <2>2. ASSUME NEW q \in DOMAIN s, p = Queue(q) PROVE G[p] = F[p]
        <3>1. q \in DOMAIN t /\ t[q].items = s[q].items
            BY DEF StoreGrows
        <3> QED
            BY <1>1, <1>2, <2>2, <3>1
    <2> QED
        BY <1>1, <2>1, <2>2
<1>5. ASSUME NEW p \in DOMAIN G, p \notin DOMAIN F PROVE Range(G[p]) = {} /\ IsInjective(G[p])
    <2>1. PICK q \in DOMAIN t : p = Queue(q)
        BY <1>1, <1>2, <1>5
    <2>2. q \notin DOMAIN s
        BY <1>1, <1>5, <2>1
    <2>3. G[p] = Numbers(<<>>)
        BY <1>2, <2>1, <2>2 DEF StoreGrows
    <2>4. DOMAIN Numbers(<<>>) = {}
        BY EmptyIsSeq DEF Numbers
    <2> QED
        BY <2>3, <2>4 DEF Range, IsInjective
<1>6. Apart(F, n)
    BY DEF F
<1>7. UNION {Range(G[p]) : p \in DOMAIN G} = UNION {Range(F[p]) : p \in DOMAIN F}
    <2>1. ASSUME NEW m, NEW p \in DOMAIN G, m \in Range(G[p])
          PROVE p \in DOMAIN F /\ m \in Range(F[p])
        BY <1>4, <1>5, <2>1
    <2>2. ASSUME NEW m, NEW p \in DOMAIN F, m \in Range(F[p])
          PROVE p \in DOMAIN G /\ m \in Range(G[p])
        BY <1>3, <1>4, <2>2
    <2> QED
        BY <2>1, <2>2
<1>8. \A p \in DOMAIN G : IsInjective(G[p])
    BY <1>4, <1>5, <1>6 DEF Apart
<1>9. ASSUME NEW p \in DOMAIN G, NEW q \in DOMAIN G, p # q PROVE Range(G[p]) \cap Range(G[q]) = {}
    <2>1. CASE p \in DOMAIN F /\ q \in DOMAIN F
        BY <1>4, <1>6, <1>9, <2>1 DEF Apart
    <2>2. CASE p \notin DOMAIN F \/ q \notin DOMAIN F
        BY <1>5, <2>2
    <2> QED
        BY <2>1, <2>2
<1> QED
    BY <1>6, <1>7, <1>8, <1>9 DEF Apart, G

(* Messages move to a queue, from the socket or from the reader's hands.   *)
LEMMA ToQueue ==
    ASSUME NEW d, NEW h, NEW s, NEW g, NEW n, Apart(Contents(d, h, s, g), n),
           NEW e, NEW k, NEW t, NEW q \in DOMAIN s, NEW X, OthersStay(s, t, q),
           Gets(Numbers(s[q].items), Numbers(t[q].items), X),
           \/ Gives(OnTheLine(d), OnTheLine(e), X) /\ k = h
           \/ Gives(InHand(h), InHand(k), X) /\ e = d
    PROVE Apart(Contents(e, k, t, g), n)
<1> DEFINE F == Contents(d, h, s, g)
           G == Contents(e, k, t, g)
<1>0. Laid(F, d, h, s, g) /\ Laid(G, e, k, t, g)
    BY ContentsOf
<1>3. Apart(F, n)
    OBVIOUS
<1> HIDE DEF F, G
<1>1. /\ DOMAIN F = {Wire, Hand, Program} \cup {Queue(p) : p \in DOMAIN s}
      /\ F[Wire] = OnTheLine(d) /\ F[Hand] = InHand(h) /\ F[Program] = Numbers(g)
      /\ \A p \in DOMAIN s : F[Queue(p)] = Numbers(s[p].items)
    BY <1>0, PlacesDiffer DEF Laid
<1>2. /\ DOMAIN G = {Wire, Hand, Program} \cup {Queue(p) : p \in DOMAIN t}
      /\ G[Wire] = OnTheLine(e) /\ G[Hand] = InHand(k) /\ G[Program] = Numbers(g)
      /\ \A p \in DOMAIN t : G[Queue(p)] = Numbers(t[p].items)
    BY <1>0 DEF Laid
<1>4. DOMAIN G = DOMAIN F /\ Wire \in DOMAIN F /\ Hand \in DOMAIN F /\ Queue(q) \in DOMAIN F
    BY <1>1, <1>2 DEF OthersStay
<1>5. ASSUME NEW p \in DOMAIN F, p \notin {Wire, Hand, Queue(q)} PROVE G[p] = F[p]
    <2>1. CASE p = Program
        BY <1>1, <1>2, <2>1
    <2>2. ASSUME NEW r \in DOMAIN s, p = Queue(r) PROVE G[p] = F[p]
        <3>1. r # q /\ t[r].items = s[r].items /\ r \in DOMAIN t
            BY <1>5, <2>2 DEF OthersStay
        <3> QED
            BY <1>1, <1>2, <2>2, <3>1
    <2> QED
        BY <1>1, <1>5, <2>1, <2>2
<1>6. Gets(F[Queue(q)], G[Queue(q)], X)
    BY <1>1, <1>2 DEF OthersStay
<1>7. CASE Gives(OnTheLine(d), OnTheLine(e), X) /\ k = h
    <2>1. Gives(F[Wire], G[Wire], X) /\ G[Hand] = F[Hand]
        BY <1>1, <1>2, <1>7
    <2>2. Elsewhere(F, G, Wire, Queue(q))
        BY <1>5, <2>1 DEF Elsewhere
    <2>3. Apart(G, n)
        BY <1>3, <1>4, <1>6, <2>1, <2>2, Moved, PlacesDiffer
    <2> QED
        BY <2>3 DEF G
<1>8. CASE Gives(InHand(h), InHand(k), X) /\ e = d
    <2>1. Gives(F[Hand], G[Hand], X) /\ G[Wire] = F[Wire]
        BY <1>1, <1>2, <1>8
    <2>2. Elsewhere(F, G, Hand, Queue(q))
        BY <1>5, <2>1 DEF Elsewhere
    <2>3. Apart(G, n)
        BY <1>3, <1>4, <1>6, <2>1, <2>2, Moved, PlacesDiffer
    <2> QED
        BY <2>3 DEF G
<1> QED
    BY <1>7, <1>8

(* ... to the program, from the socket or from a queue.                    *)
LEMMA ToProgram ==
    ASSUME NEW d, NEW h, NEW s, NEW g, NEW n, Apart(Contents(d, h, s, g), n),
           NEW e, NEW t, NEW f, NEW X, NEW q,
           Gets(Numbers(g), Numbers(f), X),
           \/ Gives(OnTheLine(d), OnTheLine(e), X) /\ t = s
           \/ q \in DOMAIN s /\ Gives(Numbers(s[q].items), Numbers(t[q].items), X) /\ e = d
                /\ OthersStay(s, t, q)
    PROVE Apart(Contents(e, h, t, f), n)
<1> DEFINE F == Contents(d, h, s, g)
           G == Contents(e, h, t, f)
<1>0. Laid(F, d, h, s, g) /\ Laid(G, e, h, t, f)
    BY ContentsOf
<1>3. Apart(F, n)
    OBVIOUS
<1> HIDE DEF F, G
<1>1. /\ DOMAIN F = {Wire, Hand, Program} \cup {Queue(p) : p \in DOMAIN s}
      /\ F[Wire] = OnTheLine(d) /\ F[Hand] = InHand(h) /\ F[Program] = Numbers(g)
      /\ \A p \in DOMAIN s : F[Queue(p)] = Numbers(s[p].items)
    BY <1>0, PlacesDiffer DEF Laid
<1>2. /\ DOMAIN G = {Wire, Hand, Program} \cup {Queue(p) : p \in DOMAIN t}
      /\ G[Wire] = OnTheLine(e) /\ G[Hand] = InHand(h) /\ G[Program] = Numbers(f)
      /\ \A p \in DOMAIN t : G[Queue(p)] = Numbers(t[p].items)
    BY <1>0 DEF Laid
<1>4. DOMAIN G = DOMAIN F /\ Wire \in DOMAIN F /\ Program \in DOMAIN F
    BY <1>1, <1>2 DEF OthersStay
<1>5. Gets(F[Program], G[Program], X)
    BY <1>1, <1>2
<1>6. CASE Gives(OnTheLine(d), OnTheLine(e), X) /\ t = s
    <2>1. Gives(F[Wire], G[Wire], X)
        BY <1>1, <1>2, <1>6
    <2>2. Elsewhere(F, G, Wire, Program)
        BY <1>1, <1>2, <1>6 DEF Elsewhere
    <2>3. Apart(G, n)
        BY <1>3, <1>4, <1>5, <2>1, <2>2, Moved, PlacesDiffer
    <2> QED
        BY <2>3 DEF G
<1>7. CASE q \in DOMAIN s /\ Gives(Numbers(s[q].items), Numbers(t[q].items), X) /\ e = d
             /\ OthersStay(s, t, q)
    <2>1. Gives(F[Queue(q)], G[Queue(q)], X) /\ Queue(q) \in DOMAIN F
        BY <1>1, <1>2, <1>7 DEF OthersStay
    <2>2. ASSUME NEW p \in DOMAIN F, p # Queue(q), p # Program PROVE G[p] = F[p]
        <3>1. CASE p \in {Wire, Hand}
            BY <1>1, <1>2, <1>7, <3>1
        <3>2. ASSUME NEW r \in DOMAIN s, p = Queue(r) PROVE G[p] = F[p]
            <4>1. r # q /\ t[r].items = s[r].items /\ r \in DOMAIN t
                BY <1>7, <2>2, <3>2 DEF OthersStay
            <4> QED
                BY <1>1, <1>2, <3>2, <4>1
        <3> QED
            BY <1>1, <2>2, <3>1, <3>2
    <2>3. Elsewhere(F, G, Queue(q), Program)
        BY <2>2 DEF Elsewhere
    <2>4. Apart(G, n)
        BY <1>3, <1>4, <1>5, <2>1, <2>3, Moved, PlacesDiffer
    <2> QED
        BY <2>4 DEF G
<1> QED
    BY <1>6, <1>7

(* ... from the socket into the reader's hands; an answer goes from either *)
(* to nowhere.                                                             *)
LEMMA ToHand ==
    ASSUME NEW d, NEW h, NEW s, NEW g, NEW n, Apart(Contents(d, h, s, g), n), NEW e, NEW k, NEW X,
           \/ Gives(OnTheLine(d), OnTheLine(e), X) /\ Gets(InHand(h), InHand(k), X)
           \/ Gives(InHand(h), InHand(k), {}) /\ e = d
    PROVE Apart(Contents(e, k, s, g), n)
<1> DEFINE F == Contents(d, h, s, g)
           G == Contents(e, k, s, g)
<1>0. Laid(F, d, h, s, g) /\ Laid(G, e, k, s, g)
    BY ContentsOf
<1>3. Apart(F, n)
    OBVIOUS
<1> HIDE DEF F, G
<1>1. /\ DOMAIN F = {Wire, Hand, Program} \cup {Queue(p) : p \in DOMAIN s}
      /\ F[Wire] = OnTheLine(d) /\ F[Hand] = InHand(h) /\ F[Program] = Numbers(g)
      /\ \A p \in DOMAIN s : F[Queue(p)] = Numbers(s[p].items)
    BY <1>0, PlacesDiffer DEF Laid
<1>2. /\ DOMAIN G = {Wire, Hand, Program} \cup {Queue(p) : p \in DOMAIN s}
      /\ G[Wire] = OnTheLine(e) /\ G[Hand] = InHand(k) /\ G[Program] = Numbers(g)
      /\ \A p \in DOMAIN s : G[Queue(p)] = Numbers(s[p].items)
    BY <1>0 DEF Laid
<1>4. DOMAIN G = DOMAIN F /\ Wire \in DOMAIN F /\ Hand \in DOMAIN F
    BY <1>1, <1>2
<1>5. Elsewhere(F, G, Wire, Hand)
    BY <1>1, <1>2 DEF Elsewhere
<1>6. CASE Gives(OnTheLine(d), OnTheLine(e), X) /\ Gets(InHand(h), InHand(k), X)
    <2>1. Gives(F[Wire], G[Wire], X) /\ Gets(F[Hand], G[Hand], X)
        BY <1>1, <1>2, <1>6
    <2>2. Apart(G, n)
        BY <1>3, <1>4, <1>5, <2>1, Moved, PlacesDiffer
    <2> QED
        BY <2>2 DEF G
<1>7. CASE Gives(InHand(h), InHand(k), {}) /\ e = d
    <2>1. Gives(F[Hand], G[Hand], {}) /\ G[Wire] = F[Wire]
        BY <1>1, <1>2, <1>7
    <2>2. Gets(F[Wire], G[Wire], {})
        BY <2>1, NothingGot
    <2>4. Elsewhere(F, G, Hand, Wire)
        BY <1>5 DEF Elsewhere
    <2>3. Apart(G, n)
        BY <1>3, <1>4, <2>1, <2>2, <2>4, Moved, PlacesDiffer
    <2> QED
        BY <2>3 DEF G
<1> QED
    BY <1>6, <1>7

(* The hub sends the next message.                                         *)
LEMMA NewMessage ==
    ASSUME NEW d, NEW h, NEW s, NEW g, NEW n \in Nat, Apart(Contents(d, h, s, g), n), NEW e,
           Gets(OnTheLine(d), OnTheLine(e), {n + 1})
    PROVE Apart(Contents(e, h, s, g), n + 1)
<1> DEFINE F == Contents(d, h, s, g)
           G == Contents(e, h, s, g)
<1>0. Laid(F, d, h, s, g) /\ Laid(G, e, h, s, g)
    BY ContentsOf
<1>3. Apart(F, n)
    OBVIOUS
<1> HIDE DEF F, G
<1>1. /\ DOMAIN F = {Wire, Hand, Program} \cup {Queue(p) : p \in DOMAIN s}
      /\ F[Wire] = OnTheLine(d) /\ F[Hand] = InHand(h) /\ F[Program] = Numbers(g)
      /\ \A p \in DOMAIN s : F[Queue(p)] = Numbers(s[p].items)
    BY <1>0, PlacesDiffer DEF Laid
<1>2. /\ DOMAIN G = {Wire, Hand, Program} \cup {Queue(p) : p \in DOMAIN s}
      /\ G[Wire] = OnTheLine(e) /\ G[Hand] = InHand(h) /\ G[Program] = Numbers(g)
      /\ \A p \in DOMAIN s : G[Queue(p)] = Numbers(s[p].items)
    BY <1>0 DEF Laid
<1>4. DOMAIN G = DOMAIN F /\ Wire \in DOMAIN F /\ \A p \in DOMAIN F : p # Wire => G[p] = F[p]
    BY <1>1, <1>2
<1>5. \A p \in DOMAIN F : n + 1 \notin Range(F[p])
    <2>1. UNION {Range(F[p]) : p \in DOMAIN F} = 1..n /\ n + 1 \notin 1..n
        BY <1>3 DEF Apart
    <2> QED
        BY <2>1
<1>6. Range(G[Wire]) = Range(F[Wire]) \cup {n + 1} /\ IsInjective(G[Wire])
    <2>1. IsInjective(F[Wire]) /\ Range(F[Wire]) \cap {n + 1} = {}
        BY <1>3, <1>4, <1>5 DEF Apart
    <2>2. Gets(F[Wire], G[Wire], {n + 1})
        BY <1>1, <1>2
    <2> QED
        BY <2>1, <2>2 DEF Gets
<1>7. UNION {Range(G[p]) : p \in DOMAIN G} = 1..(n + 1)
    <2>1. UNION {Range(F[p]) : p \in DOMAIN F} = 1..n
        BY <1>3 DEF Apart
    <2>2. ASSUME NEW m \in 1..(n + 1) PROVE \E p \in DOMAIN G : m \in Range(G[p])
        <3>1. CASE m = n + 1
            BY <1>4, <1>6, <3>1
        <3>2. CASE m # n + 1
            <4>1. m \in 1..n
                BY <3>2
            <4>2. PICK p \in DOMAIN F : m \in Range(F[p])
                BY <2>1, <4>1
            <4> QED
                BY <1>4, <1>6, <4>2
        <3> QED
            BY <3>1, <3>2
    <2>3. ASSUME NEW p \in DOMAIN G, NEW m \in Range(G[p]) PROVE m \in 1..(n + 1)
        <3>1. m = n + 1 \/ m \in Range(F[p])
            BY <1>4, <1>6
        <3>2. m = n + 1 \/ m \in 1..n
            BY <1>4, <2>1, <3>1
        <3> QED
            BY <3>2
    <2> QED
        BY <2>2, <2>3
<1>8. ASSUME NEW p \in DOMAIN F, NEW q \in DOMAIN F, p # q PROVE Range(G[p]) \cap Range(G[q]) = {}
    <2>1. /\ Range(F[p]) \cap Range(F[q]) = {} /\ n + 1 \notin Range(F[p]) /\ n + 1 \notin Range(F[q])
        BY <1>3, <1>5, <1>8 DEF Apart
    <2> QED
        BY <1>4, <1>6, <1>8, <2>1
<1>9. \A p \in DOMAIN F : IsInjective(G[p])
    BY <1>3, <1>4, <1>6 DEF Apart
<1> QED
    BY <1>4, <1>7, <1>8, <1>9 DEF Apart, G

-----------------------------------------------------------------------------
(* What a step does to the messages of one place.                          *)

Carries(pieces) == {i \in DOMAIN pieces : IsBody(pieces[i]) /\ pieces[i][2].kind = "Deliver"}
LEMMA OnTheLineIs ==
    ASSUME NEW s
    PROVE /\ DOMAIN OnTheLine(s) = Carries(s)
          /\ \A i \in Carries(s) : OnTheLine(s)[i] = s[i][2].of[2]
          /\ Range(OnTheLine(s)) = {s[i][2].of[2] : i \in Carries(s)}
<1>1. OnTheLine(s) = [i \in Carries(s) |-> s[i][2].of[2]]
    BY DEF OnTheLine, Carries
<1> QED
    BY <1>1 DEF Range

(* g has what f has, at another position, but for what f has at k.         *)
Shifted(f, g, m, k) ==
  /\ \A i \in DOMAIN g : m[i] \in DOMAIN f /\ f[m[i]] = g[i] /\ m[i] # k
  /\ \A i, j \in DOMAIN g : m[i] = m[j] => i = j
  /\ \A i \in DOMAIN f : i # k => \E j \in DOMAIN g : m[j] = i
What(f, k) == IF k \in DOMAIN f THEN {f[k]} ELSE {}

LEMMA ShiftedRange ==
    ASSUME NEW f, NEW g, NEW m, NEW k, Shifted(f, g, m, k)
    PROVE Range(f) = Range(g) \cup What(f, k)
<1>1. ASSUME NEW i \in DOMAIN f PROVE f[i] \in Range(g) \cup What(f, k)
    <2>1. CASE i = k
        BY <2>1 DEF What
    <2>2. CASE i # k
        <3>1. PICK j \in DOMAIN g : m[j] = i
            BY <2>2 DEF Shifted
        <3>2. f[i] = g[j]
            BY <3>1 DEF Shifted
        <3> QED
            BY <3>2 DEF Range
    <2> QED
        BY <2>1, <2>2
<1>2. ASSUME NEW i \in DOMAIN g PROVE g[i] \in Range(f)
    <2>1. m[i] \in DOMAIN f /\ f[m[i]] = g[i]
        BY DEF Shifted
    <2> QED
        BY <2>1 DEF Range
<1>3. What(f, k) \subseteq Range(f)
    BY DEF What, Range
<1> QED
    BY <1>1, <1>2, <1>3 DEF Range

LEMMA Given ==
    ASSUME NEW f, NEW g, NEW m, NEW k, Shifted(f, g, m, k)
    PROVE Gives(f, g, What(f, k))
<1>1. ASSUME IsInjective(f) PROVE IsInjective(g) /\ Range(g) \cap What(f, k) = {}
    <2>1. ASSUME NEW i \in DOMAIN g, NEW j \in DOMAIN g, g[i] = g[j] PROVE i = j
        <3>1. m[i] \in DOMAIN f /\ m[j] \in DOMAIN f /\ f[m[i]] = f[m[j]]
            BY <2>1 DEF Shifted
        <3>2. m[i] = m[j]
            BY <1>1, <3>1 DEF IsInjective
        <3> QED
            BY <3>2 DEF Shifted
    <2>2. ASSUME NEW i \in DOMAIN g, g[i] \in What(f, k) PROVE FALSE
        <3>1. m[i] \in DOMAIN f /\ k \in DOMAIN f /\ f[m[i]] = f[k] /\ m[i] # k
            BY <2>2 DEF Shifted, What
        <3> QED
            BY <1>1, <3>1 DEF IsInjective
    <2> QED
        BY <2>1, <2>2 DEF IsInjective, Range
<1> QED
    BY <1>1, ShiftedRange DEF Gives

LEMMA Gotten ==
    ASSUME NEW f, NEW g, NEW m, NEW k, Shifted(g, f, m, k)
    PROVE Gets(f, g, What(g, k))
<1>1. ASSUME IsInjective(f), Range(f) \cap What(g, k) = {} PROVE IsInjective(g)
    <2> SUFFICES ASSUME NEW i \in DOMAIN g, NEW j \in DOMAIN g, g[i] = g[j], i # j PROVE FALSE
        BY DEF IsInjective
    <2>1. ASSUME NEW a \in DOMAIN g, a # k PROVE \E b \in DOMAIN f : m[b] = a /\ f[b] = g[a]
        <3>1. PICK b \in DOMAIN f : m[b] = a
            BY <2>1 DEF Shifted
        <3>2. f[b] = g[a]
            BY <3>1 DEF Shifted
        <3> QED
            BY <3>1, <3>2
    <2>2. CASE i # k /\ j # k
        <3>1. PICK a \in DOMAIN f : m[a] = i /\ f[a] = g[i]
            BY <2>1, <2>2
        <3>2. PICK b \in DOMAIN f : m[b] = j /\ f[b] = g[j]
            BY <2>1, <2>2
        <3>3. a = b
            BY <1>1, <3>1, <3>2 DEF IsInjective
        <3> QED
            BY <3>1, <3>2, <3>3
    <2>3. ASSUME NEW a \in DOMAIN g, a # k, k \in DOMAIN g, g[a] = g[k] PROVE FALSE
        <3>1. PICK b \in DOMAIN f : f[b] = g[a]
            BY <2>1, <2>3
        <3>2. f[b] \in Range(f) /\ f[b] \in What(g, k)
            BY <2>3, <3>1 DEF Range, What
        <3> QED
            BY <1>1, <3>2
    <2> QED
        BY <2>2, <2>3
<1> QED
    BY <1>1, ShiftedRange DEF Gets

(* A thread takes a frame from the socket.                                 *)
TakenOff(s, t, f) ==
  /\ Gives(OnTheLine(s), OnTheLine(t), IF f.kind = "Deliver" THEN {f.of[2]} ELSE {})
  /\ Len(s) >= 2 /\ DOMAIN t = 1..(Len(s) - 2)
  /\ \A i \in 1..(Len(s) - 2) : t[i] = s[i + 2]
  /\ 1 \in DOMAIN s /\ s[1][2] = f
LEMMA LineTaken ==
    ASSUME NEW s, IsSeq(s), s # <<>>, Paired(s), ~IsBody(Head(s))
    PROVE TakenOff(s, Tail(Tail(s)), Head(s)[2])
<1> DEFINE f == Head(s)[2]
<1>1. /\ Head(s) = s[1] /\ 1 \in DOMAIN s /\ DOMAIN s = 1..Len(s) /\ Len(s) \in Nat
    BY SeqTail, SeqSet
<1>2. s[1][1] = "head" /\ 2 \in 1..Len(s) /\ s[2] = <<"body", f>> /\ s[1][2] = f
    BY <1>1 DEF Paired, IsBody
<1> HIDE DEF f
<1> DEFINE u == Tail(s)
           t == Tail(u)
<1>3. /\ IsSeq(u) /\ Len(u) = Len(s) - 1 /\ \A i \in 1..(Len(s) - 1) : u[i] = s[i + 1]
    BY SeqTail
<1> HIDE DEF u
<1>4. u # <<>>
    <2>1. Len(u) # 0
        BY <1>1, <1>2, <1>3
    <2> QED
        BY <2>1, EmptyIsSeq
<1>5. /\ DOMAIN t = 1..(Len(u) - 1) /\ \A i \in 1..(Len(u) - 1) : t[i] = u[i + 1]
    BY <1>3, <1>4, SeqTail
<1> HIDE DEF t
<1>6. DOMAIN t = 1..(Len(s) - 2) /\ \A i \in 1..(Len(s) - 2) : t[i] = s[i + 2]
    BY <1>1, <1>2, <1>3, <1>5
<1> DEFINE m == [i \in Int |-> i + 2]
           F == OnTheLine(s)
           G == OnTheLine(t)
<1>7. /\ DOMAIN F = Carries(s) /\ \A i \in Carries(s) : F[i] = s[i][2].of[2]
      /\ DOMAIN G = Carries(t) /\ \A i \in Carries(t) : G[i] = t[i][2].of[2]
    BY OnTheLineIs
<1> HIDE DEF F, G
<1>8. \A i \in Carries(t) : i \in Int /\ i >= 1 /\ i + 2 \in Carries(s) /\ t[i] = s[i + 2]
    BY <1>1, <1>6 DEF Carries
<1>9. \A i \in Carries(s) : i # 2 => i - 2 \in Int /\ i - 2 \in Carries(t)
    <2>1. 1 \notin Carries(s)
        BY <1>2 DEF Carries, IsBody
    <2>2. ASSUME NEW i \in Carries(s), i # 2 PROVE i - 2 \in 1..(Len(s) - 2) /\ t[i - 2] = s[i]
        <3>1. i \in 1..Len(s) /\ i # 1
            BY <1>1, <2>1 DEF Carries
        <3>2. i - 2 \in 1..(Len(s) - 2) /\ (i - 2) + 2 = i
            BY <1>1, <2>2, <3>1
        <3> QED
            BY <1>6, <3>2
    <2> QED
        BY <1>6, <2>2 DEF Carries
<1>10. Shifted(F, G, m, 2)
    <2>1. ASSUME NEW i \in DOMAIN G
          PROVE m[i] = i + 2 /\ m[i] \in DOMAIN F /\ F[m[i]] = G[i] /\ m[i] # 2
        <3>1. i \in Int /\ i >= 1 /\ i + 2 \in DOMAIN F /\ t[i] = s[i + 2]
            BY <1>7, <1>8
        <3>2. m[i] = i + 2 /\ i + 2 # 2
            BY <3>1
        <3>3. F[i + 2] = s[i + 2][2].of[2] /\ G[i] = t[i][2].of[2]
            BY <1>7, <3>1
        <3> QED
            BY <3>1, <3>2, <3>3
    <2>2. \A i, j \in DOMAIN G : m[i] = m[j] => i = j
        BY <1>7, <1>8
    <2>3. ASSUME NEW i \in DOMAIN F, i # 2 PROVE \E j \in DOMAIN G : m[j] = i
        <3>1. i - 2 \in DOMAIN G /\ i - 2 \in Int /\ i \in Int
            BY <1>1, <1>7, <1>9, <2>3 DEF Carries
        <3>2. m[i - 2] = i
            BY <3>1
        <3> QED
            BY <3>1, <3>2
    <2> HIDE DEF m
    <2> QED
        BY <2>1, <2>2, <2>3 DEF Shifted
<1>11. What(F, 2) = IF f.kind = "Deliver" THEN {f.of[2]} ELSE {}
    <2>1. IsBody(s[2]) /\ s[2][2] = f
        BY <1>2 DEF IsBody
    <2>2. 2 \in Carries(s) <=> f.kind = "Deliver"
        BY <1>1, <1>2, <2>1 DEF Carries
    <2>3. 2 \in Carries(s) => F[2] = f.of[2]
        BY <1>7, <2>1
    <2> QED
        BY <1>7, <2>2, <2>3 DEF What
<1>12. Gives(F, G, What(F, 2))
    BY <1>10, Given
<1>13. Gives(F, G, IF f.kind = "Deliver" THEN {f.of[2]} ELSE {})
    BY <1>11, <1>12
<1>14. Len(s) >= 2 /\ 1 \in DOMAIN s
    BY <1>1, <1>2
<1>15. TakenOff(s, t, f)
    BY <1>2, <1>6, <1>13, <1>14 DEF F, G, TakenOff
<1> QED
    BY <1>15 DEF t, u, f

(* The hub writes a frame.                                                 *)
LEMMA LineWritten ==
    ASSUME NEW s, IsSeq(s), NEW f
    PROVE /\ f.kind = "Deliver" => Gets(OnTheLine(s), OnTheLine(s \o Pieces(f)), {f.of[2]})
          /\ f.kind # "Deliver" => Gives(OnTheLine(s), OnTheLine(s \o Pieces(f)), {})
<1> DEFINE a == <<"head", f>>
           b == <<"body", f>>
           t == s \o <<a, b>>
<1>1. /\ DOMAIN t = 1..(Len(s) + 2) /\ Len(s) \in Nat /\ DOMAIN s = 1..Len(s)
      /\ \A i \in 1..Len(s) : t[i] = s[i]
      /\ t[Len(s) + 1] = a /\ t[Len(s) + 2] = b
    BY SeqJoined, SeqSet
<1>2. ~IsBody(a) /\ IsBody(b) /\ b[2] = f /\ s \o Pieces(f) = t
    BY DEF Pieces, IsBody
<1> HIDE DEF t, a, b
<1> DEFINE F == OnTheLine(s)
           G == OnTheLine(t)
<1>3. /\ DOMAIN F = Carries(s) /\ \A i \in Carries(s) : F[i] = s[i][2].of[2]
      /\ DOMAIN G = Carries(t) /\ \A i \in Carries(t) : G[i] = t[i][2].of[2]
    BY OnTheLineIs
<1> HIDE DEF F, G
<1> DEFINE l == Len(s)
<1>4. l \in Nat
    BY <1>1
<1>5. \A i \in Carries(s) : i \in Carries(t) /\ t[i] = s[i] /\ i # l + 2
    BY <1>1 DEF Carries
<1>6. \A i \in Carries(t) : i = l + 2 \/ i \in Carries(s)
    BY <1>1, <1>2 DEF Carries
<1>7. l + 2 \in Carries(t) <=> f.kind = "Deliver"
    BY <1>1, <1>2 DEF Carries
<1>8. t[l + 2][2] = f
    BY <1>1, <1>2
<1> HIDE DEF l
<1> DEFINE m == [i \in Int |-> i]
<1>9. \A i \in Carries(s) \cup Carries(t) : m[i] = i
    BY <1>1 DEF Carries
<1> HIDE DEF m
<1>10. Shifted(G, F, m, l + 2)
    BY <1>3, <1>5, <1>6, <1>9 DEF Shifted
<1>11. ASSUME f.kind = "Deliver" PROVE Gets(F, G, {f.of[2]})
    <2>1. What(G, l + 2) = {f.of[2]}
        BY <1>3, <1>7, <1>8, <1>11 DEF What
    <2> QED
        BY <1>10, <2>1, Gotten
<1>12. ASSUME f.kind # "Deliver" PROVE Gives(F, G, {})
    <2>1. DOMAIN G = DOMAIN F
        BY <1>3, <1>5, <1>6, <1>7, <1>12
    <2>2. \A i \in DOMAIN F : G[i] = F[i]
        BY <1>3, <1>5, <2>1
    <2> QED
        BY <2>1, <2>2 DEF Gives, Range, IsInjective
<1> QED
    BY <1>2, <1>11, <1>12 DEF F, G

(* The reader handles the first of the messages it has decoded.            *)
LEMMA HandTaken ==
    ASSUME NEW s, IsSeq(s), s # <<>>
    PROVE /\ IsSeq(Tail(s))
          /\ Gives(InHand(s), InHand(Tail(s)),
                   IF Head(s).kind = "Deliver" THEN {Head(s).of[2]} ELSE {})
<1> DEFINE t == Tail(s)
           C(u) == {i \in DOMAIN u : u[i].kind = "Deliver"}
           F == InHand(s)
           G == InHand(t)
<1>1. /\ IsSeq(t) /\ Head(s) = s[1] /\ 1 \in DOMAIN s /\ DOMAIN s = 1..Len(s) /\ Len(s) \in Nat
      /\ DOMAIN t = 1..(Len(s) - 1) /\ \A i \in 1..(Len(s) - 1) : t[i] = s[i + 1]
    BY SeqTail, SeqSet
<1> HIDE DEF t
<1>2. /\ DOMAIN F = C(s) /\ \A i \in C(s) : F[i] = s[i].of[2]
      /\ DOMAIN G = C(t) /\ \A i \in C(t) : G[i] = t[i].of[2]
    BY DEF InHand
<1> HIDE DEF F, G
<1> DEFINE m == [i \in Int |-> i + 1]
<1>3. ASSUME NEW i \in C(t)
      PROVE i \in Int /\ m[i] = i + 1 /\ i >= 1 /\ i + 1 \in C(s) /\ t[i] = s[i + 1]
    BY <1>1
<1>4. ASSUME NEW i \in C(s), i # 1 PROVE i - 1 \in C(t) /\ m[i - 1] = i
    <2>1. i \in 1..Len(s) /\ i - 1 \in 1..(Len(s) - 1) /\ (i - 1) + 1 = i
        BY <1>1, <1>4
    <2>2. t[i - 1] = s[i] /\ i - 1 \in DOMAIN t
        BY <1>1, <2>1
    <2> QED
        BY <2>1, <2>2
<1> HIDE DEF m
<1>5. Shifted(F, G, m, 1)
    <2>1. ASSUME NEW i \in DOMAIN G PROVE m[i] \in DOMAIN F /\ F[m[i]] = G[i] /\ m[i] # 1
        <3>1. m[i] = i + 1 /\ i >= 1 /\ i \in Int /\ i + 1 \in DOMAIN F /\ t[i] = s[i + 1]
            BY <1>2, <1>3
        <3>2. F[i + 1] = s[i + 1].of[2] /\ G[i] = t[i].of[2]
            BY <1>2, <3>1
        <3> QED
            BY <3>1, <3>2
    <2>2. ASSUME NEW i \in DOMAIN G, NEW j \in DOMAIN G, m[i] = m[j] PROVE i = j
        BY <1>2, <1>3, <2>2
    <2>3. ASSUME NEW i \in DOMAIN F, i # 1 PROVE \E j \in DOMAIN G : m[j] = i
        BY <1>2, <1>4, <2>3
    <2> QED
        BY <2>1, <2>2, <2>3 DEF Shifted
<1>6. What(F, 1) = IF Head(s).kind = "Deliver" THEN {Head(s).of[2]} ELSE {}
    BY <1>1, <1>2 DEF What
<1>7. Gives(F, G, What(F, 1))
    BY <1>5, Given
<1> QED
    BY <1>1, <1>6, <1>7 DEF F, G, t

(* The program takes the first message of a queue, ...                     *)
LEMMA FirstTaken ==
    ASSUME NEW s, IsSeq(s), s # <<>>
    PROVE Gives(Numbers(s), Numbers(Tail(s)), {Head(s)[2]}) /\ IsSeq(Tail(s))
<1> DEFINE t == Tail(s)
           F == Numbers(s)
           G == Numbers(t)
<1>1. /\ IsSeq(t) /\ Head(s) = s[1] /\ 1 \in DOMAIN s /\ DOMAIN s = 1..Len(s) /\ Len(s) \in Nat
      /\ DOMAIN t = 1..(Len(s) - 1) /\ \A i \in 1..(Len(s) - 1) : t[i] = s[i + 1]
    BY SeqTail, SeqSet
<1> HIDE DEF t
<1>2. /\ DOMAIN F = DOMAIN s /\ \A i \in DOMAIN s : F[i] = s[i][2]
      /\ DOMAIN G = DOMAIN t /\ \A i \in DOMAIN t : G[i] = t[i][2]
    BY DEF Numbers
<1> HIDE DEF F, G
<1> DEFINE m == [i \in Int |-> i + 1]
<1>3. ASSUME NEW i \in DOMAIN t
      PROVE i \in Int /\ m[i] = i + 1 /\ i >= 1 /\ i + 1 \in DOMAIN s /\ t[i] = s[i + 1]
    BY <1>1
<1>4. ASSUME NEW i \in DOMAIN s, i # 1 PROVE i - 1 \in DOMAIN t /\ m[i - 1] = i
    <2>1. i \in 1..Len(s) /\ i - 1 \in 1..(Len(s) - 1) /\ (i - 1) + 1 = i
        BY <1>1, <1>4
    <2> QED
        BY <1>1, <2>1
<1> HIDE DEF m
<1>5. Shifted(F, G, m, 1)
    <2>1. ASSUME NEW i \in DOMAIN G PROVE m[i] \in DOMAIN F /\ F[m[i]] = G[i] /\ m[i] # 1
        <3>1. m[i] = i + 1 /\ i >= 1 /\ i \in Int /\ i + 1 \in DOMAIN s /\ t[i] = s[i + 1]
            BY <1>2, <1>3
        <3>2. F[i + 1] = s[i + 1][2] /\ G[i] = t[i][2]
            BY <1>2, <3>1
        <3> QED
            BY <1>2, <3>1, <3>2
    <2>2. ASSUME NEW i \in DOMAIN G, NEW j \in DOMAIN G, m[i] = m[j] PROVE i = j
        BY <1>2, <1>3, <2>2
    <2>3. ASSUME NEW i \in DOMAIN F, i # 1 PROVE \E j \in DOMAIN G : m[j] = i
        BY <1>2, <1>4, <2>3
    <2> QED
        BY <2>1, <2>2, <2>3 DEF Shifted
<1>6. What(F, 1) = {Head(s)[2]}
    BY <1>1, <1>2 DEF What
<1>7. Gives(F, G, What(F, 1))
    BY <1>5, Given
<1> QED
    BY <1>1, <1>6, <1>7 DEF F, G, t

(* ... and a message is put at the end of one.                             *)
LEMMA LastPut ==
    ASSUME NEW s, IsSeq(s), NEW e
    PROVE Gets(Numbers(s), Numbers(Append(s, e)), {e[2]}) /\ IsSeq(Append(s, e))
<1> DEFINE t == Append(s, e)
           F == Numbers(s)
           G == Numbers(t)
           l == Len(s)
<1>1. /\ IsSeq(t) /\ DOMAIN s = 1..l /\ l \in Nat /\ DOMAIN t = 1..(l + 1)
      /\ (\A i \in 1..l : t[i] = s[i]) /\ t[l + 1] = e
    BY SeqAppended, SeqSet
<1> HIDE DEF t, l
<1>2. /\ DOMAIN F = DOMAIN s /\ \A i \in DOMAIN s : F[i] = s[i][2]
      /\ DOMAIN G = DOMAIN t /\ \A i \in DOMAIN t : G[i] = t[i][2]
    BY DEF Numbers
<1> HIDE DEF F, G
<1>3. /\ DOMAIN G = DOMAIN F \cup {l + 1} /\ l + 1 \notin DOMAIN F
      /\ \A i \in DOMAIN F : G[i] = F[i]
    BY <1>1, <1>2
<1>4. G[l + 1] = e[2]
    BY <1>1, <1>2
<1> QED
    BY <1>1, <1>3, <1>4 DEF Gets, Range, IsInjective, F, G, t

(* Even and odd positions.                                                 *)
Even(n) == n % 2 = 0
LEMMA EvenShift ==
    ASSUME NEW i \in Nat, NEW n \in Nat
    PROVE /\ Even(i + n + 1) <=> Even(i + (IF Even(1 + n + 1) THEN 1 ELSE 2))
          /\ Even(i + n + 2) <=> Even(i + (IF Even(1 + n + 2) THEN 1 ELSE 2))
BY DEF Even
LEMMA EvenHalf ==
    ASSUME NEW k \in Nat, k >= 1, NEW n \in Nat, k <= n
    PROVE /\ Even(k + 1) =>
               (k - 1) \div 2 + 1 \in 1..((n + 2 - 1) \div 2) /\ 1 + 2 * ((k - 1) \div 2 + 1 - 1) = k
          /\ Even(k + 2) =>
               (k - 2) \div 2 + 1 \in 1..((n + 2 - 2) \div 2) /\ 2 + 2 * ((k - 2) \div 2 + 1 - 1) = k
BY DEF Even
LEMMA EvenBody ==
    ASSUME NEW n \in Nat, NEW f \in {1, 2}, NEW i \in 1..((n + 2 - f) \div 2)
    PROVE f + 2 * (i - 1) \in 1..n /\ Even(f + 2 * (i - 1) + f)
BY DEF Even
LEMMA EvenNext ==
    ASSUME NEW n \in Nat, NEW f \in {1, 2}, Even(n + f)
    PROVE ~Even(n + 1 + f) /\ Even(n + 2 + f)
BY DEF Even

(* Heads and bodies alternate on the socket.                               *)
First(s) == IF IsBody(s[1]) THEN 1 ELSE 2
Alternates(s) == \A i \in DOMAIN s : IsBody(s[i]) <=> Even(i + First(s))

LEMMA RestAlternates ==
    ASSUME NEW s, IsSeq(s), Alternates(s), NEW n \in 0..Len(s), NEW t,
           DOMAIN t = 1..(Len(s) - n), \A i \in 1..(Len(s) - n) : t[i] = s[i + n]
    PROVE Alternates(t)
<1>1. Len(s) \in Nat /\ DOMAIN s = 1..Len(s) /\ n \in Nat /\ n <= Len(s)
    BY SeqSet
<1> SUFFICES ASSUME NEW i \in DOMAIN t PROVE IsBody(t[i]) <=> Even(i + First(t))
    BY DEF Alternates
<1>2. /\ i \in Nat /\ i + n \in DOMAIN s /\ t[i] = s[i + n]
      /\ 1 + n \in DOMAIN s /\ t[1] = s[1 + n]
    BY <1>1
<1>3. /\ IsBody(t[i]) <=> Even(i + n + First(s))
      /\ IsBody(t[1]) <=> Even(1 + n + First(s))
    BY <1>2 DEF Alternates
<1>4. First(t) = IF Even(1 + n + First(s)) THEN 1 ELSE 2
    BY <1>3 DEF First
<1>5. First(s) \in {1, 2}
    BY DEF First
<1>6. Even(i + n + First(s)) <=> Even(i + First(t))
    <2>1. CASE First(s) = 1
        BY <1>1, <1>2, <1>4, <2>1, EvenShift
    <2>2. CASE First(s) = 2
        BY <1>1, <1>2, <1>4, <2>2, EvenShift
    <2> QED
        BY <1>5, <2>1, <2>2
<1> QED
    BY <1>2, <1>3, <1>6

LEMMA WrittenAlternates ==
    ASSUME NEW s, IsSeq(s), Paired(s), Alternates(s), NEW f
    PROVE Alternates(s \o Pieces(f))
<1> DEFINE a == <<"head", f>>
           b == <<"body", f>>
           t == s \o <<a, b>>
<1>1. /\ DOMAIN t = 1..(Len(s) + 2) /\ Len(s) \in Nat /\ DOMAIN s = 1..Len(s)
      /\ \A i \in 1..Len(s) : t[i] = s[i]
      /\ t[Len(s) + 1] = a /\ t[Len(s) + 2] = b
    BY SeqJoined, SeqSet
<1>2. ~IsBody(a) /\ IsBody(b) /\ s \o Pieces(f) = t
    BY DEF Pieces, IsBody
<1> HIDE DEF t, a, b
<1>3. First(t) \in {1, 2} /\ First(s) \in {1, 2}
    BY DEF First
<1>4. ASSUME Len(s) = 0 PROVE Alternates(t)
    <2>1. First(t) = 2 /\ DOMAIN t = 1..2 /\ t[1] = a /\ t[2] = b
        BY <1>1, <1>2, <1>4 DEF First
    <2>2. ASSUME NEW i \in 1..2 PROVE IsBody(t[i]) <=> Even(i + 2)
        <3>1. CASE i = 1
            BY <1>2, <2>1, <3>1 DEF Even
        <3>2. CASE i = 2
            BY <1>2, <2>1, <3>2 DEF Even
        <3> QED
            BY <3>1, <3>2
    <2> QED
        BY <2>1, <2>2 DEF Alternates
<1>5. ASSUME Len(s) # 0 PROVE Alternates(t)
    <2>1. 1 \in DOMAIN s /\ Len(s) \in DOMAIN s /\ Len(s) + 1 \notin DOMAIN s
        BY <1>1, <1>5
    <2>2. First(t) = First(s)
        BY <1>1, <2>1 DEF First
    <2>3. IsBody(s[Len(s)])
        BY <2>1 DEF Paired, IsBody
    <2>4. Even(Len(s) + First(s))
        BY <2>1, <2>3 DEF Alternates
    <2>5. ASSUME NEW i \in DOMAIN t PROVE IsBody(t[i]) <=> Even(i + First(t))
        <3>1. CASE i \in 1..Len(s)
            BY <1>1, <2>2, <3>1 DEF Alternates
        <3>2. CASE i = Len(s) + 1
            BY <1>1, <1>2, <1>3, <2>2, <2>4, <3>2, EvenNext
        <3>3. CASE i = Len(s) + 2
            BY <1>1, <1>2, <1>3, <2>2, <2>4, <3>3, EvenNext
        <3> QED
            BY <1>1, <3>1, <3>2, <3>3
    <2> QED
        BY <2>5 DEF Alternates
<1> QED
    BY <1>2, <1>4, <1>5

(* The reader takes what is there, or its first part: the bodies are all   *)
(* the messages of it, and each is one of them.                            *)
LEMMA BodiesTaken ==
    ASSUME NEW s, IsSeq(s), Alternates(s), NEW n \in 1..Len(s), IsInjective(OnTheLine(s))
    PROVE LET h == InHand(Bodies(SubSeq(s, 1, n)))
              b == SubSeq(s, n + 1, Len(s))
          IN  Gives(OnTheLine(s), OnTheLine(b), Range(h)) /\ IsInjective(h)
<1> DEFINE a == SubSeq(s, 1, n)
           b == SubSeq(s, n + 1, Len(s))
<1>1. /\ Len(a) = n /\ (\A i \in 1..n : a[i] = s[i]) /\ IsSeq(a)
      /\ DOMAIN b = 1..(Len(s) - n) /\ \A i \in 1..(Len(s) - n) : b[i] = s[i + n]
      /\ Len(s) \in Nat /\ DOMAIN s = 1..Len(s) /\ n \in Nat /\ n >= 1 /\ n <= Len(s)
    BY SeqCut, SeqSet
<1> HIDE DEF a, b
<1>2. a # <<>> /\ Head(a) = s[1]
    <2>1. a # <<>>
        BY <1>1, EmptyIsSeq
    <2> QED
        BY <1>1, <2>1, SeqTail
<1> DEFINE N == (n + 2 - First(s)) \div 2
           J(i) == First(s) + 2 * (i - 1)
           B == Bodies(a)
           H == InHand(B)
           F == OnTheLine(s)
           G == OnTheLine(b)
<1>3. B = [i \in 1..N |-> a[J(i)][2]]
    BY <1>1, <1>2 DEF Bodies, First
<1> HIDE DEF B
<1>4. /\ DOMAIN H = {i \in 1..N : a[J(i)][2].kind = "Deliver"}
      /\ \A i \in DOMAIN H : H[i] = a[J(i)][2].of[2]
    BY <1>3 DEF InHand
<1>5. /\ DOMAIN F = Carries(s) /\ \A i \in Carries(s) : F[i] = s[i][2].of[2]
      /\ DOMAIN G = Carries(b) /\ \A i \in Carries(b) : G[i] = b[i][2].of[2]
    BY OnTheLineIs
<1> HIDE DEF H, F, G
<1>6. First(s) \in {1, 2}
    BY DEF First
<1>7. \A i \in 1..N : J(i) \in 1..n /\ Even(J(i) + First(s))
    BY <1>1, <1>6, EvenBody
<1>8. \A k \in 1..n : Even(k + First(s)) => \E i \in 1..N : J(i) = k
    <2> SUFFICES ASSUME NEW k \in 1..n, Even(k + First(s))
                 PROVE \E i \in 1..N : J(i) = k
        OBVIOUS
    <2>1. CASE First(s) = 1
        <3>1. k \in Nat /\ k >= 1 /\ k <= n /\ n \in Nat /\ Even(k + 1)
            BY <1>1, <2>1
        <3>2. (k - 1) \div 2 + 1 \in 1..N /\ J((k - 1) \div 2 + 1) = k
            BY <2>1, <3>1, EvenHalf
        <3> QED
            BY <3>2
    <2>2. CASE First(s) = 2
        <3>1. k \in Nat /\ k >= 1 /\ k <= n /\ n \in Nat /\ Even(k + 2)
            BY <1>1, <2>2
        <3>2. (k - 2) \div 2 + 1 \in 1..N /\ J((k - 2) \div 2 + 1) = k
            BY <2>2, <3>1, EvenHalf
        <3> QED
            BY <3>2
    <2> QED
        BY <1>6, <2>1, <2>2
<1> HIDE DEF N
<1>9. ASSUME NEW i \in DOMAIN H PROVE J(i) \in DOMAIN F /\ J(i) <= n /\ F[J(i)] = H[i]
    <2>1. i \in 1..N /\ a[J(i)][2].kind = "Deliver" /\ J(i) \in 1..n /\ Even(J(i) + First(s))
        BY <1>4, <1>7
    <2>2. J(i) \in DOMAIN s /\ a[J(i)] = s[J(i)]
        BY <1>1, <2>1
    <2>3. J(i) \in Carries(s)
        BY <2>1, <2>2 DEF Carries, Alternates
    <2> QED
        BY <1>4, <1>5, <2>1, <2>2, <2>3
<1>10. ASSUME NEW k \in DOMAIN F, k <= n PROVE \E i \in DOMAIN H : J(i) = k /\ H[i] = F[k]
    <2>1. k \in 1..n /\ s[k][2].kind = "Deliver" /\ Even(k + First(s)) /\ a[k] = s[k]
        BY <1>1, <1>5, <1>10 DEF Carries, Alternates
    <2>2. PICK i \in 1..N : J(i) = k
        BY <1>8, <2>1
    <2>3. i \in DOMAIN H
        BY <1>4, <2>1, <2>2
    <2> QED
        BY <1>9, <2>2, <2>3
<1>11. \A i, j \in DOMAIN H : J(i) = J(j) => i = j
    <2>1. \A i \in DOMAIN H : i \in Int
        BY <1>1, <1>4 DEF N
    <2> QED
        BY <1>6, <2>1
<1> HIDE DEF J
<1>12. ASSUME NEW k \in DOMAIN G PROVE k \in Nat /\ k >= 1 /\ k + n \in DOMAIN F /\ F[k + n] = G[k]
    <2>1. k \in 1..(Len(s) - n) /\ b[k] = s[k + n] /\ k + n \in DOMAIN s
        BY <1>1, <1>5 DEF Carries
    <2>2. k + n \in Carries(s)
        BY <1>5, <2>1 DEF Carries
    <2> QED
        BY <1>1, <1>5, <2>1, <2>2
<1>13. ASSUME NEW k \in DOMAIN F, ~(k <= n) PROVE k - n \in DOMAIN G /\ G[k - n] = F[k]
    <2>1. k \in 1..Len(s)
        BY <1>1, <1>5 DEF Carries
    <2>2. k - n \in 1..(Len(s) - n) /\ (k - n) + n = k
        BY <1>1, <1>13, <2>1
    <2>3. b[k - n] = s[k] /\ k - n \in DOMAIN b
        BY <1>1, <2>2
    <2> QED
        BY <1>5, <2>3 DEF Carries
<1>14. IsInjective(F)
    BY DEF F
<1>15. IsInjective(H)
    BY <1>9, <1>11, <1>14 DEF IsInjective
<1>16. Range(F) = Range(G) \cup Range(H)
    <2>1. ASSUME NEW k \in DOMAIN F PROVE F[k] \in Range(G) \cup Range(H)
        BY <1>10, <1>13 DEF Range
    <2>2. ASSUME NEW k \in DOMAIN G PROVE G[k] \in Range(F)
        BY <1>12 DEF Range
    <2>3. ASSUME NEW k \in DOMAIN H PROVE H[k] \in Range(F)
        BY <1>9 DEF Range
    <2> QED
        BY <2>1, <2>2, <2>3 DEF Range
<1>17. IsInjective(G)
    <2> SUFFICES ASSUME NEW i \in DOMAIN G, NEW j \in DOMAIN G, G[i] = G[j] PROVE i = j
        BY DEF IsInjective
    <2>1. i + n = j + n
        BY <1>12, <1>14 DEF IsInjective
    <2> QED
        BY <1>1, <1>12, <2>1
<1>18. ASSUME NEW i \in DOMAIN G, NEW j \in DOMAIN H, G[i] = H[j] PROVE FALSE
    <2>1. i + n = J(j) /\ J(j) <= n /\ i \in Nat /\ i >= 1
        BY <1>9, <1>12, <1>14, <1>18 DEF IsInjective
    <2> QED
        BY <1>1, <2>1
<1>19. Range(G) \cap Range(H) = {}
    BY <1>18 DEF Range
<1>20. Gives(F, G, Range(H)) /\ IsInjective(H)
    BY <1>15, <1>16, <1>17, <1>19 DEF Gives
<1> QED
    BY <1>20 DEF F, G, H, B, a, b

-----------------------------------------------------------------------------
(* Whoever handles a message puts it into a queue; an answer goes nowhere. *)

AllSeq(s) == \A q \in DOMAIN s : IsSeq(s[q].items)

LEMMA FoundItems ==
    ASSUME NEW c, Whole(c), AllSeq(c.store), NEW side
    PROVE LET w == WithQueue(c, side)
          IN  /\ Whole(w) /\ AllSeq(w.store) /\ StoreGrows(c.store, w.store)
              /\ side \in Inbound => w.queues[side] \in DOMAIN w.store
<1> DEFINE w == WithQueue(c, side)
<1>1. /\ Keeps(c, w)
      /\ side \in Inbound => w.queues[side] \in 1..Len(w.store)
    BY QueueFound
<1>2. Whole(w) /\ DOMAIN w.store = 1..Len(w.store) /\ DOMAIN c.store = 1..Len(c.store)
      /\ Len(c.store) \in Nat
    BY <1>1 DEF Keeps, Whole, Stored
<1>3. StoreGrows(c.store, w.store) /\ AllSeq(w.store)
    <2>1. CASE c.queues[side] # NoQueue
        BY <2>1 DEF WithQueue, StoreGrows
    <2>2. CASE c.queues[side] = NoQueue
        <3> DEFINE e == [items |-> <<>>, closed |-> FALSE]
        <3>1. w.store = Append(c.store, e)
            BY <2>2 DEF WithQueue, Whole
        <3> HIDE DEF w
        <3>2. /\ Len(w.store) = Len(c.store) + 1
              /\ \A q \in 1..Len(c.store) : w.store[q] = c.store[q]
              /\ w.store[Len(c.store) + 1] = e
            BY <3>1, AppendQueue DEF Whole, Stored
        <3>3. DOMAIN w.store = 1..(Len(c.store) + 1) /\ e.items = <<>>
            BY <1>2, <3>2
        <3>4. StoreGrows(c.store, w.store)
            <4>1. ASSUME NEW q \in DOMAIN w.store \ DOMAIN c.store PROVE w.store[q].items = <<>>
                BY <1>2, <3>2, <3>3
            <4> QED
                BY <1>2, <3>2, <3>3, <4>1 DEF StoreGrows
        <3>5. ASSUME NEW q \in DOMAIN w.store PROVE IsSeq(w.store[q].items)
            <4>1. CASE q \in DOMAIN c.store
                BY <3>4, <4>1 DEF StoreGrows, AllSeq
            <4>2. CASE q \notin DOMAIN c.store
                BY <3>4, <4>2, EmptyIsSeq DEF StoreGrows
            <4> QED
                BY <4>1, <4>2
        <3> QED
            BY <3>4, <3>5 DEF AllSeq
    <2> QED
        BY <2>1, <2>2
<1> QED
    BY <1>1, <1>2, <1>3

LEMMA FilledItems ==
    ASSUME NEW c, Whole(c), NEW q \in DOMAIN c.store, NEW items
    PROVE LET t == [c EXCEPT !.store[q].items = items].store
          IN  t[q].items = items /\ OthersStay(c.store, t, q)
<1> DEFINE t == [c EXCEPT !.store[q].items = items].store
<1>1. /\ t = [c.store EXCEPT ![q] = [@ EXCEPT !.items = items]]
      /\ DOMAIN c.store = 1..Len(c.store) /\ DOMAIN c.store[q] = {"items", "closed"}
    BY DEF Whole, Stored
<1> HIDE DEF t
<1>2. t[q].items = items
    BY <1>1
<1>3. OthersStay(c.store, t, q)
    BY <1>1 DEF OthersStay
<1> QED
    BY <1>2, <1>3 DEF t

Bears(f) == IF f.kind = "Deliver" THEN {f.of[2]} ELSE {}
Inboard(f) == f.kind = "Deliver" => f.side \in Inbound /\ f.of[1] = f.side

(* The queue a message goes to, and the queues then.                       *)
Filled(c, f, t) ==
  LET w == WithQueue(c, f.side)
      q == w.queues[f.side]
  IN  /\ AllSeq(w.store) /\ StoreGrows(c.store, w.store)
      /\ q \in DOMAIN w.store /\ OthersStay(w.store, t, q) /\ IsSeq(t[q].items)
      /\ Gets(Numbers(w.store[q].items), Numbers(t[q].items), {f.of[2]})
LEMMA HandledInQueue ==
    ASSUME NEW c, Whole(c), AllSeq(c.store), NEW f, Inboard(f)
    PROVE /\ f.kind = "Deliver" => Filled(c, f, handle_message(c, f).store)
          /\ f.kind # "Deliver" => handle_message(c, f).store = c.store
          /\ AllSeq(handle_message(c, f).store)
<1>1. CASE f.kind = "Deliver"
    <2> DEFINE w == WithQueue(c, f.side)
    <2>1. /\ Whole(w) /\ AllSeq(w.store) /\ StoreGrows(c.store, w.store)
          /\ w.queues[f.side] \in DOMAIN w.store
        BY <1>1, FoundItems DEF Inboard
    <2>2. handle_message(c, f) = Delivered(w, f)
        BY <1>1 DEF handle_message
    <2> HIDE DEF w
    <2> DEFINE q == w.queues[f.side]
               items == Append(w.store[q].items, f.of)
               t == Delivered(w, f).store
    <2>3. q \in DOMAIN w.store /\ Delivered(w, f) = [w EXCEPT !.store[q].items = items]
        BY <2>1 DEF Delivered
    <2> HIDE DEF q, items
    <2>4. t[q].items = items /\ OthersStay(w.store, t, q)
        BY <2>1, <2>3, FilledItems
    <2> HIDE DEF t
    <2>5. IsSeq(items) /\ Gets(Numbers(w.store[q].items), Numbers(t[q].items), {f.of[2]})
        <3>1. IsSeq(w.store[q].items)
            BY <2>1, <2>3 DEF AllSeq
        <3>2. IsSeq(items) /\ Gets(Numbers(w.store[q].items), Numbers(items), {f.of[2]})
            BY <3>1, LastPut DEF items
        <3> QED
            BY <2>4, <3>2
    <2>6. AllSeq(t)
        BY <2>1, <2>4, <2>5 DEF AllSeq, OthersStay
    <2>7. Filled(c, f, t)
        BY <2>1, <2>3, <2>4, <2>5 DEF Filled, w, q
    <2> QED
        BY <1>1, <2>2, <2>6, <2>7 DEF t
<1>2. CASE f.kind # "Deliver"
    BY <1>2 DEF handle_message, Whole
<1> QED
    BY <1>1, <1>2

LEMMA HandledItems ==
    ASSUME NEW c, Whole(c), AllSeq(c.store), NEW f, Inboard(f),
           NEW d, NEW h, NEW g, NEW n, Apart(Contents(d, h, c.store, g), n),
           NEW e, NEW k,
           \/ Gives(OnTheLine(d), OnTheLine(e), Bears(f)) /\ k = h
           \/ Gives(InHand(h), InHand(k), Bears(f)) /\ e = d
    PROVE Apart(Contents(e, k, handle_message(c, f).store, g), n)
<1> DEFINE t == handle_message(c, f).store
<1>1. /\ f.kind = "Deliver" => Filled(c, f, t)
      /\ f.kind # "Deliver" => t = c.store
    BY HandledInQueue
<1> HIDE DEF t
<1>2. CASE f.kind = "Deliver"
    <2> DEFINE w == WithQueue(c, f.side)
               q == w.queues[f.side]
    <2>1. /\ StoreGrows(c.store, w.store) /\ q \in DOMAIN w.store
          /\ OthersStay(w.store, t, q)
          /\ Gets(Numbers(w.store[q].items), Numbers(t[q].items), {f.of[2]})
        BY <1>1, <1>2 DEF Filled
    <2> HIDE DEF w, q
    <2>2. Apart(Contents(d, h, w.store, g), n)
        BY <2>1, QueuesCome
    <2>3. Bears(f) = {f.of[2]}
        BY <1>2 DEF Bears
    <2>4. Apart(Contents(e, k, t, g), n)
        BY <2>1, <2>2, <2>3, ToQueue
    <2> QED
        BY <2>4 DEF t
<1>3. CASE f.kind # "Deliver"
    <2>1. Bears(f) = {} /\ t = c.store
        BY <1>1, <1>3 DEF Bears
    <2>2. Gets(InHand(h), InHand(h), {})
        BY NothingGot
    <2>3. Apart(Contents(e, k, c.store, g), n)
        BY <2>1, <2>2, ToHand
    <2> QED
        BY <2>1, <2>3 DEF t
<1> QED
    BY <1>2, <1>3

(* Closing a queue leaves its messages there.                              *)
LEMMA ClosedItems ==
    ASSUME NEW c, Whole(c)
    PROVE StoreGrows(c.store, close_all_queues(c).store)
<1> DEFINE t == close_all_queues(c).store
<1>1. t = [q \in DOMAIN c.store |->
             IF \E side \in Inbound : c.queues[side] = q THEN [c.store[q] EXCEPT !.closed = TRUE]
                                                         ELSE c.store[q]]
    BY DEF Whole, close_all_queues
<1> HIDE DEF t
<1>2. ASSUME NEW q \in DOMAIN c.store PROVE t[q].items = c.store[q].items
    <2>1. DOMAIN c.store[q] = {"items", "closed"}
        BY DEF Whole, Stored
    <2> QED
        BY <1>1, <2>1
<1> QED
    BY <1>1, <1>2 DEF StoreGrows, t

LEMMA SameGrows == ASSUME NEW s PROVE StoreGrows(s, s)
BY DEF StoreGrows

-----------------------------------------------------------------------------
(* The invariant, and the steps that leave the messages where they are.    *)

(* A reader, and what is on the socket, are of a connection there is.      *)
Ties ==
  /\ Joinable
  /\ ~Gone => (client.valid => client.connected) /\ (~client.connected => socket.down = <<>>)
Sound ==
  /\ hub.sent \in Nat /\ hub.attached \subseteq Inbound
  /\ IsSeq(received) /\ AllSeq(client.store)
  /\ Alternates(socket.down)
  /\ \A i \in DOMAIN socket.down : Inboard(socket.down[i][2])
  /\ \A i \in DOMAIN reader.held : Inboard(reader.held[i])
  /\ reader.at # "handle" => reader.held = <<>>
Carried == Ties /\ Sound /\ Scattered

Untied ==
  /\ client'.valid = client.valid /\ client'.shutdown = client.shutdown
  /\ client'.joinable = client.joinable
  /\ client'.connected = client.connected \/ hub.died
  /\ reader'.at = "none" <=> reader.at = "none"
  /\ hub.died => hub'.died
  /\ socket'.down = socket.down \/ client.connected
LEMMA TiesStay == ASSUME Ties, Untied PROVE Ties'
<1>1. Joinable'
    BY DEF Ties, Untied, Joinable
<1>2. ASSUME ~Gone'
      PROVE (client'.valid => client'.connected) /\ (~client'.connected => socket'.down = <<>>)
    <2>1. ~Gone /\ client'.connected = client.connected
        BY <1>2 DEF Gone, Untied
    <2> QED
        BY <2>1 DEF Ties, Untied
<1> QED
    BY <1>1, <1>2 DEF Ties

Still ==
  /\ StoreGrows(client.store, client'.store)
  /\ socket'.down = socket.down
  /\ reader' = reader \/ (reader'.held = reader.held /\ reader.at # "handle")
  /\ received' = received
  /\ hub'.sent = hub.sent /\ hub'.attached \subseteq Inbound
  /\ hub.died => hub'.died
  /\ Over => Over'
LEMMA QuietCarried == ASSUME Carried, Still, Ties' PROVE Carried'
<1>1. Sound'
    <2>1. AllSeq(client'.store)
        <3> SUFFICES ASSUME NEW q \in DOMAIN client'.store PROVE IsSeq(client'.store[q].items)
            BY DEF AllSeq
        <3>1. CASE q \in DOMAIN client.store
            BY <3>1 DEF Carried, Sound, AllSeq, Still, StoreGrows
        <3>2. CASE q \notin DOMAIN client.store
            BY <3>2, EmptyIsSeq DEF Still, StoreGrows
        <3> QED
            BY <3>1, <3>2
    <2>2. reader'.held = reader.held /\ (reader'.at # "handle" => reader'.held = <<>>)
        BY DEF Carried, Sound, Still
    <2> QED
        BY <2>1, <2>2 DEF Carried, Sound, Still
<1>2. Scattered'
    <2> SUFFICES ASSUME ~Over', ~hub'.died
                 PROVE Apart(Contents(socket'.down, reader'.held, client'.store, received'), hub'.sent)
        <3>1. (Scattered <=> (~Over /\ ~hub.died =>
                Apart(Contents(socket.down, reader.held, client.store, received), hub.sent)))'
            BY LostIsApart, PTL
        <3> QED
            BY <3>1
    <2>1. ~Over /\ ~hub.died
        BY DEF Still
    <2>2. Apart(Contents(socket.down, reader.held, client.store, received), hub.sent)
        BY <2>1, LostIsApart DEF Carried
    <2>3. Apart(Contents(socket.down, reader.held, client'.store, received), hub.sent)
        BY <2>2, QueuesCome DEF Still
    <2> QED
        BY <2>3 DEF Still
<1> QED
    BY <1>1, <1>2 DEF Carried

LEMMA QuietStays == ASSUME Carried, Still, Untied PROVE Carried'
BY QuietCarried, TiesStay DEF Carried

(* A thread or the program that says nothing to the client.                *)
LEMMA ClientAsItWas ==
    ASSUME Carried, UNCHANGED <<client, reader, socket, received>>,
           hub'.sent = hub.sent, hub'.attached = hub.attached, hub'.died = hub.died
    PROVE Carried'
BY SameGrows, QuietStays DEF Still, Untied, Carried, Sound, Over

LEMMA SilentCarried ==
    ASSUME Lasting, Carried, NEW t \in Thread,
           \/ AlreadyConnected(t) \/ Abandon(t) \/ Done(t) \/ OfferStands(t) \/ LookForReply(t)
           \/ Accepted(t) \/ Collided(t) \/ ReceiveNothing(t) \/ DrainNothing(t) \/ Call(t)
    PROVE Carried'
<1>1. CASE Call(t)
    <2>1. PICK h \in Handle : Open(t, h) \/ Insert(t, h) \/ Extract(t, h) \/ Close(t, h)
        BY <1>1 DEF Call
    <2>2. hub' = [hub EXCEPT !.calls = @ + 1] /\ UNCHANGED <<client, reader, socket, received>>
        BY <2>1 DEF Open, Insert, Extract, Close, Begins
    <2>3. hub'.sent = hub.sent /\ hub'.attached = hub.attached /\ hub'.died = hub.died
        BY <2>2 DEF Lasting, Records
    <2> QED
        BY <2>2, <2>3, ClientAsItWas
<1>2. CASE \/ AlreadyConnected(t) \/ Abandon(t) \/ Done(t) \/ OfferStands(t) \/ LookForReply(t)
           \/ Accepted(t) \/ Collided(t) \/ ReceiveNothing(t) \/ DrainNothing(t)
    <2>1. UNCHANGED <<client, reader, socket, hub, received>>
        BY <1>2 DEF AlreadyConnected, Abandon, Done, OfferStands, LookForReply, Accepted,
                    Collided, ReceiveNothing, DrainNothing
    <2> QED
        BY <2>1, ClientAsItWas
<1> QED
    BY <1>1, <1>2

(* A client whose queues are as they were, or have been added to.          *)
Untouched(c) ==
  /\ StoreGrows(client.store, c.store)
  /\ c.valid = client.valid /\ c.shutdown = client.shutdown /\ c.joinable = client.joinable
  /\ c.connected = client.connected \/ hub.died
LEMMA ClientUntouched ==
    ASSUME Lasting, Carried, Untouched(client'), Running,
           UNCHANGED <<reader, received>>, socket'.down = socket.down,
           hub'.sent = hub.sent, hub'.attached = hub.attached, hub'.died = hub.died
    PROVE Carried'
BY QuietStays DEF Still, Untied, Carried, Sound, Over, Running, Untouched

LEMMA StoreUntouched ==
    ASSUME NEW c, c.store = client.store, c.valid = client.valid, c.shutdown = client.shutdown,
           c.joinable = client.joinable, c.connected = client.connected \/ hub.died
    PROVE Untouched(c)
BY SameGrows DEF Untouched

LEMMA WriteCarried ==
    ASSUME Lasting, Carried, NEW t \in Thread,
           Request(t) \/ Announce(t) \/ Acknowledge(t) \/ Detach(t)
    PROVE Carried'
<1>1. Records /\ Running /\ UNCHANGED <<reader, received>>
    BY DEF Lasting, Request, Announce, Acknowledge, Detach, At
<1>2. hub'.sent = hub.sent /\ hub'.attached = hub.attached /\ hub'.died = hub.died
    BY <1>1 DEF Request, Announce, Acknowledge, Detach, Says, Records
<1>3. ASSUME NEW c, NEW f, Writes(c, f), DOMAIN c = DOMAIN client, c.store = client.store,
             c.valid = client.valid, c.shutdown = client.shutdown,
             c.joinable = client.joinable, c.connected = client.connected
      PROVE Untouched(client') /\ socket'.down = socket.down
    <2>1. /\ client'.store = client.store /\ client'.valid = client.valid
          /\ client'.shutdown = client.shutdown /\ client'.joinable = client.joinable
          /\ client'.connected = client.connected
        BY <1>1, <1>3 DEF Writes, Records, Whole
    <2>2. socket'.down = socket.down
        BY <1>1, <1>3 DEF Writes, Records
    <2> QED
        BY <2>1, <2>2, StoreUntouched
<1>4. CASE Request(t)
    <2> DEFINE c == [(IF Calls(t) = "channel_offer" THEN ForChannel(client) ELSE ForAck(client))
                       EXCEPT !.paused = TRUE, !.mutex = t]
    <2>1. /\ DOMAIN c = DOMAIN client /\ c.store = client.store /\ c.valid = client.valid
          /\ c.shutdown = client.shutdown /\ c.joinable = client.joinable
          /\ c.connected = client.connected
        BY <1>1 DEF ForChannel, ForAck, Records, Whole
    <2>2. Writes(c, Frame(Calls(t), SideOf(t), t))
        BY <1>4 DEF Request
    <2> HIDE DEF c
    <2> QED
        BY <1>1, <1>2, <1>3, <2>1, <2>2, ClientUntouched
<1>5. CASE Announce(t) \/ Acknowledge(t) \/ Detach(t)
    <2>1. UNCHANGED <<client, socket>> \/ \E f : Writes(client, f)
        BY <1>5 DEF Announce, Acknowledge, Detach
    <2>2. Untouched(client') /\ socket'.down = socket.down
        BY <1>3, <2>1, StoreUntouched
    <2> QED
        BY <1>1, <1>2, <2>2, ClientUntouched
<1> QED
    BY <1>4, <1>5

LEMMA TurnCarried ==
    ASSUME Lasting, Carried, NEW t \in Thread,
           \/ PumpEnds(t) \/ PumpLost(t) \/ LookForAck(t) \/ LookForHub(t) \/ StopOffering(t)
           \/ OwnNothing(t) \/ OwnTurn(t)
    PROVE Carried'
<1>1. Records /\ Running /\ UNCHANGED <<reader, received, socket>> /\ (socket.hungup => hub.died)
    BY DEF Lasting, PumpEnds, PumpLost, LookForAck, LookForHub, StopOffering, OwnNothing, OwnTurn,
           At
<1>2. hub'.sent = hub.sent /\ hub'.attached = hub.attached /\ hub'.died = hub.died
    BY <1>1 DEF PumpEnds, PumpLost, LookForAck, LookForHub, StopOffering, OwnNothing, OwnTurn,
                Records
<1>3. /\ client'.store = client.store /\ client'.valid = client.valid
      /\ client'.shutdown = client.shutdown /\ client'.joinable = client.joinable
      /\ client'.connected = client.connected \/ hub.died
    <2>1. CASE PumpEnds(t) \/ PumpLost(t) \/ OwnNothing(t) \/ OwnTurn(t)
        BY <1>1, <2>1 DEF PumpEnds, PumpLost, OwnNothing, OwnTurn, Unlocked, Lost, Readable,
                          Records, Whole
    <2>2. CASE LookForAck(t) \/ LookForHub(t) \/ StopOffering(t)
        BY <1>1, <2>2 DEF LookForAck, LookForHub, StopOffering, Records, Whole
    <2> QED
        BY <2>1, <2>2
<1> QED
    BY <1>1, <1>2, <1>3, StoreUntouched, ClientUntouched

LEMMA FindCarried ==
    ASSUME Lasting, Carried, NEW t \in Thread, Reserve(t) \/ Find(t) \/ Refused(t) \/ Forget(t)
    PROVE Carried'
<1>1. Whole(client) /\ AllSeq(client.store) /\ Running
      /\ UNCHANGED <<reader, received, socket, hub>>
    BY DEF Lasting, Records, Carried, Sound, Reserve, Find, Refused, Forget, At
<1>2. ASSUME NEW side PROVE Untouched(WithQueue(client, side)) /\ Untouched(Erased(client, side))
    <2>1. Keeps(client, WithQueue(client, side)) /\ Keeps(client, Erased(client, side))
        BY <1>1, QueueFound, QueueErased
    <2>2. Erased(client, side).store = client.store
        BY <1>1 DEF Erased, Whole
    <2>3. StoreGrows(client.store, WithQueue(client, side).store)
        BY <1>1, FoundItems
    <2> QED
        BY <2>1, <2>2, <2>3, SameGrows DEF Keeps, Untouched
<1>3. Untouched(client')
    <2>1. \/ client' = client \/ \E side : client' = WithQueue(client, side)
          \/ \E side : client' = Erased(client, side)
        BY DEF Reserve, Find, Refused, Forget
    <2> QED
        BY <1>2, <2>1, StoreUntouched
<1> QED
    BY <1>1, <1>3, ClientUntouched

(* The program hangs up.                                                   *)
LEMMA HangUpCarried ==
    ASSUME Lasting, Carried, NEW t \in Thread, Disconnect(t) \/ HangUp(t) \/ CloseAndJoin(t)
    PROVE Carried'
<1>1. Records /\ Placed(t) /\ Running /\ UNCHANGED <<reader, received, hub>>
    BY DEF Lasting, Disconnect, HangUp, CloseAndJoin, At
<1>2. client'.shutdown /\ StoreGrows(client.store, client'.store) /\ socket'.down = socket.down
    <2>1. CASE Disconnect(t) \/ HangUp(t)
        <3>1. client'.shutdown /\ client'.store = client.store
            BY <1>1, <2>1 DEF Disconnect, HangUp, At, Placed, AtTheEnd, Records, Whole
        <3>2. socket'.down = socket.down
            BY <1>1, <2>1 DEF Disconnect, HangUp, Records
        <3> QED
            BY <3>1, <3>2, SameGrows
    <2>2. CASE CloseAndJoin(t)
        <3> DEFINE d == close_all_queues(client)
        <3>1. /\ StoreGrows(client.store, d.store) /\ d.shutdown = client.shutdown /\ Whole(d)
            BY <1>1, ClosedItems, QueuesClosed DEF Records
        <3>2. client' = [d EXCEPT !.process = "ended"] /\ socket' = socket /\ client.shutdown
            BY <1>1, <2>2 DEF CloseAndJoin, At, Placed, AtTheEnd
        <3> HIDE DEF d
        <3> QED
            BY <3>1, <3>2 DEF Whole
    <2> QED
        BY <2>1, <2>2
<1>3. Ties'
    BY <1>2 DEF Ties, Joinable, Gone
<1> QED
    BY <1>1, <1>2, <1>3, QuietCarried DEF Still, Carried, Sound, Over, Running

(* The reader goes on without a message, or ends.                          *)
LEMMA ReaderCarried ==
    ASSUME Lasting, Carried, ReaderStops \/ ReaderPolls \/ ReaderYields \/ ReaderCloses \/ ReaderEnds
    PROVE Carried'
<1>1. Records /\ Running /\ UNCHANGED <<received, socket, hub>> /\ (~Gone => StillThere)
    BY DEF Lasting, ReaderStops, ReaderPolls, ReaderYields, ReaderCloses, ReaderEnds, ReaderAt
<1>2. /\ reader.at \in {"loop", "read", "closing", "closed"}
      /\ reader'.at \in {"loop", "read", "closing", "closed", "ended"}
      /\ reader'.held = reader.held
    BY <1>1 DEF ReaderStops, ReaderPolls, ReaderYields, ReaderCloses, ReaderEnds, ReaderAt, Records
<1>3. CASE ReaderStops \/ ReaderPolls \/ ReaderYields
    <2>1. UNCHANGED client
        BY <1>3 DEF ReaderStops, ReaderPolls, ReaderYields
    <2> QED
        BY <1>1, <1>2, <2>1, SameGrows, QuietStays DEF Still, Untied, Carried, Sound, Over
<1>4. CASE ReaderCloses \/ ReaderEnds
    <2>1. Gone
        BY <1>1, <1>4 DEF ReaderCloses, ReaderEnds, ReaderAt, StillThere, Ending
    <2>2. /\ StoreGrows(client.store, client'.store) /\ client'.shutdown = client.shutdown
          /\ client'.joinable = client.joinable
        <3>1. CASE ReaderCloses
            BY <1>1, <3>1, SameGrows DEF ReaderCloses, Records, Whole
        <3>2. CASE ReaderEnds
            <4>1. client' = close_all_queues(client)
                BY <3>2 DEF ReaderEnds, ClosedBehind
            <4>2. client'.shutdown = client.shutdown /\ client'.joinable = client.joinable
                BY <1>1, <4>1 DEF close_all_queues, Records, Whole
            <4> QED
                BY <1>1, <4>1, <4>2, ClosedItems DEF Records
        <3> QED
            BY <1>4, <3>1, <3>2
    <2>3. Ties'
        BY <1>1, <1>2, <2>1, <2>2 DEF Carried, Ties, Joinable, Gone
    <2> QED
        BY <1>1, <1>2, <2>2, <2>3, QuietCarried DEF Still, Carried, Sound, Over, Running
<1> QED
    BY <1>3, <1>4

-----------------------------------------------------------------------------
(* The steps that take messages from one place to another.                 *)

LEMMA ApartCarried ==
    ASSUME Carried, Ties', Sound', Running, hub.died => hub'.died,
           Apart(Contents(socket.down, reader.held, client.store, received), hub.sent) =>
             Over' \/ hub'.died
             \/ Apart(Contents(socket'.down, reader'.held, client'.store, received'), hub'.sent)
    PROVE Carried'
<1>1. ASSUME ~Over', ~hub'.died
      PROVE Apart(Contents(socket'.down, reader'.held, client'.store, received'), hub'.sent)
    BY <1>1, LostIsApart DEF Carried, Over, Running
<1>2. (Scattered <=> (~Over /\ ~hub.died =>
         Apart(Contents(socket.down, reader.held, client.store, received), hub.sent)))'
    BY LostIsApart, PTL
<1> QED
    BY <1>1, <1>2 DEF Carried

(* The program gets the first message of a queue.                          *)
LEMMA TakesCarried ==
    ASSUME Lasting, Carried, Running, NEW t, NEW q \in DOMAIN client.store,
           client.store[q].items # <<>>, Takes(t, q), UNCHANGED <<reader, socket, hub>>
    PROVE Carried'
<1> DEFINE items == client.store[q].items
<1>1. Whole(client) /\ AllSeq(client.store) /\ IsSeq(received) /\ IsSeq(items) /\ items # <<>>
    BY DEF Lasting, Records, Carried, Sound, AllSeq
<1>2. /\ client' = [client EXCEPT !.store[q].items = Tail(items)]
      /\ received' = Append(received, Head(items))
    BY <1>1 DEF Takes, Whole, Stored
<1> HIDE DEF items
<1>3. /\ Gives(Numbers(items), Numbers(Tail(items)), {Head(items)[2]}) /\ IsSeq(Tail(items))
      /\ Gets(Numbers(received), Numbers(received'), {Head(items)[2]}) /\ IsSeq(received')
    BY <1>1, <1>2, FirstTaken, LastPut
<1>4. client'.store[q].items = Tail(items) /\ OthersStay(client.store, client'.store, q)
    <2>1. PICK rest : rest = Tail(items)
        OBVIOUS
    <2>2. LET u == [client EXCEPT !.store[q].items = rest].store
          IN  u[q].items = rest /\ OthersStay(client.store, u, q)
        BY <1>1, FilledItems
    <2>3. client' = [client EXCEPT !.store[q].items = rest]
        BY <1>2, <2>1
    <2>4. client'.store = [client EXCEPT !.store[q].items = rest].store
        BY <2>3
    <2> QED
        BY <2>1, <2>2, <2>4
<1>5. Keeps(client, client')
    <2>1. Keeps(client, [client EXCEPT !.store[q].items = Tail(items)])
        BY <1>1, QueueFilled
    <2> QED
        BY <1>2, <2>1
<1>6. Ties'
    <2>1. Untied
        BY <1>5 DEF Keeps, Untied
    <2> QED
        BY <2>1, TiesStay DEF Carried
<1>7. AllSeq(client'.store)
    BY <1>1, <1>3, <1>4 DEF AllSeq, OthersStay
<1>8. Sound'
    BY <1>3, <1>7 DEF Carried, Sound
<1>9. ASSUME Apart(Contents(socket.down, reader.held, client.store, received), hub.sent)
      PROVE Apart(Contents(socket.down, reader.held, client'.store, received'), hub.sent)
    BY <1>3, <1>4, <1>9, ToProgram DEF items
<1> QED
    BY <1>6, <1>8, <1>9, ApartCarried

LEMMA ReceiveCarried ==
    ASSUME Lasting, Carried, NEW t \in Thread, Receive(t) \/ DrainQueue(t)
    PROVE Carried'
<1>1. Whole(client) /\ Placed(t) /\ DOMAIN client.store = 1..Len(client.store)
    BY DEF Lasting, Records, Whole, Stored
<1>2. CASE Receive(t)
    BY <1>1, <1>2, TakesCarried DEF Receive, At, Placed
<1>3. CASE DrainQueue(t)
    <2>1. ChannelQueue \in DOMAIN client.store
        BY <1>1, <1>3 DEF DrainQueue, Waiting, ChannelQueue, NoQueue, Whole, Stored, Inbound
    <2> QED
        BY <1>3, <2>1, TakesCarried DEF DrainQueue, At, Waiting
<1> QED
    BY <1>2, <1>3

(* Whoever reads a frame from the socket.                                  *)
Rest == Tail(Tail(socket.down))
LEMMA FrameCarries ==
    ASSUME Carried, Talk, HasFrame, ~OutOfStep
    PROVE /\ Gives(OnTheLine(socket.down), OnTheLine(Rest), Bears(Inward))
          /\ Alternates(Rest) /\ (\A i \in DOMAIN Rest : Inboard(Rest[i][2])) /\ Inboard(Inward)
<1> DEFINE s == socket.down
           r == Tail(Tail(s))
           f == Head(s)[2]
<1>1. /\ IsSeq(s) /\ s # <<>> /\ Paired(s) /\ ~IsBody(Head(s)) /\ Alternates(s)
      /\ \A i \in DOMAIN s : Inboard(s[i][2])
    BY DEF Talk, Shapes, Seqs, HasFrame, OutOfStep, Carried, Sound
<1> HIDE DEF s
<1>2. TakenOff(s, r, f)
    BY <1>1, LineTaken
<1> HIDE DEF r, f
<1>3. /\ Gives(OnTheLine(s), OnTheLine(r), Bears(f))
      /\ Len(s) >= 2 /\ DOMAIN r = 1..(Len(s) - 2)
      /\ \A i \in 1..(Len(s) - 2) : r[i] = s[i + 2]
      /\ Inboard(f)
    BY <1>1, <1>2 DEF TakenOff, Bears
<1>4. Len(s) \in Nat /\ DOMAIN s = 1..Len(s) /\ 2 \in 0..Len(s)
    BY <1>1, <1>3, SeqSet
<1>5. Alternates(r)
    BY <1>1, <1>3, <1>4, RestAlternates
<1>6. ASSUME NEW i \in DOMAIN r PROVE Inboard(r[i][2])
    <2>1. i + 2 \in DOMAIN s /\ r[i] = s[i + 2]
        BY <1>3, <1>4
    <2> QED
        BY <1>1, <2>1
<1> QED
    BY <1>3, <1>5, <1>6 DEF s, r, f, Rest, Inward

LEMMA HandledCarried ==
    ASSUME Lasting, Talk, Carried, Running, HasFrame, ~OutOfStep, client.connected,
           client'.store = handle_message(client, Inward).store,
           client'.valid = client.valid, client'.shutdown = client.shutdown,
           client'.joinable = client.joinable, client'.connected = client.connected,
           socket'.down = Rest, UNCHANGED <<reader, received, hub>>
    PROVE Carried'
<1>1. /\ Gives(OnTheLine(socket.down), OnTheLine(Rest), Bears(Inward))
      /\ Alternates(Rest) /\ (\A i \in DOMAIN Rest : Inboard(Rest[i][2])) /\ Inboard(Inward)
    BY FrameCarries
<1>2. Whole(client) /\ AllSeq(client.store)
    BY DEF Lasting, Records, Carried, Sound
<1>3. Ties'
    BY TiesStay DEF Untied, Carried
<1>4. ASSUME Apart(Contents(socket.down, reader.held, client.store, received), hub.sent)
      PROVE Apart(Contents(Rest, reader.held, client'.store, received), hub.sent)
    BY <1>1, <1>2, <1>4, HandledItems
<1>5. AllSeq(client'.store)
    BY <1>1, <1>2, HandledInQueue
<1>6. Sound'
    BY <1>1, <1>5 DEF Carried, Sound
<1> QED
    BY <1>3, <1>4, <1>6, ApartCarried

LEMMA PumpReadsCarried ==
    ASSUME Lasting, Talk, Carried, NEW t \in Thread, PumpReads(t)
    PROVE Carried'
<1>1. /\ Records /\ Whole(client) /\ Running /\ UNCHANGED <<reader, received, hub>>
      /\ HasFrame /\ client.connected
    BY DEF Lasting, Records, PumpReads, At, Answered
<1>2. CASE OutOfStep
    <2>1. client' = [client EXCEPT !.process = "garbled"] /\ socket' = socket
        BY <1>2 DEF PumpReads
    <2>2. Untouched(client')
        BY <1>1, <2>1, StoreUntouched DEF Whole
    <2> QED
        BY <1>1, <2>1, <2>2, ClientUntouched
<1>3. CASE ~OutOfStep
    <2> DEFINE c == handle_message(client, Inward)
    <2>1. (client' = c \/ client' = Unlocked(c)) /\ socket' = [socket EXCEPT !.down = Rest]
        BY <1>3 DEF PumpReads, Handled, TakesFrame, Rest
    <2>2. Keeps(client, c)
        BY <1>1, MessageHandled
    <2> HIDE DEF c
    <2>3. /\ client'.store = c.store /\ client'.valid = c.valid /\ client'.shutdown = c.shutdown
          /\ client'.joinable = c.joinable /\ client'.connected = c.connected
        BY <2>1, <2>2 DEF Keeps, Whole, Unlocked
    <2>4. socket'.down = Rest
        BY <1>1, <2>1 DEF Records
    <2> QED
        BY <1>1, <1>3, <2>2, <2>3, <2>4, HandledCarried DEF Keeps, c
<1> QED
    BY <1>2, <1>3

(* A thread in channel_recv keeps what it reads for itself.                *)
LEMMA OwnReadsCarried ==
    ASSUME Lasting, Talk, Carried, NEW t \in Thread, OwnReads(t)
    PROVE Carried'
<1>1. /\ Records /\ Whole(client) /\ Running /\ UNCHANGED <<reader, hub>>
      /\ HasFrame /\ client.connected
    BY DEF Lasting, Records, OwnReads, At
<1>2. CASE OutOfStep
    <2>1. client' = [client EXCEPT !.process = "garbled"] /\ UNCHANGED <<socket, received>>
        BY <1>2 DEF OwnReads
    <2>2. Untouched(client')
        BY <1>1, <2>1, StoreUntouched DEF Whole
    <2> QED
        BY <1>1, <2>1, <2>2, ClientUntouched
<1>3. CASE ~OutOfStep /\ Inward.kind = "Deliver" /\ Inward.side = "channel"
    <2>1. /\ received' = Append(received, Inward.of)
          /\ client' = [client EXCEPT !.paused = FALSE,
                          !.process = IF socket.hungup THEN "killed" ELSE @]
          /\ socket' = [socket EXCEPT !.down = Tail(Tail(@)),
                          !.up = IF socket.hungup THEN @
                                 ELSE Append(@, Frame("DataAck", "channel", t))]
        BY <1>3 DEF OwnReads
    <2>2. /\ client'.store = client.store /\ client'.valid = client.valid
          /\ client'.shutdown = client.shutdown /\ client'.joinable = client.joinable
          /\ client'.connected = client.connected
        BY <1>1, <2>1 DEF Whole
    <2>3. socket'.down = Rest
        BY <1>1, <2>1 DEF Records, Rest
    <2>4. /\ Gives(OnTheLine(socket.down), OnTheLine(Rest), {Inward.of[2]})
          /\ Alternates(Rest) /\ \A i \in DOMAIN Rest : Inboard(Rest[i][2])
        BY <1>1, <1>3, FrameCarries DEF Bears
    <2>5. /\ Gets(Numbers(received), Numbers(received'), {Inward.of[2]}) /\ IsSeq(received')
        BY <2>1, LastPut DEF Carried, Sound
    <2>6. Ties'
        <3>1. Untied
            BY <1>1, <2>2 DEF Untied
        <3> QED
            BY <3>1, TiesStay DEF Carried
    <2>7. Sound'
        BY <1>1, <2>2, <2>3, <2>4, <2>5 DEF Carried, Sound
    <2>8. ASSUME Apart(Contents(socket.down, reader.held, client.store, received), hub.sent)
          PROVE Apart(Contents(Rest, reader.held, client.store, received'), hub.sent)
        BY <2>4, <2>5, <2>8, ToProgram
    <2> QED
        BY <1>1, <2>2, <2>3, <2>6, <2>7, <2>8, ApartCarried
<1>4. CASE ~OutOfStep /\ ~(Inward.kind = "Deliver" /\ Inward.side = "channel")
    <2> DEFINE c == handle_message(client, Inward)
    <2>1. /\ client' = [c EXCEPT !.paused = FALSE] /\ socket' = [socket EXCEPT !.down = Rest]
          /\ received' = received
        BY <1>4 DEF OwnReads, TakesFrame, Rest
    <2>2. Keeps(client, c)
        BY <1>1, MessageHandled
    <2> HIDE DEF c
    <2>3. /\ client'.store = c.store /\ client'.valid = c.valid /\ client'.shutdown = c.shutdown
          /\ client'.joinable = c.joinable /\ client'.connected = c.connected
        BY <2>1, <2>2 DEF Keeps, Whole
    <2>4. socket'.down = Rest
        BY <1>1, <2>1 DEF Records
    <2> QED
        BY <1>1, <1>4, <2>1, <2>2, <2>3, <2>4, HandledCarried DEF Keeps, c
<1> QED
    BY <1>2, <1>3, <1>4

(* The reader's hands are empty until it has read, and what it has read    *)
(* goes into the queues one after the other.                               *)
LEMMA HandsHandle ==
    ASSUME NEW bodies
    PROVE /\ HoldsMessages(bodies).held = bodies /\ HoldsMessages(bodies).at \in {"loop", "handle"}
          /\ HoldsMessages(bodies).at # "handle" => HoldsMessages(bodies).held = <<>>
BY DEF HoldsMessages

LEMMA BodiesFrom ==
    ASSUME NEW s, IsSeq(s), NEW n \in 1..Len(s)
    PROVE \A i \in DOMAIN Bodies(SubSeq(s, 1, n)) :
            \E j \in DOMAIN s : Bodies(SubSeq(s, 1, n))[i] = s[j][2]
<1> DEFINE a == SubSeq(s, 1, n)
<1>1. /\ Len(a) = n /\ (\A i \in 1..n : a[i] = s[i])
      /\ Len(s) \in Nat /\ DOMAIN s = 1..Len(s)
    BY SeqCut, SeqSet
<1> HIDE DEF a
<1> DEFINE first == IF a # <<>> /\ IsBody(Head(a)) THEN 1 ELSE 2
<1>2. Bodies(a) = [i \in 1..((n + 2 - first) \div 2) |-> a[first + 2 * (i - 1)][2]]
    BY <1>1 DEF Bodies
<1>3. first \in {1, 2}
    OBVIOUS
<1> HIDE DEF first
<1> SUFFICES ASSUME NEW i \in DOMAIN Bodies(a)
             PROVE \E j \in DOMAIN s : Bodies(a)[i] = s[j][2]
    BY DEF a
<1>4. i \in 1..((n + 2 - first) \div 2)
    BY <1>2
<1>5. first + 2 * (i - 1) \in 1..n
    BY <1>1, <1>3, <1>4, EvenBody
<1>6. Bodies(a)[i] = a[first + 2 * (i - 1)][2]
    BY <1>2, <1>4
<1>7. PICK j \in 1..n : j = first + 2 * (i - 1)
    BY <1>5
<1>8. j \in DOMAIN s /\ Bodies(a)[i] = s[j][2]
    BY <1>1, <1>6, <1>7
<1> QED
    BY <1>8

LEMMA ReaderReadsCarried ==
    ASSUME Lasting, Talk, Carried, ReaderReads
    PROVE Carried'
<1> DEFINE s == socket.down
<1>1. /\ Records /\ Whole(client) /\ Running /\ UNCHANGED <<received, hub>>
      /\ IsSeq(s) /\ s # <<>> /\ Alternates(s) /\ (\A i \in DOMAIN s : Inboard(s[i][2]))
      /\ reader.at = "read" /\ reader.held = <<>> /\ client.valid
    BY DEF Lasting, Records, ReaderReads, ReaderAt, HasFrame, Talk, Shapes, Seqs, Carried, Sound
<1>2. Len(s) \in 1..Len(s)
    BY <1>1, SeqTail DEF IsSeq
<1>3. PICK n \in 1..Len(s) :
        LET chunk == SubSeq(s, 1, n)
        IN  /\ client' = IF InStep(chunk)
                         THEN [client EXCEPT !.have_header = ~IsBody(Last(chunk))]
                         ELSE [client EXCEPT !.process = "garbled"]
            /\ reader' = HoldsMessages(Bodies(chunk))
            /\ socket' = [socket EXCEPT !.down = SubSeq(@, n + 1, Len(@))]
    BY <1>2 DEF ReaderReads
<1>4. PICK k, b : k = Bodies(SubSeq(s, 1, n)) /\ b = SubSeq(s, n + 1, Len(s))
    OBVIOUS
<1>5. /\ client'.store = client.store /\ client'.valid = client.valid
      /\ client'.shutdown = client.shutdown /\ client'.joinable = client.joinable
      /\ client'.connected = client.connected
    BY <1>1, <1>3 DEF Whole
<1>6. /\ socket'.down = b /\ reader' = HoldsMessages(k)
    BY <1>1, <1>3, <1>4 DEF Records
<1>7. reader'.held = k /\ reader'.at # "none" /\ (reader'.at # "handle" => reader'.held = <<>>)
    BY <1>6, HandsHandle
<1>8. IsSeq(b) /\ DOMAIN b = 1..(Len(s) - n) /\ \A i \in 1..(Len(s) - n) : b[i] = s[i + n]
    BY <1>1, <1>4, SeqCut
<1>9. Len(s) \in Nat /\ DOMAIN s = 1..Len(s) /\ n \in 0..Len(s)
    BY <1>1, SeqSet
<1>10. Alternates(b)
    BY <1>1, <1>8, <1>9, RestAlternates
<1>11. \A i \in DOMAIN b : Inboard(b[i][2])
    <2> SUFFICES ASSUME NEW i \in DOMAIN b PROVE Inboard(b[i][2])
        OBVIOUS
    <2>1. i + n \in DOMAIN s /\ b[i] = s[i + n]
        BY <1>8, <1>9
    <2> QED
        BY <1>1, <2>1
<1>12. \A i \in DOMAIN k : Inboard(k[i])
    <2> SUFFICES ASSUME NEW i \in DOMAIN k PROVE Inboard(k[i])
        OBVIOUS
    <2>1. PICK j \in DOMAIN s : k[i] = s[j][2]
        BY <1>1, <1>4, BodiesFrom
    <2> QED
        BY <1>1, <2>1
<1>13. Ties'
    <2>1. Ties
        BY DEF Carried
    <2>2. Joinable'
        BY <1>1, <1>5, <2>1 DEF Ties, Joinable
    <2>3. ASSUME ~Gone' PROVE client.connected
        <3>1. ~Gone
            BY <1>1, <1>5, <2>3 DEF Gone
        <3> QED
            BY <1>1, <2>1, <3>1 DEF Ties
    <2> QED
        BY <1>5, <2>2, <2>3 DEF Ties
<1>14. Sound'
    BY <1>1, <1>5, <1>6, <1>7, <1>10, <1>11, <1>12 DEF Carried, Sound
<1>15. ASSUME Apart(Contents(s, reader.held, client.store, received), hub.sent)
       PROVE Apart(Contents(b, k, client.store, received), hub.sent)
    <2>1. IsInjective(OnTheLine(s))
        <3>1. PICK F : F = Contents(s, reader.held, client.store, received)
            OBVIOUS
        <3>2. Wire \in DOMAIN F /\ F[Wire] = OnTheLine(s)
            <4>1. Laid(F, s, reader.held, client.store, received)
                BY <3>1, ContentsOf
            <4> QED
                BY <4>1 DEF Laid
        <3>3. Apart(F, hub.sent)
            BY <1>15, <3>1
        <3> QED
            BY <3>2, <3>3 DEF Apart
    <2>2. Gives(OnTheLine(s), OnTheLine(b), Range(InHand(k))) /\ IsInjective(InHand(k))
        BY <1>1, <1>4, <2>1, BodiesTaken
    <2>3. Range(InHand(<<>>)) = {}
        BY EmptyIsSeq DEF InHand, Range
    <2>4. Gets(InHand(reader.held), InHand(k), Range(InHand(k)))
        BY <1>1, <2>2, <2>3 DEF Gets
    <2> QED
        BY <1>15, <2>2, <2>4, ToHand
<1> QED
    BY <1>1, <1>5, <1>6, <1>7, <1>13, <1>14, <1>15, ApartCarried

LEMMA ReaderHandlesCarried ==
    ASSUME Lasting, Talk, Carried, ReaderHandles
    PROVE Carried'
<1> DEFINE r == reader.held
           f == Head(r)
           k == Tail(r)
<1>1. /\ Whole(client) /\ AllSeq(client.store) /\ Running /\ UNCHANGED <<socket, received, hub>>
      /\ IsSeq(r) /\ r # <<>> /\ (\A i \in DOMAIN r : Inboard(r[i])) /\ reader.at = "handle"
      /\ client' = handle_message(client, f) /\ reader' = HoldsMessages(k)
    BY DEF Lasting, Records, ReaderHandles, ReaderAt, Handled, Talk, Shapes, Seqs, Carried, Sound
<1> HIDE DEF r
<1>2. /\ f = r[1] /\ 1 \in DOMAIN r /\ Len(r) \in Nat /\ DOMAIN r = 1..Len(r)
      /\ DOMAIN k = 1..(Len(r) - 1) /\ \A i \in 1..(Len(r) - 1) : k[i] = r[i + 1]
    BY <1>1, SeqTail, SeqSet
<1>3. Gives(InHand(r), InHand(k), Bears(f))
    BY <1>1, HandTaken DEF Bears
<1> HIDE DEF f, k
<1>4. Keeps(client, client')
    <2>1. Keeps(client, handle_message(client, f))
        BY <1>1, MessageHandled
    <2> QED
        BY <1>1, <2>1
<1>5. reader'.held = k /\ reader'.at # "none" /\ (reader'.at # "handle" => reader'.held = <<>>)
    BY <1>1, HandsHandle
<1>6. Inboard(f) /\ \A i \in DOMAIN k : Inboard(k[i])
    <2> SUFFICES ASSUME NEW i \in DOMAIN k PROVE Inboard(k[i])
        BY <1>1, <1>2
    <2>1. i + 1 \in DOMAIN r /\ k[i] = r[i + 1]
        BY <1>2
    <2> QED
        BY <1>1, <2>1
<1>7. AllSeq(client'.store)
    BY <1>1, <1>6, HandledInQueue
<1>8. Ties'
    <2>1. Untied
        BY <1>1, <1>4, <1>5 DEF Keeps, Untied
    <2> QED
        BY <2>1, TiesStay DEF Carried
<1>9. Sound'
    BY <1>1, <1>5, <1>6, <1>7 DEF Carried, Sound
<1>10. ASSUME Apart(Contents(socket.down, reader.held, client.store, received), hub.sent)
       PROVE Apart(Contents(socket.down, reader'.held, client'.store, received), hub.sent)
    BY <1>1, <1>3, <1>5, <1>6, <1>10, HandledItems DEF r
<1> QED
    BY <1>1, <1>8, <1>9, <1>10, ApartCarried

(* A connection begins with an empty socket: no message is lost with the   *)
(* old one, unless the hub died.                                           *)
LEMMA ConnectCarried ==
    ASSUME Lasting, Carried, NEW t \in Thread, Connect(t)
    PROVE Carried'
<1>1. /\ Records /\ Whole(client) /\ Running /\ UNCHANGED <<reader, received>>
      /\ ~client.connected /\ Placed(t) /\ task[t].at = "ensure"
      /\ client' = Connected(client)
      /\ socket' = [up |-> <<>>, down |-> <<>>, hungup |-> FALSE]
      /\ hub' = [hub EXCEPT !.attached = {}, !.offers = <<>>]
    BY DEF Lasting, Records, Connect, At, There
<1>2. ~client.shutdown
    BY <1>1 DEF Placed, AtTheEnd
<1>3. /\ client'.store = client.store /\ client'.shutdown = client.shutdown
      /\ client'.joinable = client.joinable /\ client'.connected
    BY <1>1 DEF Connected, Whole
<1>4. /\ hub'.died = hub.died /\ hub'.sent = hub.sent /\ hub'.attached = {}
      /\ socket'.down = <<>>
    BY <1>1 DEF Records
<1>5. ~hub.died => socket.down = <<>>
    BY <1>1, <1>2 DEF Carried, Ties, Gone
<1>6. DOMAIN <<>> = {}
    BY EmptyIsSeq
<1>7. Ties'
    BY <1>1, <1>3 DEF Carried, Ties, Joinable
<1>8. Sound'
    BY <1>1, <1>3, <1>4, <1>6 DEF Carried, Sound, Alternates
<1> QED
    BY <1>1, <1>3, <1>4, <1>5, <1>7, <1>8, ApartCarried

LEMMA StartCarried ==
    ASSUME Lasting, Carried, NEW t \in Thread, StartReader(t)
    PROVE Carried'
<1>1. /\ Records /\ Whole(client) /\ Running /\ UNCHANGED <<socket, hub, received>>
      /\ Placed(t) /\ task[t].at = "start"
    BY DEF Lasting, Records, StartReader, At
<1>2. ~client.shutdown
    BY <1>1 DEF Placed, AtTheEnd
<1>3. CASE client.joinable
    <2>1. client' = [client EXCEPT !.process = "terminated"] /\ reader' = reader
        BY <1>3 DEF StartReader
    <2>2. Untouched(client')
        BY <1>1, <2>1, StoreUntouched DEF Whole
    <2> QED
        BY <1>1, <2>1, <2>2, ClientUntouched
<1>4. CASE ~client.joinable
    <2>1. client' = [client EXCEPT !.joinable = TRUE] /\ reader' = [at |-> "loop", held |-> <<>>]
        BY <1>4 DEF StartReader
    <2>2. /\ client'.store = client.store /\ client'.valid = client.valid
          /\ client'.shutdown = client.shutdown /\ client'.joinable
          /\ client'.connected = client.connected
        BY <1>1, <2>1 DEF Whole
    <2>3. reader.held = <<>>
        BY <1>2, <1>4 DEF Carried, Ties, Sound, Joinable
    <2>4. reader'.held = reader.held /\ reader'.at = "loop"
        BY <2>1, <2>3
    <2>5. Ties'
        BY <1>1, <2>2 DEF Carried, Ties, Joinable, Gone
    <2>6. Sound'
        BY <1>1, <2>2, <2>3, <2>4, EmptyIsSeq DEF Carried, Sound
    <2> QED
        BY <1>1, <2>2, <2>4, <2>5, <2>6, ApartCarried
<1> QED
    BY <1>3, <1>4

(* The hub puts an answer, or the next message, on the socket.             *)
HubSays ==
  /\ UNCHANGED <<client, reader, received>> /\ HubThere
  /\ hub'.died = hub.died /\ hub'.attached \subseteq Inbound
LEMMA HubSaysTies == ASSUME Lasting, Carried, HubSays PROVE Ties' /\ Running
<1>1. Running /\ client.valid
    BY DEF HubSays, HubThere
<1>2. Joinable' /\ (Gone' <=> Gone)
    BY DEF Carried, Ties, Joinable, Gone, HubSays
<1>3. ~Gone => client.connected
    BY <1>1 DEF Carried, Ties
<1>4. UNCHANGED client
    BY DEF HubSays
<1> QED
    BY <1>1, <1>2, <1>3, <1>4 DEF Ties, Carried

LEMMA WrittenSound ==
    ASSUME Carried, Talk, HubSays, NEW f, Inboard(f), socket'.down = socket.down \o Pieces(f),
           hub'.sent \in Nat
    PROVE Sound'
<1> DEFINE s == socket.down
           d == s \o Pieces(f)
           a == <<"head", f>>
           b == <<"body", f>>
<1>1. /\ IsSeq(s) /\ Paired(s) /\ Alternates(s) /\ \A i \in DOMAIN s : Inboard(s[i][2])
    BY DEF Talk, Shapes, Seqs, Carried, Sound
<1> HIDE DEF s
<1>2. d = s \o <<a, b>> /\ a[2] = f /\ b[2] = f
    BY DEF Pieces
<1>3. Alternates(d)
    BY <1>1, WrittenAlternates
<1>4. /\ DOMAIN (s \o <<a, b>>) = 1..(Len(s) + 2)
      /\ \A i \in 1..Len(s) : (s \o <<a, b>>)[i] = s[i]
      /\ (s \o <<a, b>>)[Len(s) + 1] = a /\ (s \o <<a, b>>)[Len(s) + 2] = b
      /\ Len(s) \in Nat /\ DOMAIN s = 1..Len(s)
    BY <1>1, SeqJoined, SeqSet
<1> HIDE DEF d, a, b
<1>5. ASSUME NEW i \in DOMAIN d PROVE Inboard(d[i][2])
    <2>1. i \in 1..Len(s) \/ i = Len(s) + 1 \/ i = Len(s) + 2
        BY <1>2, <1>4
    <2>2. CASE i \in 1..Len(s)
        <3>1. d[i] = s[i] /\ i \in DOMAIN s
            BY <1>2, <1>4, <2>2
        <3> QED
            BY <1>1, <3>1
    <2>3. CASE i = Len(s) + 1 \/ i = Len(s) + 2
        <3>1. d[i] = a \/ d[i] = b
            BY <1>2, <1>4, <2>3
        <3>2. d[i][2] = f
            BY <1>2, <3>1
        <3> QED
            BY <3>2
    <2> QED
        BY <2>1, <2>2, <2>3
<1>6. socket'.down = d
    BY DEF d, s
<1> QED
    BY <1>3, <1>5, <1>6 DEF Carried, Sound, HubSays

LEMMA AnswerCarried ==
    ASSUME Lasting, Talk, Carried, HubSays, NEW f, f.kind # "Deliver",
           socket'.down = socket.down \o Pieces(f), hub'.sent = hub.sent
    PROVE Carried'
<1>1. Ties' /\ Running
    BY HubSaysTies
<1>2. Sound'
    BY WrittenSound DEF Inboard, Carried, Sound
<1>3. Gives(OnTheLine(socket.down), OnTheLine(socket'.down), {})
    BY LineWritten DEF Talk, Shapes, Seqs
<1>4. ASSUME Apart(Contents(socket.down, reader.held, client.store, received), hub.sent)
      PROVE Apart(Contents(socket'.down, reader.held, client.store, received), hub.sent)
    BY <1>3, <1>4, NothingGot, ToHand
<1> QED
    BY <1>1, <1>2, <1>4, ApartCarried DEF HubSays

LEMMA HubSilentCarried ==
    ASSUME Lasting, Carried, HubSays, socket'.down = socket.down, hub'.sent = hub.sent
    PROVE Carried'
BY HubSaysTies, QuietCarried, SameGrows DEF Still, HubSays, Over

LEMMA HubDeliversCarried ==
    ASSUME Lasting, Talk, Carried, HubDelivers
    PROVE Carried'
<1>1. Records /\ hub.sent \in Nat /\ hub.attached \subseteq Inbound
    BY DEF Lasting, Carried, Sound
<1>2. PICK side \in hub.attached : socket' = Sends("Deliver", side, <<side, hub.sent + 1>>)
    BY DEF HubDelivers
<1>3. hub'.sent = hub.sent + 1 /\ hub'.died = hub.died /\ hub'.attached = hub.attached
    BY <1>1 DEF HubDelivers, Records
<1>4. HubSays
    BY <1>1, <1>3 DEF HubSays, HubDelivers, Ours
<1>5. PICK f : f = Frame("Deliver", side, <<side, hub.sent + 1>>)
    OBVIOUS
<1>6. /\ socket'.down = socket.down \o Pieces(f)
      /\ f.kind = "Deliver" /\ f.of[2] = hub.sent + 1 /\ Inboard(f)
    BY <1>1, <1>2, <1>5 DEF Sends, Records, Frame, Inboard
<1>7. Ties' /\ Running
    BY <1>4, HubSaysTies
<1>8. Sound'
    BY <1>1, <1>3, <1>4, <1>6, WrittenSound
<1>9. Gets(OnTheLine(socket.down), OnTheLine(socket'.down), {hub.sent + 1})
    BY <1>6, LineWritten DEF Talk, Shapes, Seqs
<1>10. ASSUME Apart(Contents(socket.down, reader.held, client.store, received), hub.sent)
       PROVE Apart(Contents(socket'.down, reader.held, client.store, received), hub'.sent)
    BY <1>1, <1>3, <1>9, <1>10, NewMessage
<1> QED
    BY <1>3, <1>4, <1>7, <1>8, <1>10, ApartCarried DEF HubSays

(* To anything the hub answers at once, or not at all.                     *)
LEMMA HubAnswersCarried ==
    ASSUME Lasting, Talk, Carried, HubAnswers
    PROVE Carried'
<1> DEFINE f == Head(socket.up)
<1>1. /\ Records /\ hub.attached \subseteq Inbound /\ HubThere
      /\ UNCHANGED <<client, reader, received>>
    BY DEF Lasting, Carried, Sound, HubAnswers, Ours
<1>2. /\ hub'.died = hub.died /\ hub'.sent = hub.sent /\ hub'.attached \subseteq Inbound
    <2>1. \/ hub' = [Says(f.of, "Ack") EXCEPT !.attached = @ \cup ({f.side} \cap Inbound)]
          \/ hub' = Says(f.of, "Ack") \/ hub' = Says(f.of, "Error")
          \/ hub' = [hub EXCEPT !.offers = Append(@, f.of)]
          \/ hub' = [hub EXCEPT !.stray = TRUE]
          \/ hub' = [hub EXCEPT !.attached = @ \ {f.side}]
          \/ hub' = hub
        BY DEF HubAnswers
    <2> QED
        BY <1>1, <2>1 DEF Says, Records
<1>3. \/ \E kind \in {"Ack", "Error"} : Served(kind, f.side, f.of)
      \/ socket' = [socket EXCEPT !.up = Tail(@)]
    BY DEF HubAnswers
<1>4. HubSays
    BY <1>1, <1>2 DEF HubSays
<1>5. ASSUME NEW kind \in {"Ack", "Error"}, Served(kind, f.side, f.of) PROVE Carried'
    <2>1. PICK r : r = Frame(kind, f.side, f.of)
        OBVIOUS
    <2>2. socket'.down = socket.down \o Pieces(r) /\ r.kind # "Deliver"
        BY <1>1, <1>5, <2>1 DEF Served, Records, Frame
    <2> QED
        BY <1>2, <1>4, <2>2, AnswerCarried
<1>6. CASE socket' = [socket EXCEPT !.up = Tail(@)]
    <2>1. socket'.down = socket.down
        BY <1>1, <1>6 DEF Records
    <2> QED
        BY <1>2, <1>4, <2>1, HubSilentCarried
<1> QED
    BY <1>3, <1>5, <1>6

LEMMA HubCarried ==
    ASSUME Lasting, Talk, Carried, Hub
    PROVE Carried'
<1>1. Records /\ hub.attached \subseteq Inbound
    BY DEF Lasting, Carried, Sound
<1>2. CASE HubDecidesOffer
    <2>1. PICK kind \in {"ChannelAccept", "ChannelBusy"} :
            socket' = Sends(kind, "channel", Head(hub.offers))
        BY <1>2 DEF HubDecidesOffer
    <2>2. hub'.died = hub.died /\ hub'.sent = hub.sent /\ hub'.attached = hub.attached
        BY <1>1, <1>2 DEF HubDecidesOffer, Says, Records
    <2>3. HubSays
        BY <1>1, <1>2, <2>2 DEF HubSays, HubDecidesOffer, Ours
    <2>4. PICK r : r = Frame(kind, "channel", Head(hub.offers))
        OBVIOUS
    <2>5. socket'.down = socket.down \o Pieces(r) /\ r.kind # "Deliver"
        BY <1>1, <2>1, <2>4 DEF Sends, Records, Frame
    <2> QED
        BY <2>2, <2>3, <2>5, AnswerCarried
<1>3. CASE HubDies
    <2>1. /\ UNCHANGED <<client, reader, received>> /\ socket'.down = socket.down
          /\ hub'.died /\ hub'.sent = hub.sent /\ hub'.attached = hub.attached
        BY <1>1, <1>3 DEF HubDies, Ours, Records
    <2>2. Ties'
        BY <2>1 DEF Carried, Ties, Joinable, Gone
    <2> QED
        BY <1>1, <2>1, <2>2, QuietCarried, SameGrows DEF Still, Over
<1> QED
    BY <1>2, <1>3, HubAnswersCarried, HubDeliversCarried DEF Hub

LEMMA InitCarried == Init => Carried
<1> SUFFICES ASSUME Init PROVE Carried
    OBVIOUS
<1>1. /\ socket.down = <<>> /\ reader.held = <<>> /\ reader.at = "none" /\ client.store = <<>>
      /\ received = <<>> /\ hub.sent = 0 /\ hub.attached = {} /\ ~client.valid
    BY DEF Init
<1>2. IsSeq(<<>>) /\ DOMAIN <<>> = {}
    BY EmptyIsSeq
<1>3. Ties
    BY <1>1 DEF Ties, Joinable
<1>4. Sound
    BY <1>1, <1>2 DEF Sound, AllSeq, Alternates
<1>5. Scattered
    <2>1. \A p \in Places : DOMAIN MessagesAt(p) = {}
        BY <1>1, <1>2 DEF Places, MessagesAt, OnTheLine, InHand, Numbers
    <2>2. \A p \in Places : Range(MessagesAt(p)) = {} /\ IsInjective(MessagesAt(p))
        BY <2>1 DEF Range, IsInjective
    <2>3. 1..hub.sent = {}
        BY <1>1
    <2> QED
        BY <2>2, <2>3 DEF Scattered
<1> QED
    BY <1>3, <1>4, <1>5 DEF Carried

LEMMA NextCarried == ASSUME Lasting, Talk, Carried, [Next]_vars PROVE Carried'
<1>1. CASE Hub
    BY <1>1, HubCarried
<1>2. CASE ReaderLoop
    BY <1>2, ReaderCarried, ReaderReadsCarried, ReaderHandlesCarried DEF ReaderLoop
<1>3. ASSUME NEW t \in Thread, Work(t) PROVE Carried'
    BY <1>3, SilentCarried, WriteCarried, TurnCarried, FindCarried, HangUpCarried, ReceiveCarried,
       PumpReadsCarried, OwnReadsCarried, ConnectCarried, StartCarried DEF Work
<1>4. ASSUME NEW t \in Thread, Call(t) \/ Disconnect(t) PROVE Carried'
    BY <1>4, SilentCarried, HangUpCarried
<1>5. CASE UNCHANGED vars
    <2>1. UNCHANGED <<client, reader, socket, received, hub>>
        BY <1>5 DEF vars
    <2> QED
        BY <2>1, ClientAsItWas
<1> QED
    BY <1>1, <1>2, <1>3, <1>4, <1>5 DEF Next

-----------------------------------------------------------------------------
(* A queue that holds messages of a side is that side's queue, or the      *)
(* program has given the side up.                                          *)

Bearing(c, G) ==
  \A q \in DOMAIN c.store : \A i \in DOMAIN c.store[q].items :
    LET side == c.store[q].items[i][1]
    IN  side \in Inbound /\ (side \in G \/ c.queues[side] = q)
StaysNamed(c, d, H) ==
  \A side \in Inbound : c.queues[side] \in DOMAIN c.store =>
    d.queues[side] = c.queues[side] \/ side \in H

LEMMA NamesKept ==
    ASSUME NEW c, NEW d, NEW G, NEW H, Bearing(c, G), G \subseteq H,
           StoreGrows(c.store, d.store), StaysNamed(c, d, H)
    PROVE Bearing(d, H)
<1> SUFFICES ASSUME NEW q \in DOMAIN d.store, NEW i \in DOMAIN d.store[q].items,
                    NEW side, side = d.store[q].items[i][1]
             PROVE side \in Inbound /\ (side \in H \/ d.queues[side] = q)
    BY DEF Bearing
<1>1. q \in DOMAIN c.store
    <2>1. q \notin DOMAIN c.store => d.store[q].items = <<>>
        BY DEF StoreGrows
    <2> QED
        BY <2>1, EmptyIsSeq
<1>2. d.store[q].items = c.store[q].items
    BY <1>1 DEF StoreGrows
<1>3. side \in Inbound /\ (side \in G \/ c.queues[side] = q)
    BY <1>1, <1>2 DEF Bearing
<1> QED
    BY <1>1, <1>3 DEF StaysNamed

LEMMA NamesFound ==
    ASSUME NEW c, Whole(c), AllSeq(c.store), NEW side \in Inbound, NEW G, Bearing(c, G)
    PROVE Bearing(WithQueue(c, side), G)
<1> DEFINE w == WithQueue(c, side)
<1>1. StoreGrows(c.store, w.store)
    BY FoundItems
<1>2. StaysNamed(c, w, G)
    <2>1. CASE c.queues[side] # NoQueue
        BY <2>1 DEF WithQueue, StaysNamed
    <2>2. CASE c.queues[side] = NoQueue
        <3>1. w.queues = [c.queues EXCEPT ![side] = Len(c.store) + 1]
            BY <2>2 DEF WithQueue, Whole
        <3>2. NoQueue \notin DOMAIN c.store
            BY DEF Whole, Stored, NoQueue
        <3> HIDE DEF w
        <3>3. ASSUME NEW other \in Inbound, other # side PROVE w.queues[other] = c.queues[other]
            BY <3>1, <3>3 DEF Whole, Stored
        <3> QED
            BY <2>2, <3>2, <3>3 DEF StaysNamed
    <2> QED
        BY <2>1, <2>2
<1> QED
    BY <1>1, <1>2, NamesKept

LEMMA NamesErased ==
    ASSUME NEW c, Whole(c), NEW side, NEW G, Bearing(c, G), NEW H, G \subseteq H,
           side \in Inbound => side \in H
    PROVE Bearing(Erased(c, side), H)
<1> DEFINE d == Erased(c, side)
<1>1. /\ d.store = c.store
      /\ \A other \in Inbound : other # side => d.queues[other] = c.queues[other]
    BY DEF Erased, Whole, Stored
<1> HIDE DEF d
<1>2. StoreGrows(c.store, d.store) /\ StaysNamed(c, d, H)
    BY <1>1, SameGrows DEF StaysNamed
<1> QED
    BY <1>2, NamesKept DEF d

LEMMA NamesClosed ==
    ASSUME NEW c, Whole(c), NEW G, Bearing(c, G)
    PROVE Bearing(close_all_queues(c), G)
<1>1. close_all_queues(c).queues = c.queues
    BY DEF close_all_queues, Whole
<1>2. StaysNamed(c, close_all_queues(c), G)
    BY <1>1 DEF StaysNamed
<1> QED
    BY <1>2, ClosedItems, NamesKept

(* Messages are taken from a queue, or the side's own is put there.        *)
ComesFrom(c, q, items) ==
  \A i \in DOMAIN items :
    \/ \E j \in DOMAIN c.store[q].items : items[i][1] = c.store[q].items[j][1]
    \/ items[i][1] \in Inbound /\ c.queues[items[i][1]] = q
LEMMA NamesFilled ==
    ASSUME NEW c, Whole(c), NEW q \in DOMAIN c.store, NEW items, NEW G, Bearing(c, G),
           ComesFrom(c, q, items)
    PROVE Bearing([c EXCEPT !.store[q].items = items], G)
<1> DEFINE d == [c EXCEPT !.store[q].items = items]
<1>1. d.store[q].items = items /\ OthersStay(c.store, d.store, q)
    BY FilledItems
<1>2. d.queues = c.queues
    BY DEF Whole
<1> HIDE DEF d
<1> SUFFICES ASSUME NEW p \in DOMAIN d.store, NEW i \in DOMAIN d.store[p].items,
                    NEW side, side = d.store[p].items[i][1]
             PROVE side \in Inbound /\ (side \in G \/ d.queues[side] = p)
    BY DEF Bearing, d
<1>3. CASE p # q
    <2>1. p \in DOMAIN c.store /\ d.store[p].items = c.store[p].items
        BY <1>1, <1>3 DEF OthersStay
    <2> QED
        BY <1>2, <2>1 DEF Bearing
<1>4. CASE p = q
    <2>1. i \in DOMAIN items /\ side = items[i][1]
        BY <1>1, <1>4
    <2>4. \/ \E j \in DOMAIN c.store[q].items : items[i][1] = c.store[q].items[j][1]
          \/ items[i][1] \in Inbound /\ c.queues[items[i][1]] = q
        BY <2>1 DEF ComesFrom
    <2>2. CASE side \in Inbound /\ c.queues[side] = q
        BY <1>2, <1>4, <2>2
    <2>3. ASSUME NEW j \in DOMAIN c.store[q].items, side = c.store[q].items[j][1]
          PROVE side \in Inbound /\ (side \in G \/ d.queues[side] = p)
        BY <1>2, <1>4, <2>3 DEF Bearing
    <2> QED
        BY <2>1, <2>2, <2>3, <2>4
<1> QED
    BY <1>3, <1>4

LEMMA NamesHandled ==
    ASSUME NEW c, Whole(c), AllSeq(c.store), NEW f, Inboard(f), NEW G, Bearing(c, G)
    PROVE Bearing(handle_message(c, f), G)
<1>1. CASE f.kind = "Deliver"
    <2> DEFINE w == WithQueue(c, f.side)
               q == w.queues[f.side]
               old == w.store[q].items
               items == Append(old, f.of)
    <2>1. /\ Whole(w) /\ AllSeq(w.store) /\ q \in DOMAIN w.store /\ Bearing(w, G)
          /\ f.side \in Inbound /\ f.of[1] = f.side
        BY <1>1, FoundItems, NamesFound DEF Inboard
    <2>2. handle_message(c, f) = [w EXCEPT !.store[q].items = items]
        <3>1. handle_message(c, f) = Delivered(w, f)
            BY <1>1 DEF handle_message
        <3> HIDE DEF w
        <3>2. Delivered(w, f) = [w EXCEPT !.store[q].items = items]
            BY DEF Delivered
        <3> QED
            BY <3>1, <3>2
    <2>3. w.queues[f.side] = q
        OBVIOUS
    <2>4. IsSeq(old)
        BY <2>1 DEF AllSeq
    <2> HIDE DEF w, q, old
    <2>5. /\ DOMAIN items = 1..(Len(old) + 1) /\ DOMAIN old = 1..Len(old) /\ Len(old) \in Nat
          /\ (\A i \in 1..Len(old) : items[i] = old[i]) /\ items[Len(old) + 1] = f.of
        BY <2>4, SeqAppended, SeqSet
    <2> HIDE DEF items
    <2>6. ASSUME NEW i \in DOMAIN items
          PROVE \/ \E j \in DOMAIN old : items[i][1] = old[j][1]
                \/ items[i][1] \in Inbound /\ w.queues[items[i][1]] = q
        <3>1. i \in 1..Len(old) \/ i = Len(old) + 1
            BY <2>5
        <3>2. CASE i \in 1..Len(old)
            BY <2>5, <3>2
        <3>3. CASE i = Len(old) + 1
            BY <2>1, <2>3, <2>5, <3>3
        <3> QED
            BY <3>1, <3>2, <3>3
    <2>7. old = w.store[q].items
        BY DEF old
    <2>8. ComesFrom(w, q, items)
        BY <2>6, <2>7 DEF ComesFrom
    <2>9. Bearing([w EXCEPT !.store[q].items = items], G)
        BY <2>1, <2>8, NamesFilled
    <2> QED
        BY <2>2, <2>9
<1>2. CASE f.kind # "Deliver"
    <2>1. /\ handle_message(c, f).store = c.store /\ handle_message(c, f).queues = c.queues
        BY <1>2 DEF handle_message, Whole
    <2>2. StoreGrows(c.store, handle_message(c, f).store)
        BY <2>1, SameGrows
    <2>3. StaysNamed(c, handle_message(c, f), G)
        BY <2>1 DEF StaysNamed
    <2> QED
        BY <2>2, <2>3, NamesKept
<1> QED
    BY <1>1, <1>2

LEMMA NamesTaken ==
    ASSUME NEW c, Whole(c), AllSeq(c.store), NEW q \in DOMAIN c.store,
           c.store[q].items # <<>>, NEW G, Bearing(c, G)
    PROVE Bearing([c EXCEPT !.store[q].items = Tail(@)], G)
<1> DEFINE old == c.store[q].items
           items == Tail(old)
<1>1. /\ IsSeq(old) /\ old # <<>>
      /\ [c EXCEPT !.store[q].items = Tail(@)] = [c EXCEPT !.store[q].items = items]
    BY DEF AllSeq, Whole, Stored
<1> HIDE DEF old
<1>2. /\ DOMAIN items = 1..(Len(old) - 1) /\ DOMAIN old = 1..Len(old) /\ Len(old) \in Nat
      /\ \A i \in 1..(Len(old) - 1) : items[i] = old[i + 1]
    BY <1>1, SeqTail, SeqSet
<1> HIDE DEF items
<1>3. ASSUME NEW i \in DOMAIN items PROVE \E j \in DOMAIN old : items[i][1] = old[j][1]
    <2>1. i + 1 \in DOMAIN old /\ items[i] = old[i + 1]
        BY <1>2
    <2> QED
        BY <2>1
<1>4. old = c.store[q].items
    BY DEF old
<1>5. ComesFrom(c, q, items)
    BY <1>3, <1>4 DEF ComesFrom
<1>6. Bearing([c EXCEPT !.store[q].items = items], G)
    BY <1>5, NamesFilled
<1> QED
    BY <1>1, <1>6

-----------------------------------------------------------------------------
(* A handle that is closed or dropped stays so: the threads that attach    *)
(* have handles of their own, which are new.                               *)

GivenUpSides == {side \in Inbound : GivenUp(side)}
Holds(t) ==
  /\ Asking(t) /\ task[t].at \notin Leaving =>
       task[t].handle \in Handle /\ handles[task[t].handle] = "new"
  /\ task[t].at \in Leaving =>
       task[t].handle \in Handle /\ handles[task[t].handle] \in {"closed", "dropped"}
Held ==
  /\ DOMAIN handles = Handle
  /\ \A t \in Thread : Holds(t)
  /\ AskedApart
Named == Held /\ Bearing(client, GivenUpSides)

(* A thread with its handle goes on, returns, or is none of these.         *)
Onward(u) ==
  /\ Asking(u)' => Asking(u) /\ task'[u].handle = task[u].handle
  /\ Asking(u)' /\ task[u].at \in Leaving => task'[u].at \in Leaving
  /\ task'[u].at \in Leaving => task[u].at \in Leaving /\ task'[u].handle = task[u].handle
AllOnward == \A u \in Thread : Onward(u)
LEMMA HeldStays == ASSUME Held, AllOnward, UNCHANGED handles PROVE Held'
<1>1. ASSUME NEW t \in Thread PROVE Holds(t)'
    <2>1. Holds(t) /\ Onward(t)
        BY DEF Held, AllOnward
    <2> QED
        BY <2>1 DEF Holds, Onward
<1>2. AskedApart'
    BY DEF Held, AllOnward, Onward, AskedApart
<1> QED
    BY <1>1, <1>2 DEF Held

LEMMA OthersOnward ==
    ASSUME NEW t \in Thread, Onward(t), \A u \in Thread : u # t => task'[u] = task[u]
    PROVE AllOnward
BY DEF AllOnward, Onward, Asking

LEMMA GoesOnward ==
    ASSUME TaskRecords, NEW t \in Thread, task[t].at # "idle", NEW place,
           place \in Leaving <=> task[t].at \in Leaving,
           Goes(t, place) \/ \E thrown : GoesOn(t, place, thrown)
    PROVE AllOnward
<1>1. /\ task'[t].at = place /\ task'[t].call = task[t].call
      /\ task'[t].handle = task[t].handle
      /\ \A u \in Thread : u # t => task'[u] = task[u]
    BY DEF Goes, GoesOn, TaskRecords
<1>2. Onward(t)
    BY <1>1 DEF Onward, Asking
<1> QED
    BY <1>1, <1>2, OthersOnward

LEMMA ReturnsOnward ==
    ASSUME TaskRecords, NEW t \in Thread,
           \/ \E result : Returns(t, result) \/ Completes(t, result)
    PROVE AllOnward
<1>1. PICK result : Returns(t, result)
    BY DEF Completes
<1>2. task'[t].at = "idle" /\ \A u \in Thread : u # t => task'[u] = task[u]
    BY <1>1 DEF Returns, TaskRecords, NoTask
<1>3. Onward(t)
    BY <1>2 DEF Onward, Asking, Leaving
<1> QED
    BY <1>2, <1>3, OthersOnward

LEMMA SameOnward == ASSUME UNCHANGED task PROVE AllOnward
BY DEF AllOnward, Onward, Asking

(* What happens to the handles, and with them to the sides given up.       *)
LEMMA SidesStay == ASSUME UNCHANGED handles PROVE GivenUpSides' = GivenUpSides
BY DEF GivenUpSides, GivenUp

LEMMA SidesGrow ==
    ASSUME DOMAIN handles = Handle, NEW h \in Handle, NEW state,
           handles[h] \in {"new", "open"}, handles' = [handles EXCEPT ![h] = state]
    PROVE GivenUpSides \subseteq GivenUpSides'
<1>1. \A g \in Handle : g # h => handles'[g] = handles[g]
    OBVIOUS
<1> QED
    BY <1>1 DEF GivenUpSides, GivenUp

LEMMA SideLeft ==
    ASSUME NEW h \in Handle, handles[h] \in {"closed", "dropped"}
    PROVE Side[h] \in Inbound => Side[h] \in GivenUpSides
BY DEF GivenUpSides, GivenUp

(* A thread opens a handle, or drops the one it could not open.            *)
LEMMA HandleTurns ==
    ASSUME TaskRecords, Held, NEW t \in Thread, Asking(t), task[t].at \notin Leaving,
           NEW state, handles' = [handles EXCEPT ![task[t].handle] = state],
           \A u \in Thread : u # t => task'[u] = task[u],
           \/ task'[t].at = "idle"
           \/ task'[t].at \in Leaving /\ task'[t].handle = task[t].handle /\ state = "dropped"
    PROVE Held' /\ GivenUpSides \subseteq GivenUpSides'
<1> DEFINE h == task[t].handle
<1>1. h \in Handle /\ handles[h] = "new" /\ DOMAIN handles = Handle
    BY DEF Held, Holds
<1> HIDE DEF h
<1>2. /\ handles' = [handles EXCEPT ![h] = state] /\ handles'[h] = state
      /\ \A g \in Handle : g # h => handles'[g] = handles[g]
      /\ DOMAIN handles' = Handle
    BY <1>1 DEF h
<1>3. ASSUME NEW u \in Thread
      PROVE Holds(u)' /\ (Asking(u)' => Asking(u) /\ task'[u].handle = task[u].handle)
    <2>1. CASE u = t
        BY <1>1, <1>2, <2>1 DEF Holds, Asking, Leaving, h
    <2>2. CASE u # t
        <3>1. Holds(u) /\ task'[u] = task[u]
            BY <2>2 DEF Held
        <3>2. Asking(u) => task[u].handle # h
            BY <2>2 DEF Held, AskedApart, h
        <3>3. task[u].at \in Leaving => task[u].handle # h
            BY <1>1, <3>1 DEF Holds
        <3> QED
            BY <1>2, <3>1, <3>2, <3>3 DEF Holds, Asking
    <2> QED
        BY <2>1, <2>2
<1>4. AskedApart'
    BY <1>3 DEF AskedApart, Held
<1>5. GivenUpSides \subseteq GivenUpSides'
    BY <1>1, <1>2 DEF GivenUpSides, GivenUp
<1> QED
    BY <1>2, <1>3, <1>4, <1>5 DEF Held

(* The program makes a call.                                               *)
LEMMA CallHeld ==
    ASSUME TaskRecords, Held, NEW t \in Thread, Call(t)
    PROVE Held' /\ GivenUpSides \subseteq GivenUpSides'
<1>1. PICK h \in Handle : Open(t, h) \/ Insert(t, h) \/ Extract(t, h) \/ Close(t, h)
    BY DEF Call
<1> DEFINE begun(call, place) ==
             /\ Begins(t, h, call, place)
             /\ place \in Leaving <=> call = "detach"
             /\ call = "attach" => handles[h] = "new" /\ ~InUse(h, {"attach"})
             /\ call # "detach" => UNCHANGED handles
             /\ call = "detach" => /\ handles' = [handles EXCEPT ![h] = "closed"]
                                   /\ handles[h] = "open"
                                   /\ \A u \in Thread : task[u].handle # h
<1>2. PICK call, place : begun(call, place)
    <2>1. CASE Open(t, h)
        <3>1. begun("attach", "ensure")
            BY <2>1 DEF Open, Leaving
        <3> QED
            BY <3>1
    <2>2. CASE Insert(t, h)
        <3>1. begun("publish", "ensure") \/ begun("channel_offer", "ensure")
            BY <2>2 DEF Insert, Leaving
        <3> QED
            BY <3>1
    <2>3. CASE Extract(t, h)
        <3>1. begun("receive", "ensure") \/ begun("channel_recv", "ensure")
            BY <2>3 DEF Extract, Leaving
        <3> QED
            BY <3>1
    <2>4. CASE Close(t, h)
        <3>1. begun("detach", "detach")
            BY <2>4 DEF Close, Leaving
        <3> QED
            BY <3>1
    <2> QED
        BY <1>1, <2>1, <2>2, <2>3, <2>4
<1>3. /\ task'[t].handle = h /\ task'[t].at = place /\ task'[t].call = call
      /\ \A u \in Thread : u # t => task'[u] = task[u]
    BY <1>2 DEF Begins, TaskRecords, NoTask
<1>4. /\ DOMAIN handles' = Handle /\ DOMAIN handles = Handle
      /\ call = "detach" => handles'[h] = "closed"
      /\ call # "detach" => handles' = handles
      /\ \A g \in Handle : g # h => handles'[g] = handles[g]
      /\ \A u \in Thread : task[u].handle = h => handles'[h] = handles[h]
    BY <1>2 DEF Held
<1>5. ASSUME NEW u \in Thread PROVE Holds(u)'
    <2>1. CASE u = t
        BY <1>2, <1>3, <1>4, <2>1 DEF Holds, Asking
    <2>2. CASE u # t
        <3>1. Holds(u) /\ task'[u] = task[u]
            BY <1>3, <2>2 DEF Held
        <3> QED
            BY <1>4, <3>1 DEF Holds, Asking
    <2> QED
        BY <2>1, <2>2
<1>6. AskedApart'
    <2>1. ASSUME NEW u \in Thread, u # t, Asking(u), task'[t].call = "attach"
          PROVE task[u].handle # h
        BY <1>2, <1>3, <2>1 DEF Asking, InUse, Calls
    <2> QED
        BY <1>3, <2>1 DEF AskedApart, Held, Asking
<1>7. GivenUpSides \subseteq GivenUpSides'
    <2>1. CASE call = "detach"
        BY <1>2, <1>4, <2>1, SidesGrow
    <2>2. CASE call # "detach"
        BY <1>4, <2>2, SidesStay
    <2> QED
        BY <2>1, <2>2
<1> QED
    BY <1>4, <1>5, <1>6, <1>7 DEF Held

(* Steps that leave the queues alone, or move messages between them.       *)
SameQueues == client'.store = client.store /\ client'.queues = client.queues
LEMMA QueuesStay ==
    ASSUME Named, SameQueues, Held', GivenUpSides \subseteq GivenUpSides'
    PROVE Named'
<1>1. StoreGrows(client.store, client'.store)
    BY SameGrows DEF SameQueues
<1>2. StaysNamed(client, client', GivenUpSides')
    BY DEF StaysNamed, SameQueues
<1>3. Bearing(client', GivenUpSides')
    BY <1>1, <1>2, NamesKept DEF Named
<1> QED
    BY <1>3 DEF Named

LEMMA QueuesTurn ==
    ASSUME Named, AllOnward, UNCHANGED handles,
           SameQueues \/ Bearing(client', GivenUpSides)
    PROVE Named'
<1>1. Held' /\ GivenUpSides' = GivenUpSides
    BY HeldStays, SidesStay DEF Named
<1>2. CASE SameQueues
    BY <1>1, <1>2, QueuesStay
<1>3. CASE Bearing(client', GivenUpSides)
    BY <1>1, <1>3 DEF Named
<1> QED
    BY <1>2, <1>3

(* A call that goes on, or returns, and moves no message.                  *)
LEMMA SilentNamed ==
    ASSUME Lasting, Named, NEW t \in Thread,
           \/ AlreadyConnected(t) \/ OfferStands(t) \/ LookForReply(t) \/ Accepted(t)
           \/ Collided(t) \/ ReceiveNothing(t) \/ DrainNothing(t) \/ Announce(t)
           \/ Acknowledge(t) \/ Detach(t)
    PROVE Named'
<1>1. Whole(client) /\ TaskRecords /\ Placed(t) /\ UNCHANGED handles
    BY DEF Lasting, Records, AlreadyConnected, OfferStands, LookForReply, Accepted, Collided,
           ReceiveNothing, DrainNothing, Announce, Acknowledge, Detach
<1>2. SameQueues
    <2>1. client' = client \/ client' = [client EXCEPT !.process = "killed"]
        BY DEF AlreadyConnected, OfferStands, LookForReply, Accepted, Collided,
           ReceiveNothing, DrainNothing, Announce, Acknowledge, Detach, Writes
    <2> QED
        BY <1>1, <2>1 DEF SameQueues, Whole
<1>3. AllOnward
    <2>1. CASE \E result : Returns(t, result) \/ Completes(t, result)
        BY <1>1, <2>1, ReturnsOnward
    <2>2. CASE AlreadyConnected(t)
        <3>1. /\ Goes(t, Entry(Calls(t))) /\ task[t].at = "ensure"
              /\ Calls(t) \in Requests \cup Receives
            BY <1>1, <2>2 DEF AlreadyConnected, At, Placed, Calls
        <3>2. Entry(Calls(t)) \notin Leaving
            BY <3>1 DEF Entry, Requests, Receives, Leaving
        <3> QED
            BY <1>1, <3>1, <3>2, GoesOnward DEF Leaving
    <2>3. CASE OfferStands(t)
        BY <1>1, <2>3, GoesOnward DEF OfferStands, At, Leaving
    <2>4. CASE LookForReply(t)
        BY <1>1, <2>4, GoesOnward DEF LookForReply, At, Leaving
    <2>5. CASE Announce(t)
        BY <1>1, <2>5, GoesOnward DEF Announce, At, Leaving
    <2>6. CASE DrainNothing(t) /\ Goes(t, "own")
        BY <1>1, <2>6, GoesOnward DEF DrainNothing, At, Leaving
    <2>7. CASE Detach(t) /\ Goes(t, "forget")
        BY <1>1, <2>7, GoesOnward DEF Detach, At, Leaving
    <2>8. CASE Accepted(t) \/ (Collided(t) /\ task' = [task EXCEPT ![t].at = "request", ![t].tries = @ + 1])
        <3>1. /\ task[t].at = "opcode" /\ task'[t].at = "request"
              /\ task'[t].handle = task[t].handle
              /\ task'[t].call = task[t].call \/ task'[t].call = "channel_send"
              /\ \A u \in Thread : u # t => task'[u] = task[u]
            BY <1>1, <2>8 DEF Accepted, Collided, At, TaskRecords
        <3>2. Onward(t)
            BY <3>1 DEF Onward, Asking, Leaving
        <3> QED
            BY <3>1, <3>2, OthersOnward
    <2> QED
        BY <2>1, <2>2, <2>3, <2>4, <2>5, <2>6, <2>7, <2>8
           DEF Collided, ReceiveNothing, DrainNothing, Acknowledge, Detach
<1> QED
    BY <1>1, <1>2, <1>3, QueuesTurn

LEMMA TurnNamed ==
    ASSUME Lasting, Named, NEW t \in Thread,
           \/ PumpEnds(t) \/ PumpLost(t) \/ LookForAck(t) \/ LookForHub(t) \/ StopOffering(t)
           \/ OwnNothing(t) \/ OwnTurn(t) \/ Connect(t) \/ StartReader(t) \/ HangUp(t)
    PROVE Named'
<1>1. Whole(client) /\ TaskRecords /\ Placed(t) /\ UNCHANGED handles
    BY DEF Lasting, Records, PumpEnds, PumpLost, LookForAck, LookForHub, StopOffering,
           OwnNothing, OwnTurn, Connect, StartReader, HangUp
<1>2. SameQueues
    <2>1. CASE PumpEnds(t) \/ PumpLost(t) \/ OwnNothing(t) \/ OwnTurn(t)
        BY <1>1, <2>1 DEF PumpEnds, PumpLost, OwnNothing, OwnTurn, Unlocked, Lost, SameQueues, Whole
    <2>2. CASE LookForAck(t) \/ LookForHub(t) \/ StopOffering(t)
        BY <1>1, <2>2 DEF LookForAck, LookForHub, StopOffering, SameQueues, Whole
    <2>3. CASE Connect(t) \/ StartReader(t) \/ HangUp(t)
        BY <1>1, <2>3 DEF Connect, Connected, StartReader, HangUp, SameQueues, Whole
    <2> QED
        BY <2>1, <2>2, <2>3
<1>3. AllOnward
    <2>1. CASE \E result : Completes(t, result)
        BY <1>1, <2>1, ReturnsOnward
    <2>2. CASE UNCHANGED task
        BY <2>2, SameOnward
    <2>3. CASE PumpEnds(t) \/ PumpLost(t)
        BY <1>1, <2>3, GoesOnward DEF PumpEnds, PumpLost, At, Leaving
    <2>4. CASE LookForAck(t) \/ LookForHub(t) \/ StopOffering(t)
        BY <1>1, <2>4, GoesOnward DEF LookForAck, LookForHub, StopOffering, At, Leaving
    <2>5. CASE OwnTurn(t) \/ Connect(t)
        BY <1>1, <2>5, GoesOnward DEF OwnTurn, Connect, At, Leaving
    <2>6. CASE StartReader(t)
        <3>1. /\ Goes(t, Entry(Calls(t))) /\ task[t].at = "start"
              /\ Calls(t) \in Requests \cup Receives
            BY <1>1, <2>6 DEF StartReader, At, Placed, Calls
        <3>2. Entry(Calls(t)) \notin Leaving
            BY <3>1 DEF Entry, Requests, Receives, Leaving
        <3> QED
            BY <1>1, <3>1, <3>2, GoesOnward DEF Leaving
    <2>7. CASE HangUp(t) /\ Goes(t, "join")
        BY <1>1, <2>7, GoesOnward DEF HangUp, At, Leaving
    <2> QED
        BY <2>1, <2>2, <2>3, <2>4, <2>5, <2>6, <2>7 DEF OwnNothing, HangUp
<1> QED
    BY <1>1, <1>2, <1>3, QueuesTurn

LEMMA RequestNamed ==
    ASSUME Lasting, Named, NEW t \in Thread, Request(t)
    PROVE Named'
<1>1. Whole(client) /\ TaskRecords /\ UNCHANGED handles /\ task[t].at = "request"
    BY DEF Lasting, Records, Request, At
<1> DEFINE c == [(IF Calls(t) = "channel_offer" THEN ForChannel(client) ELSE ForAck(client))
                   EXCEPT !.paused = TRUE, !.mutex = t]
<1>2. DOMAIN c = DOMAIN client /\ c.store = client.store /\ c.queues = client.queues
    BY <1>1 DEF ForChannel, ForAck, Whole
<1>3. Writes(c, Frame(Calls(t), SideOf(t), t))
    BY DEF Request
<1> HIDE DEF c
<1>4. SameQueues
    BY <1>1, <1>2, <1>3 DEF Writes, SameQueues, Whole
<1> DEFINE asked == Unsettled # {}
           moved(u) == CASE u = t -> [task[u] EXCEPT !.at = "pump",
                                        !.fault = IF NotConnected = None THEN @ ELSE NotConnected,
                                        !.overlapped = @ \/ asked]
                         [] u \in Unsettled -> [task[u] EXCEPT !.overlapped = TRUE]
                         [] OTHER -> task[u]
<1>5. task' = [u \in Thread |-> moved(u)] /\ t \notin Unsettled
    BY <1>1, Zenon DEF Request, Unsettled
<1> HIDE DEF asked
<1>6. /\ task'[t].at = "pump" /\ task'[t].call = task[t].call
      /\ task'[t].handle = task[t].handle
    BY <1>1, <1>5 DEF TaskRecords
<1>7. ASSUME NEW u \in Thread, u # t
      PROVE /\ task'[u].at = task[u].at /\ task'[u].call = task[u].call
            /\ task'[u].handle = task[u].handle
    <2>1. task'[u] = [task[u] EXCEPT !.overlapped = TRUE] \/ task'[u] = task[u]
        BY <1>5, <1>7
    <2> QED
        BY <1>1, <2>1 DEF TaskRecords
<1>8. ASSUME NEW u \in Thread PROVE Onward(u)
    BY <1>1, <1>6, <1>7 DEF Onward, Asking, Leaving
<1> QED
    BY <1>1, <1>4, <1>8, QueuesTurn DEF AllOnward

(* A thread makes a queue, or takes from one, ...                          *)
LEMMA FindNamed ==
    ASSUME Lasting, Carried, Named, NEW t \in Thread,
           Reserve(t) \/ Find(t) \/ Receive(t) \/ DrainQueue(t)
    PROVE Named'
<1>1. /\ Whole(client) /\ TaskRecords /\ Placed(t) /\ UNCHANGED handles
      /\ AllSeq(client.store) /\ Bearing(client, GivenUpSides)
    BY DEF Lasting, Records, Carried, Sound, Named, Reserve, Find, Receive, DrainQueue
<1>2. CASE Reserve(t)
    <2>1. AllOnward
        BY <1>1, <1>2, GoesOnward DEF Reserve, At, Leaving
    <2>2. client' = client \/ (SideOf(t) \in Inbound /\ client' = WithQueue(client, SideOf(t)))
        BY <1>2 DEF Reserve
    <2>3. Bearing(client', GivenUpSides)
        BY <1>1, <2>2, NamesFound
    <2> QED
        BY <1>1, <2>1, <2>3, QueuesTurn
<1>3. CASE Find(t)
    <2>1. /\ task[t].at = "find" /\ task'[t].at = "wait" /\ task'[t].call = task[t].call
          /\ task'[t].handle = task[t].handle
          /\ \A u \in Thread : u # t => task'[u] = task[u]
        BY <1>1, <1>3 DEF Find, At, TaskRecords
    <2>2. Onward(t)
        BY <2>1 DEF Onward, Asking, Leaving
    <2>3. AllOnward
        BY <2>1, <2>2, OthersOnward
    <2>4. Bearing(client', GivenUpSides)
        BY <1>1, <1>3, NamesFound DEF Find, Inbound
    <2> QED
        BY <1>1, <2>3, <2>4, QueuesTurn
<1>4. ASSUME NEW q \in DOMAIN client.store, client.store[q].items # <<>>, Takes(t, q), AllOnward
      PROVE Named'
    <2>1. Bearing(client', GivenUpSides)
        BY <1>1, <1>4, NamesTaken DEF Takes
    <2> QED
        BY <1>1, <1>4, <2>1, QueuesTurn
<1>5. CASE Receive(t)
    <2>1. AllOnward
        BY <1>1, <1>5, ReturnsOnward DEF Receive
    <2>2. task[t].queue \in DOMAIN client.store
        BY <1>1, <1>5 DEF Receive, At, Placed, Whole, Stored
    <2> QED
        BY <1>4, <1>5, <2>1, <2>2 DEF Receive
<1>6. CASE DrainQueue(t)
    <2>1. AllOnward
        BY <1>1, <1>6, GoesOnward DEF DrainQueue, At, Leaving
    <2>2. ChannelQueue \in DOMAIN client.store
        BY <1>1, <1>6 DEF DrainQueue, Waiting, ChannelQueue, NoQueue, Whole, Stored, Inbound
    <2> QED
        BY <1>4, <1>6, <2>1, <2>2 DEF DrainQueue, Waiting
<1> QED
    BY <1>2, <1>3, <1>5, <1>6

(* ... or reads a frame from the socket.                                   *)
LEMMA ReadNamed ==
    ASSUME Lasting, Talk, Carried, Named, NEW t \in Thread, PumpReads(t) \/ OwnReads(t)
    PROVE Named'
<1>1. /\ Whole(client) /\ TaskRecords /\ Placed(t) /\ UNCHANGED handles
      /\ AllSeq(client.store) /\ Bearing(client, GivenUpSides) /\ HasFrame
    BY DEF Lasting, Records, Carried, Sound, Named, PumpReads, OwnReads
<1>2. AllOnward
    <2>1. CASE \E result : Completes(t, result)
        BY <1>1, <2>1, ReturnsOnward
    <2>2. CASE UNCHANGED task
        BY <2>2, SameOnward
    <2>3. CASE PumpReads(t) /\ Goes(t, "answered")
        BY <1>1, <2>3, GoesOnward DEF PumpReads, At, Leaving
    <2>4. CASE OwnReads(t) /\ Goes(t, "drain")
        BY <1>1, <2>4, GoesOnward DEF OwnReads, At, Leaving
    <2> QED
        BY <2>1, <2>2, <2>3, <2>4 DEF PumpReads, OwnReads
<1>3. CASE OutOfStep
    <2>1. client' = [client EXCEPT !.process = "garbled"]
        BY <1>3 DEF PumpReads, OwnReads
    <2>2. SameQueues
        BY <1>1, <2>1 DEF SameQueues, Whole
    <2> QED
        BY <1>1, <1>2, <2>2, QueuesTurn
<1>4. CASE ~OutOfStep /\ OwnReads(t) /\ Inward.kind = "Deliver" /\ Inward.side = "channel"
    <2>1. client' = [client EXCEPT !.paused = FALSE,
                       !.process = IF socket.hungup THEN "killed" ELSE @]
        BY <1>4 DEF OwnReads
    <2>2. SameQueues
        BY <1>1, <2>1 DEF SameQueues, Whole
    <2> QED
        BY <1>1, <1>2, <2>2, QueuesTurn
<1>5. CASE ~OutOfStep /\ (PumpReads(t) \/ ~(Inward.kind = "Deliver" /\ Inward.side = "channel"))
    <2> DEFINE c == handle_message(client, Inward)
    <2>1. client' = c \/ client' = Unlocked(c) \/ client' = [c EXCEPT !.paused = FALSE]
        BY <1>5 DEF PumpReads, OwnReads, Handled
    <2>2. Inboard(Inward)
        BY <1>1, <1>5, FrameCarries
    <2>3. Whole(c) /\ Bearing(c, GivenUpSides)
        BY <1>1, <2>2, MessageHandled, NamesHandled DEF Keeps
    <2> HIDE DEF c
    <2>4. client'.store = c.store /\ client'.queues = c.queues
        BY <2>1, <2>3 DEF Unlocked, Whole
    <2>5. Bearing(client', GivenUpSides)
        BY <2>3, <2>4 DEF Bearing
    <2> QED
        BY <1>1, <1>2, <2>5, QueuesTurn
<1> QED
    BY <1>3, <1>4, <1>5

(* A queue loses its name only with a handle that is given up.             *)
LEMMA LeaveNamed ==
    ASSUME Lasting, Named, NEW t \in Thread, Refused(t) \/ Abandon(t) \/ Done(t) \/ Forget(t)
    PROVE Named'
<1>1. /\ Whole(client) /\ TaskRecords /\ Held /\ Holds(t) /\ Bearing(client, GivenUpSides)
      /\ task[t].at \in {"settled", "forget"}
    BY DEF Lasting, Records, Named, Held, Refused, Abandon, Done, Forget, At
<1>2. CASE Forget(t)
    <2>1. AllOnward
        BY <1>1, <1>2, ReturnsOnward DEF Forget
    <2>2. SideOf(t) \in Inbound => SideOf(t) \in GivenUpSides
        BY <1>1, <1>2, SideLeft DEF Forget, At, Holds, Leaving, SideOf
    <2>3. Bearing(client', GivenUpSides)
        BY <1>1, <1>2, <2>2, NamesErased DEF Forget
    <2> QED
        BY <1>2, <2>1, <2>3, QueuesTurn DEF Forget
<1>3. CASE ~Forget(t) /\ Calls(t) = "attach"
    <2>1. task[t].at = "settled" /\ Asking(t) /\ task[t].at \notin Leaving
        BY <1>3 DEF Refused, Abandon, Done, At, Asking, Calls, Leaving
    <2>2. task[t].handle \in Handle /\ DOMAIN handles = Handle
        BY <1>1, <2>1 DEF Holds, Held
    <2>3. CASE Done(t)
        <3>1. handles' = [handles EXCEPT ![task[t].handle] = "open"] /\ Completes(t, "done")
              /\ client' = client
            BY <1>3, <2>3 DEF Done
        <3>2. task'[t].at = "idle" /\ \A u \in Thread : u # t => task'[u] = task[u]
            BY <1>1, <3>1 DEF Completes, Returns, TaskRecords, NoTask
        <3>3. Held' /\ GivenUpSides \subseteq GivenUpSides'
            BY <1>1, <2>1, <3>1, <3>2, HandleTurns
        <3> QED
            BY <3>1, <3>3, QueuesStay DEF SameQueues
    <2>4. CASE Refused(t) \/ Abandon(t)
        <3>1. /\ handles' = [handles EXCEPT ![task[t].handle] = "dropped"]
              /\ Goes(t, "detach") \/ \E thrown : GoesOn(t, "detach", thrown)
              /\ client' = client \/ client' = Erased(client, SideOf(t))
            BY <1>3, <2>4 DEF Refused, Abandon, Drops, Offering
        <3>2. /\ task'[t].at \in Leaving /\ task'[t].handle = task[t].handle
              /\ \A u \in Thread : u # t => task'[u] = task[u]
            BY <1>1, <3>1 DEF Goes, GoesOn, TaskRecords, Leaving
        <3>3. Held' /\ GivenUpSides \subseteq GivenUpSides'
            BY <1>1, <2>1, <3>1, <3>2, HandleTurns
        <3>4. SideOf(t) \in Inbound => SideOf(t) \in GivenUpSides'
            <4>1. handles'[task[t].handle] = "dropped"
                BY <2>2, <3>1
            <4> QED
                BY <2>2, <4>1 DEF GivenUpSides, GivenUp, SideOf
        <3>5. CASE client' = client
            BY <3>3, <3>5, QueuesStay DEF SameQueues
        <3>6. CASE client' = Erased(client, SideOf(t))
            <4>1. Bearing(client', GivenUpSides')
                BY <1>1, <3>3, <3>4, <3>6, NamesErased
            <4> QED
                BY <3>3, <4>1 DEF Named
        <3> QED
            BY <3>1, <3>5, <3>6
    <2> QED
        BY <1>3, <2>3, <2>4
<1>4. CASE ~Forget(t) /\ Calls(t) # "attach"
    <2>1. UNCHANGED <<client, handles>> /\ task[t].at = "settled"
        BY <1>4 DEF Refused, Abandon, Done, At
    <2>2. AllOnward
        <3>1. \/ \E result : Returns(t, result) \/ Completes(t, result)
              \/ GoesOn(t, "replied", "refused")
            BY <1>4 DEF Refused, Abandon, Done
        <3> QED
            BY <1>1, <2>1, <3>1, GoesOnward, ReturnsOnward DEF Leaving
    <2> QED
        BY <2>1, <2>2, QueuesTurn DEF SameQueues
<1> QED
    BY <1>2, <1>3, <1>4

(* The program begins a call, or ends; the reader, and the hub.            *)
LEMMA EndNamed ==
    ASSUME Lasting, Named, NEW t \in Thread, Call(t) \/ Disconnect(t) \/ CloseAndJoin(t)
    PROVE Named'
<1>1. Whole(client) /\ TaskRecords /\ Held /\ Bearing(client, GivenUpSides)
    BY DEF Lasting, Records, Named
<1>2. CASE Call(t)
    <2>1. client' = client
        BY <1>2 DEF Call, Open, Insert, Extract, Close, Begins
    <2> QED
        BY <1>1, <1>2, <2>1, CallHeld, QueuesStay DEF SameQueues
<1>3. CASE Disconnect(t)
    <2>1. /\ task'[t].at = "hangup" /\ task'[t].call = "disconnect" /\ UNCHANGED handles
          /\ \A u \in Thread : u # t => task'[u] = task[u]
        BY <1>1, <1>3 DEF Disconnect, TaskRecords, NoTask
    <2>2. Onward(t)
        BY <2>1 DEF Onward, Asking, Leaving
    <2>3. SameQueues
        BY <1>1, <1>3 DEF Disconnect, SameQueues, Whole
    <2> QED
        BY <2>1, <2>2, <2>3, OthersOnward, QueuesTurn
<1>4. CASE CloseAndJoin(t)
    <2>1. UNCHANGED <<task, handles>> /\ client' = [close_all_queues(client) EXCEPT !.process = "ended"]
        BY <1>4 DEF CloseAndJoin
    <2>2. Whole(close_all_queues(client)) /\ Bearing(close_all_queues(client), GivenUpSides)
        BY <1>1, QueuesClosed, NamesClosed
    <2>3. /\ client'.store = close_all_queues(client).store
          /\ client'.queues = close_all_queues(client).queues
        BY <2>1, <2>2 DEF Whole
    <2>4. Bearing(client', GivenUpSides)
        BY <2>2, <2>3 DEF Bearing
    <2> QED
        BY <2>1, <2>4, SameOnward, QueuesTurn
<1> QED
    BY <1>2, <1>3, <1>4

LEMMA OthersNamed ==
    ASSUME Lasting, Talk, Carried, Named, Hub \/ ReaderLoop
    PROVE Named'
<1>1. /\ Whole(client) /\ AllSeq(client.store) /\ Bearing(client, GivenUpSides)
      /\ UNCHANGED <<task, handles>>
    <2>1. UNCHANGED <<task, handles>>
        BY HubTouches DEF ReaderLoop, ReaderStops, ReaderPolls, ReaderYields, ReaderReads,
                          ReaderHandles, ReaderCloses, ReaderEnds
    <2> QED
        BY <2>1 DEF Lasting, Records, Carried, Sound, Named
<1>2. AllOnward
    BY <1>1, SameOnward
<1>3. CASE Hub \/ ReaderStops \/ ReaderPolls \/ ReaderYields
    <2>1. client' = client
        BY <1>3, HubTouches DEF ReaderStops, ReaderPolls, ReaderYields
    <2> QED
        BY <1>1, <1>2, <2>1, QueuesTurn DEF SameQueues
<1>4. CASE ReaderReads \/ ReaderCloses
    <2>1. SameQueues
        BY <1>1, <1>4 DEF ReaderReads, ReaderCloses, SameQueues, Whole
    <2> QED
        BY <1>1, <1>2, <2>1, QueuesTurn
<1>5. CASE ReaderHandles
    <2>1. reader.held # <<>> /\ IsSeq(reader.held)
        BY <1>5 DEF ReaderHandles, ReaderAt, Talk, Shapes, Seqs
    <2>2. Inboard(Head(reader.held))
        BY <2>1, SeqTail DEF Carried, Sound
    <2>3. Bearing(client', GivenUpSides)
        BY <1>1, <1>5, <2>2, NamesHandled DEF ReaderHandles, Handled
    <2> QED
        BY <1>1, <1>2, <2>3, QueuesTurn
<1>6. CASE ReaderEnds
    <2>1. Bearing(client', GivenUpSides)
        BY <1>1, <1>6, NamesClosed DEF ReaderEnds, ClosedBehind
    <2> QED
        BY <1>1, <1>2, <2>1, QueuesTurn
<1> QED
    BY <1>3, <1>4, <1>5, <1>6 DEF ReaderLoop

LEMMA InitNamed == Init => Named
<1> SUFFICES ASSUME Init PROVE Named
    OBVIOUS
<1>1. DOMAIN handles = Handle /\ client.store = <<>> /\ \A t \in Thread : task[t].at = "idle"
    BY DEF Init, NoTask
<1>2. Held
    BY <1>1 DEF Held, Holds, Asking, AskedApart, Leaving
<1>3. Bearing(client, GivenUpSides)
    BY <1>1, EmptyIsSeq DEF Bearing
<1> QED
    BY <1>2, <1>3 DEF Named

LEMMA NextNamed == ASSUME Lasting, Talk, Carried, Named, [Next]_vars PROVE Named'
<1>1. CASE Hub \/ ReaderLoop
    BY <1>1, OthersNamed
<1>2. ASSUME NEW t \in Thread, Work(t) PROVE Named'
    BY <1>2, SilentNamed, TurnNamed, RequestNamed, FindNamed, ReadNamed, LeaveNamed, EndNamed
       DEF Work
<1>3. ASSUME NEW t \in Thread, Call(t) \/ Disconnect(t) PROVE Named'
    BY <1>3, EndNamed
<1>4. CASE UNCHANGED vars
    <2>1. UNCHANGED <<client, task, handles>>
        BY <1>4 DEF vars
    <2> QED
        BY <2>1, SameOnward, QueuesTurn DEF SameQueues
<1> QED
    BY <1>1, <1>2, <1>3, <1>4 DEF Next

(* Where every queue is named, what it holds is named.                     *)
LEMMA NothingIsLost == ASSUME Carried, Named PROVE NothingLost
<1>1. ASSUME NEW q \in DOMAIN client.store, NEW m \in Range(client.store[q].items)
      PROVE client.queues[m[1]] = q \/ GivenUp(m[1])
    <2>1. PICK i \in DOMAIN client.store[q].items : m = client.store[q].items[i]
        BY DEF Range
    <2> QED
        BY <2>1 DEF Named, Bearing, GivenUpSides
<1> QED
    BY <1>1 DEF Carried, Scattered, NothingLost

(***************************************************************************)
(* As long as the hub lives, every message it has sent to the process is   *)
(* on the socket, with the reader, in one delivery queue or with the       *)
(* program, and only there: however the reader, the threads that pump for  *)
(* a reply and those in channel_recv share the reading between them, none  *)
(* of them drops a message and none handles one twice.  And the queue it   *)
(* is in is the one its side has: a queue without a name, which the code   *)
(* has destroyed, holds messages only of a side of which the program       *)
(* closed a handle or failed to open one.                                  *)
(***************************************************************************)
THEOREM NoneLostOrTwice == Spec => []NothingLost
<1>1. Init => Lasting /\ Talk /\ Carried /\ Named
    BY InitLasting, InitTalk, InitCarried, InitNamed
<1>2. Lasting /\ Talk /\ Carried /\ Named /\ [Next]_vars => (Lasting /\ Talk /\ Carried /\ Named)'
    BY NextLasting, NextTalk, NextCarried, NextNamed
<1>3. Carried /\ Named => NothingLost
    BY NothingIsLost
<1> QED
    BY <1>1, <1>2, <1>3, PTL DEF Spec
===============================================================================
