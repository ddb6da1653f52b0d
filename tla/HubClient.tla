------------------------------ MODULE HubClient ------------------------------
(***************************************************************************)
(* The pipe hub's client in a VM process: the threads of the program call  *)
(* it through handles, share its one connection, and read from the socket  *)
(* themselves while they wait for a reply; a reader thread reads the rest. *)
(* A step lies between two points where the code releases a mutex, sleeps, *)
(* or touches a member that another thread writes without one.             *)
(*                                                                         *)
(* The hub and the processes behind it are the environment: requests are   *)
(* answered in the order they arrive, an offer whenever the other peer     *)
(* likes, and messages come while the process is attached.  Connecting and *)
(* spawning are in HubLifecycle; connecting succeeds here.                 *)
(***************************************************************************)
EXTENDS Integers, Sequences, FiniteSets, SequencesExt

CONSTANTS
  Thread,
  Handle,
  Side,          \* of a handle: "out", "in" or "channel"
  None,
  MaxCalls,      \* calls the program makes
  MaxMessages,   \* messages the hub delivers
  MaxAttempts,   \* channel_send: 1024 in the code
  WholeFrames    \* whether read_some always ends where a frame ends

ASSUME NoneAssumption ==
  None \notin Thread \cup {"null", "done", "refused", "noreply", "lost", "unexpected", "collided",
                           "Ack", "Error", "ChannelAccept", "ChannelBusy"}

VARIABLES
  client,        \* the members of class client, and what became of its process
  reader,        \* reader_loop: where it stands, and the messages it has decoded
  task,          \* what each thread is doing
  handles,       \* the program's handles
  socket,        \* what is on its way to the hub, and from it
  hub,           \* what the hub knows of this process
  received       \* the messages the program got

vars == <<client, reader, task, handles, socket, hub, received>>

Inbound == {"in", "channel"}
Requests == {"attach", "publish", "channel_offer"}
Receives == {"receive", "channel_recv"}

Frame(kind, side, of) == [kind |-> kind, side |-> side, of |-> of]
Pieces(f) == << <<"head", f>>, <<"body", f>> >>
IsBody(piece) == piece[1] = "body"
\* Heads and bodies alternate.
Bodies(pieces) ==
  LET first == IF pieces # <<>> /\ IsBody(Head(pieces)) THEN 1 ELSE 2
  IN  [i \in 1..((Len(pieces) + 2 - first) \div 2) |-> pieces[first + 2 * (i - 1)][2]]

NoQueue == 0
NoError == None
\* fault: what throw_error has recorded; in the dispatch of the VM it returns, and the
\* call goes on.  overlapped: another thread had an answer it had not yet looked at.
NoTask == [at |-> "idle", call |-> None, handle |-> None, queue |-> NoQueue, tries |-> 0,
           overlapped |-> FALSE, fault |-> None, result |-> None]

Init ==
  /\ client = [process |-> "running", mutex |-> None, connected |-> FALSE, valid |-> FALSE,
               running |-> FALSE, shutdown |-> FALSE, paused |-> FALSE, joinable |-> FALSE,
               have_header |-> FALSE,
               queues |-> [k \in Inbound |-> NoQueue], store |-> <<>>,
               waiting_for_ack |-> FALSE, ack_received |-> FALSE, ack_error |-> NoError,
               waiting_for_channel |-> FALSE, channel_received |-> FALSE,
               channel_reply |-> "Ack"]
  /\ reader = [at |-> "none", held |-> <<>>]
  /\ task = [t \in Thread |-> NoTask]
  /\ handles = [h \in Handle |-> "new"]
  /\ socket = [up |-> <<>>, down |-> <<>>, hungup |-> FALSE]
  /\ hub = [attached |-> {}, offers |-> <<>>, sent |-> 0, calls |-> 0, died |-> FALSE,
            stray |-> FALSE, said |-> [t \in Thread |-> None]]
  /\ received = <<>>

-----------------------------------------------------------------------------
(* Members of the client                                                    *)

Running == client.process = "running"
MutexFree == client.mutex = None
At(t, place) == Running /\ task[t].at = place
Goes(t, place) == task' = [task EXCEPT ![t].at = place]
Calls(t) == task[t].call
SideOf(t) == Side[task[t].handle]

\* The delivery queue of a side, made where there is none.
WithQueue(c, side) ==
  IF c.queues[side] # NoQueue THEN c
  ELSE [c EXCEPT !.store = Append(@, [items |-> <<>>, closed |-> FALSE]),
                 !.queues[side] = Len(c.store) + 1]
Erased(c, side) == IF side \in Inbound THEN [c EXCEPT !.queues[side] = NoQueue] ELSE c
close_all_queues(c) ==
  [c EXCEPT !.store = [q \in DOMAIN @ |->
     IF \E side \in Inbound : c.queues[side] = q THEN [@[q] EXCEPT !.closed = TRUE] ELSE @[q]]]

\* A message whose queue is gone goes to any other inbound queue of its channel;
\* pipes and channels have names of their own here, so a new one is made.
Delivered(c, f) == [c EXCEPT !.store[c.queues[f.side]].items = Append(@, f.of)]
handle_message(c, f) ==
  CASE f.kind = "Ack" -> IF c.waiting_for_ack THEN [c EXCEPT !.ack_received = TRUE] ELSE c
    [] f.kind \in {"ChannelAccept", "ChannelBusy"} ->
         IF c.waiting_for_channel
         THEN [c EXCEPT !.channel_reply = f.kind, !.channel_received = TRUE] ELSE c
    [] f.kind = "Error" ->
         IF c.waiting_for_ack \/ c.waiting_for_channel
         THEN [c EXCEPT !.ack_received = TRUE, !.channel_received = TRUE, !.ack_error = f.of]
         ELSE c
    [] f.kind = "Deliver" -> Delivered(WithQueue(c, f.side), f)
    [] OTHER -> c

\* A write to a hub that has hung up is a SIGPIPE.
Writes(c, f) ==
  /\ client' = IF socket.hungup THEN [c EXCEPT !.process = "killed"] ELSE c
  /\ socket' = IF socket.hungup THEN socket ELSE [socket EXCEPT !.up = Append(@, f)]

HasFrame == socket.down # <<>>
Readable == HasFrame \/ socket.hungup
\* The pump reads a body where it expects a length.
OutOfStep == HasFrame /\ IsBody(Head(socket.down))
TakesFrame == socket' = [socket EXCEPT !.down = Tail(Tail(@))]
Inward == Head(socket.down)[2]
Lost(c) == [c EXCEPT !.connected = FALSE]

-----------------------------------------------------------------------------
(* ensure_connected                                                         *)

Connected(c) == [c EXCEPT !.connected = TRUE, !.valid = TRUE, !.running = TRUE]
\* Where a call goes on once there is a connection.
Entry(call) ==
  CASE call = "attach" -> "reserve" [] call = "publish" -> "request"
    [] call = "channel_offer" -> "request" [] call = "receive" -> "find"
    [] call = "channel_recv" -> "announce"

\* (mutant) a connection that is there is not noticed
NeverThere == FALSE
There == client.connected
AlreadyConnected(t) ==
  /\ At(t, "ensure") /\ MutexFree /\ There
  /\ Goes(t, Entry(Calls(t)))
  /\ UNCHANGED <<client, reader, handles, socket, hub, received>>

Connect(t) ==
  /\ At(t, "ensure") /\ MutexFree /\ ~There
  /\ client' = Connected(client)
  /\ socket' = [up |-> <<>>, down |-> <<>>, hungup |-> FALSE]
  /\ hub' = [hub EXCEPT !.attached = {}, !.offers = <<>>]
  /\ Goes(t, "start")
  /\ UNCHANGED <<reader, handles, received>>

\* Assigning to a thread that is joinable terminates the process.
StartReader(t) ==
  /\ At(t, "start")
  /\ client' = IF client.joinable THEN [client EXCEPT !.process = "terminated"]
                                  ELSE [client EXCEPT !.joinable = TRUE]
  /\ reader' = IF client.joinable THEN reader ELSE [at |-> "loop", held |-> <<>>]
  /\ Goes(t, Entry(Calls(t)))
  /\ UNCHANGED <<handles, socket, hub, received>>

-----------------------------------------------------------------------------
(* Calls of the program, through pipe_object                                *)

InUse(h, calls) == \E t \in Thread : task[t].handle = h /\ Calls(t) \in calls
Begins(t, h, call, place) ==
  /\ hub.calls < MaxCalls /\ ~client.shutdown
  /\ hub' = [hub EXCEPT !.calls = @ + 1]
  /\ task' = [task EXCEPT ![t] = [NoTask EXCEPT !.at = place, !.call = call, !.handle = h]]
  /\ UNCHANGED <<client, reader, socket, received>>

Open(t, h) ==
  /\ At(t, "idle") /\ handles[h] = "new" /\ ~InUse(h, {"attach"})
  /\ Begins(t, h, "attach", "ensure") /\ UNCHANGED handles

\* insert and channel_insert hold the write_mutex of the handle, ...
Insert(t, h) ==
  /\ At(t, "idle") /\ handles[h] = "open" /\ Side[h] \in {"out", "channel"}
  /\ ~InUse(h, {"publish", "channel_offer", "channel_send"})
  /\ Begins(t, h, IF Side[h] = "out" THEN "publish" ELSE "channel_offer", "ensure")
  /\ UNCHANGED handles

\* ... extract and channel_extract its read_mutex.
Extract(t, h) ==
  /\ At(t, "idle") /\ handles[h] = "open" /\ Side[h] \in Inbound
  /\ ~InUse(h, Receives)
  /\ Begins(t, h, IF Side[h] = "in" THEN "receive" ELSE "channel_recv", "ensure")
  /\ UNCHANGED handles

\* ~pipe_object, once no thread uses the handle.
Close(t, h) ==
  /\ At(t, "idle") /\ handles[h] = "open" /\ \A u \in Thread : task[u].handle # h
  /\ Begins(t, h, "detach", "detach")
  /\ handles' = [handles EXCEPT ![h] = "closed"]

\* The call goes on, with what it throws recorded over what it threw before ...
GoesOn(t, place, thrown) ==
  task' = [task EXCEPT ![t].at = place, ![t].fault = IF thrown = None THEN @ ELSE thrown]
\* ... and returns: with a result, with a last fault, or with the fault on record.
Returns(t, result) ==
  task' = [task EXCEPT ![t] = [NoTask EXCEPT !.call = Calls(t), !.result = result,
                                             !.overlapped = task[t].overlapped]]
Completes(t, result) == Returns(t, IF task[t].fault = None THEN result ELSE task[t].fault)

-----------------------------------------------------------------------------
(* wait_for_hub_reply and wait_for_channel_opcode                           *)

Reserve(t) ==
  /\ At(t, "reserve")
  /\ client' = IF SideOf(t) \in Inbound THEN WithQueue(client, SideOf(t)) ELSE client
  /\ Goes(t, "request")
  /\ UNCHANGED <<reader, handles, socket, hub, received>>

ForAck(c) ==
  [c EXCEPT !.have_header = FALSE, !.waiting_for_ack = TRUE, !.ack_received = FALSE,
            !.ack_error = NoError]
ForChannel(c) ==
  [c EXCEPT !.waiting_for_channel = TRUE, !.channel_received = FALSE,
            !.channel_reply = "Ack", !.ack_error = NoError]
\* What the hub has answered to the request the thread made last.
Says(t, answer) == [hub EXCEPT !.said[t] = answer]
Unsettled ==
  {u \in Thread : task[u].at \in {"answered", "checked", "settled", "replied", "opcode"}}
NotConnected == IF client.connected THEN None ELSE "lost"
\* Without a connection the fault is recorded, and the frame is written all the same.
Request(t) ==
  /\ At(t, "request") /\ MutexFree
  /\ Writes([(IF Calls(t) = "channel_offer" THEN ForChannel(client) ELSE ForAck(client))
               EXCEPT !.paused = TRUE, !.mutex = t],
            Frame(Calls(t), SideOf(t), t))
  /\ hub' = Says(t, None)
  /\ task' = [u \in Thread |->
                CASE u = t -> [task[u] EXCEPT !.at = "pump",
                                 !.fault = IF NotConnected = None THEN @ ELSE NotConnected,
                                 !.overlapped = @ \/ Unsettled # {}]
                  [] u \in Unsettled -> [task[u] EXCEPT !.overlapped = TRUE]
                  [] OTHER -> task[u]]
  /\ UNCHANGED <<reader, handles, received>>

Offering(t) == Calls(t) = "channel_offer"
\* The conditions both pumps look at before they read.
Answered(t) ==
  \/ ~client.connected \/ client.shutdown
  \/ Offering(t) /\ (client.channel_received \/ client.ack_error # NoError)
  \/ ~Offering(t) /\ client.ack_received
\* read_exact_locked gives up where an acknowledgement is in already.
GivesUp == client.waiting_for_ack /\ (client.ack_received \/ client.ack_error # NoError)
Unlocked(c) == [c EXCEPT !.paused = FALSE, !.mutex = None]

\* The answer to an offer given up on is still to come.
PumpEnds(t) ==
  /\ At(t, "pump") /\ (Answered(t) \/ GivesUp)
  /\ client' = Unlocked(client)
  /\ hub' = [hub EXCEPT !.stray = @ \/ (Offering(t) /\ ~Answered(t))]
  /\ Goes(t, "answered")
  /\ UNCHANGED <<reader, handles, socket, received>>

\* (mutant) whatever comes first is taken for the reply
AnyFrame(t, f) == TRUE
IsReply(t, f) == ~Offering(t) /\ f.kind \in {"Ack", "Error"}
\* (mutant) messages met while waiting for a reply are not for the pump
RepliesOnly(f) == IF f.kind = "Deliver" THEN client ELSE handle_message(client, f)
Handled(f) == handle_message(client, f)
PumpReads(t) ==
  /\ At(t, "pump") /\ ~Answered(t) /\ ~GivesUp /\ HasFrame
  /\ IF OutOfStep
     THEN /\ client' = [client EXCEPT !.process = "garbled"]
          /\ UNCHANGED <<socket, task>>
     ELSE LET done == IsReply(t, Inward)
          IN  /\ client' = IF done THEN Unlocked(Handled(Inward)) ELSE Handled(Inward)
              /\ TakesFrame
              /\ IF done THEN Goes(t, "answered") ELSE UNCHANGED task
  /\ UNCHANGED <<reader, handles, hub, received>>

PumpLost(t) ==
  /\ At(t, "pump") /\ ~Answered(t) /\ ~GivesUp /\ ~HasFrame /\ socket.hungup
  /\ client' = Unlocked(Lost(client))
  /\ Goes(t, "answered")
  /\ UNCHANGED <<reader, handles, socket, hub, received>>

\* What follows is read and reset without connection_mutex_, one member at a time:
\* the acknowledgement, then the connection, ...
LookForAck(t) ==
  /\ At(t, "answered") /\ ~Offering(t)
  /\ LET missing == ~client.ack_received /\ client.connected /\ ~client.shutdown
     IN  /\ client' = [client EXCEPT !.waiting_for_ack = @ /\ ~missing]
         /\ GoesOn(t, "checked", IF missing THEN "noreply" ELSE None)
  /\ UNCHANGED <<reader, handles, socket, hub, received>>
LookForHub(t) ==
  /\ At(t, "checked")
  /\ client' = [client EXCEPT !.waiting_for_ack = FALSE]
  /\ GoesOn(t, "settled", IF client.connected /\ ~client.shutdown THEN None ELSE "lost")
  /\ UNCHANGED <<reader, handles, socket, hub, received>>
StopOffering(t) ==
  /\ At(t, "answered") /\ Offering(t)
  /\ client' = [client EXCEPT !.waiting_for_channel = FALSE]
  /\ Goes(t, "settled")
  /\ UNCHANGED <<reader, handles, socket, hub, received>>

\* ... then ack_error_.  The handle of an attach that failed is dropped: ~pipe_object
\* detaches.
Drops(t) == handles' = [handles EXCEPT ![task[t].handle] = "dropped"]
Refused(t) ==
  /\ At(t, "settled") /\ client.ack_error # NoError
  /\ CASE Calls(t) = "attach" ->
            client' = Erased(client, SideOf(t)) /\ Drops(t) /\ GoesOn(t, "detach", "refused")
       [] Offering(t) -> UNCHANGED <<client, handles>> /\ GoesOn(t, "replied", "refused")
       [] OTHER -> UNCHANGED <<client, handles>> /\ Returns(t, "refused")
  /\ UNCHANGED <<reader, socket, hub, received>>
Abandon(t) ==
  /\ At(t, "settled") /\ client.ack_error = NoError
  /\ Calls(t) = "attach" /\ task[t].fault # None
  /\ Drops(t)
  /\ Goes(t, "detach")
  /\ UNCHANGED <<client, reader, socket, hub, received>>
Done(t) ==
  /\ At(t, "settled") /\ client.ack_error = NoError /\ ~Offering(t)
  /\ Calls(t) = "attach" => task[t].fault = None
  /\ handles' = IF Calls(t) = "attach" THEN [handles EXCEPT ![task[t].handle] = "open"]
                                       ELSE handles
  /\ Completes(t, "done")
  /\ UNCHANGED <<client, reader, socket, hub, received>>

\* channel_send publishes whatever the offer came to, unless that is ChannelBusy.
OfferStands(t) ==
  /\ At(t, "settled") /\ client.ack_error = NoError /\ Offering(t)
  /\ Goes(t, "replied")
  /\ UNCHANGED <<client, reader, handles, socket, hub, received>>
LookForReply(t) ==
  /\ At(t, "replied")
  /\ GoesOn(t, "opcode", IF client.channel_received THEN None ELSE "noreply")
  /\ UNCHANGED <<client, reader, handles, socket, hub, received>>
Accepted(t) ==
  /\ At(t, "opcode") /\ client.channel_reply # "ChannelBusy"
  /\ task' = [task EXCEPT ![t].at = "request", ![t].call = "channel_send",
                ![t].fault = IF client.channel_reply = "ChannelAccept" THEN @ ELSE "unexpected"]
  /\ UNCHANGED <<client, reader, handles, socket, hub, received>>
Collided(t) ==
  /\ At(t, "opcode") /\ client.channel_reply = "ChannelBusy"
  /\ IF task[t].tries + 1 = MaxAttempts
     THEN Returns(t, "collided")
     ELSE task' = [task EXCEPT ![t].at = "request", ![t].tries = @ + 1]
  /\ UNCHANGED <<client, reader, handles, socket, hub, received>>

-----------------------------------------------------------------------------
(* receive_bytes and channel_recv                                           *)

Find(t) ==
  /\ At(t, "find")
  /\ client' = WithQueue(client, "in")
  /\ task' = [task EXCEPT ![t].at = "wait", ![t].queue = client'.queues["in"]]
  /\ UNCHANGED <<reader, handles, socket, hub, received>>

Takes(t, q) ==
  /\ client' = [client EXCEPT !.store[q].items = Tail(@)]
  /\ received' = Append(received, Head(client.store[q].items))
Receive(t) ==
  LET q == task[t].queue
  IN  /\ At(t, "wait") /\ client.store[q].items # <<>>
      /\ Takes(t, q)
      /\ Returns(t, "done")
      /\ UNCHANGED <<reader, handles, socket, hub>>
ReceiveNothing(t) ==
  /\ At(t, "wait") /\ client.store[task[t].queue].items = <<>>
  /\ client.store[task[t].queue].closed
  /\ Returns(t, "null")
  /\ UNCHANGED <<client, reader, handles, socket, hub, received>>

Announce(t) ==
  /\ At(t, "announce") /\ MutexFree
  /\ Writes(client, Frame("RecvReady", "channel", t))
  /\ GoesOn(t, "drain", NotConnected)
  /\ UNCHANGED <<reader, handles, hub, received>>

ChannelQueue == client.queues["channel"]
Waiting(q) == q # NoQueue /\ client.store[q].items # <<>>
DrainQueue(t) ==
  /\ At(t, "drain") /\ Waiting(ChannelQueue)
  /\ Takes(t, ChannelQueue)
  /\ Goes(t, "acknowledge")
  /\ UNCHANGED <<reader, handles, socket, hub>>
DrainNothing(t) ==
  /\ At(t, "drain") /\ ~Waiting(ChannelQueue)
  /\ IF ChannelQueue # NoQueue /\ client.store[ChannelQueue].closed
     THEN Completes(t, "null") ELSE Goes(t, "own")
  /\ UNCHANGED <<client, reader, handles, socket, hub, received>>
Acknowledge(t) ==
  /\ At(t, "acknowledge") /\ MutexFree
  /\ IF client.connected THEN Writes(client, Frame("DataAck", "channel", t))
                         ELSE UNCHANGED <<client, socket>>
  /\ Completes(t, "done")
  /\ UNCHANGED <<reader, handles, hub, received>>

\* One turn with connection_mutex_ held from the check to the end of the frame.
OwnNothing(t) ==
  /\ At(t, "own") /\ MutexFree
  /\ IF ~client.connected \/ client.shutdown \/ (Readable /\ GivesUp)
     THEN UNCHANGED client /\ Completes(t, "null")
     ELSE /\ Readable /\ ~HasFrame
          /\ client' = Lost(client)
          /\ Completes(t, "null")
  /\ UNCHANGED <<reader, handles, socket, hub, received>>
OwnTurn(t) ==
  /\ At(t, "own") /\ MutexFree /\ client.connected /\ ~client.shutdown /\ ~Readable
  /\ client' = [client EXCEPT !.paused = FALSE]
  /\ Goes(t, "drain")
  /\ UNCHANGED <<reader, handles, socket, hub, received>>
OwnReads(t) ==
  /\ At(t, "own") /\ MutexFree /\ client.connected /\ ~client.shutdown /\ ~GivesUp /\ HasFrame
  /\ CASE OutOfStep ->
            /\ client' = [client EXCEPT !.process = "garbled"]
            /\ UNCHANGED <<socket, task, received>>
       [] ~OutOfStep /\ Inward.kind = "Deliver" /\ Inward.side = "channel" ->
            /\ received' = Append(received, Inward.of)
            /\ client' = [client EXCEPT !.paused = FALSE,
                            !.process = IF socket.hungup THEN "killed" ELSE @]
            /\ socket' = [socket EXCEPT !.down = Tail(Tail(@)),
                            !.up = IF socket.hungup THEN @
                                   ELSE Append(@, Frame("DataAck", "channel", t))]
            /\ Completes(t, "done")
       [] OTHER ->
            /\ client' = [handle_message(client, Inward) EXCEPT !.paused = FALSE]
            /\ TakesFrame /\ Goes(t, "drain")
            /\ UNCHANGED received
  /\ UNCHANGED <<reader, handles, hub>>

-----------------------------------------------------------------------------
(* detach and disconnect                                                    *)

Detach(t) ==
  /\ At(t, "detach") /\ MutexFree
  /\ IF client.connected
     THEN Writes(client, Frame("detach", SideOf(t), t)) /\ Goes(t, "forget")
     ELSE UNCHANGED <<client, socket>> /\ Completes(t, "done")
  /\ UNCHANGED <<reader, handles, hub, received>>
Forget(t) ==
  /\ At(t, "forget")
  /\ client' = Erased(client, SideOf(t))
  /\ Completes(t, "done")
  /\ UNCHANGED <<reader, handles, socket, hub, received>>

\* ~session, in the thread that ran the program.
Disconnect(t) ==
  /\ Running /\ \A u \in Thread : task[u].at = "idle"
  /\ ~client.shutdown
  /\ client' = [client EXCEPT !.shutdown = TRUE, !.running = FALSE, !.paused = FALSE]
  /\ task' = [task EXCEPT ![t] = [NoTask EXCEPT !.at = "hangup", !.call = "disconnect"]]
  /\ UNCHANGED <<reader, handles, socket, hub, received>>
HangUp(t) ==
  /\ At(t, "hangup") /\ MutexFree
  /\ IF ~client.connected /\ ~client.joinable
     THEN client' = [client EXCEPT !.process = "ended"] /\ UNCHANGED <<socket, task>>
     ELSE /\ IF client.valid /\ socket.hungup
             THEN client' = [client EXCEPT !.process = "killed"]
             ELSE client' = [client EXCEPT !.valid = FALSE, !.connected = FALSE, !.joinable = FALSE]
          /\ socket' = [socket EXCEPT !.up = Append(@, Frame("Bye", "out", t))]
          /\ Goes(t, "join")
  /\ UNCHANGED <<reader, handles, hub, received>>
CloseAndJoin(t) ==
  /\ At(t, "join") /\ reader.at \in {"none", "ended"}
  /\ client' = [close_all_queues(client) EXCEPT !.process = "ended"]
  /\ UNCHANGED <<reader, task, handles, socket, hub, received>>

-----------------------------------------------------------------------------
(* reader_loop                                                              *)

ReaderAt(place) == Running /\ reader.at = place
Stopping == ~client.running \/ client.shutdown

\* (mutant) nothing to read is taken for the end
NothingThere == ~HasFrame
AtEnd == ~HasFrame /\ socket.hungup
ReaderStops ==
  /\ \/ ReaderAt("loop") /\ Stopping
     \/ ReaderAt("loop") /\ ~client.paused /\ MutexFree /\ ~client.valid
     \/ ReaderAt("read") /\ MutexFree /\ ~client.paused /\ client.valid /\ ~client.shutdown
          /\ AtEnd
  /\ reader' = [reader EXCEPT !.at = "closing"]
  /\ UNCHANGED <<client, task, handles, socket, hub, received>>

\* Something is there, but by the time the mutex is taken it may be gone.
ReaderPolls ==
  /\ ReaderAt("loop") /\ ~Stopping /\ ~client.paused /\ client.valid /\ Readable
  /\ reader' = [reader EXCEPT !.at = "read"]
  /\ UNCHANGED <<client, task, handles, socket, hub, received>>
ReaderYields ==
  /\ ReaderAt("read") /\ MutexFree
  /\ client.paused \/ ~client.valid \/ client.shutdown \/ ~Readable
  /\ reader' = [reader EXCEPT !.at = "loop"]
  /\ UNCHANGED <<client, task, handles, socket, hub, received>>

\* What follows a header that was read is a body, and a header what follows that.
HoldsMessages(held) == [at |-> IF held = <<>> THEN "loop" ELSE "handle", held |-> held]
InStep(pieces) == IsBody(Head(pieces)) <=> client.have_header
ReaderReads ==
  /\ ReaderAt("read") /\ MutexFree /\ ~client.paused /\ client.valid /\ ~client.shutdown
  /\ HasFrame
  /\ \E n \in IF WholeFrames THEN {Len(socket.down)} ELSE 1..Len(socket.down) :
       LET chunk == SubSeq(socket.down, 1, n)
       IN  /\ client' = IF InStep(chunk)
                        THEN [client EXCEPT !.have_header = ~IsBody(Last(chunk))]
                        ELSE [client EXCEPT !.process = "garbled"]
           /\ reader' = HoldsMessages(Bodies(chunk))
           /\ socket' = [socket EXCEPT !.down = SubSeq(@, n + 1, Len(@))]
  /\ UNCHANGED <<task, handles, hub, received>>

\* The messages are handled after the mutex is released.
ReaderHandles ==
  /\ ReaderAt("handle")
  /\ client' = Handled(Head(reader.held))
  /\ reader' = HoldsMessages(Tail(reader.held))
  /\ UNCHANGED <<task, handles, socket, hub, received>>

ReaderCloses ==
  /\ ReaderAt("closing") /\ MutexFree
  /\ client' = [client EXCEPT !.running = FALSE, !.connected = FALSE]
  /\ reader' = [reader EXCEPT !.at = "closed"]
  /\ UNCHANGED <<task, handles, socket, hub, received>>
\* (mutant) the reader leaves the queues open when it ends
LeftOpen(c) == c
ClosedBehind(c) == close_all_queues(c)
ReaderEnds ==
  /\ ReaderAt("closed")
  /\ client' = ClosedBehind(client)
  /\ reader' = [reader EXCEPT !.at = "ended"]
  /\ UNCHANGED <<task, handles, socket, hub, received>>

-----------------------------------------------------------------------------
(* The hub                                                                  *)

HubThere == Running /\ ~socket.hungup /\ client.valid
Sends(kind, side, of) == [socket EXCEPT !.down = @ \o Pieces(Frame(kind, side, of))]
Served(kind, side, of) ==
  socket' = [socket EXCEPT !.up = Tail(@), !.down = @ \o Pieces(Frame(kind, side, of))]
Ours == <<client, reader, task, handles, received>>

HubAnswers ==
  /\ HubThere /\ socket.up # <<>>
  /\ LET f == Head(socket.up)
     IN  CASE f.kind \in {"attach", "publish", "channel_send"} ->
                \/ /\ Served("Ack", f.side, f.of)
                   /\ hub' = IF f.kind = "attach"
                             THEN [Says(f.of, "Ack") EXCEPT !.attached = @ \cup ({f.side} \cap Inbound)]
                             ELSE Says(f.of, "Ack")
                \/ Served("Error", f.side, f.of) /\ hub' = Says(f.of, "Error")
           [] f.kind = "channel_offer" /\ "channel" \in hub.attached ->
                /\ socket' = [socket EXCEPT !.up = Tail(@)]
                /\ hub' = [hub EXCEPT !.offers = Append(@, f.of)]
           [] f.kind = "channel_offer" /\ "channel" \notin hub.attached ->
                Served("Error", f.side, f.of) /\ hub' = Says(f.of, "Error")
           [] f.kind = "RecvReady" /\ "channel" \notin hub.attached ->
                Served("Error", f.side, f.of) /\ hub' = [hub EXCEPT !.stray = TRUE]
           [] f.kind = "detach" ->
                /\ socket' = [socket EXCEPT !.up = Tail(@)]
                /\ hub' = [hub EXCEPT !.attached = @ \ {f.side}]
           [] OTHER -> socket' = [socket EXCEPT !.up = Tail(@)] /\ UNCHANGED hub
  /\ UNCHANGED Ours

HubDecidesOffer ==
  /\ HubThere /\ hub.offers # <<>>
  /\ \E kind \in {"ChannelAccept", "ChannelBusy"} :
       /\ socket' = Sends(kind, "channel", Head(hub.offers))
       /\ hub' = [Says(Head(hub.offers), kind) EXCEPT !.offers = Tail(@)]
  /\ UNCHANGED Ours

HubDelivers ==
  /\ HubThere /\ hub.sent < MaxMessages
  /\ \E side \in hub.attached : socket' = Sends("Deliver", side, <<side, hub.sent + 1>>)
  /\ hub' = [hub EXCEPT !.sent = @ + 1]
  /\ UNCHANGED Ours

HubDies ==
  /\ HubThere
  /\ socket' = [socket EXCEPT !.hungup = TRUE]
  /\ hub' = [hub EXCEPT !.died = TRUE]
  /\ UNCHANGED Ours

Hub == HubAnswers \/ HubDecidesOffer \/ HubDelivers \/ HubDies
ReaderLoop ==
  ReaderStops \/ ReaderPolls \/ ReaderYields \/ ReaderReads \/ ReaderHandles
    \/ ReaderCloses \/ ReaderEnds
Work(t) ==
  \/ AlreadyConnected(t) \/ Connect(t) \/ StartReader(t) \/ Reserve(t) \/ Request(t)
  \/ PumpEnds(t) \/ PumpReads(t) \/ PumpLost(t) \/ LookForAck(t) \/ LookForHub(t)
  \/ StopOffering(t) \/ Refused(t) \/ Abandon(t) \/ Done(t)
  \/ OfferStands(t) \/ LookForReply(t) \/ Accepted(t) \/ Collided(t)
  \/ Find(t) \/ Receive(t) \/ ReceiveNothing(t)
  \/ Announce(t) \/ DrainQueue(t) \/ DrainNothing(t) \/ Acknowledge(t)
  \/ OwnNothing(t) \/ OwnTurn(t) \/ OwnReads(t)
  \/ Detach(t) \/ Forget(t) \/ HangUp(t) \/ CloseAndJoin(t)
Call(t) == \E h \in Handle : Open(t, h) \/ Insert(t, h) \/ Extract(t, h) \/ Close(t, h)
Next ==
  Hub \/ ReaderLoop \/ \E t \in Thread : Work(t) \/ Call(t) \/ Disconnect(t)
Spec == Init /\ [][Next]_vars
=============================================================================
