------------------------------ MODULE NativePipe ------------------------------
(***************************************************************************)
(* The pipe hub's client in a compiled program: munx_pipe.c.  The program  *)
(* has one thread; a reader thread takes every frame off the socket.  They *)
(* share g_mu, which the program's thread holds while it writes, and which *)
(* the reader needs for every delivery.  What is done under g_ack_mu or    *)
(* the mutex of a queue never blocks: it is part of a step.                *)
(*                                                                         *)
(* The hub is the environment: it serves one frame at a time, waits for    *)
(* room in the socket when it writes, and closes a client that gives it    *)
(* none.  Connecting succeeds; HubLifecycle has the ways it does not.      *)
(***************************************************************************)
EXTENDS Naturals, Sequences, FiniteSets, SequencesExt

CONSTANTS
  Handle,
  Side,          \* of a handle: "out", "in" or "channel"
  None,
  Room,          \* frames a socket holds, in each direction
  MaxCalls,      \* calls the program makes
  MaxMessages,   \* messages the hub delivers
  MaxAttempts    \* munx_channel_insert: 1024 in the code

\* What there is none of is none of the words.
ASSUME NoneAssumption ==
  None \notin {"Ack", "Error", "ChannelAccept", "ChannelBusy", "Deliver", "done", "null", "failed",
               "attach", "publish", "channel_send", "channel_offer"}
ASSUME SideAssumption == \A h \in Handle : Side[h] \in {"out", "in", "channel"}

VARIABLES
  main,          \* the program's thread: where it is, in which call
  reader,        \* reader_main: where it is, and the frame it has read
  g,             \* the globals: g_mu, the flags, what became of the process
  queues,        \* g_queues, by the side they are for
  handles,       \* the program's handles
  socket,        \* frames to the hub and from it
  hub,           \* what the hub knows of this process
  got            \* the messages the program extracted

vars == <<main, reader, g, queues, handles, socket, hub, got>>

Inbound == {"in", "channel"}
Frame(kind, side, of) == [kind |-> kind, side |-> side, of |-> of]
NoFrame == Frame(None, None, None)
NoQueue == [there |-> FALSE, items |-> <<>>, closed |-> FALSE]
NoTask == [at |-> "idle", call |-> None, handle |-> None, tries |-> 0, result |-> None]

Init ==
  /\ main = NoTask
  /\ reader = [at |-> "none", frame |-> NoFrame]
  /\ g = [process |-> "running", mu |-> None, connected |-> FALSE, shutdown |-> FALSE,
          waiting_ack |-> FALSE, ack_ok |-> FALSE, ack_err |-> None,
          waiting_channel |-> FALSE, channel_got |-> FALSE, channel_op |-> None]
  /\ queues = [side \in Inbound |-> NoQueue]
  /\ handles = [h \in Handle |-> "new"]
  /\ socket = [up |-> <<>>, down |-> <<>>, hungup |-> FALSE]
  /\ hub = [attached |-> {}, offered |-> FALSE, sent |-> [side \in Inbound |-> 0],
            writing |-> NoFrame, said |-> None, calls |-> 0]
  /\ got = [side \in Inbound |-> <<>>]

-----------------------------------------------------------------------------
(* What the threads share                                                   *)

Running == g.process = "running"
MuFree == g.mu = None
At(place) == Running /\ main.at = place
SideOf == IF main.handle \in Handle THEN Side[main.handle] ELSE None

ensure_queue(side) == [queues EXCEPT ![side].there = TRUE]
Goes(place) == main' = [main EXCEPT !.at = place]
Returns(result) == main' = [NoTask EXCEPT !.call = main.call, !.result = result]
\* munx_rt_abort: no handler runs.
Aborts(globals) ==
  /\ g' = [globals EXCEPT !.process = "aborted"]
  /\ main' = [main EXCEPT !.result = "failed"]

-----------------------------------------------------------------------------
(* Calls of the program                                                     *)

Begins(h, call, place) ==
  /\ At("idle") /\ hub.calls < MaxCalls
  /\ main' = [NoTask EXCEPT !.at = place, !.call = call, !.handle = h]
  /\ hub' = [hub EXCEPT !.calls = @ + 1]
  /\ UNCHANGED <<reader, g, queues, socket, got>>

\* munx_pipe_open and munx_channel_open
\* (one handle of a pipe at a time: the detach of one is the detach of its siblings)
Open(h) ==
  /\ handles[h] = "new" /\ \A k \in Handle : handles[k] = "open" => Side[k] # Side[h]
  /\ Begins(h, "attach", "begin")
  /\ UNCHANGED handles
Insert(h) ==
  /\ handles[h] = "open" /\ Side[h] \in {"out", "channel"}
  /\ Begins(h, IF Side[h] = "out" THEN "publish" ELSE "channel_offer", "lock")
  /\ UNCHANGED handles
Extract(h) ==
  /\ handles[h] = "open" /\ Side[h] \in Inbound
  /\ IF Side[h] = "in" THEN Begins(h, "extract", "find") ELSE Begins(h, "recv_ready", "lock")
  /\ UNCHANGED handles
Close(h) ==
  /\ handles[h] = "open" /\ Begins(h, "detach", "lock")
  /\ handles' = [handles EXCEPT ![h] = "closed"]

\* munx_pipe_session_begin: g_connected says that it was called, no more.
SessionBegin ==
  /\ At("begin") /\ MuFree
  /\ IF g.connected THEN UNCHANGED <<g, reader, socket>>
     ELSE /\ g' = [g EXCEPT !.connected = TRUE, !.shutdown = FALSE]
          /\ socket' = [socket EXCEPT !.up = <<Frame("hello", "out", None)>>]
          /\ reader' = [reader EXCEPT !.at = "poll"]
  /\ Goes("lock")
  /\ UNCHANGED <<queues, handles, hub, got>>

\* (mutant) the acknowledgement of the request before is still there
ArmedLate(globals) == [globals EXCEPT !.waiting_ack = TRUE, !.ack_err = None]
Armed(globals) == [globals EXCEPT !.waiting_ack = TRUE, !.ack_ok = FALSE, !.ack_err = None]
ArmedForChannel(globals) ==
  [globals EXCEPT !.waiting_channel = TRUE, !.channel_got = FALSE, !.channel_op = None,
                  !.ack_err = None]
Acknowledged == {"attach", "publish", "channel_send"}

\* g_mu is taken, a queue made for what comes in, the flags are armed.
Lock ==
  /\ At("lock") /\ MuFree
  /\ LET globals == [g EXCEPT !.mu = "main"]
     IN  g' = CASE main.call \in Acknowledged -> Armed(globals)
                [] main.call = "channel_offer" -> ArmedForChannel(globals)
                [] OTHER -> globals
  /\ queues' = IF main.call \in {"attach", "recv_ready"} /\ SideOf \in Inbound
               THEN ensure_queue(SideOf) ELSE queues
  /\ hub' = [hub EXCEPT !.said = None]
  /\ Goes("write")
  /\ UNCHANGED <<reader, handles, socket, got>>

\* send_frame blocks while the socket is full; to a hub that hung up it is a SIGPIPE.
AfterWrite ==
  CASE main.call \in Acknowledged \cup {"channel_offer"} -> "await"
    [] main.call = "recv_ready" -> "take"
    [] main.call = "bye" -> "join"
    [] OTHER -> "idle"
Write ==
  /\ At("write")
  /\ IF socket.hungup
     THEN g' = [g EXCEPT !.process = "killed"] /\ UNCHANGED <<main, socket>>
     ELSE /\ Len(socket.up) < Room
          /\ socket' = [socket EXCEPT !.up = Append(@, Frame(main.call, SideOf, None))]
          /\ g' = [g EXCEPT !.mu = IF main.call = "bye" THEN @ ELSE None]
          /\ IF AfterWrite = "idle" THEN Returns("done") ELSE Goes(AfterWrite)
  /\ UNCHANGED <<reader, queues, handles, hub, got>>

\* wait_hub_ack, once it is woken
AwaitAck ==
  /\ At("await") /\ main.call \in Acknowledged /\ (g.ack_ok \/ g.ack_err # None)
  /\ IF g.ack_ok
     THEN /\ g' = [g EXCEPT !.waiting_ack = FALSE]
          /\ handles' = IF main.call = "attach" THEN [handles EXCEPT ![main.handle] = "open"]
                                                ELSE handles
          /\ Returns("done")
     ELSE Aborts([g EXCEPT !.waiting_ack = FALSE]) /\ UNCHANGED handles
  /\ UNCHANGED <<reader, queues, socket, hub, got>>

\* wait_channel_reply, and what munx_channel_insert makes of it
AwaitChannel ==
  /\ At("await") /\ main.call = "channel_offer" /\ (g.channel_got \/ g.ack_err # None)
  /\ LET globals == [g EXCEPT !.waiting_channel = FALSE]
         settled == [globals EXCEPT !.channel_got = FALSE]
     IN  CASE g.channel_op = "Error" \/ g.ack_err # None -> Aborts(globals)
           [] g.channel_op = "ChannelBusy" /\ g.ack_err = None ->
                IF main.tries + 1 = MaxAttempts THEN Aborts(settled)
                ELSE /\ g' = settled
                     /\ main' = [main EXCEPT !.at = "lock", !.tries = @ + 1]
           [] g.channel_op = "ChannelAccept" /\ g.ack_err = None ->
                /\ g' = settled
                /\ main' = [main EXCEPT !.at = "lock", !.call = "channel_send"]
  /\ UNCHANGED <<reader, queues, handles, socket, hub, got>>

\* munx_pipe_extract, and the second half of munx_channel_extract
Find ==
  /\ At("find") /\ MuFree
  /\ queues' = ensure_queue("in")
  /\ Goes("take")
  /\ UNCHANGED <<reader, g, handles, socket, hub, got>>
Take ==
  /\ At("take") /\ queues[SideOf].items # <<>>
  /\ got' = [got EXCEPT ![SideOf] = Append(@, Head(queues[SideOf].items))]
  /\ queues' = [queues EXCEPT ![SideOf].items = Tail(@)]
  /\ IF SideOf = "in" THEN Returns("done")
     ELSE main' = [main EXCEPT !.at = "lock", !.call = "data_ack"]
  /\ UNCHANGED <<reader, g, handles, socket, hub>>
TakeNothing ==
  /\ At("take") /\ queues[SideOf].items = <<>> /\ queues[SideOf].closed
  /\ Returns("null")
  /\ UNCHANGED <<reader, g, queues, handles, socket, hub, got>>

\* munx_pipe_session_end, at exit, with g_mu from the check to the end of the socket
Exit ==
  /\ At("idle") /\ MuFree
  /\ IF g.connected
     THEN /\ main' = [NoTask EXCEPT !.at = "write", !.call = "bye"]
          /\ g' = [g EXCEPT !.mu = "main"]
     ELSE g' = [g EXCEPT !.process = "ended"] /\ UNCHANGED main
  /\ UNCHANGED <<reader, queues, handles, socket, hub, got>>
HangUp ==
  /\ At("join") /\ ~g.shutdown
  /\ g' = [g EXCEPT !.shutdown = TRUE, !.connected = FALSE, !.mu = None]
  /\ socket' = [socket EXCEPT !.hungup = TRUE]
  /\ UNCHANGED <<main, reader, queues, handles, hub, got>>
Join ==
  /\ At("join") /\ g.shutdown /\ reader.at = "ended"
  /\ g' = [g EXCEPT !.process = "ended"]
  /\ UNCHANGED <<main, reader, queues, handles, socket, hub, got>>

-----------------------------------------------------------------------------
(* reader_main                                                              *)

ReaderAt(place) == Running /\ reader.at = place
HasFrame == socket.down # <<>>
ReaderReads ==
  /\ ReaderAt("poll") /\ ~g.shutdown /\ HasFrame
  /\ reader' = [at |-> "handle", frame |-> Head(socket.down)]
  /\ socket' = [socket EXCEPT !.down = Tail(@)]
  /\ UNCHANGED <<main, g, queues, handles, hub, got>>

\* handle_body: an answer needs g_ack_mu only, ...
Told(f) ==
  CASE f.kind = "Ack" -> [g EXCEPT !.ack_ok = TRUE, !.ack_err = None]
    [] f.kind \in {"ChannelAccept", "ChannelBusy"} ->
         IF g.waiting_channel
         THEN [g EXCEPT !.channel_got = TRUE, !.channel_op = f.kind, !.ack_err = None] ELSE g
    [] f.kind = "Error" ->
         [g EXCEPT !.ack_ok = FALSE, !.ack_err = "refused",
                   !.channel_got = @ \/ g.waiting_channel,
                   !.channel_op = IF g.waiting_channel THEN "Error" ELSE @]
ReaderTells ==
  /\ ReaderAt("handle") /\ reader.frame.kind # "Deliver"
  /\ g' = Told(reader.frame)
  /\ reader' = [at |-> "poll", frame |-> NoFrame]
  /\ UNCHANGED <<main, queues, handles, socket, hub, got>>
\* ... and a delivery g_mu.
\* (mutant) the item is put before the head of the queue
Before(items, message) == <<message>> \o items
enqueue_delivery(items, message) == Append(items, message)
ReaderDelivers ==
  /\ ReaderAt("handle") /\ reader.frame.kind = "Deliver" /\ MuFree
  /\ LET side == reader.frame.side
     IN  queues' = [ensure_queue(side) EXCEPT ![side].items =
                      enqueue_delivery(@, reader.frame.of)]
  /\ reader' = [at |-> "poll", frame |-> NoFrame]
  /\ UNCHANGED <<main, g, handles, socket, hub, got>>

\* A hub that closes with requests unread resets the connection.
Broken == socket.hungup /\ (~HasFrame \/ socket.up # <<>>)
ReaderStops ==
  /\ ReaderAt("poll") /\ (g.shutdown \/ Broken)
  /\ reader' = [reader EXCEPT !.at = "closing"]
  /\ UNCHANGED <<main, g, queues, handles, socket, hub, got>>
ReaderCloses ==
  /\ ReaderAt("closing") /\ MuFree
  /\ queues' = [side \in Inbound |-> [queues[side] EXCEPT !.closed = queues[side].there]]
  /\ reader' = [reader EXCEPT !.at = "reporting"]
  /\ UNCHANGED <<main, g, handles, socket, hub, got>>
\* (mutant) only a request that waits for an acknowledgement is told
OnlyAck(globals) == IF globals.waiting_ack THEN [globals EXCEPT !.ack_err = "disconnected"]
                                           ELSE globals
Disconnected(globals) ==
  [globals EXCEPT !.ack_ok = FALSE, !.ack_err = "disconnected",
                  !.channel_got = @ \/ globals.waiting_channel,
                  !.channel_op = IF globals.waiting_channel THEN "Error" ELSE @]
ReaderReports ==
  /\ ReaderAt("reporting")
  /\ g' = Disconnected(g)
  /\ reader' = [reader EXCEPT !.at = "ended"]
  /\ UNCHANGED <<main, queues, handles, socket, hub, got>>

-----------------------------------------------------------------------------
(* The hub                                                                  *)

Ours == <<main, reader, g, queues, handles, got>>
HubThere == Running /\ ~socket.hungup
HubIdle == HubThere /\ hub.writing = NoFrame
Answers(known, kind, side) ==
  hub' = [known EXCEPT !.writing = Frame(kind, side, None), !.said = kind]

HubReads ==
  /\ HubIdle /\ socket.up # <<>>
  /\ LET f == Head(socket.up)
         left == [socket EXCEPT !.up = Tail(@)]
     IN  /\ socket' = IF f.kind = "bye" THEN [left EXCEPT !.hungup = TRUE] ELSE left
         /\ CASE f.kind \in Acknowledged ->
                   \/ Answers([hub EXCEPT !.attached =
                                 IF f.kind = "attach" THEN @ \cup ({f.side} \cap Inbound) ELSE @],
                              "Ack", f.side)
                   \/ Answers(hub, "Error", f.side)
              [] f.kind = "channel_offer" -> hub' = [hub EXCEPT !.offered = TRUE]
              [] f.kind = "detach" -> hub' = [hub EXCEPT !.attached = @ \ {f.side}]
              [] OTHER -> UNCHANGED hub
  /\ UNCHANGED Ours
HubDecides ==
  /\ HubIdle /\ hub.offered
  /\ \E kind \in {"ChannelAccept", "ChannelBusy"} :
       Answers([hub EXCEPT !.offered = FALSE], kind, "channel")
  /\ UNCHANGED <<socket, Ours>>
HubDelivers ==
  /\ HubIdle /\ hub.sent["in"] + hub.sent["channel"] < MaxMessages
  /\ \E side \in hub.attached :
       hub' = [hub EXCEPT !.sent[side] = @ + 1,
                          !.writing = Frame("Deliver", side, hub.sent[side] + 1)]
  /\ UNCHANGED <<socket, Ours>>
HubWrites ==
  /\ HubThere /\ hub.writing # NoFrame /\ Len(socket.down) < Room
  /\ socket' = [socket EXCEPT !.down = Append(@, hub.writing)]
  /\ hub' = [hub EXCEPT !.writing = NoFrame]
  /\ UNCHANGED Ours
HubGivesUp ==
  /\ HubThere /\ hub.writing # NoFrame /\ Len(socket.down) = Room
  /\ socket' = [socket EXCEPT !.hungup = TRUE]
  /\ UNCHANGED <<hub, Ours>>
HubDies ==
  /\ HubThere /\ g.connected
  /\ socket' = [socket EXCEPT !.hungup = TRUE]
  /\ UNCHANGED <<hub, Ours>>

Call == \E h \in Handle : Open(h) \/ Insert(h) \/ Extract(h) \/ Close(h)
Work ==
  SessionBegin \/ Lock \/ Write \/ AwaitAck \/ AwaitChannel \/ Find \/ Take \/ TakeNothing
    \/ HangUp \/ Join
Reader ==
  ReaderReads \/ ReaderTells \/ ReaderDelivers \/ ReaderStops \/ ReaderCloses \/ ReaderReports
HubServes == HubReads \/ HubWrites \/ HubGivesUp
Next == Call \/ Exit \/ Work \/ Reader \/ HubServes \/ HubDecides \/ HubDelivers \/ HubDies
Spec == Init /\ [][Next]_vars
\* Threads run, and the hub serves what is there; an offer may wait for a peer.
Fairness == WF_vars(Work) /\ WF_vars(Reader) /\ WF_vars(HubServes)
FairSpec == Spec /\ Fairness
===============================================================================
