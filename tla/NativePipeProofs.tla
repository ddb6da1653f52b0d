--------------------------- MODULE NativePipeProofs ---------------------------
(***************************************************************************)
(* AnswersAreOwn and OrderKept for any number of handles, calls, messages  *)
(* and attempts, and any room in the sockets.                              *)
(*                                                                         *)
(* While the program does not wait nothing of a conversation is left on    *)
(* the way: no request, no parked offer, no answer.  While it waits there  *)
(* is one request, or one answer to it, or the flags hold that answer.     *)
(* The messages of a queue lie in order along their way, and the reader    *)
(* has one in hand only while it handles it.                               *)
(***************************************************************************)
EXTENDS NativePipeProps, SequenceTheorems, TLAPS

Asks == Acknowledged \cup {"channel_offer"}
Replies == {"Ack", "Error", "ChannelAccept", "ChannelBusy"}
Words == Replies \cup Asks
           \cup {"Deliver", "hello", "extract", "detach", "recv_ready", "data_ack", "bye", None}
Frames == [kind : Words, side : {"out", "in", "channel", None}, of : Nat \cup {None}]

Records ==
  /\ DOMAIN main = {"at", "call", "handle", "tries", "result"} /\ main.call \in Words
  /\ DOMAIN reader = {"at", "frame"} /\ reader.frame \in Frames
  /\ DOMAIN g = {"process", "mu", "connected", "shutdown", "waiting_ack", "ack_ok", "ack_err",
                 "waiting_channel", "channel_got", "channel_op"}
  /\ DOMAIN queues = Inbound
  /\ \A side \in Inbound : DOMAIN queues[side] = {"there", "items", "closed"}
  /\ DOMAIN socket = {"up", "down", "hungup"}
  /\ socket.up \in Seq(Frames) /\ socket.down \in Seq(Frames)
  /\ DOMAIN hub = {"attached", "offered", "sent", "writing", "said", "calls"}
  /\ hub.attached \subseteq Inbound /\ hub.writing \in Frames
  /\ DOMAIN hub.sent = Inbound /\ \A side \in Inbound : hub.sent[side] \in Nat

(* What is on the way between the program and the hub.                     *)
Of(frames, kinds) == {i \in DOMAIN frames : frames[i].kind \in kinds}
Requests == Of(socket.up, Asks)
Coming == Of(socket.down, Replies)
Answering == hub.writing.kind \in Replies
Answered == reader.frame.kind \in Replies
NoAnswer == ~Answering /\ Coming = {} /\ ~Answered
Quiet == Requests = {} /\ ~hub.offered /\ NoAnswer
OneAnswer ==
  /\ \A i, j \in Coming : i = j
  /\ Answering => Coming = {} /\ ~Answered
  /\ Answered => Coming = {}
  /\ Answering => hub.writing.kind = hub.said
  /\ Answered => reader.frame.kind = hub.said
  /\ \A i \in Coming : socket.down[i].kind = hub.said

Conversation ==
  /\ main.at # "await" => Quiet
  /\ main.at = "write" /\ main.call \in Asks => hub.said = None
  /\ hub.said = None =>
       /\ NoAnswer
       /\ \A i, j \in Requests : i = j
       /\ hub.offered => Requests = {}
  /\ hub.said # None => Requests = {} /\ ~hub.offered /\ OneAnswer

(* The flags, from the request on.                                         *)
Asked == main.at \in {"write", "await"} /\ main.call \in Asks
Flags ==
  Asked =>
    /\ main.call \in Acknowledged /\ g.ack_ok => hub.said = "Ack" /\ Quiet
    /\ g.ack_err # None => hub.said = "Error" \/ socket.hungup
    /\ main.call = "channel_offer" /\ g.channel_op = "Error" => hub.said = "Error" \/ socket.hungup
    /\ main.call = "channel_offer" /\ g.channel_got /\ g.channel_op # "Error" =>
         /\ g.channel_op \in {"ChannelAccept", "ChannelBusy"}
         /\ hub.said = g.channel_op /\ Quiet

(* The reader: it hears answers and deliveries, and tells of the end.       *)
Hears == Replies \cup {"Deliver"}
Ending ==
  /\ hub.writing = NoFrame \/ hub.writing.kind \in Hears
  /\ Of(socket.down, Words \ Hears) = {}
  /\ reader.at = "handle" => reader.frame.kind \in Hears
  /\ Answered => reader.at = "handle"
  /\ reader.at \in {"closing", "reporting", "ended"} => socket.hungup
  /\ g.shutdown => socket.hungup
  /\ \A side \in Inbound : queues[side].closed => socket.hungup

Placed ==
  /\ Running /\ main.at # "idle" => main.result = None
  /\ main.at = "await" => main.call \in Asks
  /\ main.at \in {"find", "take"} => main.call \in {"extract", "recv_ready"}
  /\ main.at \in {"find", "take"} \/ (main.at \in {"begin", "lock", "write"} /\ main.call = "recv_ready") =>
       SideOf \in Inbound

Invariant == Records /\ Conversation /\ Flags /\ Ending /\ Placed /\ AnswersAreOwn

-----------------------------------------------------------------------------
(* Frames on a socket.                                                      *)

LEMMA AppendOf ==
    ASSUME NEW s \in Seq(Frames), NEW f \in Frames, NEW K
    PROVE /\ Append(s, f) \in Seq(Frames)
          /\ Len(s) + 1 \notin DOMAIN s
          /\ f.kind \notin K => Of(Append(s, f), K) = Of(s, K)
          /\ f.kind \in K => Of(Append(s, f), K) = Of(s, K) \cup {Len(s) + 1}
          /\ \A i \in DOMAIN s : Append(s, f)[i] = s[i]
          /\ Append(s, f)[Len(s) + 1] = f
<1>1. /\ Append(s, f) \in Seq(Frames) /\ Len(Append(s, f)) = Len(s) + 1
      /\ \A i \in 1..Len(s) : Append(s, f)[i] = s[i]
      /\ Append(s, f)[Len(s) + 1] = f
    BY AppendProperties
<1>2. DOMAIN s = 1..Len(s) /\ DOMAIN Append(s, f) = 1..(Len(s) + 1) /\ Len(s) \in Nat
    BY <1>1, LenProperties
<1>3. DOMAIN Append(s, f) = DOMAIN s \cup {Len(s) + 1} /\ Len(s) + 1 \notin DOMAIN s
    BY <1>2
<1> QED
    BY <1>1, <1>2, <1>3 DEF Of

LEMMA TailOf ==
    ASSUME NEW s \in Seq(Frames), s # <<>>, NEW K
    PROVE /\ Head(s) \in Frames /\ Tail(s) \in Seq(Frames)
          /\ Of(s, K) = {} => Of(Tail(s), K) = {} /\ Head(s).kind \notin K
          /\ (\A i, j \in Of(s, K) : i = j) =>
               /\ \A i, j \in Of(Tail(s), K) : i = j
               /\ Head(s).kind \in K => Of(Tail(s), K) = {}
          /\ \A i \in Of(Tail(s), K) : \E j \in Of(s, K) : Tail(s)[i] = s[j]
          /\ Head(s).kind \in K => \E j \in Of(s, K) : s[j] = Head(s)
<1>1. /\ Head(s) \in Frames /\ Tail(s) \in Seq(Frames) /\ Len(Tail(s)) = Len(s) - 1
      /\ Head(s) = s[1] /\ \A i \in 1..Len(Tail(s)) : Tail(s)[i] = s[i + 1]
      /\ Len(s) \in Nat \ {0}
    BY HeadTailProperties, EmptySeq, LenProperties
<1>2. DOMAIN s = 1..Len(s) /\ DOMAIN Tail(s) = 1..(Len(s) - 1)
    BY <1>1, LenProperties
<1>3. 1 \in DOMAIN s /\ \A i \in DOMAIN Tail(s) : i \in Nat /\ i + 1 \in DOMAIN s /\ i + 1 # 1
    BY <1>1, <1>2
<1>4. \A i \in Of(Tail(s), K) : i \in Nat /\ i + 1 \in Of(s, K) /\ i + 1 # 1 /\ Tail(s)[i] = s[i + 1]
    BY <1>1, <1>2, <1>3 DEF Of
<1>5. Head(s).kind \in K <=> 1 \in Of(s, K)
    BY <1>1, <1>3 DEF Of
<1>6. ASSUME \A i, j \in Of(s, K) : i = j
      PROVE (\A i, j \in Of(Tail(s), K) : i = j) /\ (Head(s).kind \in K => Of(Tail(s), K) = {})
    BY <1>4, <1>5, <1>6
<1> QED
    BY <1>1, <1>3, <1>4, <1>5, <1>6

-----------------------------------------------------------------------------
(* What most steps leave alone.                                             *)

OnTheLine == <<socket.up, socket.down, reader.frame, hub.writing, hub.offered, hub.said>>
Learned == <<g.ack_ok, g.ack_err, g.channel_got, g.channel_op>>
AtTheEnd == <<reader.at, reader.frame, g.shutdown, socket.hungup, socket.down, hub.writing,
              [side \in Inbound |-> queues[side].closed]>>

LEMMA KeptConversation ==
    ASSUME Conversation, UNCHANGED OnTheLine,
           main'.at # "await" => main.at # "await" \/ Quiet,
           main'.at = "write" /\ main'.call \in Asks =>
             (main.at = "write" /\ main.call \in Asks) \/ hub.said = None
    PROVE  Conversation'
  BY DEF Conversation, OnTheLine, Quiet, OneAnswer, NoAnswer, Requests, Coming, Answering, Answered
LEMMA KeptFlags ==
    ASSUME Flags, UNCHANGED OnTheLine, UNCHANGED Learned, socket.hungup => socket'.hungup,
           Asked' => Asked /\ main'.call = main.call
    PROVE  Flags'
  BY DEF Flags, OnTheLine, Learned, Quiet, NoAnswer, Requests, Coming, Answering, Answered
LEMMA KeptEnding ==
    ASSUME Ending, UNCHANGED AtTheEnd
    PROVE  Ending'
<1>1. \A side \in Inbound : queues'[side].closed = queues[side].closed
    BY DEF AtTheEnd
<1> QED
    BY <1>1 DEF AtTheEnd, Ending, Answered

-----------------------------------------------------------------------------
(* The program's thread                                                     *)

LEMMA BeginsKeeps ==
    ASSUME Invariant, NEW h \in Handle, NEW call \in Words, NEW place, Begins(h, call, place),
           place \in {"begin", "lock", "find"},
           place = "find" => call = "extract",
           place = "find" \/ call = "recv_ready" => Side[h] \in Inbound
    PROVE  Invariant'
<1> USE DEF Invariant
<1>1. /\ main' = [at |-> place, call |-> call, handle |-> h, tries |-> 0, result |-> None]
      /\ main.at = "idle" /\ Running /\ hub' = [hub EXCEPT !.calls = @ + 1]
      /\ UNCHANGED <<reader, g, queues, socket, got>>
    BY DEF Begins, NoTask, At
<1>2. Records'
    BY <1>1 DEF Records
<1>3. UNCHANGED OnTheLine /\ UNCHANGED Learned /\ UNCHANGED AtTheEnd
    BY <1>1 DEF OnTheLine, Learned, AtTheEnd, Records
<1>4. Conversation' /\ Flags' /\ Ending'
    BY <1>1, <1>3, KeptConversation, KeptFlags, KeptEnding DEF Asked
<1>5. Placed'
    BY <1>1 DEF Placed, SideOf
<1>6. AnswersAreOwn'
    BY <1>1, NoneAssumption DEF AnswersAreOwn, Running
<1> QED
    BY <1>2, <1>4, <1>5, <1>6

LEMMA CallKeeps ==
    ASSUME Invariant, Call
    PROVE  Invariant'
<1>1. PICK h \in Handle : Open(h) \/ Insert(h) \/ Extract(h) \/ Close(h)
    BY DEF Call
<1>2. {"attach", "publish", "channel_offer", "extract", "recv_ready", "detach"} \subseteq Words
    BY DEF Words, Asks, Acknowledged
<1>3. CASE Open(h)
    BY <1>2, <1>3, BeginsKeeps DEF Open
<1>4. CASE Insert(h)
    BY <1>2, <1>4, BeginsKeeps DEF Insert
<1>5. CASE Extract(h)
    BY <1>2, <1>5, BeginsKeeps DEF Extract
<1>6. CASE Close(h)
    BY <1>2, <1>6, BeginsKeeps DEF Close
<1> QED
    BY <1>1, <1>3, <1>4, <1>5, <1>6

LEMMA SessionBeginKeeps ==
    ASSUME Invariant, SessionBegin
    PROVE  Invariant'
<1> USE DEF Invariant
<1>1. /\ main' = [main EXCEPT !.at = "lock"] /\ main.at = "begin" /\ Running
      /\ UNCHANGED <<queues, hub, got>>
    BY DEF SessionBegin, At, Goes
<1>2. CASE g.connected
    <2>1. UNCHANGED <<g, reader, socket>>
        BY <1>2 DEF SessionBegin
    <2>2. Records'
        BY <1>1, <2>1 DEF Records
    <2>3. UNCHANGED OnTheLine /\ UNCHANGED Learned /\ UNCHANGED AtTheEnd
        BY <1>1, <2>1 DEF OnTheLine, Learned, AtTheEnd, Records
    <2>4. main'.at = "lock"
        BY <1>1 DEF Records
    <2>5. Conversation' /\ Flags' /\ Ending'
        BY <1>1, <2>3, <2>4, KeptConversation, KeptFlags, KeptEnding, <2>1 DEF Asked
    <2>6. Placed' /\ AnswersAreOwn'
        BY <1>1, <2>1 DEF Placed, SideOf, AnswersAreOwn, Records, Running
    <2> QED
        BY <2>2, <2>5, <2>6
<1>3. CASE ~g.connected
    <2> DEFINE hello == Frame("hello", "out", None)
    <2>1. /\ g' = [g EXCEPT !.connected = TRUE, !.shutdown = FALSE]
          /\ socket' = [socket EXCEPT !.up = <<hello>>]
          /\ reader' = [reader EXCEPT !.at = "poll"]
        BY <1>3 DEF SessionBegin
    <2>2. hello \in Frames /\ hello.kind = "hello"
        BY DEF Frame, Frames, Words
    <2> HIDE DEF hello
    <2>3. <<hello>> \in Seq(Frames) /\ Of(<<hello>>, Asks) = {}
        BY <2>2, NoneAssumption DEF Of, Asks, Acknowledged
    <2>4. Records'
        BY <1>1, <2>1, <2>3 DEF Records
    <2>5. Requests' = {} /\ UNCHANGED <<Coming, Answering, Answered, hub, socket.down, reader.frame>>
        BY <1>1, <2>1, <2>3 DEF Requests, Coming, Answering, Answered, Records
    <2>6. Conversation'
        BY <1>1, <2>5 DEF Conversation, Quiet, NoAnswer, OneAnswer, Coming, Records
    <2>7. Flags'
        BY <1>1, <2>1 DEF Records, Flags, Asked
    <2>8. Ending' /\ Placed' /\ AnswersAreOwn'
        BY <1>1, <2>1, <2>5 DEF Records, Conversation, Quiet, NoAnswer, Ending, Placed, SideOf, AnswersAreOwn, Running
    <2> QED
        BY <2>4, <2>6, <2>7, <2>8
<1> QED
    BY <1>2, <1>3


(* The flags are armed while nothing of a conversation is on the way.       *)
LEMMA LockKeeps ==
    ASSUME Invariant, Lock
    PROVE  Invariant'
<1> USE DEF Invariant
<1> DEFINE globals == [g EXCEPT !.mu = "main"]
           arms == {globals, Armed(globals), ArmedForChannel(globals)}
<1>1. /\ main' = [main EXCEPT !.at = "write"] /\ main.at = "lock" /\ Running
      /\ hub' = [hub EXCEPT !.said = None] /\ UNCHANGED <<reader, socket, got>>
    BY DEF Lock, At, Goes
<1>2. /\ main.call \in Acknowledged => g' = Armed(globals)
      /\ main.call = "channel_offer" => g' = ArmedForChannel(globals)
      /\ main.call \notin Asks => g' = globals
    BY DEF Lock, Asks, Acknowledged
<1>3. queues' = queues \/ (SideOf \in Inbound /\ queues' = [queues EXCEPT ![SideOf].there = TRUE])
    BY DEF Lock, ensure_queue
<1>4. Quiet
    BY <1>1 DEF Conversation
<1>5. /\ DOMAIN g' = DOMAIN g /\ g'.process = g.process /\ g'.shutdown = g.shutdown
      /\ main.call \in Acknowledged => ~g'.ack_ok /\ g'.ack_err = None
      /\ main.call = "channel_offer" => /\ ~g'.channel_got /\ g'.channel_op = None
                                        /\ g'.ack_err = None
    BY <1>2 DEF Armed, ArmedForChannel, Records, Asks
<1>6. /\ DOMAIN queues' = Inbound
      /\ \A side \in Inbound : /\ DOMAIN queues'[side] = {"there", "items", "closed"}
                               /\ queues'[side].closed = queues[side].closed
    BY <1>3, SMTT(30) DEF Records
<1>7. /\ DOMAIN main' = DOMAIN main /\ main'.at = "write" /\ main'.call = main.call
      /\ main'.handle = main.handle /\ main'.result = main.result /\ main'.tries = main.tries
    BY <1>1 DEF Records
<1>8. /\ DOMAIN hub' = DOMAIN hub /\ hub'.said = None
      /\ UNCHANGED <<hub.attached, hub.offered, hub.sent, hub.writing>>
    BY <1>1 DEF Records
<1>9. Records'
    BY <1>1, <1>5, <1>6, <1>7, <1>8 DEF Records
<1>10. Conversation'
  <2>1. Quiet'
    BY <1>1, <1>4, <1>8 DEF Quiet, NoAnswer, Requests, Coming, Answering, Answered
  <2> QED
    BY <2>1, <1>7, <1>8 DEF Conversation, Quiet
<1>11. Flags'
    BY <1>5, <1>7, NoneAssumption DEF Flags, Asked, Asks
<1>12. Ending' /\ Placed'
    BY <1>1, <1>5, <1>6, <1>7, <1>8 DEF Ending, Answered, Placed, SideOf, Running
<1>13. AnswersAreOwn'
    BY <1>1, <1>5, <1>7, NoneAssumption DEF Placed, AnswersAreOwn, Running
<1> QED
    BY <1>9, <1>10, <1>11, <1>12, <1>13

LEMMA WriteKeeps ==
    ASSUME Invariant, Write
    PROVE  Invariant'
<1> USE DEF Invariant
<1>1. main.at = "write" /\ Running /\ UNCHANGED <<reader, queues, hub, got>>
    BY DEF Write, At
<1>2. CASE socket.hungup
    <2>1. g' = [g EXCEPT !.process = "killed"] /\ UNCHANGED <<main, socket>>
        BY <1>2 DEF Write
    <2>2. UNCHANGED OnTheLine /\ UNCHANGED Learned /\ UNCHANGED AtTheEnd
        BY <1>1, <2>1 DEF OnTheLine, Learned, AtTheEnd, Records
    <2>3. Records' /\ Placed' /\ AnswersAreOwn'
        BY <1>1, <2>1 DEF Records, Placed, SideOf, AnswersAreOwn, Running
    <2> QED
        BY <2>1, <2>2, <2>3, KeptConversation, KeptFlags, KeptEnding DEF Asked
<1>3. CASE ~socket.hungup
    <2> DEFINE f == Frame(main.call, SideOf, None)
    <2>1. /\ socket' = [socket EXCEPT !.up = Append(@, f)]
          /\ g' = [g EXCEPT !.mu = IF main.call = "bye" THEN @ ELSE None]
          /\ main' = (IF AfterWrite = "idle" THEN [NoTask EXCEPT !.call = main.call, !.result = "done"]
                                            ELSE [main EXCEPT !.at = AfterWrite])
        BY <1>3 DEF Write, Returns, Goes
    <2>2. /\ DOMAIN main' = DOMAIN main /\ main'.at = AfterWrite /\ main'.call = main.call
          /\ AfterWrite # "idle" => main'.handle = main.handle /\ main'.result = main.result
          /\ AfterWrite = "idle" => main'.result = "done"
        BY <2>1 DEF Records, NoTask
    <2>3. /\ main.call \in Asks <=> AfterWrite = "await"
          /\ main.call = "recv_ready" <=> AfterWrite = "take"
          /\ AfterWrite \in {"await", "take", "join", "idle"}
        BY DEF AfterWrite, Asks, Acknowledged
    <2>4. f \in Frames /\ f.kind = main.call
        BY SideAssumption DEF Frame, Frames, SideOf, Records
    <2> HIDE DEF f
    <2>5. /\ DOMAIN socket' = DOMAIN socket /\ socket'.up = Append(socket.up, f)
          /\ socket'.down = socket.down /\ socket'.hungup = socket.hungup
          /\ UNCHANGED <<g.process, g.shutdown, g.ack_ok, g.ack_err, g.channel_got, g.channel_op>>
          /\ DOMAIN g' = DOMAIN g
        BY <2>1 DEF Records
    <2>6. Records'
        BY <1>1, <2>2, <2>4, <2>5, AppendOf DEF Records
    <2>7. Quiet
        BY <1>1 DEF Conversation
    <2>8. /\ main.call \notin Asks => Requests' = {}
          /\ main.call \in Asks => Requests' = {Len(socket.up) + 1}
        BY <2>4, <2>5, <2>7, AppendOf DEF Requests, Quiet, Records
    <2>9. UNCHANGED <<Coming, Answering, Answered, hub.offered, hub.said>>
        BY <1>1, <2>5 DEF Coming, Answering, Answered
    <2>10. Conversation'
        BY <1>1, <2>2, <2>3, <2>5, <2>7, <2>8, <2>9 DEF Conversation, Quiet, NoAnswer, OneAnswer
    <2>11. Flags'
        BY <1>1, <2>2, <2>3, <2>5, NoneAssumption DEF Flags, Asked, Conversation
    <2>12. Ending' /\ Placed'
        BY <1>1, <2>2, <2>3, <2>5 DEF Ending, Answered, Placed, SideOf, Running
    <2>13. AnswersAreOwn'
        BY <1>1, <2>2, <2>3, <2>5, NoneAssumption DEF Placed, AnswersAreOwn, Running, Asks
    <2> QED
        BY <2>6, <2>10, <2>11, <2>12, <2>13
<1> QED
    BY <1>2, <1>3


(* The end of the program by munx_rt_abort: nothing moves any more.         *)
LEMMA AbortKeeps ==
    ASSUME Invariant, UNCHANGED OnTheLine, UNCHANGED <<reader, queues, socket, hub>>,
           main.at = "await", main.call \in Asks, main' = [main EXCEPT !.result = "failed"],
           hub.said = "Error" \/ socket.hungup
             \/ (hub.said = "ChannelBusy" /\ main.tries + 1 = MaxAttempts),
           DOMAIN g' = DOMAIN g, g'.process = "aborted", g'.shutdown = g.shutdown,
           g'.ack_ok = g.ack_ok, g'.ack_err = g.ack_err, g'.channel_op = g.channel_op,
           g'.channel_got => g.channel_got
    PROVE  Invariant'
<1> USE DEF Invariant
<1>1. /\ DOMAIN main' = DOMAIN main /\ main'.at = "await" /\ main'.call = main.call
      /\ main'.tries = main.tries /\ main'.handle = main.handle /\ main'.result = "failed"
    BY DEF Records
<1>2. Records'
    BY <1>1 DEF Records
<1>3. UNCHANGED AtTheEnd
    BY DEF AtTheEnd
<1>4. Conversation' /\ Ending'
    BY <1>1, <1>3, KeptConversation, KeptEnding
<1>5. UNCHANGED Quiet
    BY DEF OnTheLine, Quiet, NoAnswer, Requests, Coming, Answering, Answered
<1>6. Flags'
    BY <1>1, <1>5 DEF Flags, Asked
<1>7. Placed' /\ AnswersAreOwn'
    BY <1>1 DEF Placed, SideOf, Running, AnswersAreOwn
<1> QED
    BY <1>2, <1>4, <1>6, <1>7


(* Where the program returns, nothing of the conversation is on the way.    *)
LEMMA AwaitAckKeeps ==
    ASSUME Invariant, AwaitAck
    PROVE  Invariant'
<1> USE DEF Invariant
<1> DEFINE globals == [g EXCEPT !.waiting_ack = FALSE]
<1>1. /\ main.at = "await" /\ main.call \in Acknowledged /\ Running
      /\ g.ack_ok \/ g.ack_err # None
      /\ UNCHANGED <<reader, queues, socket, hub, got>>
    BY DEF AwaitAck, At
<1>2. UNCHANGED OnTheLine
    BY <1>1 DEF OnTheLine
<1>3. main.call \in Asks /\ Asked /\ main.result = None
    BY <1>1 DEF Asks, Asked, Placed
<1>4. CASE g.ack_ok
    <2>1. g' = globals /\ main' = [NoTask EXCEPT !.call = main.call, !.result = "done"]
        BY <1>4 DEF AwaitAck, Returns
    <2>2. /\ DOMAIN g' = DOMAIN g /\ g'.shutdown = g.shutdown /\ g'.process = g.process
          /\ UNCHANGED Learned /\ UNCHANGED AtTheEnd
        BY <1>1, <2>1 DEF Records, Learned, AtTheEnd
    <2>3. /\ DOMAIN main' = DOMAIN main /\ main'.at = "idle" /\ main'.call = main.call
          /\ main'.result = "done"
        BY <2>1 DEF NoTask, Records
    <2>4. hub.said = "Ack" /\ Quiet
        BY <1>1, <1>3, <1>4 DEF Flags
    <2>5. Records'
        BY <1>1, <2>2, <2>3 DEF Records
    <2>6. Conversation' /\ Flags' /\ Ending'
        BY <1>2, <2>2, <2>3, <2>4, KeptConversation, KeptFlags, KeptEnding, <1>1 DEF Asked
    <2>7. Placed' /\ AnswersAreOwn'
        BY <1>1, <2>2, <2>3, <2>4 DEF Placed, AnswersAreOwn, Running
    <2> QED
        BY <2>5, <2>6, <2>7
<1>5. CASE ~g.ack_ok
    <2>1. g' = [globals EXCEPT !.process = "aborted"] /\ main' = [main EXCEPT !.result = "failed"]
        BY <1>5 DEF AwaitAck, Aborts
    <2>2. hub.said = "Error" \/ socket.hungup
        BY <1>1, <1>3, <1>5 DEF Flags
    <2>3. /\ DOMAIN g' = DOMAIN g /\ g'.process = "aborted" /\ g'.shutdown = g.shutdown
          /\ g'.ack_ok = g.ack_ok /\ g'.ack_err = g.ack_err
          /\ g'.channel_op = g.channel_op /\ g'.channel_got => g.channel_got
        BY <2>1 DEF Records
    <2> QED
        BY <1>1, <1>2, <1>3, <2>1, <2>2, <2>3, AbortKeeps
<1> QED
    BY <1>4, <1>5

LEMMA AwaitChannelKeeps ==
    ASSUME Invariant, AwaitChannel
    PROVE  Invariant'
<1> USE DEF Invariant
<1> DEFINE globals == [g EXCEPT !.waiting_channel = FALSE]
           settled == [globals EXCEPT !.channel_got = FALSE]
<1>1. /\ main.at = "await" /\ main.call = "channel_offer" /\ Running
      /\ g.channel_got \/ g.ack_err # None
      /\ UNCHANGED <<reader, queues, socket, hub, got>>
    BY DEF AwaitChannel, At
<1>2. UNCHANGED OnTheLine
    BY <1>1 DEF OnTheLine
<1>3. main.call \in Asks /\ Asked /\ main.result = None
    BY <1>1 DEF Asks, Asked, Placed
<1>4. CASE g.channel_op = "Error" \/ g.ack_err # None
    <2>1. g' = [globals EXCEPT !.process = "aborted"] /\ main' = [main EXCEPT !.result = "failed"]
        BY <1>4 DEF AwaitChannel, Aborts
    <2>2. hub.said = "Error" \/ socket.hungup
        BY <1>1, <1>3, <1>4 DEF Flags
    <2>3. /\ DOMAIN g' = DOMAIN g /\ g'.process = "aborted" /\ g'.shutdown = g.shutdown
          /\ g'.ack_ok = g.ack_ok /\ g'.ack_err = g.ack_err
          /\ g'.channel_op = g.channel_op /\ g'.channel_got => g.channel_got
        BY <2>1 DEF Records
    <2> QED
        BY <1>1, <1>2, <1>3, <2>1, <2>2, <2>3, AbortKeeps
<1>5. CASE g.channel_op # "Error" /\ g.ack_err = None
    <2>1. /\ g.channel_op \in {"ChannelAccept", "ChannelBusy"}
          /\ hub.said = g.channel_op /\ Quiet
        BY <1>1, <1>3, <1>5 DEF Flags
    <2>2. CASE g.channel_op = "ChannelBusy" /\ main.tries + 1 = MaxAttempts
        <3>1. g' = [settled EXCEPT !.process = "aborted"] /\ main' = [main EXCEPT !.result = "failed"]
            BY <1>5, <2>2 DEF AwaitChannel, Aborts
        <3>2. /\ DOMAIN g' = DOMAIN g /\ g'.process = "aborted" /\ g'.shutdown = g.shutdown
              /\ g'.ack_ok = g.ack_ok /\ g'.ack_err = g.ack_err
              /\ g'.channel_op = g.channel_op /\ g'.channel_got => g.channel_got
            BY <3>1 DEF Records
        <3> QED
            BY <1>1, <1>2, <1>3, <2>1, <2>2, <3>1, <3>2, AbortKeeps
    <2>3. CASE ~(g.channel_op = "ChannelBusy" /\ main.tries + 1 = MaxAttempts)
        <3>1. /\ g' = settled
              /\ \/ main' = [main EXCEPT !.at = "lock", !.tries = @ + 1]
                 \/ main' = [main EXCEPT !.at = "lock", !.call = "channel_send"]
            BY <1>5, <2>1, <2>3 DEF AwaitChannel
        <3>2. /\ DOMAIN g' = DOMAIN g /\ g'.shutdown = g.shutdown /\ g'.process = g.process
              /\ UNCHANGED AtTheEnd
            BY <1>1, <3>1 DEF Records, AtTheEnd
        <3>3. /\ DOMAIN main' = DOMAIN main /\ main'.at = "lock"
              /\ main'.call \in {"channel_offer", "channel_send"} /\ main'.result = None
            BY <1>1, <1>3, <3>1 DEF Records
        <3>4. Records'
            BY <1>1, <3>2, <3>3 DEF Records, Words, Asks, Acknowledged
        <3>5. Conversation' /\ Ending'
            BY <1>2, <2>1, <3>2, <3>3, KeptConversation, KeptEnding
        <3>6. Flags' /\ Placed' /\ AnswersAreOwn'
            BY <1>1, <3>2, <3>3, NoneAssumption DEF Flags, Asked, Placed, AnswersAreOwn, Running
        <3> QED
            BY <3>4, <3>5, <3>6
    <2> QED
        BY <2>2, <2>3
<1> QED
    BY <1>4, <1>5


LEMMA ReceiveKeeps ==
    ASSUME Invariant, Find \/ Take \/ TakeNothing
    PROVE  Invariant'
<1> USE DEF Invariant
<1>1. /\ main.at \in {"find", "take"} /\ Running /\ SideOf \in Inbound /\ main.result = None
      /\ UNCHANGED <<reader, g, socket, hub>>
    BY DEF Find, Take, TakeNothing, At, Placed
<1>2. /\ DOMAIN queues' = Inbound
      /\ \A side \in Inbound : /\ DOMAIN queues'[side] = {"there", "items", "closed"}
                               /\ queues'[side].closed = queues[side].closed
    BY <1>1 DEF Find, Take, TakeNothing, ensure_queue, Inbound, Records
<1>3. UNCHANGED OnTheLine /\ UNCHANGED Learned /\ UNCHANGED AtTheEnd
    BY <1>1, <1>2 DEF OnTheLine, Learned, AtTheEnd
<1>4. /\ DOMAIN main' = DOMAIN main /\ main'.at \in {"take", "lock", "idle"} /\ main'.call \in Words
      /\ main'.at = "take" => /\ main'.handle = main.handle /\ main'.result = None
                              /\ main'.call = main.call
      /\ main'.at = "lock" => main'.call = "data_ack" /\ main'.result = None
      /\ main'.result = "null" => queues[SideOf].closed
      /\ main'.result = "done" => main'.call = main.call
  <2>1. CASE Find
    BY <1>1, <2>1, NoneAssumption DEF Find, Goes, Records
  <2>2. CASE Take /\ SideOf = "in"
    BY <1>1, <2>2, NoneAssumption, ZenonT(40) DEF Take, Returns, NoTask, Records
  <2>3. CASE Take /\ SideOf # "in"
    BY <1>1, <2>3, NoneAssumption, ZenonT(40) DEF Take, Records, Words
  <2>4. CASE TakeNothing
    BY <1>1, <2>4, NoneAssumption DEF TakeNothing, Returns, NoTask, Records
  <2> QED
    BY <2>1, <2>2, <2>3, <2>4
<1>5. Records'
    BY <1>1, <1>2, <1>4 DEF Records
<1>6. Conversation' /\ Flags' /\ Ending'
    BY <1>1, <1>3, <1>4, KeptConversation, KeptFlags, KeptEnding DEF Asked
<1>7. Placed'
    BY <1>1, <1>4 DEF Placed, SideOf
<1>8. main'.result = "done" => main'.call \notin Acknowledged
    BY <1>1, <1>4 DEF Placed, Acknowledged
<1>9. AnswersAreOwn'
    BY <1>1, <1>4, <1>8 DEF AnswersAreOwn, Running, Ending
<1> QED
    BY <1>5, <1>6, <1>7, <1>9

LEMMA ExitKeeps ==
    ASSUME Invariant, Exit \/ HangUp \/ Join
    PROVE  Invariant'
<1> USE DEF Invariant
<1>1. UNCHANGED <<reader, queues, hub, got>> /\ Running /\ main.at \in {"idle", "join"}
    BY DEF Exit, HangUp, Join, At
<1>2. /\ DOMAIN g' = DOMAIN g /\ g'.process # "aborted" /\ UNCHANGED Learned
      /\ g'.shutdown => g.shutdown \/ socket'.hungup
    BY DEF Exit, HangUp, Join, Learned, Records, Running, At
<1>3. /\ DOMAIN socket' = DOMAIN socket /\ UNCHANGED <<socket.up, socket.down>>
      /\ socket.hungup => socket'.hungup
    BY DEF Exit, HangUp, Join, Records
<1>4. \/ UNCHANGED main
      \/ /\ DOMAIN main' = DOMAIN main /\ main'.at = "write" /\ main'.call = "bye"
         /\ main'.result = None
    BY DEF Exit, HangUp, Join, NoTask, Records
<1>5. Records'
    BY <1>1, <1>2, <1>3, <1>4 DEF Records, Words
<1>6. UNCHANGED OnTheLine
    BY <1>1, <1>3 DEF OnTheLine
<1>7. Conversation' /\ Flags'
    BY <1>1, <1>2, <1>3, <1>4, <1>6, KeptConversation, KeptFlags, NoneAssumption
       DEF Asked, Asks, Acknowledged
<1>8. Ending' /\ Placed'
    BY <1>1, <1>2, <1>3, <1>4 DEF Ending, Answered, Placed, SideOf, Running
<1>9. AnswersAreOwn'
    BY <1>1, <1>2, <1>3, <1>4, NoneAssumption DEF AnswersAreOwn
<1> QED
    BY <1>5, <1>7, <1>8, <1>9

-----------------------------------------------------------------------------
(* The reader                                                               *)

(* What the reader and the hub have in common: the program's thread stays   *)
(* where it is.                                                             *)
LEMMA OthersKeep ==
    ASSUME Invariant, Running, UNCHANGED main, g'.process = g.process,
           hub'.said = hub.said \/ main.at = "await", socket.hungup => socket'.hungup
    PROVE  Placed' /\ AnswersAreOwn'
  BY NoneAssumption DEF Invariant, Placed, SideOf, AnswersAreOwn, Running

(* The frame that was read is the first of those that were coming.          *)
LEMMA ReaderReadsKeeps ==
    ASSUME Invariant, ReaderReads
    PROVE  Invariant'
<1> USE DEF Invariant
<1>1. /\ socket.down # <<>> /\ Running /\ reader.at = "poll" /\ ~Answered
      /\ reader' = [at |-> "handle", frame |-> Head(socket.down)]
      /\ socket' = [socket EXCEPT !.down = Tail(@)]
      /\ UNCHANGED <<main, g, queues, hub>>
    BY DEF ReaderReads, ReaderAt, HasFrame, Ending
<1>2. /\ DOMAIN socket' = DOMAIN socket /\ socket'.down = Tail(socket.down)
      /\ UNCHANGED <<socket.up, socket.hungup>>
    BY <1>1 DEF Records
<1> DEFINE down == socket.down
<1>3. /\ Head(down) \in Frames /\ Tail(down) \in Seq(Frames)
      /\ Of(down, Replies) = {} => Of(Tail(down), Replies) = {} /\ Head(down).kind \notin Replies
      /\ (\A i, j \in Of(down, Replies) : i = j) =>
           /\ \A i, j \in Of(Tail(down), Replies) : i = j
           /\ Head(down).kind \in Replies => Of(Tail(down), Replies) = {}
      /\ \A i \in Of(Tail(down), Replies) : \E j \in Of(down, Replies) : Tail(down)[i] = down[j]
      /\ Head(down).kind \in Replies => \E j \in Of(down, Replies) : down[j] = Head(down)
      /\ Of(down, Words \ Hears) = {} =>
           Of(Tail(down), Words \ Hears) = {} /\ Head(down).kind \notin Words \ Hears
    BY <1>1, TailOf DEF Records
<1>4. /\ Requests' = Requests /\ Answering' = Answering
      /\ Coming' = Of(Tail(down), Replies) /\ Answered' = (Head(down).kind \in Replies)
    BY <1>1, <1>2 DEF Requests, Answering, Answered, Coming
<1>5. Records'
    BY <1>1, <1>2, <1>3 DEF Records
<1>6. NoAnswer => NoAnswer'
    BY <1>3, <1>4 DEF NoAnswer, Coming
<1>7. OneAnswer => OneAnswer'
  <2> SUFFICES ASSUME OneAnswer PROVE OneAnswer'
    OBVIOUS
  <2>1. /\ \A i, j \in Coming' : i = j
        /\ Answered' => Coming' = {}
    BY <1>3, <1>4 DEF OneAnswer, Coming
  <2>2. Answering' => /\ Coming' = {} /\ ~Answered'
                      /\ hub'.writing.kind = hub'.said
    BY <1>1, <1>3, <1>4 DEF OneAnswer, Coming
  <2>3. Answered' => reader'.frame.kind = hub'.said
    <3>1. \A j \in Of(down, Replies) : down[j].kind = hub.said
      BY DEF OneAnswer, Coming
    <3>2. Head(down).kind \in Replies => Head(down).kind = hub.said
      BY <1>3, <3>1
    <3> QED
      BY <1>1, <1>4, <3>2
  <2>4. \A i \in Coming' : socket'.down[i].kind = hub'.said
    <3> SUFFICES ASSUME NEW i \in Of(Tail(down), Replies) PROVE Tail(down)[i].kind = hub.said
      BY <1>1, <1>2, <1>4
    <3>1. PICK j \in Of(down, Replies) : Tail(down)[i] = down[j]
      BY <1>3
    <3> QED
      BY <3>1 DEF OneAnswer, Coming
  <2> QED
    BY <2>1, <2>2, <2>3, <2>4 DEF OneAnswer
<1>8. Conversation'
    BY <1>1, <1>4, <1>6, <1>7 DEF Conversation, Quiet
<1>9. Flags'
    BY <1>1, <1>2, <1>4, <1>6 DEF Flags, Asked, Quiet
<1>10. Ending'
    BY <1>1, <1>2, <1>3 DEF Ending, Answered, Frames
<1> QED
    BY <1>1, <1>2, <1>5, <1>8, <1>9, <1>10, OthersKeep


(* The answer is taken: the flags say what the hub said, and nothing more   *)
(* is on the way.                                                           *)
LEMMA ReaderTellsKeeps ==
    ASSUME Invariant, ReaderTells
    PROVE  Invariant'
<1> USE DEF Invariant
<1> DEFINE kind == reader.frame.kind
<1>1. /\ reader.at = "handle" /\ kind \in Replies /\ Running
      /\ g' = Told(reader.frame) /\ reader' = [at |-> "poll", frame |-> NoFrame]
      /\ UNCHANGED <<main, queues, socket, hub>>
    BY DEF ReaderTells, ReaderAt, Ending, Hears
<1>2. /\ main.at = "await" /\ main.call \in Asks
      /\ Requests = {} /\ ~hub.offered /\ hub.said = kind
      /\ ~Answering /\ Coming = {}
    BY <1>1 DEF Conversation, Quiet, NoAnswer, OneAnswer, Answered, Placed
<1>3. /\ reader'.frame.kind = None /\ reader'.frame \in Frames /\ reader'.at = "poll"
      /\ DOMAIN reader' = DOMAIN reader /\ ~Answered'
    BY <1>1, NoneAssumption DEF NoFrame, Frame, Frames, Words, Records, Answered, Replies
<1>4. Quiet' /\ NoAnswer'
    BY <1>1, <1>2, <1>3 DEF Quiet, NoAnswer, Requests, Coming, Answering
<1>5. /\ DOMAIN g' = DOMAIN g /\ g'.process = g.process /\ g'.shutdown = g.shutdown
      /\ kind = "Ack" => /\ g'.ack_err = None
                         /\ UNCHANGED <<g.channel_op, g.channel_got>>
      /\ kind \in {"ChannelAccept", "ChannelBusy"} =>
           /\ g'.ack_ok = g.ack_ok
           /\ \/ g'.channel_op = kind /\ g'.ack_err = None
              \/ UNCHANGED <<g.ack_err, g.channel_op, g.channel_got>>
      /\ kind = "Error" => /\ ~g'.ack_ok
                           /\ \/ g'.channel_op = "Error"
                              \/ g'.channel_op = g.channel_op /\ (g'.channel_got => g.channel_got)
  <2>1. CASE kind = "Ack"
    BY <1>1, <2>1 DEF Told, Records
  <2>2. CASE kind \in {"ChannelAccept", "ChannelBusy"}
    <3>1. CASE g.waiting_channel
      <4>1. g' = [g EXCEPT !.channel_got = TRUE, !.channel_op = kind, !.ack_err = None]
        BY <1>1, <2>2, <3>1 DEF Told
      <4> QED
        BY <2>2, <4>1 DEF Records
    <3>2. CASE ~g.waiting_channel
      <4>1. g' = g
        BY <1>1, <2>2, <3>2 DEF Told
      <4> QED
        BY <2>2, <4>1
    <3> QED
      BY <3>1, <3>2
  <2>3. CASE kind = "Error"
    <3>1. g' = [g EXCEPT !.ack_ok = FALSE, !.ack_err = "refused",
                         !.channel_got = g.channel_got \/ g.waiting_channel,
                         !.channel_op = IF g.waiting_channel THEN "Error" ELSE g.channel_op]
      BY <1>1, <2>3 DEF Told
    <3> QED
      BY <2>3, <3>1 DEF Records
  <2> QED
    BY <1>1, <2>1, <2>2, <2>3 DEF Replies
<1>6. Records'
    BY <1>1, <1>3, <1>5 DEF Records
<1>7. Conversation'
  <2>1. OneAnswer'
    BY <1>4 DEF NoAnswer, OneAnswer
  <2>2. Quiet' /\ hub'.said # None
    BY <1>1, <1>2, <1>4, NoneAssumption DEF Replies
  <2> QED
    BY <1>1, <1>2, <2>1, <2>2 DEF Conversation, Quiet
<1>8. Flags'
  <2>1. Asked /\ Asked' /\ main' = main /\ hub'.said = kind
    BY <1>1, <1>2 DEF Asked
  <2>2. CASE kind = "Ack"
    BY <1>1, <1>2, <1>4, <1>5, <2>1, <2>2 DEF Flags
  <2>3. CASE kind \in {"ChannelAccept", "ChannelBusy"}
    BY <1>1, <1>2, <1>4, <1>5, <2>1, <2>3 DEF Flags
  <2>4. CASE kind = "Error"
    BY <1>1, <1>2, <1>4, <1>5, <2>1, <2>4 DEF Flags
  <2> QED
    BY <1>1, <2>2, <2>3, <2>4 DEF Replies
<1>9. Ending'
    BY <1>1, <1>3, <1>5 DEF Ending
<1> QED
    BY <1>1, <1>5, <1>6, <1>7, <1>8, <1>9, OthersKeep

LEMMA ReaderDeliversKeeps ==
    ASSUME Invariant, ReaderDelivers
    PROVE  Invariant'
<1> USE DEF Invariant
<1>1. /\ reader.at = "handle" /\ reader.frame.kind = "Deliver" /\ Running
      /\ reader' = [at |-> "poll", frame |-> NoFrame]
      /\ UNCHANGED <<main, g, socket, hub>>
    BY DEF ReaderDelivers, ReaderAt
<1>2. /\ DOMAIN queues' = Inbound
      /\ \A side \in Inbound : /\ DOMAIN queues'[side] = {"there", "items", "closed"}
                               /\ queues'[side].closed = queues[side].closed
    BY DEF ReaderDelivers, ensure_queue, Inbound, Records
<1>3. /\ reader'.frame \in Frames /\ reader'.at = "poll"
      /\ DOMAIN reader' = DOMAIN reader /\ ~Answered' /\ ~Answered
    BY <1>1, NoneAssumption DEF NoFrame, Frame, Frames, Words, Records, Answered, Replies
<1>4. Records'
    BY <1>1, <1>2, <1>3 DEF Records
<1>5. UNCHANGED <<Requests, Coming, Answering>>
    BY <1>1 DEF Requests, Coming, Answering
<1>6. Conversation' /\ Flags'
    BY <1>1, <1>3, <1>5 DEF Conversation, Quiet, NoAnswer, OneAnswer, Flags, Asked
<1>7. Ending'
    BY <1>1, <1>2, <1>3 DEF Ending
<1> QED
    BY <1>1, <1>4, <1>6, <1>7, OthersKeep

(* The reader leaves after the hub or the program hung up, and says so.     *)
LEMMA ReaderLeavesKeeps ==
    ASSUME Invariant, ReaderStops \/ ReaderCloses \/ ReaderReports
    PROVE  Invariant'
<1> USE DEF Invariant
<1>1. /\ Running /\ UNCHANGED <<main, socket, hub>> /\ socket.hungup
      /\ \E place \in {"closing", "reporting", "ended"} : reader' = [reader EXCEPT !.at = place]
    BY DEF ReaderStops, ReaderCloses, ReaderReports, ReaderAt, Ending, Broken
<1>2. /\ DOMAIN reader' = DOMAIN reader /\ reader'.frame = reader.frame
      /\ reader'.at \in {"closing", "reporting", "ended"} /\ ~Answered
    BY <1>1 DEF Records, ReaderStops, ReaderCloses, ReaderReports, ReaderAt, Ending
<1>3. /\ DOMAIN queues' = Inbound
      /\ \A side \in Inbound : DOMAIN queues'[side] = {"there", "items", "closed"}
    BY DEF ReaderStops, ReaderCloses, ReaderReports, Records
<1>4. \/ UNCHANGED g
      \/ /\ DOMAIN g' = DOMAIN g /\ g'.process = g.process /\ g'.shutdown = g.shutdown
         /\ ~g'.ack_ok
         /\ \/ g'.channel_op = "Error"
            \/ g'.channel_op = g.channel_op /\ (g'.channel_got => g.channel_got)
  <2>1. CASE ReaderStops \/ ReaderCloses
    BY <2>1 DEF ReaderStops, ReaderCloses
  <2>2. CASE ReaderReports
    <3>1. g' = Disconnected(g)
      BY <2>2 DEF ReaderReports
    <3>2. CASE g.waiting_channel
      BY <3>1, <3>2 DEF Disconnected, Records
    <3>3. CASE ~g.waiting_channel
      <4>1. g' = [g EXCEPT !.ack_ok = FALSE, !.ack_err = "disconnected",
                           !.channel_got = g.channel_got \/ g.waiting_channel,
                           !.channel_op = g.channel_op]
        BY <3>1, <3>3 DEF Disconnected
      <4>2. g'.channel_got = (g.channel_got \/ g.waiting_channel) /\ g'.channel_op = g.channel_op
            /\ ~g'.ack_ok /\ DOMAIN g' = DOMAIN g /\ g'.process = g.process
            /\ g'.shutdown = g.shutdown
        BY <4>1 DEF Records
      <4> QED
        BY <3>3, <4>2 DEF Records
    <3> QED
      BY <3>2, <3>3
  <2> QED
    BY <2>1, <2>2
<1>5. Records' /\ g'.process = g.process /\ g'.shutdown = g.shutdown
    BY <1>1, <1>2, <1>3, <1>4 DEF Records
<1>6. UNCHANGED OnTheLine
    BY <1>1, <1>2 DEF OnTheLine
<1>7. Conversation'
    BY <1>1, <1>6, KeptConversation
<1>8. Flags'
  <2>1. UNCHANGED Quiet
    BY <1>6 DEF OnTheLine, Quiet, NoAnswer, Requests, Coming, Answering, Answered
  <2> QED
    BY <1>1, <1>4, <2>1 DEF Flags, Asked
<1>9. Ending'
    BY <1>1, <1>2, <1>5 DEF Ending, Answered
<1> QED
    BY <1>1, <1>5, <1>7, <1>8, <1>9, OthersKeep


-----------------------------------------------------------------------------
(* The hub                                                                  *)

LEMMA NoFrameSays ==
    NoFrame \in Frames /\ NoFrame.kind = None /\ None \notin Hears /\ None \notin Asks
  BY NoneAssumption DEF NoFrame, Frame, Frames, Words, Hears, Replies, Asks, Acknowledged

(* The hub answers what it was asked, and has not answered yet.             *)
LEMMA AnswersKeep ==
    ASSUME Invariant, Running, UNCHANGED Ours, hub.said = None, main.at = "await",
           NEW kind \in Replies, NEW side \in {"out", "in", "channel", None},
           ~socket.hungup, Requests' = {},
           DOMAIN hub' = DOMAIN hub, hub'.attached \subseteq Inbound, hub'.sent = hub.sent,
           hub'.writing = Frame(kind, side, None), hub'.said = kind, ~hub'.offered,
           DOMAIN socket' = DOMAIN socket, socket'.up \in Seq(Frames), socket'.down = socket.down,
           socket.hungup => socket'.hungup
    PROVE  Invariant'
<1> USE DEF Invariant
<1>1. hub'.writing \in Frames /\ hub'.writing.kind = kind /\ kind # None
    BY NoFrameSays DEF Frame, Frames, Words, Hears
<1>2. Records'
    BY <1>1 DEF Records, Ours
<1>3. Asked => /\ main.call \in Acknowledged => ~g.ack_ok
               /\ g.ack_err = None
               /\ main.call = "channel_offer" => ~g.channel_got /\ g.channel_op # "Error"
    BY NoneAssumption DEF Flags
<1>4. NoAnswer /\ UNCHANGED <<Coming, Answered>>
    BY DEF Conversation, Coming, Answered, Ours
<1>5. OneAnswer'
    BY <1>1, <1>4 DEF OneAnswer, NoAnswer
<1>6. Conversation'
    BY <1>1, <1>5 DEF Conversation, Ours
<1>7. Flags'
    BY <1>3 DEF Flags, Asked, Ours
<1>8. Ending'
    BY <1>1, <1>4 DEF Ending, Hears, Ours
<1>9. Placed' /\ AnswersAreOwn'
    BY OthersKeep DEF Ours
<1> QED
    BY <1>2, <1>6, <1>7, <1>8, <1>9

LEMMA HubReadsKeeps ==
    ASSUME Invariant, HubReads
    PROVE  Invariant'
<1> USE DEF Invariant
<1> DEFINE f == Head(socket.up)
<1>1. /\ Running /\ ~socket.hungup /\ hub.writing = NoFrame /\ socket.up # <<>>
      /\ UNCHANGED Ours
    BY DEF HubReads, HubIdle, HubThere
<1>2. /\ DOMAIN socket' = DOMAIN socket /\ socket'.up = Tail(socket.up)
      /\ socket'.down = socket.down
    BY DEF HubReads, Records
<1>3. /\ f \in Frames /\ Tail(socket.up) \in Seq(Frames)
      /\ Requests = {} => Requests' = {} /\ f.kind \notin Asks
      /\ (\A i, j \in Requests : i = j) =>
           /\ \A i, j \in Requests' : i = j
           /\ f.kind \in Asks => Requests' = {}
  <2>1. socket.up \in Seq(Frames)
    BY DEF Records
  <2>2. /\ f \in Frames /\ Tail(socket.up) \in Seq(Frames)
        /\ Of(socket.up, Asks) = {} => Of(Tail(socket.up), Asks) = {} /\ f.kind \notin Asks
        /\ (\A i, j \in Of(socket.up, Asks) : i = j) =>
             /\ \A i, j \in Of(Tail(socket.up), Asks) : i = j
             /\ f.kind \in Asks => Of(Tail(socket.up), Asks) = {}
    BY <1>1, <2>1, TailOf
  <2>3. Requests' = Of(Tail(socket.up), Asks)
    BY <1>2 DEF Requests
  <2> HIDE DEF f
  <2> QED
    BY <2>2, <2>3 DEF Requests
<1>4. f.kind \in Asks => /\ main.at = "await" /\ hub.said = None /\ ~hub.offered
                         /\ Requests' = {} /\ NoAnswer
    BY <1>3 DEF Conversation, Quiet
<1>5. UNCHANGED <<Coming, Answered>> /\ ~Answering
  <2>1. hub.writing.kind \notin Replies
    BY <1>1, NoFrameSays DEF Hears
  <2> QED
    BY <1>1, <1>2, <2>1 DEF Coming, Answered, Answering, Ours
<1>6. CASE f.kind \in Acknowledged
    <2>1. \/ Answers([hub EXCEPT !.attached =
                       IF f.kind = "attach" THEN @ \cup ({f.side} \cap Inbound) ELSE @],
                     "Ack", f.side)
          \/ Answers(hub, "Error", f.side)
        BY <1>6 DEF HubReads, Acknowledged
    <2>2. \E kind \in {"Ack", "Error"} :
            /\ DOMAIN hub' = DOMAIN hub /\ hub'.attached \subseteq Inbound
            /\ hub'.sent = hub.sent /\ hub'.offered = hub.offered
            /\ hub'.writing = Frame(kind, f.side, None) /\ hub'.said = kind
      <3> HIDE DEF f
      <3>1. CASE Answers(hub, "Error", f.side)
        <4>1. hub' = [hub EXCEPT !.writing = Frame("Error", f.side, None), !.said = "Error"]
          BY <3>1 DEF Answers
        <4> QED
          BY <4>1 DEF Records
      <3>2. CASE ~Answers(hub, "Error", f.side)
        <4> DEFINE known == IF f.kind = "attach" THEN hub.attached \cup ({f.side} \cap Inbound)
                                               ELSE hub.attached
        <4>1. known \subseteq Inbound
          BY DEF Records
        <4>2. hub' = [[hub EXCEPT !.attached = known] EXCEPT
                        !.writing = Frame("Ack", f.side, None), !.said = "Ack"]
          BY <2>1, <3>2 DEF Answers
        <4> HIDE DEF known
        <4> QED
          BY <4>1, <4>2 DEF Records
      <3> QED
        BY <3>1, <3>2
    <2>3. f.side \in {"out", "in", "channel", None} /\ f.kind \in Asks
        BY <1>3, <1>6 DEF Frames, Asks
    <2> QED
        BY <1>1, <1>2, <1>3, <1>4, <2>2, <2>3, AnswersKeep DEF Replies
<1>7. CASE f.kind \notin Acknowledged
    <2>1. /\ DOMAIN hub' = DOMAIN hub /\ hub'.attached \subseteq Inbound
          /\ hub'.sent = hub.sent /\ hub'.writing = hub.writing /\ hub'.said = hub.said
          /\ hub'.offered = hub.offered \/ f.kind = "channel_offer"
      <3>1. \/ f.kind = "channel_offer" /\ hub' = [hub EXCEPT !.offered = TRUE]
            \/ hub' = [hub EXCEPT !.attached = @ \ {f.side}]
            \/ hub' = hub
        BY <1>7 DEF HubReads
      <3> HIDE DEF f
      <3> QED
        BY <3>1 DEF Records
    <2>2. Records'
        BY <1>1, <1>2, <1>3, <2>1 DEF Records, Ours
    <2>3. UNCHANGED Answering
        BY <2>1 DEF Answering
    <2>4. NoAnswer' <=> NoAnswer
        BY <1>5, <2>3 DEF NoAnswer
    <2>5. OneAnswer => OneAnswer'
        BY <1>1, <1>2, <1>5, <2>1, <2>3 DEF OneAnswer, Ours
    <2>6. CASE f.kind = "channel_offer"
        <3>1. f.kind \in Asks
            BY <2>6 DEF Asks
        <3>2. Conversation'
            BY <1>1, <1>4, <2>1, <2>4, <3>1 DEF Conversation, Ours
        <3>3. Flags'
            BY <1>1, <1>4, <2>1, <3>1, NoneAssumption DEF Flags, Asked, Ours
        <3> QED
            BY <1>1, <1>2, <1>5, <2>1, <2>2, <3>2, <3>3, OthersKeep DEF Ending, Ours
    <2>7. CASE f.kind # "channel_offer"
        <3>1. hub'.offered = hub.offered
            BY <2>1, <2>7
        <3>2. Conversation'
            BY <1>1, <1>3, <2>1, <2>4, <2>5, <3>1 DEF Conversation, Quiet, Ours
        <3>3. Quiet => Quiet'
            BY <1>3, <2>4, <3>1 DEF Quiet
        <3>4. Flags'
            BY <1>1, <2>1, <3>3 DEF Flags, Asked, Ours
        <3> QED
            BY <1>1, <1>2, <1>5, <2>1, <2>2, <3>2, <3>4, OthersKeep DEF Ending, Ours
    <2> QED
        BY <2>6, <2>7
<1> QED
    BY <1>6, <1>7

(* An offer is decided: busy, or there is a peer to take it.                *)
LEMMA HubDecidesKeeps ==
    ASSUME Invariant, HubDecides
    PROVE  Invariant'
<1> USE DEF Invariant
<1>1. /\ Running /\ ~socket.hungup /\ hub.offered /\ UNCHANGED <<socket, Ours>>
    BY DEF HubDecides, HubIdle, HubThere
<1>2. PICK kind \in {"ChannelAccept", "ChannelBusy"} :
        Answers([hub EXCEPT !.offered = FALSE], kind, "channel")
    BY DEF HubDecides
<1>3. hub' = [[hub EXCEPT !.offered = FALSE] EXCEPT !.writing = Frame(kind, "channel", None),
                                                    !.said = kind]
    BY <1>2 DEF Answers
<1>4. /\ DOMAIN hub' = DOMAIN hub /\ hub'.attached = hub.attached /\ hub'.sent = hub.sent
      /\ hub'.writing = Frame(kind, "channel", None) /\ hub'.said = kind /\ ~hub'.offered
    BY <1>3 DEF Records
<1>5. hub.said = None /\ main.at = "await" /\ Requests = {}
    BY <1>1 DEF Conversation, Quiet
<1>6. Requests' = {} /\ hub'.attached \subseteq Inbound /\ socket'.up \in Seq(Frames)
    BY <1>1, <1>4, <1>5 DEF Requests, Records
<1> QED
    BY <1>1, <1>4, <1>5, <1>6, AnswersKeep DEF Replies

LEMMA HubDeliversKeeps ==
    ASSUME Invariant, HubDelivers
    PROVE  Invariant'
<1> USE DEF Invariant
<1>1. Running /\ hub.writing = NoFrame /\ UNCHANGED <<socket, Ours>>
    BY DEF HubDelivers, HubIdle, HubThere
<1>2. PICK side \in hub.attached :
        hub' = [hub EXCEPT !.sent[side] = @ + 1,
                           !.writing = Frame("Deliver", side, hub.sent[side] + 1)]
    BY DEF HubDelivers
<1>3. side \in Inbound /\ hub.sent[side] \in Nat
    BY DEF Records
<1>4. /\ DOMAIN hub' = DOMAIN hub /\ hub'.attached = hub.attached
      /\ hub'.sent = [hub.sent EXCEPT ![side] = @ + 1]
      /\ hub'.writing = Frame("Deliver", side, hub.sent[side] + 1)
      /\ hub'.offered = hub.offered /\ hub'.said = hub.said
    BY <1>2 DEF Records
<1>5. DOMAIN hub'.sent = Inbound /\ \A s \in Inbound : hub'.sent[s] \in Nat
    BY <1>3, <1>4 DEF Records
<1>6. hub'.writing \in Frames /\ hub'.writing.kind = "Deliver"
    BY <1>3, <1>4 DEF Frame, Frames, Words, Inbound
<1>7. Records'
    BY <1>1, <1>4, <1>5, <1>6 DEF Records, Ours
<1>8. ~Answering /\ ~Answering'
    BY <1>1, <1>6, NoFrameSays DEF Answering, Replies, Hears
<1>9. UNCHANGED <<Requests, Coming, Answered>>
    BY <1>1 DEF Requests, Coming, Answered, Ours
<1>10. Conversation' /\ Flags'
    BY <1>1, <1>4, <1>8, <1>9 DEF Conversation, Quiet, NoAnswer, OneAnswer, Flags, Asked, Ours
<1>11. Ending'
    BY <1>1, <1>6, <1>9 DEF Ending, Hears, Ours
<1> QED
    BY <1>1, <1>4, <1>7, <1>10, <1>11, OthersKeep DEF Ours

LEMMA HubWritesKeeps ==
    ASSUME Invariant, HubWrites
    PROVE  Invariant'
<1> USE DEF Invariant
<1> DEFINE down == socket.down
           w == hub.writing
<1>1. /\ Running /\ w # NoFrame /\ UNCHANGED Ours
      /\ socket' = [socket EXCEPT !.down = Append(@, w)]
      /\ hub' = [hub EXCEPT !.writing = NoFrame]
    BY DEF HubWrites, HubThere
<1>2. /\ DOMAIN socket' = DOMAIN socket /\ socket'.down = Append(down, w)
      /\ UNCHANGED <<socket.up, socket.hungup>>
      /\ DOMAIN hub' = DOMAIN hub /\ hub'.writing = NoFrame
      /\ UNCHANGED <<hub.attached, hub.sent, hub.offered, hub.said>>
    BY <1>1 DEF Records
<1>3. down \in Seq(Frames) /\ w \in Frames /\ w.kind \in Hears
    BY <1>1 DEF Records, Ending
<1>4. /\ socket'.down \in Seq(Frames)
      /\ w.kind \notin Replies => Coming' = Coming
      /\ w.kind \in Replies => Coming' = Coming \cup {Len(down) + 1}
      /\ \A i \in Coming : socket'.down[i] = down[i]
      /\ socket'.down[Len(down) + 1] = w
      /\ Of(socket'.down, Words \ Hears) = Of(down, Words \ Hears)
    BY <1>2, <1>3, AppendOf DEF Coming, Of
<1>5. Records'
    BY <1>1, <1>2, <1>4, NoFrameSays DEF Records, Ours
<1>6. /\ ~Answering' /\ UNCHANGED <<Requests, Answered>>
      /\ Answering <=> w.kind \in Replies
    BY <1>1, <1>2, NoFrameSays DEF Answering, Requests, Answered, Ours, Hears
<1>7. CASE w.kind \in Replies
    <2>1. /\ Answering /\ hub.said # None /\ OneAnswer /\ ~Quiet
        BY <1>6, <1>7 DEF Conversation, NoAnswer, Quiet
    <2>2. /\ Coming' = {Len(down) + 1} /\ ~Answered /\ w.kind = hub.said
        BY <1>4, <1>7, <2>1 DEF OneAnswer
    <2>3. OneAnswer'
        BY <1>2, <1>4, <1>6, <2>2 DEF OneAnswer
    <2>4. Conversation'
        BY <1>1, <1>2, <1>6, <2>1, <2>3 DEF Conversation, Ours
    <2>5. Flags'
        BY <1>1, <1>2, <2>1 DEF Flags, Asked, Ours
    <2> QED
        BY <1>1, <1>2, <1>4, <1>5, <1>6, <2>4, <2>5, OthersKeep DEF Ending, Ours
<1>8. CASE w.kind \notin Replies
    <2>1. Coming' = Coming /\ (NoAnswer => NoAnswer') /\ (Quiet => Quiet')
        BY <1>2, <1>4, <1>6, <1>8 DEF NoAnswer, Quiet
    <2>2. OneAnswer => OneAnswer'
        BY <1>1, <1>2, <1>4, <1>6, <2>1 DEF OneAnswer, Ours
    <2>3. Conversation'
        BY <1>1, <1>2, <1>6, <2>1, <2>2 DEF Conversation, Ours
    <2>4. Flags'
        BY <1>1, <1>2, <2>1 DEF Flags, Asked, Ours
    <2> QED
        BY <1>1, <1>2, <1>4, <1>5, <1>6, <2>3, <2>4, OthersKeep DEF Ending, Ours
<1> QED
    BY <1>7, <1>8

LEMMA HubLeavesKeeps ==
    ASSUME Invariant, HubGivesUp \/ HubDies
    PROVE  Invariant'
<1> USE DEF Invariant
<1>1. Running /\ socket' = [socket EXCEPT !.hungup = TRUE] /\ UNCHANGED <<hub, Ours>>
    BY DEF HubGivesUp, HubDies, HubThere
<1>2. /\ DOMAIN socket' = DOMAIN socket /\ UNCHANGED <<socket.up, socket.down>>
      /\ socket'.hungup
    BY <1>1 DEF Records
<1>3. Records'
    BY <1>1, <1>2 DEF Records, Ours
<1>4. UNCHANGED OnTheLine /\ UNCHANGED Learned
    BY <1>1, <1>2 DEF OnTheLine, Learned, Ours
<1>5. Conversation' /\ Flags'
    BY <1>1, <1>2, <1>4, KeptConversation, KeptFlags DEF Asked, Ours
<1>6. Ending'
    BY <1>1, <1>2 DEF Ending, Answered, Ours
<1> QED
    BY <1>1, <1>2, <1>3, <1>5, <1>6, OthersKeep DEF Ours


-----------------------------------------------------------------------------
LEMMA InitHolds == Init => Invariant
<1> SUFFICES ASSUME Init PROVE Invariant
    OBVIOUS
<1>1. <<>> \in Seq(Frames) /\ \A K : Of(<<>>, K) = {}
    BY DEF Of
<1>2. Records
    BY <1>1, NoFrameSays DEF Init, Records, NoTask, NoQueue, Words, Inbound
<1>3. Quiet /\ Coming = {} /\ ~Answering /\ ~Answered
    BY <1>1, NoFrameSays DEF Init, Quiet, NoAnswer, Requests, Coming, Answering, Answered, Hears
<1>4. Conversation /\ Flags
    BY <1>3 DEF Init, Conversation, Flags, Asked, Quiet, NoTask
<1>5. Ending
    BY <1>1, <1>3 DEF Init, Ending, NoQueue
<1>6. Placed /\ AnswersAreOwn
    BY NoneAssumption DEF Init, NoTask, Placed, AnswersAreOwn
<1> QED
    BY <1>2, <1>4, <1>5, <1>6 DEF Invariant

LEMMA NextKeeps ==
    ASSUME Invariant, [Next]_vars
    PROVE  Invariant'
<1>1. CASE Call \/ Exit \/ HangUp \/ Join
    BY <1>1, CallKeeps, ExitKeeps
<1>2. CASE SessionBegin \/ Lock \/ Write
    BY <1>2, SessionBeginKeeps, LockKeeps, WriteKeeps
<1>3. CASE AwaitAck \/ AwaitChannel \/ Find \/ Take \/ TakeNothing
    BY <1>3, AwaitAckKeeps, AwaitChannelKeeps, ReceiveKeeps
<1>4. CASE Reader
    BY <1>4, ReaderReadsKeeps, ReaderTellsKeeps, ReaderDeliversKeeps, ReaderLeavesKeeps DEF Reader
<1>5. CASE HubServes \/ HubDecides \/ HubDelivers \/ HubDies
    BY <1>5, HubReadsKeeps, HubDecidesKeeps, HubDeliversKeeps, HubWritesKeeps, HubLeavesKeeps
       DEF HubServes
<1>6. CASE UNCHANGED vars
  <2>1. UNCHANGED <<main, reader, g, queues, socket, hub>>
    BY <1>6 DEF vars
  <2>2. Records' /\ Placed' /\ AnswersAreOwn'
    BY <2>1 DEF Invariant, Records, Placed, SideOf, Running, AnswersAreOwn
  <2>3. UNCHANGED OnTheLine /\ UNCHANGED Learned /\ UNCHANGED AtTheEnd
    BY <2>1 DEF OnTheLine, Learned, AtTheEnd
  <2>4. Conversation' /\ Flags' /\ Ending'
    BY <2>1, <2>3, KeptConversation, KeptFlags, KeptEnding DEF Invariant, Asked
  <2> QED
    BY <2>2, <2>4 DEF Invariant
<1> QED
    BY <1>1, <1>2, <1>3, <1>4, <1>5, <1>6 DEF Next, Work

(***************************************************************************)
(* Whatever the handles, the bounds and the order of the two threads and   *)
(* the hub: where munx_pipe_open, munx_pipe_insert or munx_channel_insert  *)
(* returns, the hub has acknowledged this very request; where one aborts,  *)
(* the hub refused it, stayed busy for all attempts, or is gone.           *)
(***************************************************************************)
THEOREM OwnAnswers == Spec => []AnswersAreOwn
<1>1. Init => Invariant
    BY InitHolds
<1>2. Invariant /\ [Next]_vars => Invariant'
    BY NextKeeps
<1>3. Invariant => AnswersAreOwn
    BY DEF Invariant
<1> QED
    BY <1>1, <1>2, <1>3, PTL DEF Spec

-----------------------------------------------------------------------------
(* OrderKept.  The reader has a frame in hand only while it handles it, so  *)
(* what it reads next comes right behind what has arrived.                  *)

FromHub == 0..(Len(socket.down) + 1)
Order ==
  /\ DOMAIN got = Inbound
  /\ \A side \in Inbound : got[side] \in Seq(Nat) /\ queues[side].items \in Seq(Nat)
  /\ reader.at # "handle" => reader.frame = NoFrame
  /\ \A i \in FromHub : FrameAt(i).kind = "Deliver" =>
       FrameAt(i).of \in Nat /\ FrameAt(i).side \in Inbound
  /\ OrderKept

(* Until the program ends, whoever has a reader is connected: no second     *)
(* session begins on it.                                                    *)
Session == reader.at # "none" => g.connected \/ main.at = "join"

LEMMA SessionNext ==
    ASSUME Invariant, Session, [Next]_vars
    PROVE  Session'
<1>1. CASE SessionBegin
    BY <1>1 DEF SessionBegin, Session, Invariant, Records
<1>2. CASE HangUp
    BY <1>2 DEF HangUp, At, Session
<1>3. CASE ReaderStops \/ ReaderCloses \/ ReaderReports \/ ReaderReads \/ ReaderTells \/ ReaderDelivers
    <2>1. /\ reader.at # "none" /\ UNCHANGED main
          /\ g'.connected = g.connected
      <3>1. CASE ReaderStops \/ ReaderCloses \/ ReaderReads \/ ReaderDelivers
        BY <3>1, NoneAssumption DEF ReaderStops, ReaderCloses, ReaderReads, ReaderDelivers, ReaderAt
      <3>2. CASE ReaderReports
        BY <3>2 DEF ReaderReports, ReaderAt, Disconnected, Invariant, Records
      <3>3. CASE ReaderTells
        <4>1. reader.frame.kind \in Replies /\ g' = Told(reader.frame)
          BY <3>3 DEF ReaderTells, ReaderAt, Invariant, Ending, Hears
        <4>2. Told(reader.frame).connected = g.connected
          BY <4>1 DEF Told, Replies, Invariant, Records
        <4> QED
          BY <3>3, <4>1, <4>2 DEF ReaderTells, ReaderAt
      <3> QED
        BY <1>3, <3>1, <3>2, <3>3
    <2> QED
      BY <2>1 DEF Session
<1>4. CASE HubServes \/ HubDecides \/ HubDelivers \/ HubDies \/ UNCHANGED vars
    BY <1>4 DEF HubServes, HubReads, HubWrites, HubGivesUp, HubDecides, HubDelivers, HubDies, Ours,
           vars, Session
<1>5. CASE Call \/ Exit \/ Join \/ Lock \/ Write \/ AwaitAck \/ AwaitChannel \/ Find \/ Take \/ TakeNothing
    <2>1. UNCHANGED reader
      BY <1>5 DEF Call, Open, Insert, Extract, Close, Begins, Exit, Join, Lock, Write, AwaitAck,
             AwaitChannel, Find, Take, TakeNothing
    <2>2. main.at # "join" \/ UNCHANGED main
      BY <1>5 DEF Call, Open, Insert, Extract, Close, Begins, Exit, Join, Lock, Write, AwaitAck,
             AwaitChannel, Find, Take, TakeNothing, At
    <2>3. g'.connected = g.connected
      <3>1. CASE Call \/ Find \/ Take \/ TakeNothing
        BY <3>1 DEF Call, Open, Insert, Extract, Close, Begins, Find, Take, TakeNothing
      <3>2. CASE Exit \/ Join \/ Lock \/ Write
        BY <3>2 DEF Exit, Join, Lock, Write, Armed, ArmedForChannel, Invariant, Records
      <3>3. CASE AwaitAck \/ AwaitChannel
        <4>1. CASE AwaitAck
          BY <4>1 DEF AwaitAck, Aborts, Invariant, Records
        <4>2. CASE AwaitChannel
          <5> DEFINE settled == [[g EXCEPT !.waiting_channel = FALSE] EXCEPT !.channel_got = FALSE]
                     aborted == [[g EXCEPT !.waiting_channel = FALSE] EXCEPT !.process = "aborted"]
          <5>1. main.at = "await" /\ main.call = "channel_offer" /\ (g.channel_got \/ g.ack_err # None)
            BY <4>2 DEF AwaitChannel, At
          <5>2. \/ g.channel_op = "Error" \/ g.ack_err # None
                \/ g.channel_op \in {"ChannelAccept", "ChannelBusy"} /\ g.ack_err = None
            BY <5>1 DEF Invariant, Flags, Asked, Asks
          <5>3. \/ g' = settled \/ g' = aborted \/ g' = [settled EXCEPT !.process = "aborted"]
            BY <4>2, <5>2 DEF AwaitChannel, Aborts
          <5> QED
            BY <5>3 DEF Invariant, Records
        <4> QED
          BY <3>3, <4>1, <4>2
      <3> QED
        BY <1>5, <3>1, <3>2, <3>3
    <2> QED
      BY <2>1, <2>2, <2>3 DEF Session
<1> QED
    BY <1>1, <1>2, <1>3, <1>4, <1>5 DEF Next, Work, Reader

(* Steps that move no message: a frame that changes is no delivery.         *)
Items == [side \in Inbound |-> queues[side].items]
LEMMA OrderUnchanged ==
    ASSUME Order, UNCHANGED <<got, hub.sent, Items, Len(socket.down)>>,
           reader'.at # "handle" => reader'.frame = NoFrame,
           \A i \in FromHub :
              \/ FrameAt(i)' = FrameAt(i)
              \/ FrameAt(i).kind # "Deliver" /\ FrameAt(i)'.kind # "Deliver"
    PROVE  Order'
<1>1. \A side \in Inbound : queues'[side].items = queues[side].items
    BY DEF Items
<1>2. FromHub' = FromHub
    BY DEF FromHub
<1>3. \A side \in Inbound : OnTheWay(side)' = OnTheWay(side) /\ Arrived(side)' = Arrived(side)
    BY <1>1, <1>2 DEF OnTheWay, FromHub, Arrived
<1>4. \A side \in Inbound : \A i \in OnTheWay(side) : FrameAt(i)' = FrameAt(i)
    BY DEF OnTheWay, FromHub
<1>5. ASSUME NEW side \in Inbound PROVE InOrder(side)'
  <2>1. InOrder(side) /\ hub'.sent[side] = hub.sent[side]
    BY DEF Order, OrderKept
  <2>2. {FrameAt(i)'.of : i \in OnTheWay(side)} = {FrameAt(i).of : i \in OnTheWay(side)}
    BY <1>4
  <2> QED
    BY <1>3, <1>4, <2>1, <2>2 DEF InOrder
<1> QED
    BY <1>1, <1>2, <1>5 DEF Order, OrderKept

(* The frames that come are those that came, each at the place that m says. *)
LEMMA OrderMoved ==
    ASSUME NEW side \in Inbound, InOrder(side), NEW m,
           OnTheWay(side)' = {m[i] : i \in OnTheWay(side)},
           \A i \in OnTheWay(side) : FrameAt(m[i])' = FrameAt(i),
           \A i, j \in OnTheWay(side) : m[i] < m[j] => i < j,
           Arrived(side)' = Arrived(side), hub'.sent[side] = hub.sent[side]
    PROVE  InOrder(side)'
<1>1. {FrameAt(i)'.of : i \in OnTheWay(side)'} = {FrameAt(i).of : i \in OnTheWay(side)}
    OBVIOUS
<1>2. \A i, j \in OnTheWay(side)' : i < j => FrameAt(i)'.of < FrameAt(j)'.of
  <2> SUFFICES ASSUME NEW i \in OnTheWay(side), NEW j \in OnTheWay(side), m[i] < m[j]
               PROVE  FrameAt(m[i])'.of < FrameAt(m[j])'.of
    OBVIOUS
  <2> QED
    BY DEF InOrder
<1> QED
    BY <1>1, <1>2 DEF InOrder

LEMMA SameFramesKeepOrder ==
    ASSUME Order, UNCHANGED <<got, hub.sent, Items, socket.down, hub.writing, reader.frame>>,
           reader'.at # "handle" => reader.at # "handle"
    PROVE  Order'
<1>1. \A i : FrameAt(i)' = FrameAt(i)
    BY DEF FrameAt
<1> QED
    BY <1>1, OrderUnchanged DEF Order

LEMMA QuietStepsKeepOrder ==
    ASSUME Order, Session, Invariant,
           Call \/ Exit \/ HangUp \/ Join \/ SessionBegin \/ Lock \/ Write \/ AwaitAck
             \/ AwaitChannel \/ Find \/ TakeNothing \/ ReaderStops \/ ReaderCloses \/ ReaderReports
             \/ HubGivesUp \/ HubDies \/ UNCHANGED vars
    PROVE  Order'
<1>1. got' = got
    BY DEF Call, Open, Insert, Extract, Close, Begins, Exit, HangUp, Join, SessionBegin, Lock,
           Write, AwaitAck, AwaitChannel, Find, TakeNothing, ReaderStops, ReaderCloses,
           ReaderReports, HubGivesUp, HubDies, Ours, vars
<1>2. hub'.sent = hub.sent /\ hub'.writing = hub.writing
    BY DEF Call, Open, Insert, Extract, Close, Begins, Exit, HangUp, Join, SessionBegin, Lock,
           Write, AwaitAck, AwaitChannel, Find, TakeNothing, ReaderStops, ReaderCloses,
           ReaderReports, HubGivesUp, HubDies, Ours, vars, Invariant, Records
<1>3. socket'.down = socket.down
    BY DEF Call, Open, Insert, Extract, Close, Begins, Exit, HangUp, Join, SessionBegin, Lock,
           Write, AwaitAck, AwaitChannel, Find, TakeNothing, ReaderStops, ReaderCloses,
           ReaderReports, HubGivesUp, HubDies, Ours, vars, Invariant, Records
<1>4. reader'.frame = reader.frame /\ (reader'.at # "handle" => reader.at # "handle")
  <2>1. CASE SessionBegin
    <3>1. reader' = reader \/ (reader' = [reader EXCEPT !.at = "poll"] /\ ~g.connected)
      BY <2>1 DEF SessionBegin
    <3>2. reader.at = "handle" => g.connected
      BY <2>1 DEF Session, SessionBegin, At
    <3> QED
      BY <3>1, <3>2 DEF Invariant, Records
  <2>2. CASE ReaderStops \/ ReaderCloses \/ ReaderReports
    <3>1. /\ reader.at \in {"poll", "closing", "reporting"}
          /\ \E place : reader' = [reader EXCEPT !.at = place]
      BY <2>2 DEF ReaderStops, ReaderCloses, ReaderReports, ReaderAt
    <3> QED
      BY <3>1 DEF Invariant, Records
  <2>3. CASE ~(SessionBegin \/ ReaderStops \/ ReaderCloses \/ ReaderReports)
    <3>1. UNCHANGED reader
      BY <2>3 DEF Call, Open, Insert, Extract, Close, Begins, Exit, HangUp, Join, Lock,
             Write, AwaitAck, AwaitChannel, Find, TakeNothing, HubGivesUp, HubDies, Ours, vars
    <3> QED
      BY <3>1
  <2> QED
    BY <2>1, <2>2, <2>3
<1>5. \A side \in Inbound : queues'[side].items = queues[side].items
  <2>1. CASE Lock \/ Find \/ ReaderCloses
    <3>1. CASE ReaderCloses
      BY <3>1 DEF ReaderCloses, Invariant, Records
    <3>2. CASE Lock \/ Find
      <4>1. queues' = queues \/ \E side \in Inbound : queues' = [queues EXCEPT ![side].there = TRUE]
        BY <3>2 DEF Lock, Find, ensure_queue, Inbound
      <4> QED
        BY <4>1 DEF Invariant, Records
    <3> QED
      BY <2>1, <3>1, <3>2
  <2>2. CASE ~(Lock \/ Find \/ ReaderCloses)
    <3>1. UNCHANGED queues
      BY <2>2 DEF Call, Open, Insert, Extract, Close, Begins, Exit, HangUp, Join, SessionBegin,
           Write, AwaitAck, AwaitChannel, TakeNothing, ReaderStops,
           ReaderReports, HubGivesUp, HubDies, Ours, vars
    <3> QED
      BY <3>1
  <2> QED
    BY <2>1, <2>2
<1> QED
    BY <1>1, <1>2, <1>3, <1>4, <1>5, SameFramesKeepOrder DEF Items

(* The hub writes no delivery here, and the reader is told of none.         *)
LEMMA AnswersKeepOrder ==
    ASSUME Order, Invariant, HubReads \/ HubDecides \/ ReaderTells
    PROVE  Order'
<1> USE DEF Invariant
<1>1. got' = got /\ Items' = Items /\ hub'.sent = hub.sent /\ socket'.down = socket.down
  <2>1. CASE ReaderTells
    BY <2>1 DEF ReaderTells, Items
  <2>2. CASE HubReads \/ HubDecides
    BY <2>2 DEF HubReads, HubDecides, Ours, Items, Answers, Records
  <2> QED
    BY <2>1, <2>2
<1>2. \/ UNCHANGED hub /\ reader.frame.kind # "Deliver" /\ reader' = [at |-> "poll", frame |-> NoFrame]
      \/ UNCHANGED reader /\ hub'.writing = hub.writing
      \/ UNCHANGED reader /\ hub.writing = NoFrame /\ hub'.writing.kind # "Deliver"
  <2>1. CASE ReaderTells
    BY <2>1 DEF ReaderTells
  <2>2. CASE HubReads \/ HubDecides
    <3>1. UNCHANGED reader /\ hub.writing = NoFrame
      BY <2>2 DEF HubReads, HubDecides, HubIdle, Ours
    <3>2. ASSUME NEW known, NEW kind \in {"Ack", "Error", "ChannelAccept", "ChannelBusy"}, NEW side,
                 DOMAIN known = DOMAIN hub, Answers(known, kind, side)
          PROVE  hub'.writing.kind # "Deliver"
      BY <3>2 DEF Answers, Records, Frame
    <3>3. CASE HubDecides
      BY <3>1, <3>2, <3>3 DEF HubDecides, Records
    <3>4. CASE HubReads
      <4>1. CASE Head(socket.up).kind \in Acknowledged
        BY <3>1, <3>2, <3>4, <4>1 DEF HubReads, Records
      <4>2. CASE Head(socket.up).kind \notin Acknowledged
        <5>1. \/ hub' = [hub EXCEPT !.offered = TRUE]
              \/ hub' = [hub EXCEPT !.attached = @ \ {Head(socket.up).side}]
              \/ hub' = hub
          BY <3>4, <4>2 DEF HubReads
        <5> QED
          BY <3>1, <5>1 DEF Records
      <4> QED
        BY <4>1, <4>2
    <3> QED
      BY <2>2, <3>3, <3>4
  <2> QED
    BY <2>1, <2>2
<1>3. NoFrame.kind # "Deliver"
    BY NoFrameSays DEF Hears
<1>4. reader'.at # "handle" => reader'.frame = NoFrame
    BY <1>2 DEF Order
<1>5. \A i \in FromHub : \/ FrameAt(i)' = FrameAt(i)
                         \/ FrameAt(i).kind # "Deliver" /\ FrameAt(i)'.kind # "Deliver"
    BY <1>1, <1>2, <1>3 DEF FrameAt
<1> QED
    BY <1>1, <1>4, <1>5, OrderUnchanged

LEMMA CarriedOver ==
    ASSUME NEW a \in Seq(Nat), NEW q \in Seq(Nat), q # <<>>
    PROVE  /\ Append(a, Head(q)) \o Tail(q) = a \o q
           /\ Append(a, Head(q)) \in Seq(Nat) /\ Tail(q) \in Seq(Nat)
<1> DEFINE b == Append(a, Head(q))
           l == b \o Tail(q)
           r == a \o q
<1>1. /\ Head(q) \in Nat /\ Tail(q) \in Seq(Nat) /\ Len(Tail(q)) = Len(q) - 1 /\ Head(q) = q[1]
      /\ \A i \in 1..Len(Tail(q)) : Tail(q)[i] = q[i + 1]
      /\ Len(a) \in Nat /\ Len(q) \in Nat \ {0}
    BY HeadTailProperties, LenProperties, EmptySeq
<1>2. /\ b \in Seq(Nat) /\ Len(b) = Len(a) + 1 /\ b[Len(a) + 1] = q[1]
      /\ \A i \in 1..Len(a) : b[i] = a[i]
    BY <1>1, AppendProperties
<1> HIDE DEF b
<1>3. /\ l \in Seq(Nat) /\ Len(l) = Len(b) + Len(Tail(q))
      /\ \A i \in 1..(Len(b) + Len(Tail(q))) :
           l[i] = IF i <= Len(b) THEN b[i] ELSE Tail(q)[i - Len(b)]
    BY <1>1, <1>2, ConcatProperties
<1>4. /\ r \in Seq(Nat) /\ Len(r) = Len(a) + Len(q)
      /\ \A i \in 1..(Len(a) + Len(q)) : r[i] = IF i <= Len(a) THEN a[i] ELSE q[i - Len(a)]
    BY ConcatProperties
<1> HIDE DEF l, r
<1>5. Len(a) \in Nat /\ Len(Tail(q)) \in Nat
    BY <1>1, LenProperties
<1>6. PICK n \in Nat, k \in Nat : n = Len(a) /\ k = Len(Tail(q))
    BY <1>5
<1>7. Len(q) = k + 1 /\ Len(b) = n + 1
    BY <1>1, <1>2, <1>6
<1>8. Len(l) = Len(r)
    BY <1>3, <1>4, <1>6, <1>7
<1>9. ASSUME NEW i \in Nat, i >= 1, i <= n + (k + 1) PROVE l[i] = r[i]
  <2>1. CASE i <= n
    <3>1. i \in 1..(Len(a) + Len(q)) /\ i \in 1..(Len(b) + Len(Tail(q))) /\ i \in 1..Len(a) /\ i <= Len(b)
      BY <1>6, <1>7, <1>9, <2>1
    <3>2. l[i] = b[i] /\ r[i] = a[i]
      BY <1>3, <1>4, <3>1
    <3> QED
      BY <1>2, <3>1, <3>2
  <2>2. CASE i = n + 1
    <3>1. /\ i \in 1..(Len(a) + Len(q)) /\ i \in 1..(Len(b) + Len(Tail(q)))
          /\ ~(i <= Len(a)) /\ i <= Len(b) /\ i - Len(a) = 1 /\ i = Len(a) + 1
      BY <1>6, <1>7, <2>2
    <3> QED
      BY <1>2, <1>3, <1>4, <3>1
  <2>3. CASE i > n + 1
    <3>1. PICK j \in Nat : i = j + (n + 1) /\ j >= 1 /\ j <= k
      BY <1>9, <2>3
    <3>2. /\ i \in 1..(Len(a) + Len(q)) /\ i \in 1..(Len(b) + Len(Tail(q)))
          /\ ~(i <= Len(a)) /\ ~(i <= Len(b)) /\ i - Len(a) = j + 1 /\ i - Len(b) = j
          /\ j \in 1..Len(Tail(q))
      BY <1>6, <1>7, <3>1
    <3> QED
      BY <1>1, <1>3, <1>4, <3>2
  <2> QED
    BY <1>9, <2>1, <2>2, <2>3
<1>10. \A i \in 1..Len(r) : l[i] = r[i]
    BY <1>4, <1>6, <1>7, <1>9
<1>11. l = r
    BY <1>3, <1>4, <1>10, <1>8, SeqEqual
<1> QED
    BY <1>1, <1>2, <1>11 DEF b, l, r

(* What the program takes is the first of what has arrived.                 *)
LEMMA TakeKeepsOrder ==
    ASSUME Order, Invariant, Take
    PROVE  Order'
<1>0. PICK s, q : s = SideOf /\ q = queues[SideOf].items
    OBVIOUS
<1>1. /\ s \in Inbound /\ q # <<>> /\ UNCHANGED <<reader, socket, hub>> /\ q = queues[s].items
      /\ got' = [got EXCEPT ![s] = Append(@, Head(q))]
      /\ queues' = [queues EXCEPT ![s].items = Tail(q)]
    BY <1>0 DEF Take, At, Invariant, Placed
<1>2. got[s] \in Seq(Nat) /\ q \in Seq(Nat) /\ DOMAIN got = Inbound
    BY <1>1 DEF Order
<1>3. /\ got'[s] = Append(got[s], Head(q)) /\ queues'[s].items = Tail(q)
      /\ DOMAIN got' = Inbound
      /\ \A side \in Inbound : side # s =>
            got'[side] = got[side] /\ queues'[side].items = queues[side].items
    BY <1>1, <1>2 DEF Invariant, Records
<1>4. /\ Append(got[s], Head(q)) \o Tail(q) = got[s] \o q
      /\ Append(got[s], Head(q)) \in Seq(Nat) /\ Tail(q) \in Seq(Nat)
    BY <1>1, <1>2, CarriedOver
<1>5. \A side \in Inbound : Arrived(side)' = Arrived(side)
    BY <1>1, <1>3, <1>4 DEF Arrived
<1>6. FromHub' = FromHub /\ \A i : FrameAt(i)' = FrameAt(i)
    BY <1>1 DEF FromHub, FrameAt
<1>7. \A side \in Inbound : OnTheWay(side)' = OnTheWay(side)
    BY <1>1, <1>6 DEF OnTheWay
<1>8. ASSUME NEW side \in Inbound PROVE InOrder(side)'
  <2>1. InOrder(side) /\ hub'.sent[side] = hub.sent[side]
    BY <1>1 DEF Order, OrderKept
  <2>2. {FrameAt(i)'.of : i \in OnTheWay(side)} = {FrameAt(i).of : i \in OnTheWay(side)}
    BY <1>6
  <2> QED
    BY <1>5, <1>6, <1>7, <2>1, <2>2 DEF InOrder
<1>9. \A side \in Inbound : got'[side] \in Seq(Nat) /\ queues'[side].items \in Seq(Nat)
    BY <1>3, <1>4 DEF Order
<1> QED
    BY <1>1, <1>3, <1>6, <1>8, <1>9 DEF Order, OrderKept

(* The reader takes the first frame: all others move up.                    *)
LEMMA ReadsKeepOrder ==
    ASSUME Order, Invariant, ReaderReads
    PROVE  Order'
<1> DEFINE down == socket.down
<1>0. PICK n \in Nat : n = Len(down)
    BY LenProperties DEF Invariant, Records
<1>1. /\ down # <<>> /\ down \in Seq(Frames) /\ UNCHANGED <<hub, got, queues>>
      /\ reader'.at = "handle" /\ reader'.frame = Head(down) /\ socket'.down = Tail(down)
      /\ reader.frame = NoFrame
    BY DEF ReaderReads, ReaderAt, HasFrame, Invariant, Records, Order
<1>2. /\ n \in Nat \ {0} /\ DOMAIN down = 1..n /\ Len(Tail(down)) = n - 1
      /\ DOMAIN Tail(down) = 1..(n - 1) /\ Head(down) = down[1]
      /\ \A i \in 1..(n - 1) : Tail(down)[i] = down[i + 1]
    BY <1>0, <1>1, HeadTailProperties, LenProperties, EmptySeq
<1>3. FromHub = 0..(n + 1) /\ FromHub' = 0..n
    BY <1>0, <1>1, <1>2 DEF FromHub
<1>4. ASSUME NEW i \in 0..n PROVE FrameAt(i)' = FrameAt(i + 1)
  <2>1. CASE i = 0
    BY <1>1, <1>2, <2>1 DEF FrameAt
  <2>2. CASE i \in 1..(n - 1)
    <3>1. i # 0 /\ i + 1 # 0 /\ i + 1 \in DOMAIN down /\ i \in DOMAIN Tail(down)
      BY <1>2, <2>2
    <3> QED
      BY <1>1, <1>2, <2>2, <3>1 DEF FrameAt
  <2>3. CASE i = n /\ i # 0
    <3>1. i + 1 # 0 /\ i + 1 \notin DOMAIN down /\ i \notin DOMAIN Tail(down)
      BY <1>2, <2>3
    <3> QED
      BY <1>1, <2>3, <3>1 DEF FrameAt
  <2> QED
    BY <1>2, <2>1, <2>2, <2>3
<1>5. FrameAt(0).kind # "Deliver"
    BY <1>1, NoFrameSays DEF FrameAt, Hears
<1> DEFINE m == [i \in 1..(n + 1) |-> i - 1]
<1>6. ASSUME NEW side \in Inbound PROVE InOrder(side)'
  <2>1. OnTheWay(side) \subseteq 1..(n + 1)
    BY <1>2, <1>3, <1>5 DEF OnTheWay, FromHub
  <2>2. \A i \in OnTheWay(side) : m[i] = i - 1 /\ i - 1 \in 0..n /\ (i - 1) + 1 = i /\ i \in Nat
    BY <1>2, <2>1
  <2>3. \A i \in OnTheWay(side) : FrameAt(m[i])' = FrameAt(i)
    BY <1>4, <2>2
  <2>4. \A i, j \in OnTheWay(side) : m[i] < m[j] => i < j
    BY <2>2
  <2>5. OnTheWay(side)' = {m[i] : i \in OnTheWay(side)}
    <3>1. ASSUME NEW i \in OnTheWay(side)' PROVE \E j \in OnTheWay(side) : i = m[j]
      <4>1. i \in 0..n /\ FrameAt(i)'.kind = "Deliver" /\ FrameAt(i)'.side = side
        BY <1>3 DEF OnTheWay, FromHub
      <4>2. i + 1 \in 0..(n + 1) /\ i = (i + 1) - 1 /\ i + 1 \in 1..(n + 1)
        BY <1>2, <4>1
      <4>3. i + 1 \in OnTheWay(side)
        BY <1>3, <1>4, <4>1, <4>2 DEF OnTheWay, FromHub
      <4> QED
        BY <4>2, <4>3
    <3>2. ASSUME NEW j \in OnTheWay(side) PROVE m[j] \in OnTheWay(side)'
      <4>1. FrameAt(j).kind = "Deliver" /\ FrameAt(j).side = side
        BY DEF OnTheWay
      <4>2. m[j] \in 0..n /\ FrameAt(m[j])' = FrameAt(j)
        BY <2>2, <2>3
      <4> HIDE DEF m
      <4> QED
        BY <1>3, <4>1, <4>2 DEF OnTheWay, FromHub
    <3> HIDE DEF m
    <3> QED
      BY <3>1, <3>2
  <2>6. Arrived(side)' = Arrived(side) /\ hub'.sent[side] = hub.sent[side] /\ InOrder(side)
    BY <1>1 DEF Arrived, Order, OrderKept
  <2> HIDE DEF m
  <2> QED
    BY <2>3, <2>4, <2>5, <2>6, OrderMoved
<1>7. \A i \in FromHub' : FrameAt(i)'.kind = "Deliver" =>
         FrameAt(i)'.of \in Nat /\ FrameAt(i)'.side \in Inbound
  <2> SUFFICES ASSUME NEW i \in 0..n, FrameAt(i + 1).kind = "Deliver"
               PROVE  FrameAt(i + 1).of \in Nat /\ FrameAt(i + 1).side \in Inbound
    BY <1>3, <1>4
  <2>1. i + 1 \in FromHub
    BY <1>2, <1>3
  <2> QED
    BY <2>1 DEF Order
<1> QED
    BY <1>1, <1>6, <1>7 DEF Order, OrderKept

(* The reader's frame is the next message: it comes behind those in the     *)
(* queue.                                                                   *)
LEMMA DeliversKeepOrder ==
    ASSUME Order, Invariant, ReaderDelivers
    PROVE  Order'
<1>0. PICK f, s : f = reader.frame /\ s = f.side
    OBVIOUS
<1> DEFINE q == queues[s].items
<1>1. /\ f.kind = "Deliver" /\ UNCHANGED <<socket, hub, got>>
      /\ reader' = [at |-> "poll", frame |-> NoFrame]
      /\ queues' = [ensure_queue(s) EXCEPT ![s].items = Append(@, f.of)]
    BY <1>0 DEF ReaderDelivers, enqueue_delivery
<1>2. 0 \in FromHub /\ FrameAt(0) = f /\ FromHub' = FromHub
    BY <1>0, <1>1, LenProperties DEF FromHub, FrameAt, Invariant, Records
<1>3. s \in Inbound /\ f.of \in Nat /\ 0 \in OnTheWay(s)
    BY <1>0, <1>1, <1>2 DEF Order, OnTheWay, FromHub
<1>4. /\ queues'[s].items = Append(q, f.of)
      /\ \A side \in Inbound : side # s => queues'[side].items = queues[side].items
    BY <1>1, <1>3 DEF ensure_queue, Invariant, Records
<1>5. got[s] \in Seq(Nat) /\ q \in Seq(Nat)
    BY <1>3 DEF Order
<1>6. /\ Arrived(s) \in Seq(Nat) /\ Arrived(s)' = Append(Arrived(s), f.of)
      /\ Append(q, f.of) \in Seq(Nat)
  <2>0. PICK a, p, u, v : a = got[s] /\ p = q /\ v = f.of /\ u = <<v>>
    OBVIOUS
  <2>1. a \in Seq(Nat) /\ p \in Seq(Nat) /\ v \in Nat /\ u \in Seq(Nat)
    BY <1>3, <1>5, <2>0
  <2>2. Append(p, v) = p \o u /\ a \o p \in Seq(Nat) /\ Append(p, v) \in Seq(Nat)
    BY <2>0, <2>1, AppendIsConcat, ConcatProperties, AppendProperties
  <2>3. a \o (p \o u) = (a \o p) \o u
    BY <2>1, ConcatAssociative, SMTT(30)
  <2>4. (a \o p) \o u = Append(a \o p, v)
    BY <2>0, <2>1, <2>2, AppendIsConcat
  <2>5. a \o Append(p, v) = Append(a \o p, v)
    BY <2>2, <2>3, <2>4
  <2>6. Arrived(s) = a \o p /\ Arrived(s)' = a \o Append(p, v)
    BY <1>1, <1>4, <2>0 DEF Arrived
  <2> QED
    BY <2>0, <2>2, <2>5, <2>6, Zenon
<1>7. \A i \in FromHub : i # 0 => FrameAt(i)' = FrameAt(i)
    BY <1>1 DEF FrameAt
<1>8. FrameAt(0)'.kind # "Deliver"
  <2>1. 0 \notin DOMAIN socket'.down
    BY <1>1, LenProperties DEF Invariant, Records
  <2> QED
    BY <1>1, <2>1, NoFrameSays DEF FrameAt, Hears
<1>9. /\ OnTheWay(s)' = OnTheWay(s) \ {0}
      /\ \A side \in Inbound : side # s => OnTheWay(side)' = OnTheWay(side) /\ 0 \notin OnTheWay(side)
  <2>1. \A side : OnTheWay(side) = {i \in FromHub : FrameAt(i).kind = "Deliver" /\ FrameAt(i).side = side}
    BY DEF OnTheWay, FromHub
  <2>2. \A side : OnTheWay(side)' = {i \in FromHub' : FrameAt(i)'.kind = "Deliver" /\ FrameAt(i)'.side = side}
    BY DEF OnTheWay, FromHub
  <2>3. OnTheWay(s)' = OnTheWay(s) \ {0}
    BY <1>2, <1>7, <1>8, <2>1, <2>2
  <2>4. ASSUME NEW side \in Inbound, side # s
        PROVE  OnTheWay(side)' = OnTheWay(side) /\ 0 \notin OnTheWay(side)
    <3>1. 0 \notin OnTheWay(side) /\ 0 \notin OnTheWay(side)'
      BY <1>0, <1>2, <1>8, <2>1, <2>2, <2>4
    <3> QED
      BY <1>2, <1>7, <2>1, <2>2, <3>1
  <2> QED
    BY <2>3, <2>4
<1>10. \A i \in OnTheWay(s) : i \in FromHub /\ i \in Nat /\ FrameAt(i).of \in Nat
    BY DEF OnTheWay, FromHub, Order
<1>11. ASSUME NEW side \in Inbound, side # s PROVE InOrder(side)'
  <2>1. InOrder(side) /\ Arrived(side)' = Arrived(side) /\ hub'.sent[side] = hub.sent[side]
    BY <1>1, <1>4, <1>11 DEF Order, OrderKept, Arrived
  <2>2. \A i \in OnTheWay(side) : FrameAt(i)' = FrameAt(i)
    BY <1>7, <1>9, <1>11 DEF OnTheWay, FromHub
  <2>3. OnTheWay(side)' = OnTheWay(side)
    BY <1>9, <1>11
  <2>4. {FrameAt(i)'.of : i \in OnTheWay(side)} = {FrameAt(i).of : i \in OnTheWay(side)}
    BY <2>2
  <2> QED
    BY <2>1, <2>2, <2>3, <2>4 DEF InOrder
<1>12. InOrder(s)'
  <2>0. PICK k, Ofs : k = Len(Arrived(s)) /\ Ofs = {FrameAt(i).of : i \in OnTheWay(s)}
    OBVIOUS
  <2>1. InOrder(s) /\ hub'.sent = hub.sent /\ hub.sent[s] \in Nat
    BY <1>1, <1>3 DEF Order, OrderKept, Invariant, Records
  <2>2. k \in Nat /\ Arrived(s) = [i \in 1..k |-> i] /\ Ofs = (k + 1)..hub.sent[s]
    BY <1>6, <2>0, <2>1, LenProperties DEF InOrder
  <2>3. f.of \in Ofs
    BY <1>2, <1>3, <2>0
  <2>4. \A i \in OnTheWay(s) : i # 0 => f.of < FrameAt(i).of
    <3>1. \A i \in OnTheWay(s) : i # 0 => 0 < i
      BY <1>10
    <3> QED
      BY <1>2, <1>3, <2>1, <3>1 DEF InOrder
  <2>5. \A x \in Ofs : x = f.of \/ f.of < x
    BY <1>2, <2>0, <2>4
  <2>6. f.of = k + 1
    <3>1. k + 1 \in Ofs
      BY <1>3, <2>1, <2>2, <2>3
    <3> QED
      BY <1>3, <2>1, <2>2, <2>3, <2>5, <3>1
  <2>7. {FrameAt(i)'.of : i \in OnTheWay(s)'} = Ofs \ {f.of}
    <3>1. \A i \in OnTheWay(s) \ {0} : FrameAt(i)' = FrameAt(i) /\ FrameAt(i).of # f.of
      <4>1. \A i \in OnTheWay(s) : i # 0 => FrameAt(i).of # f.of
        BY <1>3, <1>10, <2>4
      <4> QED
        BY <1>7, <1>10, <4>1
    <3> QED
      BY <1>2, <1>9, <2>0, <3>1
  <2>8. Ofs \ {f.of} = (k + 2)..hub.sent[s]
    BY <2>1, <2>2, <2>6
  <2>13. k + 1 <= hub.sent[s]
    BY <1>9, <2>0, <2>1, <2>2, <2>3, <2>6
  <2>9. Len(Arrived(s)') = k + 1 /\ Arrived(s)' = [i \in 1..(k + 1) |-> i]
    <3>0. PICK a, b : a = Arrived(s) /\ b = Arrived(s)'
      OBVIOUS
    <3>1. k = Len(a) /\ a \in Seq(Nat) /\ b = Append(a, k + 1) /\ a = [i \in 1..k |-> i]
      BY <1>6, <2>0, <2>2, <2>6, <3>0
    <3>2. /\ b \in Seq(Nat) /\ Len(b) = k + 1 /\ b[k + 1] = k + 1
          /\ \A i \in 1..k : b[i] = a[i]
      BY <2>2, <3>1, AppendProperties
    <3>3. b = [i \in 1..(k + 1) |-> b[i]]
      BY <3>2, LenProperties
    <3>4. \A i \in 1..(k + 1) : b[i] = i
      BY <2>2, <3>1, <3>2
    <3> QED
      BY <3>0, <3>2, <3>3, <3>4
  <2>10. \A i, j \in OnTheWay(s)' : i < j => FrameAt(i)'.of < FrameAt(j)'.of
    <3>1. \A i \in OnTheWay(s) \ {0} : FrameAt(i)' = FrameAt(i)
      BY <1>7, <1>10
    <3> QED
      BY <1>9, <2>1, <3>1 DEF InOrder
  <2>11. (k + 1) + 1 = k + 2
    BY <2>2
  <2>12. {FrameAt(i)'.of : i \in OnTheWay(s)'} = ((k + 1) + 1)..hub'.sent[s]
    BY <2>1, <2>7, <2>8, <2>11
  <2> QED
    BY <2>1, <2>9, <2>10, <2>12, <2>13 DEF InOrder
<1>13. \A side \in Inbound : got'[side] \in Seq(Nat) /\ queues'[side].items \in Seq(Nat)
    BY <1>1, <1>4, <1>6 DEF Order
<1>14. \A i \in FromHub' : FrameAt(i)'.kind = "Deliver" =>
          FrameAt(i)'.of \in Nat /\ FrameAt(i)'.side \in Inbound
    BY <1>2, <1>7, <1>8 DEF Order
<1> QED
    BY <1>1, <1>11, <1>12, <1>13, <1>14 DEF Order, OrderKept

(* The message the hub begins to write is the next one of its queue.        *)
LEMMA HubDeliversKeepsOrder ==
    ASSUME Order, Invariant, HubDelivers
    PROVE  Order'
<1>0. PICK z \in Nat : z = Len(socket.down) + 1
    BY LenProperties DEF Invariant, Records
<1>1. hub.writing = NoFrame /\ UNCHANGED <<socket, reader, queues, got>>
    BY DEF HubDelivers, HubIdle, Ours
<1>2. PICK s \in hub.attached :
        hub' = [hub EXCEPT !.sent[s] = @ + 1,
                           !.writing = Frame("Deliver", s, hub.sent[s] + 1)]
    BY DEF HubDelivers
<1>3. s \in Inbound /\ hub.sent[s] \in Nat /\ z \in Nat /\ z # 0 /\ z \notin DOMAIN socket.down
    BY <1>0, LenProperties DEF Invariant, Records
<1>4. /\ hub'.writing = Frame("Deliver", s, hub.sent[s] + 1)
      /\ hub'.sent[s] = hub.sent[s] + 1
      /\ \A side \in Inbound : side # s => hub'.sent[side] = hub.sent[side]
    BY <1>2, <1>3 DEF Invariant, Records
<1>5. /\ FromHub' = FromHub /\ FromHub = 0..z /\ z \in FromHub
      /\ FrameAt(z).kind # "Deliver" /\ FrameAt(z)' = Frame("Deliver", s, hub.sent[s] + 1)
    BY <1>0, <1>1, <1>3, <1>4, NoFrameSays DEF FromHub, FrameAt, Hears
<1>6. \A i \in FromHub : i # z => i \in Nat /\ i < z /\ FrameAt(i)' = FrameAt(i)
  <2>1. \A i \in FromHub : i # z => i \in Nat /\ i < z /\ (i = 0 \/ i \in DOMAIN socket.down)
    BY <1>0, <1>3, <1>5, LenProperties DEF Invariant, Records
  <2> QED
    BY <1>1, <2>1 DEF FrameAt
<1>7. /\ OnTheWay(s)' = OnTheWay(s) \cup {z} /\ z \notin OnTheWay(s)
      /\ \A side \in Inbound : side # s => OnTheWay(side)' = OnTheWay(side)
      /\ \A side \in Inbound : z \notin OnTheWay(side) /\ OnTheWay(side) \subseteq FromHub
  <2>1. \A side : OnTheWay(side) = {i \in FromHub : FrameAt(i).kind = "Deliver" /\ FrameAt(i).side = side}
    BY DEF OnTheWay, FromHub
  <2>2. \A side : OnTheWay(side)' = {i \in FromHub' : FrameAt(i)'.kind = "Deliver" /\ FrameAt(i)'.side = side}
    BY DEF OnTheWay, FromHub
  <2>3. \A side \in Inbound : z \in OnTheWay(side)' <=> side = s
    BY <1>5, <2>2 DEF Frame
  <2>4. \A side \in Inbound : \A i : i # z => (i \in OnTheWay(side)' <=> i \in OnTheWay(side))
    BY <1>5, <1>6, <2>1, <2>2
  <2>5. \A side \in Inbound : z \notin OnTheWay(side) /\ OnTheWay(side) \subseteq FromHub
    BY <1>5, <2>1
  <2>6. \A side \in Inbound : \A i : i \in OnTheWay(side)' <=> i \in OnTheWay(side) \/ (i = z /\ side = s)
    BY <2>3, <2>4, <2>5
  <2>7. ASSUME NEW side \in Inbound, side # s PROVE OnTheWay(side)' = OnTheWay(side)
    BY <2>6, <2>7
  <2>8. OnTheWay(s)' = OnTheWay(s) \cup {z}
    BY <1>3, <2>6
  <2> QED
    BY <1>3, <2>5, <2>7, <2>8
<1>8. \A side \in Inbound : \A i \in OnTheWay(side) : FrameAt(i)' = FrameAt(i) /\ i < z /\ i \in Nat
    BY <1>6, <1>7
<1>9. \A side \in Inbound : /\ Arrived(side)' = Arrived(side) /\ InOrder(side)
                            /\ Arrived(side) \in Seq(Nat)
  <2>1. \A side \in Inbound : /\ Arrived(side)' = Arrived(side) /\ InOrder(side)
                              /\ got[side] \in Seq(Nat) /\ queues[side].items \in Seq(Nat)
    BY <1>1 DEF Arrived, Order, OrderKept
  <2> QED
    BY <2>1, ConcatProperties DEF Arrived
<1>10. ASSUME NEW side \in Inbound, side # s PROVE InOrder(side)'
  <2>1. OnTheWay(side)' = OnTheWay(side) /\ hub'.sent[side] = hub.sent[side]
    BY <1>4, <1>7, <1>10
  <2>2. {FrameAt(i)'.of : i \in OnTheWay(side)} = {FrameAt(i).of : i \in OnTheWay(side)}
    BY <1>8
  <2> QED
    BY <1>8, <1>9, <2>1, <2>2, SMTT(30) DEF InOrder
<1>11. InOrder(s)'
  <2>0. PICK k, n, Ofs : /\ k = Len(Arrived(s)) /\ n = hub.sent[s]
                         /\ Ofs = {FrameAt(i).of : i \in OnTheWay(s)}
    OBVIOUS
  <2>1. k \in Nat /\ n \in Nat
    BY <1>3, <1>9, <2>0, LenProperties
  <2>2. Arrived(s) = [i \in 1..k |-> i] /\ Ofs = (k + 1)..n /\ k <= n
    BY <1>3, <1>9, <2>0 DEF InOrder
  <2>3. /\ hub'.sent[s] = n + 1 /\ FrameAt(z)'.of = n + 1
        /\ Arrived(s)' = Arrived(s)
    BY <1>3, <1>4, <1>5, <1>9, <2>0 DEF Frame
  <2>4. {FrameAt(i)'.of : i \in OnTheWay(s)'} = Ofs \cup {n + 1}
    <3>1. {FrameAt(i)'.of : i \in OnTheWay(s) \cup {z}} = {FrameAt(i).of : i \in OnTheWay(s)} \cup {FrameAt(z)'.of}
      <4>1. \A i \in OnTheWay(s) : FrameAt(i)' = FrameAt(i)
        BY <1>3, <1>8
      <4> QED
        BY <4>1
    <3> QED
      BY <1>7, <2>0, <2>3, <3>1
  <2>5. Ofs \cup {n + 1} = (k + 1)..(n + 1)
    BY <2>1, <2>2
  <2>6. \A i \in OnTheWay(s) : FrameAt(i)'.of < n + 1
    <3>1. \A i \in OnTheWay(s) : FrameAt(i).of \in (k + 1)..n
      BY <2>0, <2>2
    <3> QED
      BY <1>3, <1>8, <2>1, <3>1
  <2>7. \A i, j \in OnTheWay(s)' : i < j => FrameAt(i)'.of < FrameAt(j)'.of
    <3> SUFFICES ASSUME NEW i \in OnTheWay(s) \cup {z}, NEW j \in OnTheWay(s) \cup {z}, i < j
                 PROVE  FrameAt(i)'.of < FrameAt(j)'.of
      BY <1>7
    <3>1. i # z
      BY <1>3, <1>8
    <3>2. CASE j = z
      BY <2>3, <2>6, <3>1, <3>2
    <3>3. CASE j # z
      <4>1. i \in OnTheWay(s) /\ j \in OnTheWay(s) /\ InOrder(s)
        BY <1>3, <1>9, <3>1, <3>3
      <4>2. FrameAt(i).of < FrameAt(j).of
        BY <4>1 DEF InOrder
      <4> QED
        BY <1>3, <1>8, <4>1, <4>2
    <3> QED
      BY <3>2, <3>3
  <2>8. k <= n + 1
    BY <2>1, <2>2
  <2>9. {FrameAt(i)'.of : i \in OnTheWay(s)'} = (k + 1)..hub'.sent[s]
    BY <2>3, <2>4, <2>5
  <2>10. Len(Arrived(s)') = k /\ Arrived(s)' = [i \in 1..k |-> i] /\ k <= hub'.sent[s]
    BY <2>0, <2>2, <2>3, <2>8
  <2> QED
    BY <2>7, <2>9, <2>10 DEF InOrder
<1>12. \A i \in FromHub' : FrameAt(i)'.kind = "Deliver" =>
          FrameAt(i)'.of \in Nat /\ FrameAt(i)'.side \in Inbound
  <2>1. FrameAt(z)'.of \in Nat /\ FrameAt(z)'.side \in Inbound
    BY <1>3, <1>5 DEF Frame
  <2> QED
    BY <1>5, <1>6, <2>1 DEF Order
<1> QED
    BY <1>1, <1>10, <1>11, <1>12 DEF Order, OrderKept

(* The frame goes from the hub's hand to the end of the socket: it keeps    *)
(* its place.                                                               *)
LEMMA HubWritesKeepsOrder ==
    ASSUME Order, Invariant, HubWrites
    PROVE  Order'
<1> DEFINE down == socket.down
           w == hub.writing
<1>0. PICK n \in Nat : n = Len(down)
    BY LenProperties DEF Invariant, Records
<1>1. /\ UNCHANGED <<reader, queues, got, hub.sent>> /\ hub'.writing = NoFrame
      /\ socket'.down = Append(down, w) /\ down \in Seq(Frames) /\ w \in Frames
    BY DEF HubWrites, Ours, Invariant, Records
<1>2. /\ n \in Nat /\ DOMAIN down = 1..n /\ DOMAIN Append(down, w) = 1..(n + 1)
      /\ Len(Append(down, w)) = n + 1
      /\ \A i \in 1..n : Append(down, w)[i] = down[i]
      /\ Append(down, w)[n + 1] = w
    BY <1>0, <1>1, AppendProperties, LenProperties
<1>3. FromHub = 0..(n + 1) /\ FromHub' = 0..((n + 1) + 1) /\ (n + 1) + 1 \notin 0..(n + 1)
    BY <1>0, <1>1, <1>2 DEF FromHub
<1>4. ASSUME NEW i \in 0..(n + 1) PROVE FrameAt(i)' = FrameAt(i)
  <2>1. CASE i = 0
    BY <1>1, <2>1 DEF FrameAt
  <2>2. CASE i \in 1..n
    <3>1. i # 0 /\ i \in DOMAIN down /\ i \in DOMAIN Append(down, w)
      BY <1>2, <2>2
    <3> QED
      BY <1>1, <1>2, <2>2, <3>1 DEF FrameAt
  <2>3. CASE i = n + 1
    <3>1. i # 0 /\ i \notin DOMAIN down /\ i \in DOMAIN Append(down, w)
      BY <1>2, <2>3
    <3> QED
      BY <1>1, <1>2, <2>3, <3>1 DEF FrameAt
  <2> QED
    BY <1>2, <2>1, <2>2, <2>3
<1>5. FrameAt((n + 1) + 1)'.kind # "Deliver"
  <2>1. (n + 1) + 1 # 0 /\ (n + 1) + 1 \notin DOMAIN Append(down, w)
    BY <1>2
  <2> QED
    BY <1>1, <2>1, NoFrameSays DEF FrameAt, Hears
<1>6. \A i \in FromHub' : i \in FromHub \/ FrameAt(i)'.kind # "Deliver"
    BY <1>2, <1>3, <1>5
<1>7. FromHub \subseteq FromHub'
    BY <1>2, <1>3
<1>8. ASSUME NEW side \in Inbound PROVE InOrder(side)'
  <2>1. OnTheWay(side)' = OnTheWay(side)
    <3>1. OnTheWay(side) = {i \in FromHub : FrameAt(i).kind = "Deliver" /\ FrameAt(i).side = side}
      BY DEF OnTheWay, FromHub
    <3>2. OnTheWay(side)' = {i \in FromHub' : FrameAt(i)'.kind = "Deliver" /\ FrameAt(i)'.side = side}
      BY DEF OnTheWay, FromHub
    <3>3. \A i \in FromHub : FrameAt(i)' = FrameAt(i)
      BY <1>3, <1>4
    <3> QED
      BY <1>6, <1>7, <3>1, <3>2, <3>3
  <2>2. \A i \in OnTheWay(side) : FrameAt(i)' = FrameAt(i)
    BY <1>3, <1>4 DEF OnTheWay, FromHub
  <2>3. Arrived(side)' = Arrived(side) /\ InOrder(side) /\ hub'.sent[side] = hub.sent[side]
    BY <1>1 DEF Arrived, Order, OrderKept
  <2>4. {FrameAt(i)'.of : i \in OnTheWay(side)} = {FrameAt(i).of : i \in OnTheWay(side)}
    BY <2>2
  <2> QED
    BY <2>1, <2>2, <2>3, <2>4 DEF InOrder
<1>9. \A i \in FromHub' : FrameAt(i)'.kind = "Deliver" =>
         FrameAt(i)'.of \in Nat /\ FrameAt(i)'.side \in Inbound
    BY <1>3, <1>4, <1>6 DEF Order
<1> QED
    BY <1>1, <1>8, <1>9 DEF Order, OrderKept

LEMMA InitOrder == Init => Order
<1> SUFFICES ASSUME Init PROVE Order
    OBVIOUS
<1>1. /\ \A side \in Inbound : got[side] = <<>> /\ queues[side].items = <<>> /\ hub.sent[side] = 0
      /\ DOMAIN got = Inbound /\ reader.frame = NoFrame /\ socket.down = <<>> /\ hub.writing = NoFrame
    BY DEF Init, NoQueue
<1>2. \A i : FrameAt(i).kind # "Deliver"
    BY <1>1, NoFrameSays DEF FrameAt, Hears
<1>3. \A side \in Inbound : OnTheWay(side) = {} /\ Arrived(side) = <<>>
    BY <1>1, <1>2 DEF OnTheWay, Arrived
<1>4. \A side \in Inbound : InOrder(side)
  <2>1. Len(<<>>) = 0 /\ 0 <= 0 /\ 0 + 1 = 1
    OBVIOUS
  <2>2. <<>> = [i \in 1..0 |-> i] /\ 1..0 = {}
    OBVIOUS
  <2> SUFFICES ASSUME NEW side \in Inbound PROVE InOrder(side)
    OBVIOUS
  <2>3. /\ OnTheWay(side) = {} /\ Arrived(side) = <<>> /\ hub.sent[side] = 0
    BY <1>1, <1>3
  <2>4. Len(Arrived(side)) = 0 /\ {FrameAt(i).of : i \in OnTheWay(side)} = {}
    BY <2>1, <2>3
  <2>5. Arrived(side) = [i \in 1..Len(Arrived(side)) |-> i]
    BY <2>2, <2>3, <2>4
  <2>6. (Len(Arrived(side)) + 1)..hub.sent[side] = {}
    BY <2>2, <2>3, <2>4
  <2> QED
    <3>1. Len(Arrived(side)) <= hub.sent[side]
      BY <2>3, <2>4
    <3>2. \A i, j \in OnTheWay(side) : i < j => FrameAt(i).of < FrameAt(j).of
      BY <2>3
    <3> QED
      BY <2>4, <2>5, <2>6, <3>1, <3>2 DEF InOrder
<1>5. \A side \in Inbound : got[side] \in Seq(Nat) /\ queues[side].items \in Seq(Nat)
    BY <1>1, EmptySeq
<1> QED
    BY <1>1, <1>2, <1>4, <1>5 DEF Order, OrderKept

LEMMA NextKeepsOrder ==
    ASSUME Order, Session, Invariant, [Next]_vars
    PROVE  Order'
<1>1. CASE Call \/ Exit \/ HangUp \/ Join \/ SessionBegin \/ Lock \/ Write \/ AwaitAck
             \/ AwaitChannel \/ Find \/ TakeNothing \/ ReaderStops \/ ReaderCloses \/ ReaderReports
             \/ HubGivesUp \/ HubDies \/ UNCHANGED vars
    BY <1>1, QuietStepsKeepOrder
<1>2. CASE HubReads \/ HubDecides \/ ReaderTells
    BY <1>2, AnswersKeepOrder
<1>3. CASE Take \/ ReaderReads \/ ReaderDelivers \/ HubDelivers \/ HubWrites
    BY <1>3, TakeKeepsOrder, ReadsKeepOrder, DeliversKeepOrder, HubDeliversKeepsOrder,
       HubWritesKeepsOrder
<1> QED
    BY <1>1, <1>2, <1>3 DEF Next, Work, Reader, HubServes

(***************************************************************************)
(* Whatever the handles, the room in the sockets and the order of the two  *)
(* threads and the hub: munx_pipe_extract and munx_channel_extract return  *)
(* the messages of a queue in the order in which the hub sent them, none   *)
(* twice and none left out.                                                *)
(***************************************************************************)
THEOREM InOrderOfSending == Spec => []OrderKept
<1>1. Init => Invariant /\ Session /\ Order
    BY InitHolds, InitOrder DEF Init, Session
<1>2. Invariant /\ Session /\ Order /\ [Next]_vars => Invariant' /\ Session' /\ Order'
    BY NextKeeps, SessionNext, NextKeepsOrder
<1>3. Order => OrderKept
    BY DEF Order
<1> QED
    BY <1>1, <1>2, <1>3, PTL DEF Spec
===============================================================================
