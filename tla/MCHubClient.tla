----------------------------- MODULE MCHubClient ------------------------------
(* Two threads of a program with a writer, a reader and a channel.           *)
EXTENDS HubClientProps, TLC

CONSTANTS t1, t2, writer, queue, peer, other

SideOfHandle == writer :> "out" @@ queue :> "in" @@ peer :> "channel" @@ other :> "channel"
Symmetry == Permutations({t1, t2})

Some(open, new) ==
  [h \in Handle |-> IF h \in open THEN "open" ELSE IF h \in new THEN "new" ELSE "absent"]
Unconnected ==
  [process |-> "running", mutex |-> None, connected |-> FALSE, valid |-> FALSE,
   running |-> FALSE, shutdown |-> FALSE, paused |-> FALSE, joinable |-> FALSE,
   have_header |-> FALSE, queues |-> [side \in Inbound |-> NoQueue], store |-> <<>>,
   waiting_for_ack |-> FALSE, ack_received |-> FALSE, ack_error |-> NoError,
   waiting_for_channel |-> FALSE, channel_received |-> FALSE, channel_reply |-> "Ack"]
Unasked(attached, sent) ==
  [attached |-> attached, offers |-> <<>>, sent |-> sent, calls |-> 0, died |-> FALSE,
   stray |-> FALSE, said |-> [t \in Thread |-> None]]
Still ==
  /\ task = [t \in Thread |-> NoTask]
  /\ socket = [up |-> <<>>, down |-> <<>>, hungup |-> FALSE]

\* The program, which has handles of the kinds of new, has done nothing yet ...
Fresh(new) ==
  /\ client = Unconnected
  /\ reader = [at |-> "none", held |-> <<>>]
  /\ handles = Some({}, new)
  /\ hub = Unasked({}, 0)
  /\ received = <<>>
  /\ Still

\* ... or has opened some handles and will open others; so many messages are to come.
Queues(sides) ==
  IF sides = Inbound THEN "in" :> 1 @@ "channel" :> 2
  ELSE [side \in Inbound |-> IF side \in sides THEN 1 ELSE NoQueue]
Attached(open, new, messages) ==
  LET sides == {Side[h] : h \in open} \cap Inbound
  IN  /\ client = [Unconnected EXCEPT !.connected = TRUE, !.valid = TRUE, !.running = TRUE,
                     !.joinable = TRUE, !.ack_received = TRUE, !.queues = Queues(sides),
                     !.store = [q \in 1..Cardinality(sides) |-> [items |-> <<>>, closed |-> FALSE]]]
      /\ reader = [at |-> "loop", held |-> <<>>]
      /\ handles = Some(open, new)
      /\ received = [i \in 1..(MaxMessages - messages) |-> <<"channel", i>>]
      /\ hub = Unasked(sides, Len(received))
      /\ Still
FromAttached ==
  /\ \/ Fresh({queue, other})
     \/ Attached({writer, peer}, {}, 1)
     \/ Attached({writer, queue}, {}, 2)
     \/ Attached({queue, peer}, {}, 2)
     \/ Attached({peer}, {other}, 1)
  /\ [][Next]_vars
===============================================================================
