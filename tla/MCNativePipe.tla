---------------------------- MODULE MCNativePipe -----------------------------
(* A program with a writer, a reader, and a channel that it opens twice.    *)
EXTENDS NativePipeProps, TLC

CONSTANTS writer, queue, peer, again

SideOfHandle == writer :> "out" @@ queue :> "in" @@ peer :> "channel" @@ again :> "channel"

\* A handle of each kind is open already.
Attached ==
  /\ main = NoTask
  /\ reader = [at |-> "poll", frame |-> NoFrame]
  /\ g = [process |-> "running", mu |-> None, connected |-> TRUE, shutdown |-> FALSE,
          waiting_ack |-> FALSE, ack_ok |-> TRUE, ack_err |-> None,
          waiting_channel |-> FALSE, channel_got |-> FALSE, channel_op |-> None]
  /\ queues = [side \in Inbound |-> [NoQueue EXCEPT !.there = TRUE]]
  /\ handles = [h \in Handle |-> IF h = again THEN "new" ELSE "open"]
  /\ socket = [up |-> <<>>, down |-> <<>>, hungup |-> FALSE]
  /\ hub = [attached |-> Inbound, offered |-> FALSE, sent |-> [side \in Inbound |-> 0],
            writing |-> NoFrame, said |-> None, calls |-> 0]
  /\ got = [side \in Inbound |-> <<>>]
FromAttached == (Init \/ Attached) /\ [][Next]_vars /\ Fairness
===============================================================================
