---------------------------- MODULE NativePipeProps ----------------------------
(***************************************************************************)
(* What a compiled program may expect of its pipes.                        *)
(***************************************************************************)
EXTENDS NativePipe

Over == g.process # "running"

\* What comes from the hub, in this order: with the reader, on the socket, with the hub.
FrameAt(i) ==
  CASE i = 0 -> reader.frame
    [] i \in DOMAIN socket.down -> socket.down[i]
    [] OTHER -> hub.writing
OnTheWay(side) ==
  {i \in 0..(Len(socket.down) + 1) : FrameAt(i).kind = "Deliver" /\ FrameAt(i).side = side}
Arrived(side) == got[side] \o queues[side].items
InOrder(side) ==
  LET arrived == Len(Arrived(side))
  IN  /\ Arrived(side) = [i \in 1..arrived |-> i] /\ arrived <= hub.sent[side]
      /\ {FrameAt(i).of : i \in OnTheWay(side)} = (arrived + 1)..hub.sent[side]
      /\ \A i, j \in OnTheWay(side) : i < j => FrameAt(i).of < FrameAt(j).of
(***************************************************************************)
(* The messages of a queue are extracted in the order the hub sent them,   *)
(* none twice and none left out, and as long as the hub is there none is   *)
(* lost: one reader takes them all, however long g_mu keeps it waiting,    *)
(* and whatever answers lie between them.  Those that have arrived are the *)
(* first ones, and those that come are all the others, in order.           *)
(***************************************************************************)
OrderKept == \A side \in Inbound : InOrder(side)

(***************************************************************************)
(* A call that asked the hub is done only if the hub said so to this       *)
(* request, and ends the program only if the hub refused it, has hung up,  *)
(* or every attempt collided; extract gives null only after the hub has    *)
(* hung up and everything the reader got from it was extracted.  The flags *)
(* are armed before the request is written, and a delivery, an answer and  *)
(* the end of the reader may all come in between.                          *)
(***************************************************************************)
AnswersAreOwn ==
  /\ main.call \in Acknowledged /\ main.result = "done" => hub.said = "Ack"
  /\ g.process = "aborted" =>
       hub.said = "Error" \/ socket.hungup
         \/ (hub.said = "ChannelBusy" /\ main.tries + 1 = MaxAttempts)
  /\ main.result = "null" => socket.hungup

(***************************************************************************)
(* A request comes to an end, or the process does: the program's thread    *)
(* may hold g_mu in a write that blocks while the hub waits for the reader *)
(* and the reader for g_mu; what ends that is the hub, which closes a      *)
(* client that gives it no room.  And nobody waits for a hub that has hung *)
(* up: the reader closes every queue and reports to every waiting call.    *)
(***************************************************************************)
Back == main.at = "idle" \/ Over
CallsEnd ==
  /\ main.call \in Acknowledged \cup {"recv_ready", "bye"} /\ main.at \in {"lock", "write", "await"}
       ~> main.at \in {"idle", "take"} \/ Over
  /\ socket.hungup ~> Back
===============================================================================
