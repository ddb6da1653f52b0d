------------------------------ MODULE HubBroker ------------------------------
(***************************************************************************)
(* What the hub promises of its queues and topics, without connections,    *)
(* frames and handlers: each pipe is a line.  Messages join it at its end  *)
(* and leave it at its head, one at a time, for one of the readers that    *)
(* are there; while a message is at the head subscribers are given copies. *)
(***************************************************************************)
EXTENDS Naturals, Sequences

CONSTANTS
    Clients,     \* publishers and readers
    Channels,    \* the pipes
    MaxPublish,  \* bound on the number of messages
    MaxPending   \* how many messages may wait in a pipe

VARIABLES
    up,          \* the hub serves
    fresh,       \* the numbers of the messages that have not reached it
    readers,     \* readers[k]: who may be given the next message of k
    line,        \* line[k]: the messages that wait in k
    got          \* got[c]: what c has been given

vars == <<up, fresh, readers, line, got>>

Gift(k, m, p) == [ch |-> k, mode |-> m, pay |-> p]
GivenTo(c, k, m) == got' = [got EXCEPT ![c] = Append(@, Gift(k, m, Head(line[k])))]
HeadLeaves(k) == line' = [line EXCEPT ![k] = Tail(@)]

Init ==
    /\ up = TRUE
    /\ fresh = 1..MaxPublish
    /\ readers = [k \in Channels |-> {}]
    /\ line = [k \in Channels |-> << >>]
    /\ got = [c \in Clients |-> << >>]

(* A message reaches the hub, once, and joins a line.                      *)
Accept(k, p) ==
    /\ up
    /\ p.n \in fresh /\ fresh' \subseteq fresh \ {p.n}
    /\ line' = [line EXCEPT ![k] = Append(@, p)]
    /\ UNCHANGED <<up, readers, got>>

(* There is no room for the last one.                                      *)
Refuse(k) ==
    /\ up
    /\ Len(line[k]) > MaxPending /\ readers[k] = {}
    /\ line' = [line EXCEPT ![k] = SubSeq(@, 1, Len(@) - 1)]
    /\ UNCHANGED <<up, fresh, readers, got>>

(* A subscriber is given a copy of the first message.                      *)
Copy(k, c) ==
    /\ up
    /\ line[k] # << >> /\ GivenTo(c, k, "BroadcastIn")
    /\ UNCHANGED <<up, fresh, readers, line>>

(* One reader is given the first message.                                  *)
Give(k, c) ==
    /\ up
    /\ line[k] # << >> /\ c \in readers[k]
    /\ GivenTo(c, k, "QueueIn") /\ HeadLeaves(k)
    /\ UNCHANGED <<up, fresh, readers>>

(* There is no queue reader: the first message is done with, whatever      *)
(* subscribers were given copies of it.                                    *)
Spend(k) ==
    /\ up
    /\ line[k] # << >> /\ readers[k] = {} /\ HeadLeaves(k)
    /\ UNCHANGED <<up, fresh, readers, got>>

(* A reader that does not take the first message is sent away; the message *)
(* is lost with it, and so is what that client had on its way to the hub.  *)
Lose(k) ==
    /\ up
    /\ line[k] # << >> /\ HeadLeaves(k)
    /\ \E c \in readers[k] : \A j \in Channels : readers'[j] = readers[j] \ {c}
    /\ fresh' \subseteq fresh
    /\ UNCHANGED <<up, got>>

(* Readers come and go, publishers end before what they sent is read.      *)
ComeAndGo ==
    /\ fresh' \subseteq fresh
    /\ UNCHANGED <<up, line, got>>

(* The hub ends, with all that waits in it.                                *)
Stop ==
    /\ up /\ ~up'
    /\ UNCHANGED got

Next ==
    \/ ComeAndGo \/ Stop
    \/ \E k \in Channels :
          \/ Refuse(k) \/ Spend(k) \/ Lose(k)
          \/ \E p \in [from : Clients, n : 1..MaxPublish] : Accept(k, p)
          \/ \E c \in Clients : Copy(k, c) \/ Give(k, c)

Spec == Init /\ [][Next]_vars
==============================================================================
