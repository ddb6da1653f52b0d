---------------------------- MODULE HubClientProps ----------------------------
(***************************************************************************)
(* What the threads of a program may expect of the client they share.      *)
(***************************************************************************)
EXTENDS HubClient

Over == client.process # "running"

\* Where a message can be, and the messages that are there, by their position.
Places ==
  {<<"socket", NoQueue>>, <<"reader", NoQueue>>, <<"program", NoQueue>>}
    \cup {<<"queue", q>> : q \in DOMAIN client.store}
Numbers(messages) == [i \in DOMAIN messages |-> messages[i][2]]
OnTheLine(pieces) ==
  [i \in {i \in DOMAIN pieces : IsBody(pieces[i]) /\ pieces[i][2].kind = "Deliver"} |->
     pieces[i][2].of[2]]
InHand(frames) ==
  [i \in {i \in DOMAIN frames : frames[i].kind = "Deliver"} |-> frames[i].of[2]]
MessagesAt(place) ==
  CASE place[1] = "socket" -> OnTheLine(socket.down)
    [] place[1] = "reader" -> InHand(reader.held)
    [] place[1] = "queue" -> Numbers(client.store[place[2]].items)
    [] place[1] = "program" -> Numbers(received)
(***************************************************************************)
(* A message the hub has sent is in one place only: on the socket, in the  *)
(* hands of the reader, in a delivery queue, or with the program; whoever  *)
(* happens to read it (the reader, a thread that waits for a reply, or one *)
(* in channel_recv), none is dropped and none is received twice.  The      *)
(* queue it is put into is the one the client has for its side: a queue    *)
(* whose name was erased (here it keeps what it held, in the code it is    *)
(* destroyed with that) can only hold messages of a side of which the      *)
(* program has closed a handle, or failed to open one.                     *)
(***************************************************************************)
GivenUp(side) == \E h \in Handle : Side[h] = side /\ handles[h] \in {"closed", "dropped"}
NothingLost ==
  ~Over /\ ~hub.died =>
    /\ UNION {Range(MessagesAt(p)) : p \in Places} = 1..hub.sent
    /\ \A p \in Places : IsInjective(MessagesAt(p))
    /\ \A p, q \in Places : p # q => Range(MessagesAt(p)) \cap Range(MessagesAt(q)) = {}
    /\ \A q \in DOMAIN client.store : \A m \in Range(client.store[q].items) :
         client.queues[m[1]] = q \/ GivenUp(m[1])

(***************************************************************************)
(* A call that asked the hub ends with what the hub answered to this call, *)
(* not to one before it and not to another thread's: its result, and the   *)
(* answer to an offer that decides whether channel_send backs off.  This   *)
(* is not so where a thread looks at its answer after another one has      *)
(* asked: ack_error_, ack_received_ and the waiting flags are read and     *)
(* reset without connection_mutex_.  And it is not so after an answer that *)
(* nobody waits for: to an offer the pump gave up on, or the Error for a   *)
(* RecvReady on a channel the hub has detached.                            *)
(***************************************************************************)
AnswerIsOwn ==
  ~hub.died /\ ~hub.stray =>
    \A t \in Thread :
      task[t].call \in Requests \cup {"channel_send"} /\ ~task[t].overlapped =>
        /\ task[t].at = "opcode" =>
             IF task[t].fault = "refused" THEN hub.said[t] = "Error"
                                          ELSE hub.said[t] = client.channel_reply
        /\ task[t].result = "done" => hub.said[t] = "Ack"
        /\ task[t].result = "refused" => hub.said[t] = "Error"
        /\ task[t].result # "noreply"

(***************************************************************************)
(* Nobody is left waiting for a connection that is gone: once the reader   *)
(* has ended, a thread in receive_bytes finds its queue closed, whether it *)
(* waited before close_all_queues or comes after it.  A thread that has    *)
(* connected again, and is about to start a second reader, ends the        *)
(* process instead (OneReader).                                            *)
(***************************************************************************)
NobodyWaitsForTheDead ==
  ~Over /\ reader.at = "ended" /\ (\A t \in Thread : task[t].at # "start") =>
    \A t \in Thread : task[t].at = "wait" /\ ~client.connected =>
      client.store[task[t].queue].closed \/ task[t].queue # client.queues["in"]

(***************************************************************************)
(* There is one reader: ensure_connected assigns to reader_ while another  *)
(* one is joinable, which ends the process, only after the hub hung up.    *)
(***************************************************************************)
OneReader == client.process = "terminated" => hub.died

(***************************************************************************)
(* extract on a pipe gives null, the sentinel programs end on, only where  *)
(* the hub is gone: another thread that reads what the reader was polling  *)
(* for does not end the reader, and nothing else closes a queue.           *)
(***************************************************************************)
NullMeansOver ==
  \A t \in Thread : task[t].call = "receive" /\ task[t].result = "null" => hub.died

(***************************************************************************)
(* src/README.md:208-209 says that `<=:` "announces ready and blocks for a *)
(* payload": channel_recv gives null only where the connection is over.    *)
(***************************************************************************)
ReceiveBlocks ==
  \A t \in Thread : task[t].call = "channel_recv" /\ task[t].result = "null" =>
    hub.died \/ ~client.connected
===============================================================================
