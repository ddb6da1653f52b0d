---------------------------- MODULE HubDaemonProps ----------------------------
(***************************************************************************)
(* What the pipe hub daemon must guarantee, over the states of HubDaemon.  *)
(***************************************************************************)
EXTENDS HubDaemon

ChannelStates ==
    [list       : [AllModes -> [Clients -> Nat]],
     pending    : Seq(Payloads),
     offer_from : Clients \union {None},
     recv_ready : Clients \union {None}]

(* Frames from the clients, the requests they wait for, frames to them.    *)
Frames ==
    [op : {"Attach", "Detach"}, ch : Channels, mode : AllModes, pay : {None}]
    \union [op : {"Publish"}, ch : Channels, mode : {None}, pay : Payloads]
    \union [op : {"Offer", "RecvReady"}, ch : Channels, mode : {None}, pay : {None}]
    \union [op : {"Bye"}, ch : {None}, mode : {None}, pay : {None}]

Requests ==
    [op : {"None", "Bye"}, ch : {None}, mode : {None}, pay : {None}]
    \union [op : {"Attach"}, ch : Channels, mode : AllModes, pay : {None}]
    \union [op : {"Publish", "Offer", "Backoff"}, ch : Channels, mode : {None}, pay : Payloads]

HubFrames ==
    [op : Replies, mode : {None}, pay : {None}]
    \union [op : {"Deliver"}, mode : AllModes, pay : Payloads]

Deliveries == [ch : Channels, mode : AllModes, pay : Payloads]

(* The frames that leave something to do, and what each may leave.         *)
ServedFrames ==
    [id : Clients, op : {"Attach"}, ch : Channels, mode : AllModes, pay : {None}]
    \union [id : Clients, op : {"Publish"}, ch : Channels, mode : {None}, pay : Payloads]
    \union [id : Clients, op : {"Offer", "RecvReady"}, ch : Channels, mode : {None}, pay : {None}]

PartsOf(op) ==
    CASE op = "Attach" -> {"answer", "flush", "copies", "queue", "drain", "resume"}
      [] op = "Publish" -> {"peer", "park", "push", "copies", "queue", "answer"}
      [] op = "Offer" -> {"answer", "notify"}
      [] op = "RecvReady" -> {"answer", "notify", "drain", "announce"}
      [] OTHER -> {}

ItemsOf(op) == {x \in Items : x.do \in PartsOf(op)}

DaemonTypes ==
    /\ status \in {"running", "exited", "crashed"}
    /\ served \in BOOLEAN
    /\ live \in [Clients -> BOOLEAN]
    /\ att \in [Clients -> SUBSET (Channels \X AllModes)]
    /\ chan \in [Channels -> ChannelStates]

ServingTypes ==
    /\ todo \in Seq(ItemsOf(cur.op))
    /\ cur \in ServedFrames \union {NoFrame}
    /\ todo = << >> => cur = NoFrame

WireTypes ==
    /\ in \in [Clients -> Seq(Frames)]
    /\ out \in [Clients -> Seq(HubFrames)]

ClientTypes ==
    /\ open \in [Clients -> BOOLEAN]
    /\ req \in [Clients -> Requests]
    /\ handles \in [Clients -> [Channels -> [AllModes -> Nat]]]
    /\ \A c \in Clients :
          req[c].op = "Attach" => handles[c][req[c].ch][req[c].mode] > 0

HistoryTypes ==
    /\ sent \in 0..MaxPublish
    /\ acked \subseteq 1..MaxPublish
    /\ dlv \in [Clients -> Seq(Deliveries)]

(* The types of the daemon's tables and of the frames in transit; a frame  *)
(* is being served exactly while something is left of its handler, and     *)
(* what is left belongs to the handler of that frame; a client that waits  *)
(* for the answer to an Attach holds the handle it is for.                 *)
TypeOK == DaemonTypes /\ ServingTypes /\ WireTypes /\ ClientTypes /\ HistoryTypes

(* The client whose RecvReady is being served stays a peer of the channel  *)
(* until recv_ready is set to it.                                          *)
AnnouncesPeer ==
    \A i \in DOMAIN todo : todo[i].do = "announce" => cur.id \in Peers(cur.ch)

(* No list, parked offer or RecvReady mark names a client that is gone or  *)
(* that is not attached to the channel: descriptors are reused, so a left- *)
(* over id would hand one client's messages to the next one to connect.    *)
NoGhosts ==
    \A k \in Channels :
       /\ \A m \in AllModes, c \in Clients :
             chan[k].list[m][c] > 0 => live[c] /\ <<k, m>> \in att[c]
       /\ {chan[k].offer_from, chan[k].recv_ready} \subseteq Peers(k) \union {None}

(* "Bidirectional channel peers (at most two)": however attaches, detaches *)
(* and hang-ups of several clients follow each other, the list of channel  *)
(* peers never holds three entries.                                        *)
TwoPeers ==
    \A k \in Channels : LET n == chan[k].list["ChannelPeer"] IN
       \A c, d, e \in Clients :
          /\ n[c] <= 2
          /\ c # d /\ n[c] > 1 => n[d] = 0
          /\ c # d /\ c # e /\ d # e => 0 \in {n[c], n[d], n[e]}

(* A message stays in the backlog only for want of a reader: between two   *)
(* handlers, a pipe with a reader and a channel with both its peers have   *)
(* no backlog.                                                             *)
BacklogOnlyWithoutReaders ==
    \A k \in Channels :
       Idle /\ (HasReader(k) \/ PeersFull(k)) => chan[k].pending = << >>

Consumed(c, i) == dlv[c][i].mode \in {"QueueIn", "ChannelPeer"}

(* A message of a queue or a channel is written to one reader, once, and   *)
(* none that has been written is in the backlog, where a flush or a        *)
(* RecvReady would deliver it a second time.                               *)
ConsumedOnce ==
    /\ \A c, d \in Clients : \A i \in DOMAIN dlv[c], j \in DOMAIN dlv[d] :
          Consumed(c, i) /\ Consumed(d, j) /\ dlv[c][i].pay = dlv[d][j].pay
             => c = d /\ i = j
    /\ \A k \in Channels, c \in Clients :
          \A i \in DOMAIN chan[k].pending, j \in DOMAIN dlv[c] :
             chan[k].pending[i] # dlv[c][j].pay

(* A reader sees the messages that one publisher sent into one pipe in the *)
(* order in which they were published, whether they waited in the backlog  *)
(* or not, and through whichever of the reader's handles they come.        *)
PublisherOrder ==
    \A c \in Clients : \A i, j \in DOMAIN dlv[c] :
       /\ i < j /\ dlv[c][i].ch = dlv[c][j].ch
       /\ dlv[c][i].pay.from = dlv[c][j].pay.from
       => dlv[c][i].pay.n <= dlv[c][j].pay.n

Delivered(n) == \E c \in Clients : \E i \in DOMAIN dlv[c] : dlv[c][i].pay.n = n
Pending(n) == \E k \in Channels : \E i \in DOMAIN chan[k].pending : chan[k].pending[i].n = n

(* A message whose publisher has been told Ack is in the backlog or has    *)
(* been written to a reader: between two handlers none is anywhere else.   *)
(* "Each message goes to one reader" (sample/pipehub/README.md:10); a      *)
(* reader whose socket stays full makes the daemon lose it.                *)
AckedIsKept ==
    Idle => \A n \in acked : Pending(n) \/ Delivered(n)

(* "Every subscriber receives a copy" (sample/pipehub/README.md:11): when  *)
(* the loop over broadcast_readers ends, the payload has been written to   *)
(* each subscriber.  It fails when a subscriber is closed inside the loop. *)
EverySubscriberServed ==
    Doing("copies") /\ Head(todo).left = NoHandles =>
       \A c \in Attached(cur.ch, "BroadcastIn") :
          \E i \in DOMAIN dlv[c] :
             dlv[c][i] = [ch |-> cur.ch, mode |-> "BroadcastIn", pay |-> Head(todo).pay]

(* What answers, or will answer, the request client c waits for: the       *)
(* request itself, the rest of its handler, its parked offer, or a reply.  *)
Outstanding(c) ==
    {<<"in", i>> : i \in {j \in DOMAIN in[c] : in[c][j].op \in Asking}}
    \union {<<"todo", i>> : i \in {j \in DOMAIN todo :
              \/ todo[j].do = "answer" /\ cur.id = c
              \/ todo[j].do = "notify" /\ todo[j].to = c}}
    \union {<<"offer", k>> : k \in {l \in Channels : chan[l].offer_from = c}}
    \union {<<"out", i>> : i \in {j \in DOMAIN out[c] : out[c][j].op \in Replies}}

(* Between a client that waits and the daemon there is exactly one thing   *)
(* that leads to its reply, and none for a client that does not wait: no   *)
(* reply is lost, doubled, or left to be taken for that of a later request *)
OneReplyPerRequest ==
    status = "running" =>
       \A c \in Clients : open[c] /\ live[c] =>
          IF req[c].op \in Asking THEN \E x \in Outstanding(c) : Outstanding(c) = {x}
                                  ELSE Outstanding(c) = {}

(* A client that asks to attach or publishes gets its answer, or learns    *)
(* that the connection is gone.                                            *)
RequestsAnswered ==
    \A c \in Clients : req[c].op \in {"Attach", "Publish"} ~> req[c].op \notin {"Attach", "Publish"}

(* An offer is parked while the other peer is missing.  Once that peer has *)
(* joined and its RecvReady is on its way, the offer is decided, unless    *)
(* one of the two leaves or the daemon dies.                               *)
ParkedOfferDecided ==
    \A k \in Channels, c, d \in Clients :
       ( /\ c # d /\ chan[k].offer_from = c /\ d \in Peers(k)
         /\ \E i \in DOMAIN in[d] : in[d][i].op = "RecvReady" /\ in[d][i].ch = k )
       ~> (chan[k].offer_from # c \/ d \notin Peers(k) \/ status # "running")

-----------------------------------------------------------------------------
(* The pipe as its users see it.                                           *)

(* The messages that wait in pipe k, in the order in which the daemon has  *)
(* taken them: the one that is being handed out, the backlog, and the one  *)
(* that is about to join it.                                               *)
Waiting(k) ==
    LET next == IF todo # << >> /\ cur.ch = k THEN Head(todo).do ELSE "nothing"
    IN  CASE next \in {"copies", "queue"} -> <<Head(todo).pay>> \o chan[k].pending
          [] next = "park" -> Append(chan[k].pending, cur.pay)
          [] OTHER -> chan[k].pending

(* The numbers that are still to be published, are offered, or are in a    *)
(* frame that the daemon has not read.                                     *)
OnItsWay(n) ==
    \E c \in Clients :
       \/ req[c].op \in {"Offer", "Backoff"} /\ req[c].pay.n = n
       \/ \E i \in DOMAIN in[c] : in[c][i].op = "Publish" /\ in[c][i].pay.n = n
NotReceived == {n \in 1..MaxPublish : n > sent \/ OnItsWay(n)}

QueueReaders(k) == Attached(k, "QueueIn")

Broker == INSTANCE HubBroker WITH
             up <- status = "running",
             fresh <- NotReceived,
             readers <- [k \in Channels |-> QueueReaders(k)],
             line <- [k \in Channels |-> Waiting(k)],
             got <- dlv

(* The daemon without channel handles implements the lines of HubBroker,   *)
(* through backlogs, flushes, interrupted handlers and readers that are    *)
(* closed inside a delivery: competing readers are given the messages of a *)
(* pipe in the order in which it took them, each to one of them, and one   *)
(* is lost only when there is no room, no queue reader, a reader that does *)
(* not take it, or no daemon any more ("Each message goes to one reader",  *)
(* sample/pipehub/README.md:10).                                           *)
PipesAreLines == Broker!Spec
===============================================================================
