--------------------------- MODULE HubDaemonProofs ---------------------------
(***************************************************************************)
(* TLAPS proofs about the pipe hub daemon, for any numbers of clients,     *)
(* channels, messages and handles and any size of its queues.              *)
(***************************************************************************)
EXTENDS HubDaemonProps, TLAPS

-----------------------------------------------------------------------------
(* Lemmas about the helpers.                                               *)

(* Erasing a client from a channel state gives a channel state.            *)
LEMMA WithoutClientType ==
    ASSUME NEW s \in ChannelStates, NEW c \in Clients
    PROVE  WithoutClient(s, c) \in ChannelStates
BY SMT DEF WithoutClient, ChannelStates

(* close_client keeps the types of the tables and the input buffers.       *)
LEMMA CloseClientType ==
    ASSUME DaemonTypes, WireTypes, NEW c \in Clients,
           NEW channels \in [Channels -> ChannelStates], CloseClient(c, channels)
    PROVE  /\ live' \in [Clients -> BOOLEAN]
           /\ att' \in [Clients -> SUBSET (Channels \X AllModes)]
           /\ chan' \in [Channels -> ChannelStates]
           /\ in' \in [Clients -> Seq(Frames)]
<1>1. \A k \in Channels : WithoutClient(channels[k], c) \in ChannelStates
  BY WithoutClientType
<1>2. chan' \in [Channels -> ChannelStates]
  BY <1>1 DEF CloseClient
<1>3. live' \in [Clients -> BOOLEAN] /\ att' \in [Clients -> SUBSET (Channels \X AllModes)]
  BY DEF CloseClient, DaemonTypes
<1>4. << >> \in Seq(Frames)
  OBVIOUS
<1>5. in' \in [Clients -> Seq(Frames)]
  BY <1>4 DEF CloseClient, WireTypes
<1>6. QED
  BY <1>2, <1>3, <1>5

(* Replacing the backlog of a channel state by another backlog.            *)
LEMMA PendingType ==
    ASSUME DaemonTypes, NEW k \in Channels, NEW q \in Seq(Payloads)
    PROVE  [chan EXCEPT ![k].pending = q] \in [Channels -> ChannelStates]
<1>1. \A s \in ChannelStates : [s EXCEPT !.pending = q] \in ChannelStates
  BY DEF ChannelStates
<1>2. QED
  BY <1>1 DEF DaemonTypes

(* The first payload of a backlog, and the channels without it.            *)
LEMMA PopType ==
    ASSUME DaemonTypes, NEW k \in Channels, chan[k].pending # << >>
    PROVE  Head(chan[k].pending) \in Payloads /\ Pop(k) \in [Channels -> ChannelStates]
<1>1. chan[k].pending \in Seq(Payloads)
  BY DEF DaemonTypes, ChannelStates
<1>2. Head(chan[k].pending) \in Payloads /\ Tail(chan[k].pending) \in Seq(Payloads)
  BY <1>1
<1>3. QED
  BY <1>2, PendingType DEF Pop

(* The channels after a payload has joined a backlog.                      *)
LEMMA PushType ==
    ASSUME DaemonTypes, NEW k \in Channels, NEW p \in Payloads
    PROVE  Push(k, p) \in [Channels -> ChannelStates]
<1>1. chan[k].pending \in Seq(Payloads)
  BY DEF DaemonTypes, ChannelStates
<1>2. Append(chan[k].pending, p) \in Seq(Payloads)
  BY <1>1
<1>3. QED
  BY <1>2, PendingType DEF Push

(* The lists of a channel.                                                 *)
LEMMA ListType ==
    ASSUME DaemonTypes, NEW k \in Channels, NEW m \in AllModes
    PROVE  chan[k].list[m] \in [Clients -> Nat]
<1>1. chan[k].list \in [AllModes -> [Clients -> Nat]]
  BY DEF DaemonTypes, ChannelStates
<1>2. QED
  BY <1>1

(* The channels after a client has joined a list.                          *)
LEMMA JoinType ==
    ASSUME DaemonTypes, NEW k \in Channels, NEW m \in AllModes, NEW c \in Clients
    PROVE  [chan EXCEPT ![k].list[m][c] = @ + 1] \in [Channels -> ChannelStates]
<1> DEFINE L == chan[k].list
           n == [L EXCEPT ![m] = [L[m] EXCEPT ![c] = L[m][c] + 1]]
<1>1. L \in [AllModes -> [Clients -> Nat]]
  BY DEF DaemonTypes, ChannelStates
<1>2. [L[m] EXCEPT ![c] = L[m][c] + 1] \in [Clients -> Nat]
  BY <1>1
<1>3. n \in [AllModes -> [Clients -> Nat]]
  BY <1>1, <1>2
<1>4. \A s \in ChannelStates : [s EXCEPT !.list = n] \in ChannelStates
  BY <1>3 DEF ChannelStates
<1>5. [chan EXCEPT ![k].list[m][c] = @ + 1] = [chan EXCEPT ![k] = [chan[k] EXCEPT !.list = n]]
  OBVIOUS
<1>6. QED
  BY <1>4, <1>5 DEF DaemonTypes

(* While a handler has something left, its frame is a proper one and its   *)
(* next item is one of those the frame can leave.                          *)
LEMMA DoingType ==
    ASSUME ServingTypes, NEW what, Doing(what)
    PROVE  /\ cur \in ServedFrames
           /\ Head(todo) \in Items /\ what \in PartsOf(cur.op)
           /\ Tail(todo) \in Seq(ItemsOf(cur.op))
<1>1. Head(todo) \in ItemsOf(cur.op) /\ Tail(todo) \in Seq(ItemsOf(cur.op))
  BY DEF ServingTypes, Doing
<1>2. Head(todo) \in Items /\ what \in PartsOf(cur.op)
  BY <1>1 DEF ItemsOf, Doing
<1>3. cur # NoFrame
  BY <1>2 DEF PartsOf, NoFrame
<1>4. QED
  BY <1>1, <1>2, <1>3 DEF ServingTypes

(* Nothing is left of any handler.                                         *)
LEMMA IdleType ==
    ASSUME todo' = << >>, cur' = NoFrame
    PROVE  ServingTypes'
<1>1. << >> \in Seq(ItemsOf(cur'.op))
  OBVIOUS
<1>2. QED
  BY <1>1 DEF ServingTypes

(* Going on with items of the handler being run keeps the types.           *)
LEMMA GotoType ==
    ASSUME ServingTypes, NEW items \in Seq(ItemsOf(cur.op)), Goto(items)
    PROVE  ServingTypes'
<1>1. CASE items = << >>
  BY <1>1, IdleType DEF Goto
<1>2. CASE items # << >>
  BY <1>2 DEF Goto, ServingTypes
<1>3. QED
  BY <1>1, <1>2

(* A handler ends early because its client was closed.                     *)
LEMMA ClosedType ==
    ASSUME ServingTypes, Goto(Returned)
    PROVE  ServingTypes'
<1>1. CASE cur.op = "Attach"
  <2>1. Todo("resume") \in ItemsOf(cur.op)
    BY <1>1 DEF Todo, ItemsOf, Items, PartsOf
  <2>2. <<Todo("resume")>> \in Seq(ItemsOf(cur.op))
    BY <2>1
  <2>3. QED
    BY <1>1, <2>2, GotoType DEF Returned
<1>2. CASE cur.op # "Attach"
  BY <1>2, IdleType DEF Goto, Returned
<1>3. QED
  BY <1>1, <1>2

(* Writing a frame to the daemon, or to a client, and noting a delivery.   *)
LEMMA SendType ==
    ASSUME WireTypes, NEW c \in Clients, NEW f \in Frames, Send(c, f)
    PROVE  in' \in [Clients -> Seq(Frames)]
<1>1. Append(in[c], f) \in Seq(Frames)
  BY DEF WireTypes
<1>2. QED
  BY <1>1 DEF Send, WireTypes

LEMMA PutType ==
    ASSUME WireTypes, NEW c \in Clients, NEW f \in HubFrames, Put(c, f)
    PROVE  out' \in [Clients -> Seq(HubFrames)]
<1>1. Append(out[c], f) \in Seq(HubFrames)
  BY DEF WireTypes
<1>2. QED
  BY <1>1 DEF Put, WireTypes

LEMMA LogType ==
    ASSUME HistoryTypes, NEW c \in Clients, NEW m \in AllModes, NEW p \in Payloads,
           Log(c, m, p), cur.ch \in Channels
    PROVE  dlv' \in [Clients -> Seq(Deliveries)]
<1>1. [ch |-> cur.ch, mode |-> m, pay |-> p] \in Deliveries
  BY DEF Deliveries
<1>2. Append(dlv[c], [ch |-> cur.ch, mode |-> m, pay |-> p]) \in Seq(Deliveries)
  BY <1>1 DEF HistoryTypes
<1>3. QED
  BY <1>2 DEF Log, HistoryTypes

(* The daemon takes a frame, and leaves items of its handler to do.        *)
LEMMA TakeType ==
    ASSUME WireTypes, NEW c \in Clients, NEW op, HasFrame(c, op), Take(c)
    PROVE  /\ Head(in[c]) \in Frames /\ Head(in[c]).op = op
           /\ in' \in [Clients -> Seq(Frames)]
<1>1. in[c] \in Seq(Frames) /\ in[c] # << >> /\ Head(in[c]).op = op
  BY DEF WireTypes, HasFrame
<1>2. Head(in[c]) \in Frames /\ Tail(in[c]) \in Seq(Frames)
  BY <1>1
<1>3. QED
  BY <1>1, <1>2 DEF Take, WireTypes

LEMMA StartType ==
    ASSUME NEW c \in Clients, NEW items \in Seq(ItemsOf(Head(in[c]).op)),
           Serving(c, Head(in[c])) \in ServedFrames, Start(c, items)
    PROVE  ServingTypes'
<1>1. CASE items = << >>
  BY <1>1, IdleType DEF Start
<1>2. CASE items # << >>
  <2>1. todo' = items /\ cur' = Serving(c, Head(in[c]))
    BY <1>2 DEF Start
  <2>2. cur'.op = Head(in[c]).op
    BY <2>1 DEF Serving
  <2>3. QED
    BY <2>1, <2>2, <1>2 DEF ServingTypes
<1>3. QED
  BY <1>1, <1>2

-----------------------------------------------------------------------------
(* The types are kept by what the clients do.                              *)

LEMMA ConnectType ==
    ASSUME TypeOK, NEW c \in Clients, Connect(c) PROVE TypeOK'
<1>1. DaemonTypes'
  BY DEF TypeOK, DaemonTypes, Connect
<1>2. ClientTypes'
  BY DEF TypeOK, ClientTypes, Connect
<1>3. QED
  BY <1>1, <1>2 DEF TypeOK, ServingTypes, WireTypes, HistoryTypes, Connect

LEMMA SendAttachType ==
    ASSUME TypeOK, NEW c \in Clients, NEW k \in Channels, NEW m \in Modes, SendAttach(c, k, m)
    PROVE  TypeOK'
<1>1. m \in AllModes
  BY ModesAssumption
<1>2. Frame("Attach", k, m, None) \in Frames /\ Frame("Attach", k, m, None) \in Requests
  BY <1>1 DEF Frame, Frames, Requests
<1>3. WireTypes'
  <2>1. in' \in [Clients -> Seq(Frames)]
    BY <1>2, SendType DEF TypeOK, SendAttach
  <2>2. QED
    BY <2>1 DEF TypeOK, WireTypes, SendAttach
<1>4. ClientTypes'
  <2>1. handles' \in [Clients -> [Channels -> [AllModes -> Nat]]]
    BY <1>1 DEF TypeOK, ClientTypes, SendAttach
  <2>2. req' \in [Clients -> Requests] /\ open' = open
    BY <1>2 DEF TypeOK, ClientTypes, SendAttach
  <2>3. ASSUME NEW d \in Clients, req'[d].op = "Attach"
        PROVE  handles'[d][req'[d].ch][req'[d].mode] > 0
    <3>1. CASE d = c
      <4>1. req'[d].ch = k /\ req'[d].mode = m
        BY <3>1 DEF TypeOK, ClientTypes, SendAttach, Frame
      <4>2. handles'[c][k][m] = handles[c][k][m] + 1 /\ handles[c][k][m] \in Nat
        BY <1>1 DEF TypeOK, ClientTypes, SendAttach
      <4>3. QED
        BY <3>1, <4>1, <4>2
    <3>2. CASE d # c
      BY <2>3, <3>2 DEF TypeOK, ClientTypes, SendAttach
    <3>3. QED
      BY <3>1, <3>2
  <2>4. QED
    BY <2>1, <2>2, <2>3 DEF TypeOK, ClientTypes
<1>5. QED
  BY <1>3, <1>4 DEF TypeOK, DaemonTypes, ServingTypes, HistoryTypes, SendAttach, daemon

LEMMA SendDetachType ==
    ASSUME TypeOK, NEW c \in Clients, NEW k \in Channels, NEW m \in Modes, SendDetach(c, k, m)
    PROVE  TypeOK'
<1>1. m \in AllModes
  BY ModesAssumption
<1>2. Frame("Detach", k, m, None) \in Frames
  BY <1>1 DEF Frame, Frames
<1>3. WireTypes'
  <2>1. in' \in [Clients -> Seq(Frames)]
    BY <1>2, SendType DEF TypeOK, SendDetach
  <2>2. QED
    BY <2>1 DEF TypeOK, WireTypes, SendDetach
<1>4. ClientTypes'
  <2>1. handles[c][k][m] \in Nat /\ handles[c][k][m] > 0
    BY <1>1 DEF TypeOK, ClientTypes, SendDetach
  <2>2. handles' \in [Clients -> [Channels -> [AllModes -> Nat]]]
    BY <1>1, <2>1 DEF TypeOK, ClientTypes, SendDetach
  <2>3. req[c].op # "Attach"
    BY DEF SendDetach, CanSend, NoReq, Frame
  <2>4. \A d \in Clients : d # c => handles'[d] = handles[d]
    BY DEF TypeOK, ClientTypes, SendDetach
  <2>5. QED
    BY <2>2, <2>3, <2>4 DEF TypeOK, ClientTypes, SendDetach
<1>5. QED
  BY <1>3, <1>4 DEF TypeOK, DaemonTypes, ServingTypes, HistoryTypes, SendDetach, daemon

(* Actions that only send a frame and change the request.                  *)
LEMMA RequestType ==
    ASSUME TypeOK, NEW c \in Clients, NEW f \in Frames, NEW r \in Requests,
           r.op # "Attach", Send(c, f), req' = [req EXCEPT ![c] = r],
           UNCHANGED <<out, open, handles>>
    PROVE  WireTypes' /\ ClientTypes'
<1>1. WireTypes'
  <2>1. in' \in [Clients -> Seq(Frames)]
    BY SendType DEF TypeOK
  <2>2. QED
    BY <2>1 DEF TypeOK, WireTypes
<1>2. ClientTypes'
  BY DEF TypeOK, ClientTypes
<1>3. QED
  BY <1>1, <1>2

LEMMA SendPublishType ==
    ASSUME TypeOK, NEW c \in Clients, NEW k \in Channels, SendPublish(c, k)
    PROVE  TypeOK'
<1> DEFINE p == [from |-> c, n |-> sent + 1]
<1>1. sent + 1 \in 1..MaxPublish /\ sent' = sent + 1
  BY BoundsAssumption DEF TypeOK, HistoryTypes, SendPublish
<1>2. p \in Payloads
  BY <1>1 DEF Payloads
<1>3. Frame("Publish", k, None, p) \in Frames /\ Frame("Publish", k, None, p) \in Requests
  BY <1>2 DEF Frame, Frames, Requests
<1>4. WireTypes' /\ ClientTypes'
  <2>1. Frame("Publish", k, None, p).op # "Attach"
    BY DEF Frame
  <2>2. /\ Send(c, Frame("Publish", k, None, p))
        /\ req' = [req EXCEPT ![c] = Frame("Publish", k, None, p)]
        /\ UNCHANGED <<out, open, handles>>
    BY DEF SendPublish
  <2>3. QED
    BY <1>3, <2>1, <2>2, RequestType
<1>5. HistoryTypes'
  BY <1>1 DEF TypeOK, HistoryTypes, SendPublish
<1>6. QED
  BY <1>4, <1>5 DEF TypeOK, DaemonTypes, ServingTypes, SendPublish, daemon

LEMMA SendOfferType ==
    ASSUME TypeOK, NEW c \in Clients, NEW k \in Channels, SendOffer(c, k)
    PROVE  TypeOK'
<1> DEFINE p == [from |-> c, n |-> sent + 1]
<1>1. sent + 1 \in 1..MaxPublish /\ sent' = sent + 1
  BY BoundsAssumption DEF TypeOK, HistoryTypes, SendOffer
<1>2. p \in Payloads
  BY <1>1 DEF Payloads
<1>3. Frame("Offer", k, None, None) \in Frames /\ Frame("Offer", k, None, p) \in Requests
  BY <1>2 DEF Frame, Frames, Requests
<1>4. WireTypes' /\ ClientTypes'
  <2>1. Frame("Offer", k, None, p).op # "Attach"
    BY DEF Frame
  <2>2. /\ Send(c, Frame("Offer", k, None, None))
        /\ req' = [req EXCEPT ![c] = Frame("Offer", k, None, p)]
        /\ UNCHANGED <<out, open, handles>>
    BY DEF SendOffer
  <2>3. QED
    BY <1>3, <2>1, <2>2, RequestType
<1>5. HistoryTypes'
  BY <1>1 DEF TypeOK, HistoryTypes, SendOffer
<1>6. QED
  BY <1>4, <1>5 DEF TypeOK, DaemonTypes, ServingTypes, SendOffer, daemon

LEMMA RetryOfferType ==
    ASSUME TypeOK, NEW c \in Clients, RetryOffer(c)
    PROVE  TypeOK'
<1>1. req[c] \in Requests /\ req[c].op = "Backoff"
  BY DEF TypeOK, ClientTypes, RetryOffer
<1>2. req[c].ch \in Channels /\ [req[c] EXCEPT !.op = "Offer"] \in Requests
  BY <1>1 DEF Requests
<1>3. [req[c] EXCEPT !.op = "Offer"].op # "Attach"
  BY <1>1 DEF Requests
<1>4. Frame("Offer", req[c].ch, None, None) \in Frames
  BY <1>2 DEF Frame, Frames
<1>5. req' = [req EXCEPT ![c] = [req[c] EXCEPT !.op = "Offer"]]
  BY DEF RetryOffer, TypeOK, ClientTypes
<1>6. WireTypes' /\ ClientTypes'
  <2>1. Send(c, Frame("Offer", req[c].ch, None, None)) /\ UNCHANGED <<out, open, handles>>
    BY DEF RetryOffer
  <2>2. QED
    BY <1>2, <1>3, <1>4, <1>5, <2>1, RequestType
<1>7. QED
  BY <1>6 DEF TypeOK, DaemonTypes, ServingTypes, HistoryTypes, RetryOffer, daemon

LEMMA SendRecvReadyType ==
    ASSUME TypeOK, NEW c \in Clients, NEW k \in Channels, SendRecvReady(c, k)
    PROVE  TypeOK'
<1>1. Frame("RecvReady", k, None, None) \in Frames
  BY DEF Frame, Frames
<1>2. in' \in [Clients -> Seq(Frames)]
  BY <1>1, SendType DEF TypeOK, SendRecvReady
<1>3. QED
  BY <1>2 DEF TypeOK, DaemonTypes, ServingTypes, WireTypes, ClientTypes, HistoryTypes,
              SendRecvReady, daemon, client

LEMMA SendByeType ==
    ASSUME TypeOK, NEW c \in Clients, SendBye(c)
    PROVE  TypeOK'
<1>1. /\ Frame("Bye", None, None, None) \in Frames
      /\ Frame("Bye", None, None, None) \in Requests
      /\ Frame("Bye", None, None, None).op # "Attach"
  BY DEF Frame, Frames, Requests
<1>2. WireTypes' /\ ClientTypes'
  BY <1>1, RequestType DEF SendBye
<1>3. QED
  BY <1>2 DEF TypeOK, DaemonTypes, ServingTypes, HistoryTypes, SendBye, daemon

LEMMA CloseEndType ==
    ASSUME TypeOK, NEW c \in Clients, CloseEnd(c)
    PROVE  TypeOK'
<1>1. NoReq \in Requests /\ NoReq.op # "Attach"
  BY DEF NoReq, Frame, Requests
<1>2. << >> \in Seq(HubFrames)
  OBVIOUS
<1>3. WireTypes'
  BY <1>2 DEF TypeOK, WireTypes, CloseEnd
<1>4. ClientTypes'
  <2>1. handles' \in [Clients -> [Channels -> [AllModes -> Nat]]]
    BY DEF TypeOK, ClientTypes, CloseEnd
  <2>2. open' \in [Clients -> BOOLEAN] /\ req' \in [Clients -> Requests]
    BY <1>1 DEF TypeOK, ClientTypes, CloseEnd
  <2>3. \A d \in Clients : d # c => handles'[d] = handles[d] /\ req'[d] = req[d]
    BY DEF TypeOK, ClientTypes, CloseEnd
  <2>4. req'[c].op # "Attach"
    BY <1>1 DEF TypeOK, ClientTypes, CloseEnd
  <2>5. QED
    BY <2>1, <2>2, <2>3, <2>4 DEF TypeOK, ClientTypes
<1>5. QED
  BY <1>3, <1>4 DEF TypeOK, DaemonTypes, ServingTypes, HistoryTypes, CloseEnd, daemon

LEMMA ReadFrameType ==
    ASSUME TypeOK, NEW c \in Clients, ReadFrame(c)
    PROVE  TypeOK'
<1> DEFINE op == Head(out[c]).op
           r == req[c]
<1>1. out' \in [Clients -> Seq(HubFrames)]
  <2>1. out[c] \in Seq(HubFrames) /\ out[c] # << >>
    BY DEF TypeOK, WireTypes, ReadFrame
  <2>2. Tail(out[c]) \in Seq(HubFrames)
    BY <2>1
  <2>3. QED
    BY <2>2 DEF TypeOK, WireTypes, ReadFrame
<1>2. r \in Requests /\ NoReq \in Requests /\ NoReq.op # "Attach" /\ open' = open
  BY DEF TypeOK, ClientTypes, ReadFrame, NoReq, Frame, Requests
<1>3. in' \in [Clients -> Seq(Frames)] /\ ClientTypes'
  <2>1. CASE UNCHANGED <<req, handles, in>>
    BY <1>2, <2>1 DEF TypeOK, WireTypes, ClientTypes
  <2>2. CASE req' = [req EXCEPT ![c] = NoReq] /\ UNCHANGED <<handles, in>>
    BY <1>2, <2>2 DEF TypeOK, WireTypes, ClientTypes
  <2>3. CASE /\ r.op = "Attach"
             /\ req' = [req EXCEPT ![c] = NoReq]
             /\ handles' = [handles EXCEPT ![c][r.ch][r.mode] = @ - 1]
             /\ Send(c, Frame("Detach", r.ch, r.mode, None))
    <3>1. r.ch \in Channels /\ r.mode \in AllModes
      BY <1>2, <2>3 DEF Requests
    <3>2. Frame("Detach", r.ch, r.mode, None) \in Frames
      BY <3>1 DEF Frame, Frames
    <3>3. in' \in [Clients -> Seq(Frames)]
      BY <2>3, <3>2, SendType DEF TypeOK
    <3>4. handles[c][r.ch][r.mode] \in Nat /\ handles[c][r.ch][r.mode] > 0
      BY <2>3, <3>1 DEF TypeOK, ClientTypes
    <3>5. handles' \in [Clients -> [Channels -> [AllModes -> Nat]]]
      BY <2>3, <3>1, <3>4 DEF TypeOK, ClientTypes
    <3>6. \A d \in Clients : d # c => handles'[d] = handles[d] /\ req'[d] = req[d]
      BY <2>3 DEF TypeOK, ClientTypes
    <3>7. req' \in [Clients -> Requests] /\ req'[c].op # "Attach"
      BY <1>2, <2>3 DEF TypeOK, ClientTypes
    <3>8. QED
      BY <1>2, <3>3, <3>5, <3>6, <3>7 DEF TypeOK, ClientTypes
  <2>4. CASE /\ r.op = "Offer"
             /\ req' = [req EXCEPT ![c] = [@ EXCEPT !.op = "Backoff"]]
             /\ UNCHANGED <<handles, in>>
    <3>1. [r EXCEPT !.op = "Backoff"] \in Requests
      BY <1>2, <2>4 DEF Requests
    <3>2. [r EXCEPT !.op = "Backoff"].op # "Attach"
      BY <1>2, <2>4 DEF Requests
    <3>3. req' = [req EXCEPT ![c] = [r EXCEPT !.op = "Backoff"]]
      BY <2>4 DEF TypeOK, ClientTypes
    <3>4. QED
      BY <1>2, <2>4, <3>1, <3>2, <3>3 DEF TypeOK, WireTypes, ClientTypes
  <2>5. CASE /\ r.op = "Offer"
             /\ req' = [req EXCEPT ![c] = [@ EXCEPT !.op = "Publish"]]
             /\ Send(c, Frame("Publish", r.ch, None, r.pay))
             /\ UNCHANGED handles
    <3>1. [r EXCEPT !.op = "Publish"] \in Requests /\ r.ch \in Channels /\ r.pay \in Payloads
      BY <1>2, <2>5 DEF Requests
    <3>2. [r EXCEPT !.op = "Publish"].op # "Attach"
      BY <1>2, <2>5 DEF Requests
    <3>3. req' = [req EXCEPT ![c] = [r EXCEPT !.op = "Publish"]]
      BY <2>5 DEF TypeOK, ClientTypes
    <3>4. Frame("Publish", r.ch, None, r.pay) \in Frames
      BY <3>1 DEF Frame, Frames
    <3>5. in' \in [Clients -> Seq(Frames)]
      BY <2>5, <3>4, SendType DEF TypeOK
    <3>6. QED
      BY <1>2, <2>5, <3>1, <3>2, <3>3, <3>5 DEF TypeOK, ClientTypes
  <2>6. QED
    BY <2>1, <2>2, <2>3, <2>4, <2>5 DEF ReadFrame
<1>4. QED
  BY <1>1, <1>3 DEF TypeOK, DaemonTypes, ServingTypes, WireTypes, HistoryTypes, ReadFrame, daemon

-----------------------------------------------------------------------------
(* The types are kept when the daemon takes a frame.                       *)

(* What is left of each handler is a sequence of its items.                *)
LEMMA ItemTypes ==
    /\ Answer("Ack") \in ItemsOf("Attach") /\ Answer("Error") \in ItemsOf("Attach")
    /\ \A w \in {"flush", "drain", "resume"} : Todo(w) \in ItemsOf("Attach")
    /\ Answer("Ack") \in ItemsOf("Publish") /\ Answer("Error") \in ItemsOf("Publish")
    /\ \A w \in {"peer", "park", "push"} : Todo(w) \in ItemsOf("Publish")
    /\ \A op \in {"Attach", "Publish"}, p \in Payloads :
          /\ \A left \in [Clients -> Nat] : Copies(p, left) \in ItemsOf(op)
          /\ Queue(p) \in ItemsOf(op)
    /\ \A op \in {"Offer", "RecvReady"} :
          /\ Answer("Error") \in ItemsOf(op)
          /\ \A c \in Clients, a \in {"Accept", "Busy"} : Notify(c, a) \in ItemsOf(op)
    /\ \A w \in {"drain", "announce"} : Todo(w) \in ItemsOf("RecvReady")
BY DEF Answer, Todo, Copies, Queue, Notify, ItemsOf, Items, PartsOf

LEMMA ServeAttachType ==
    ASSUME TypeOK, NEW c \in Clients, ServeAttach(c)
    PROVE  TypeOK'
<1> DEFINE f == Head(in[c])
           k == f.ch
           m == f.mode
<1>1. f \in Frames /\ f.op = "Attach" /\ in' \in [Clients -> Seq(Frames)]
  BY TakeType DEF TypeOK, ServeAttach
<1>2. k \in Channels /\ m \in AllModes /\ f.pay = None
  BY <1>1 DEF Frames
<1>3. Serving(c, f) \in ServedFrames
  BY <1>1, <1>2 DEF Serving, ServedFrames
<1>4. DaemonTypes' /\ ServingTypes'
  <2>1. CASE Refused(k, m)
    <3>1. <<Answer("Error"), Todo("resume")>> \in Seq(ItemsOf(f.op))
      BY <1>1, ItemTypes
    <3>2. ServingTypes'
      BY <1>3, <2>1, <3>1, StartType DEF ServeAttach
    <3>3. QED
      BY <2>1, <3>2 DEF TypeOK, DaemonTypes, ServeAttach
  <2>2. CASE ~Refused(k, m)
    <3>1. Backlog(m) \in Seq(ItemsOf(f.op))
      <4>1. <<Todo("flush")>> \in Seq(ItemsOf("Attach"))
        BY ItemTypes
      <4>2. <<Todo("drain")>> \in Seq(ItemsOf("Attach"))
        BY ItemTypes
      <4>3. << >> \in Seq(ItemsOf("Attach"))
        OBVIOUS
      <4>4. QED
        BY <1>1, <4>1, <4>2, <4>3, Zenon DEF Backlog
    <3>2. <<Answer("Ack")>> \o Backlog(m) \o <<Todo("resume")>> \in Seq(ItemsOf(f.op))
      BY <1>1, <3>1, ItemTypes
    <3>3. ServingTypes'
      BY <1>3, <2>2, <3>2, StartType DEF ServeAttach
    <3>4. chan' \in [Channels -> ChannelStates]
      <4>1. chan' = [chan EXCEPT ![k].list[m][c] = @ + 1]
        BY <2>2 DEF ServeAttach
      <4>2. QED
        BY <1>2, <4>1, JoinType DEF TypeOK
    <3>5. att[c] \union {<<k, m>>} \in SUBSET (Channels \X AllModes)
      BY <1>2 DEF TypeOK, DaemonTypes
    <3>6. att' = [att EXCEPT ![c] = att[c] \union {<<k, m>>}]
      BY <2>2 DEF ServeAttach
    <3>7. att' \in [Clients -> SUBSET (Channels \X AllModes)]
      BY <3>5, <3>6 DEF TypeOK, DaemonTypes
    <3>8. QED
      BY <2>2, <3>3, <3>4, <3>7 DEF TypeOK, DaemonTypes, ServeAttach
  <2>3. QED
    BY <2>1, <2>2
<1>5. QED
  BY <1>1, <1>4 DEF TypeOK, WireTypes, ClientTypes, HistoryTypes, ServeAttach, client

LEMMA ServeDetachType ==
    ASSUME TypeOK, NEW c \in Clients, ServeDetach(c)
    PROVE  TypeOK'
<1> DEFINE f == Head(in[c])
           k == f.ch
           m == f.mode
<1>1. f \in Frames /\ f.op = "Detach" /\ in' \in [Clients -> Seq(Frames)]
  BY TakeType DEF TypeOK, ServeDetach
<1>2. k \in Channels
  BY <1>1 DEF Frames
<1>3. ServingTypes'
  BY IdleType DEF ServeDetach, Start
<1>4. chan' \in [Channels -> ChannelStates]
  <2>1. WithoutClient(chan[k], c) \in ChannelStates
    BY <1>2, WithoutClientType DEF TypeOK, DaemonTypes
  <2>2. chan' = [chan EXCEPT ![k] = WithoutClient(chan[k], c)]
    BY DEF ServeDetach
  <2>3. QED
    BY <2>1, <2>2 DEF TypeOK, DaemonTypes
<1>5. att' \in [Clients -> SUBSET (Channels \X AllModes)]
  BY DEF TypeOK, DaemonTypes, ServeDetach
<1>6. QED
  BY <1>1, <1>3, <1>4, <1>5
     DEF TypeOK, DaemonTypes, WireTypes, ClientTypes, HistoryTypes, ServeDetach, client

LEMMA ServeByeType ==
    ASSUME TypeOK, NEW c \in Clients, ServeBye(c)
    PROVE  TypeOK'
<1>1. /\ live' \in [Clients -> BOOLEAN]
      /\ att' \in [Clients -> SUBSET (Channels \X AllModes)]
      /\ chan' \in [Channels -> ChannelStates]
      /\ in' \in [Clients -> Seq(Frames)]
  BY CloseClientType DEF TypeOK, DaemonTypes, ServeBye
<1>2. QED
  BY <1>1 DEF TypeOK, DaemonTypes, ServingTypes, WireTypes, ClientTypes, HistoryTypes,
              ServeBye, client

LEMMA HangUpType ==
    ASSUME TypeOK, NEW c \in Clients, HangUp(c)
    PROVE  TypeOK'
<1>1. /\ live' \in [Clients -> BOOLEAN]
      /\ att' \in [Clients -> SUBSET (Channels \X AllModes)]
      /\ chan' \in [Channels -> ChannelStates]
      /\ in' \in [Clients -> Seq(Frames)]
  BY CloseClientType DEF TypeOK, DaemonTypes, HangUp
<1>2. QED
  BY <1>1 DEF TypeOK, DaemonTypes, ServingTypes, WireTypes, ClientTypes, HistoryTypes,
              HangUp, client

LEMMA ExitType ==
    ASSUME TypeOK, Exit PROVE TypeOK'
BY DEF TypeOK, DaemonTypes, ServingTypes, WireTypes, ClientTypes, HistoryTypes,
       Exit, client, daemon

LEMMA ServePublishType ==
    ASSUME TypeOK, NEW c \in Clients, ServePublish(c)
    PROVE  TypeOK'
<1> DEFINE f == Head(in[c])
           k == f.ch
           p == f.pay
<1>1. f \in Frames /\ f.op = "Publish" /\ in' \in [Clients -> Seq(Frames)]
  BY TakeType DEF TypeOK, ServePublish
<1>2. k \in Channels /\ p \in Payloads /\ f.mode = None
  BY <1>1 DEF Frames
<1>3. Serving(c, f) \in ServedFrames
  BY <1>1, <1>2 DEF Serving, ServedFrames
<1>4. chan[k].list["BroadcastIn"] \in [Clients -> Nat]
  BY <1>2, ListType DEF TypeOK, AllModes
<1>5. /\ <<Todo("park"), Answer("Ack")>> \in Seq(ItemsOf(f.op))
      /\ <<Todo("peer"), Answer("Ack")>> \in Seq(ItemsOf(f.op))
  BY <1>1, ItemTypes
<1>6. <<Copies(p, chan[k].list["BroadcastIn"]), Queue(p), Answer("Ack")>> \in Seq(ItemsOf(f.op))
  <2>1. Copies(p, chan[k].list["BroadcastIn"]) \in ItemsOf(f.op)
    BY <1>1, <1>2, <1>4, ItemTypes, Zenon
  <2>2. Queue(p) \in ItemsOf(f.op) /\ Answer("Ack") \in ItemsOf(f.op)
    BY <1>1, <1>2, ItemTypes, Zenon
  <2>3. QED
    BY <2>1, <2>2
<1>7. \/ Start(c, <<Todo("park"), Answer("Ack")>>)
      \/ Start(c, <<Todo("peer"), Answer("Ack")>>)
      \/ Start(c, <<Copies(p, chan[k].list["BroadcastIn"]), Queue(p), Answer("Ack")>>)
  BY Zenon DEF ServePublish
<1>8. ServingTypes'
  BY <1>3, <1>5, <1>6, <1>7, StartType
<1>9. QED
  BY <1>1, <1>8
     DEF TypeOK, DaemonTypes, WireTypes, ClientTypes, HistoryTypes, ServePublish, client, daemon

(* Replacing the marks of a channel.                                       *)
LEMMA MarksType ==
    ASSUME DaemonTypes, NEW k \in Channels,
           NEW o \in Clients \union {None}, NEW r \in Clients \union {None}
    PROVE  /\ [chan EXCEPT ![k].offer_from = o] \in [Channels -> ChannelStates]
           /\ [chan EXCEPT ![k].recv_ready = r] \in [Channels -> ChannelStates]
           /\ [chan EXCEPT ![k].offer_from = o, ![k].recv_ready = r] \in [Channels -> ChannelStates]
<1>1. \A s \in ChannelStates : /\ [s EXCEPT !.offer_from = o] \in ChannelStates
                               /\ [s EXCEPT !.recv_ready = r] \in ChannelStates
  BY DEF ChannelStates
<1>2. /\ [chan EXCEPT ![k].offer_from = o] \in [Channels -> ChannelStates]
      /\ [chan EXCEPT ![k].recv_ready = r] \in [Channels -> ChannelStates]
  BY <1>1 DEF DaemonTypes
<1>3. [[chan[k] EXCEPT !.offer_from = o] EXCEPT !.recv_ready = r] \in ChannelStates
  BY <1>1 DEF DaemonTypes
<1>4. [chan EXCEPT ![k].offer_from = o, ![k].recv_ready = r]
         = [chan EXCEPT ![k] = [[chan[k] EXCEPT !.offer_from = o] EXCEPT !.recv_ready = r]]
  BY DEF DaemonTypes
<1>5. QED
  BY <1>2, <1>3, <1>4 DEF DaemonTypes

LEMMA ServeOfferType ==
    ASSUME TypeOK, NEW c \in Clients, ServeOffer(c)
    PROVE  TypeOK'
<1> DEFINE f == Head(in[c])
           k == f.ch
           o == chan[k].offer_from
<1>1. f \in Frames /\ f.op = "Offer" /\ in' \in [Clients -> Seq(Frames)]
  BY TakeType DEF TypeOK, ServeOffer
<1>2. k \in Channels /\ f.pay = None /\ f.mode = None
  BY <1>1 DEF Frames
<1>3. Serving(c, f) \in ServedFrames
  BY <1>1, <1>2 DEF Serving, ServedFrames
<1>4. o \in Clients \union {None}
  BY <1>2 DEF TypeOK, DaemonTypes, ChannelStates
<1>5. /\ <<Answer("Error")>> \in Seq(ItemsOf(f.op))
      /\ <<Notify(c, "Accept")>> \in Seq(ItemsOf(f.op))
  BY <1>1, ItemTypes
<1>6. << >> \in Seq(ItemsOf(f.op))
  OBVIOUS
<1>7. ASSUME o # None
      PROVE  <<Notify(c, "Busy"), Notify(o, "Busy")>> \in Seq(ItemsOf(f.op))
  BY <1>1, <1>4, <1>7, ItemTypes
<1>8. \/ Start(c, <<Answer("Error")>>) \/ Start(c, <<Notify(c, "Accept")>>) \/ Start(c, << >>)
      \/ o # None /\ Start(c, <<Notify(c, "Busy"), Notify(o, "Busy")>>)
  BY Zenon DEF ServeOffer, OtherOffered
<1>9. ServingTypes'
  BY <1>3, <1>5, <1>6, <1>7, <1>8, StartType
<1>10. \/ chan' = chan
       \/ chan' = [chan EXCEPT ![k].offer_from = None]
       \/ chan' = [chan EXCEPT ![k].offer_from = None, ![k].recv_ready = None]
       \/ chan' = [chan EXCEPT ![k].offer_from = c]
  BY Zenon DEF ServeOffer
<1>11. chan' \in [Channels -> ChannelStates]
  <2>1. /\ chan \in [Channels -> ChannelStates]
        /\ [chan EXCEPT ![k].offer_from = None] \in [Channels -> ChannelStates]
        /\ [chan EXCEPT ![k].offer_from = None, ![k].recv_ready = None] \in [Channels -> ChannelStates]
        /\ [chan EXCEPT ![k].offer_from = c] \in [Channels -> ChannelStates]
    BY <1>2, MarksType, Zenon DEF TypeOK, DaemonTypes
  <2>2. QED
    BY <1>10, <2>1, Zenon
<1>12. QED
  BY <1>1, <1>9, <1>11
     DEF TypeOK, DaemonTypes, WireTypes, ClientTypes, HistoryTypes, ServeOffer, client

LEMMA ServeRecvReadyType ==
    ASSUME TypeOK, NEW c \in Clients, ServeRecvReady(c)
    PROVE  TypeOK'
<1> DEFINE f == Head(in[c])
           k == f.ch
           o == chan[k].offer_from
           receive == <<Todo("drain"), Todo("announce")>>
<1>1. f \in Frames /\ f.op = "RecvReady" /\ in' \in [Clients -> Seq(Frames)]
  BY TakeType DEF TypeOK, ServeRecvReady
<1>2. k \in Channels /\ f.pay = None /\ f.mode = None
  BY <1>1 DEF Frames
<1>3. Serving(c, f) \in ServedFrames
  BY <1>1, <1>2 DEF Serving, ServedFrames
<1>4. o \in Clients \union {None}
  BY <1>2 DEF TypeOK, DaemonTypes, ChannelStates
<1>5. <<Answer("Error")>> \in Seq(ItemsOf(f.op)) /\ receive \in Seq(ItemsOf(f.op))
  BY <1>1, ItemTypes
<1>6. ASSUME o # None
      PROVE  <<Notify(o, "Accept")>> \o receive \in Seq(ItemsOf(f.op))
  <2>1. <<Notify(o, "Accept")>> \in Seq(ItemsOf(f.op))
    BY <1>1, <1>4, <1>6, ItemTypes
  <2>2. QED
    BY <2>1, <1>5
<1>7. \/ Start(c, <<Answer("Error")>>) \/ Start(c, receive)
      \/ o # None /\ Start(c, <<Notify(o, "Accept")>> \o receive)
  BY Zenon DEF ServeRecvReady, OtherOffered
<1>8. ServingTypes'
  BY <1>3, <1>5, <1>6, <1>7, StartType
<1>9. chan' = chan \/ chan' = [chan EXCEPT ![k].offer_from = None]
  BY Zenon DEF ServeRecvReady
<1>10. chan' \in [Channels -> ChannelStates]
  <2>1. /\ chan \in [Channels -> ChannelStates]
        /\ [chan EXCEPT ![k].offer_from = None] \in [Channels -> ChannelStates]
    BY <1>2, MarksType, Zenon DEF TypeOK, DaemonTypes
  <2>2. QED
    BY <1>9, <2>1, Zenon
<1>11. QED
  BY <1>1, <1>8, <1>10
     DEF TypeOK, DaemonTypes, WireTypes, ClientTypes, HistoryTypes, ServeRecvReady, client

-----------------------------------------------------------------------------
(* The types are kept by the rest of the handlers.                         *)

(* The frame being served, and the next item of its handler.               *)
LEMMA ServedType ==
    ASSUME ServingTypes, NEW what, Doing(what)
    PROVE  /\ cur.id \in Clients /\ cur.ch \in Channels
           /\ cur.op \in {"Attach", "Publish", "Offer", "RecvReady"}
           /\ cur.op = "Publish" => cur.pay \in Payloads
           /\ todo \in Seq(ItemsOf(cur.op)) /\ Tail(todo) \in Seq(ItemsOf(cur.op))
<1>1. cur \in ServedFrames /\ Tail(todo) \in Seq(ItemsOf(cur.op))
  BY DoingType
<1>2. todo \in Seq(ItemsOf(cur.op))
  BY DEF ServingTypes
<1>3. QED
  BY <1>1, <1>2 DEF ServedFrames

LEMMA HeadType ==
    ASSUME ServingTypes, NEW what, Doing(what)
    PROVE  /\ what = "answer" => Head(todo).op \in {"Ack", "Error"}
           /\ what = "notify" => Head(todo).to \in Clients /\ Head(todo).op \in {"Accept", "Busy"}
           /\ what \in {"copies", "queue"} =>
                 Head(todo).pay \in Payloads /\ cur.op \in {"Attach", "Publish"}
           /\ what = "copies" => Head(todo).left \in [Clients -> Nat]
           /\ what = "flush" => cur.op = "Attach"
           /\ what \in {"peer", "park", "push"} => cur.op = "Publish"
<1>1. Head(todo) \in Items /\ what \in PartsOf(cur.op) /\ Head(todo).do = what
  BY DoingType DEF Doing
<1>2. cur.op \in {"Attach", "Publish", "Offer", "RecvReady"}
  BY ServedType
<1>3. QED
  BY <1>1, <1>2 DEF Items, PartsOf

LEMMA AnswerStepType ==
    ASSUME TypeOK, AnswerStep PROVE TypeOK'
<1> DEFINE c == cur.id
           op == Head(todo).op
<1>1. /\ c \in Clients /\ Tail(todo) \in Seq(ItemsOf(cur.op)) /\ op \in {"Ack", "Error"}
      /\ cur.op = "Publish" => cur.pay \in Payloads
  BY ServedType, HeadType DEF TypeOK, AnswerStep
<1>2. CASE ~live[c] /\ Goto(Tail(todo)) /\ UNCHANGED <<daemon, in, out, acked>>
  BY <1>1, <1>2, GotoType
     DEF TypeOK, DaemonTypes, WireTypes, ClientTypes, HistoryTypes, AnswerStep, client, daemon
<1>3. CASE /\ Put(c, Reply(op)) /\ Goto(Tail(todo)) /\ UNCHANGED <<daemon, in>>
           /\ acked' = IF op = "Ack" /\ cur.op = "Publish"
                       THEN acked \union {cur.pay.n} ELSE acked
  <2>1. Reply(op) \in HubFrames
    BY <1>1 DEF Reply, HubFrames, Replies
  <2>2. out' \in [Clients -> Seq(HubFrames)]
    BY <1>1, <1>3, <2>1, PutType DEF TypeOK
  <2>3. acked' \subseteq 1..MaxPublish
    BY <1>1, <1>3 DEF TypeOK, HistoryTypes, Payloads
  <2>4. QED
    BY <1>1, <1>3, <2>2, <2>3, GotoType
       DEF TypeOK, DaemonTypes, WireTypes, ClientTypes, HistoryTypes, AnswerStep, client, daemon
<1>4. CASE /\ CloseClient(c, chan) /\ UNCHANGED <<out, acked>>
           /\ Goto(Returned)
  <2>1. /\ live' \in [Clients -> BOOLEAN]
        /\ att' \in [Clients -> SUBSET (Channels \X AllModes)]
        /\ chan' \in [Channels -> ChannelStates]
        /\ in' \in [Clients -> Seq(Frames)]
    BY <1>1, <1>4, CloseClientType DEF TypeOK, DaemonTypes
  <2>2. ServingTypes'
    BY <1>4, ClosedType DEF TypeOK
  <2>3. QED
    BY <1>4, <2>1, <2>2
       DEF TypeOK, DaemonTypes, WireTypes, ClientTypes, HistoryTypes, AnswerStep, client
<1>5. QED
  BY <1>2, <1>3, <1>4 DEF AnswerStep

LEMMA NotifyStepType ==
    ASSUME TypeOK, NotifyStep PROVE TypeOK'
<1> DEFINE c == Head(todo).to
           f == Reply(Head(todo).op)
<1>1. /\ c \in Clients /\ Tail(todo) \in Seq(ItemsOf(cur.op))
      /\ Head(todo).op \in {"Accept", "Busy"}
  BY ServedType, HeadType DEF TypeOK, NotifyStep
<1>2. f \in HubFrames
  BY <1>1 DEF Reply, HubFrames, Replies
<1>3. out' \in [Clients -> Seq(HubFrames)]
  BY <1>1, <1>2, PutType DEF TypeOK, WireTypes, NotifyStep
<1>4. ServingTypes'
  BY <1>1, GotoType DEF TypeOK, NotifyStep
<1>5. QED
  BY <1>3, <1>4 DEF TypeOK, DaemonTypes, WireTypes, ClientTypes, HistoryTypes,
                    NotifyStep, client, daemon

LEMMA FlushStepType ==
    ASSUME TypeOK, FlushStep PROVE TypeOK'
<1> DEFINE k == cur.ch
           p == Head(chan[k].pending)
           n == chan[k].list["BroadcastIn"]
<1>1. /\ k \in Channels /\ cur.op = "Attach"
      /\ todo \in Seq(ItemsOf(cur.op)) /\ Tail(todo) \in Seq(ItemsOf(cur.op))
  BY ServedType, HeadType DEF TypeOK, FlushStep
<1>2. CASE /\ chan[k].pending # << >> /\ chan' = Pop(k)
           /\ Goto(<<Copies(p, n), Queue(p)>> \o todo)
  <2>1. p \in Payloads /\ chan' \in [Channels -> ChannelStates]
    BY <1>1, <1>2, PopType DEF TypeOK
  <2>2. n \in [Clients -> Nat]
    BY <1>1, ListType DEF TypeOK, AllModes
  <2>3. Copies(p, n) \in ItemsOf(cur.op) /\ Queue(p) \in ItemsOf(cur.op)
    BY <1>1, <2>1, <2>2, ItemTypes, Zenon
  <2>4. <<Copies(p, n), Queue(p)>> \in Seq(ItemsOf(cur.op))
    BY <2>3
  <2>5. <<Copies(p, n), Queue(p)>> \o todo \in Seq(ItemsOf(cur.op))
    BY <1>1, <2>4
  <2>6. ServingTypes'
    BY <1>2, <2>5, GotoType DEF TypeOK
  <2>7. QED
    BY <2>1, <2>6 DEF TypeOK, DaemonTypes, WireTypes, ClientTypes, HistoryTypes,
                      FlushStep, client
<1>3. CASE Goto(Tail(todo)) /\ UNCHANGED chan
  <2>1. ServingTypes'
    BY <1>1, <1>3, GotoType DEF TypeOK
  <2>2. QED
    BY <1>3, <2>1 DEF TypeOK, DaemonTypes, WireTypes, ClientTypes, HistoryTypes,
                      FlushStep, client
<1>4. QED
  BY <1>2, <1>3 DEF FlushStep

(* What is left of the loop over the readers when a reader is closed.      *)
LEMMA ShiftedType ==
    ASSUME NEW left \in [Clients -> Nat], NEW c \in Clients, NEW m, NEW l \in Shifted(left, c, m)
    PROVE  l \in [Clients -> Nat]
<1> DEFINE rest == [left EXCEPT ![c] = 0]
           After(e) == [d \in Clients |-> rest[d] - e[1][d] + e[2][d]]
<1>1. rest \in [Clients -> Nat]
  OBVIOUS
<1>2. PICK e \in Entries(rest, m) \X Entries(rest, m) : l = After(e)
  BY DEF Shifted
<1>3. ASSUME NEW d \in Clients PROVE After(e)[d] \in Nat
  <2>1. rest[d] \in Nat /\ e[1][d] \in 0..m /\ e[2][d] \in 0..m /\ e[1][d] <= rest[d]
    BY <1>1 DEF Entries
  <2>2. QED
    BY <2>1
<1>4. QED
  BY <1>2, <1>3

LEMMA CopyStepType ==
    ASSUME TypeOK, CopyStep PROVE TypeOK'
<1> DEFINE k == cur.ch
           p == Head(todo).pay
           left == Head(todo).left
<1>1. /\ cur.op \in {"Attach", "Publish"} /\ Tail(todo) \in Seq(ItemsOf(cur.op))
      /\ p \in Payloads /\ left \in [Clients -> Nat] /\ k \in Channels
  BY ServedType, HeadType DEF TypeOK, CopyStep
<1>2. ASSUME NEW l \in [Clients -> Nat]
      PROVE  <<Copies(p, l)>> \o Tail(todo) \in Seq(ItemsOf(cur.op))
  <2>1. Copies(p, l) \in ItemsOf(cur.op)
    BY <1>1, ItemTypes, Zenon
  <2>2. QED
    BY <1>1, <2>1
<1>3. CASE Goto(Tail(todo)) /\ UNCHANGED <<status, daemon, in, out, dlv>>
  BY <1>1, <1>3, GotoType
     DEF TypeOK, DaemonTypes, WireTypes, ClientTypes, HistoryTypes, CopyStep, client, daemon
<1>4. ASSUME NEW c \in Clients, left[c] > 0,
             Put(c, Deliver("BroadcastIn", p)), Log(c, "BroadcastIn", p),
             Goto(<<Copies(p, [left EXCEPT ![c] = @ - 1])>> \o Tail(todo)),
             UNCHANGED <<status, daemon, in>>
      PROVE  TypeOK'
  <2>1. [left EXCEPT ![c] = @ - 1] \in [Clients -> Nat]
    BY <1>1, <1>4
  <2>2. ServingTypes'
    BY <1>2, <1>4, <2>1, GotoType DEF TypeOK
  <2>3. Deliver("BroadcastIn", p) \in HubFrames /\ "BroadcastIn" \in AllModes
    BY <1>1 DEF Deliver, HubFrames, AllModes
  <2>4. out' \in [Clients -> Seq(HubFrames)] /\ dlv' \in [Clients -> Seq(Deliveries)]
    BY <1>1, <1>4, <2>3, PutType, LogType DEF TypeOK
  <2>5. QED
    BY <1>4, <2>2, <2>4
       DEF TypeOK, DaemonTypes, WireTypes, ClientTypes, HistoryTypes, CopyStep, client, daemon
<1>5. ASSUME NEW c \in Clients, NEW l \in Shifted(left, c, chan[cur.ch].list["BroadcastIn"][c]),
             CloseClient(c, chan), Goto(<<Copies(p, l)>> \o Tail(todo)),
             status' \in {"running", "crashed"}, UNCHANGED <<out, dlv>>
      PROVE  TypeOK'
  <2>1. l \in [Clients -> Nat]
    BY <1>1, ShiftedType
  <2>2. ServingTypes'
    BY <1>2, <1>5, <2>1, GotoType DEF TypeOK
  <2>3. /\ live' \in [Clients -> BOOLEAN]
        /\ att' \in [Clients -> SUBSET (Channels \X AllModes)]
        /\ chan' \in [Channels -> ChannelStates]
        /\ in' \in [Clients -> Seq(Frames)]
    BY <1>5, CloseClientType DEF TypeOK, DaemonTypes
  <2>4. QED
    BY <1>5, <2>2, <2>3
       DEF TypeOK, DaemonTypes, WireTypes, ClientTypes, HistoryTypes, CopyStep, client
<1>6. QED
  BY <1>3, <1>4, <1>5 DEF CopyStep, Dangling

LEMMA QueueStepType ==
    ASSUME TypeOK, QueueStep PROVE TypeOK'
<1> DEFINE p == Head(todo).pay
<1>1. Tail(todo) \in Seq(ItemsOf(cur.op)) /\ p \in Payloads /\ cur.ch \in Channels
  BY ServedType, HeadType DEF TypeOK, QueueStep
<1>2. ServingTypes'
  BY <1>1, GotoType DEF TypeOK, QueueStep
<1>3. CASE UNCHANGED <<status, daemon, in, out, dlv>>
  BY <1>2, <1>3
     DEF TypeOK, DaemonTypes, WireTypes, ClientTypes, HistoryTypes, QueueStep, client, daemon
<1>4. ASSUME NEW c \in Clients, Put(c, Deliver("QueueIn", p)), Log(c, "QueueIn", p),
             UNCHANGED <<status, daemon, in>>
      PROVE  TypeOK'
  <2>1. Deliver("QueueIn", p) \in HubFrames /\ "QueueIn" \in AllModes
    BY <1>1 DEF Deliver, HubFrames, AllModes
  <2>2. out' \in [Clients -> Seq(HubFrames)] /\ dlv' \in [Clients -> Seq(Deliveries)]
    BY <1>1, <1>4, <2>1, PutType, LogType DEF TypeOK
  <2>3. QED
    BY <1>2, <1>4, <2>2
       DEF TypeOK, DaemonTypes, WireTypes, ClientTypes, HistoryTypes, QueueStep, client, daemon
<1>5. ASSUME NEW c \in Clients, CloseClient(c, chan),
             status' \in {"running", "crashed"}, UNCHANGED <<out, dlv>>
      PROVE  TypeOK'
  <2>1. /\ live' \in [Clients -> BOOLEAN]
        /\ att' \in [Clients -> SUBSET (Channels \X AllModes)]
        /\ chan' \in [Channels -> ChannelStates]
        /\ in' \in [Clients -> Seq(Frames)]
    BY <1>5, CloseClientType DEF TypeOK, DaemonTypes
  <2>2. QED
    BY <1>2, <1>5, <2>1
       DEF TypeOK, DaemonTypes, WireTypes, ClientTypes, HistoryTypes, QueueStep, client
<1>6. QED
  BY <1>3, <1>4, <1>5 DEF QueueStep, Dangling, Attached

LEMMA DrainStepType ==
    ASSUME TypeOK, DrainStep PROVE TypeOK'
<1> DEFINE c == cur.id
           k == cur.ch
           p == Head(chan[k].pending)
<1>1. c \in Clients /\ k \in Channels /\ Tail(todo) \in Seq(ItemsOf(cur.op))
  BY ServedType DEF TypeOK, DrainStep
<1>2. CASE Goto(Tail(todo)) /\ UNCHANGED <<daemon, in, out, dlv>>
  BY <1>1, <1>2, GotoType
     DEF TypeOK, DaemonTypes, WireTypes, ClientTypes, HistoryTypes, DrainStep, client, daemon
<1>3. CASE /\ chan[k].pending # << >> /\ chan' = Pop(k)
           /\ Put(c, Deliver("ChannelPeer", p)) /\ Log(c, "ChannelPeer", p)
           /\ UNCHANGED <<live, att, cur, todo, in>>
  <2>1. p \in Payloads /\ chan' \in [Channels -> ChannelStates]
    BY <1>1, <1>3, PopType DEF TypeOK
  <2>2. Deliver("ChannelPeer", p) \in HubFrames /\ "ChannelPeer" \in AllModes
    BY <2>1 DEF Deliver, HubFrames, AllModes
  <2>3. out' \in [Clients -> Seq(HubFrames)] /\ dlv' \in [Clients -> Seq(Deliveries)]
    BY <1>1, <1>3, <2>1, <2>2, PutType, LogType DEF TypeOK
  <2>4. QED
    BY <1>3, <2>1, <2>3
       DEF TypeOK, DaemonTypes, ServingTypes, WireTypes, ClientTypes, HistoryTypes, DrainStep, client
<1>4. CASE /\ chan[k].pending # << >> /\ CloseClient(c, Pop(k)) /\ UNCHANGED <<out, dlv>>
           /\ Goto(Returned)
  <2>1. Pop(k) \in [Channels -> ChannelStates]
    BY <1>1, <1>4, PopType DEF TypeOK
  <2>2. /\ live' \in [Clients -> BOOLEAN]
        /\ att' \in [Clients -> SUBSET (Channels \X AllModes)]
        /\ chan' \in [Channels -> ChannelStates]
        /\ in' \in [Clients -> Seq(Frames)]
    BY <1>1, <1>4, <2>1, CloseClientType DEF TypeOK
  <2>3. ServingTypes'
    BY <1>4, ClosedType DEF TypeOK
  <2>4. QED
    BY <1>4, <2>2, <2>3
       DEF TypeOK, DaemonTypes, WireTypes, ClientTypes, HistoryTypes, DrainStep, client
<1>5. QED
  BY <1>2, <1>3, <1>4 DEF DrainStep

LEMMA AnnounceStepType ==
    ASSUME TypeOK, AnnounceStep PROVE TypeOK'
<1>1. cur.id \in Clients /\ cur.ch \in Channels /\ Tail(todo) \in Seq(ItemsOf(cur.op))
  BY ServedType DEF TypeOK, AnnounceStep
<1>2. chan' = [chan EXCEPT ![cur.ch].recv_ready = cur.id] /\ Goto(Tail(todo))
  BY DEF AnnounceStep
<1>3. chan' \in [Channels -> ChannelStates]
  BY <1>1, <1>2, MarksType DEF TypeOK
<1>4. ServingTypes'
  BY <1>1, <1>2, GotoType DEF TypeOK
<1>5. QED
  BY <1>3, <1>4
     DEF TypeOK, DaemonTypes, WireTypes, ClientTypes, HistoryTypes, AnnounceStep, client

LEMMA PeerStepType ==
    ASSUME TypeOK, PeerStep PROVE TypeOK'
<1>1. /\ cur.op = "Publish" /\ cur.pay \in Payloads /\ cur.ch \in Channels
      /\ Tail(todo) \in Seq(ItemsOf(cur.op))
  BY ServedType, HeadType DEF TypeOK, PeerStep
<1>2. ASSUME NEW d \in Clients, Put(d, Deliver("ChannelPeer", cur.pay)),
             Log(d, "ChannelPeer", cur.pay), Goto(Tail(todo))
      PROVE  TypeOK'
  <2>1. Deliver("ChannelPeer", cur.pay) \in HubFrames /\ "ChannelPeer" \in AllModes
    BY <1>1 DEF Deliver, HubFrames, AllModes
  <2>2. out' \in [Clients -> Seq(HubFrames)] /\ dlv' \in [Clients -> Seq(Deliveries)]
    BY <1>1, <1>2, <2>1, PutType, LogType DEF TypeOK
  <2>3. ServingTypes'
    BY <1>1, <1>2, GotoType DEF TypeOK
  <2>4. QED
    BY <2>2, <2>3
       DEF TypeOK, DaemonTypes, WireTypes, ClientTypes, HistoryTypes, PeerStep, client, daemon
<1>3. CASE Goto(<<Todo("park")>> \o Tail(todo)) /\ UNCHANGED <<out, dlv>>
  <2>1. Todo("park") \in ItemsOf(cur.op)
    BY <1>1, ItemTypes
  <2>2. <<Todo("park")>> \o Tail(todo) \in Seq(ItemsOf(cur.op))
    BY <1>1, <2>1
  <2>3. ServingTypes'
    BY <1>3, <2>2, GotoType DEF TypeOK
  <2>4. QED
    BY <1>3, <2>3
       DEF TypeOK, DaemonTypes, WireTypes, ClientTypes, HistoryTypes, PeerStep, client, daemon
<1>4. QED
  BY <1>2, <1>3 DEF PeerStep, Peers, Attached

LEMMA ParkStepType ==
    ASSUME TypeOK, ParkStep PROVE TypeOK'
<1> DEFINE k == cur.ch
<1>1. /\ cur.op = "Publish" /\ cur.pay \in Payloads /\ k \in Channels
      /\ Tail(todo) \in Seq(ItemsOf(cur.op))
  BY ServedType, HeadType DEF TypeOK, ParkStep
<1>2. Answer("Error") \in ItemsOf(cur.op) /\ Todo("push") \in ItemsOf(cur.op)
  BY <1>1, ItemTypes
<1>3. /\ <<Answer("Error")>> \in Seq(ItemsOf(cur.op))
      /\ <<Todo("push")>> \o Tail(todo) \in Seq(ItemsOf(cur.op))
  BY <1>1, <1>2
<1>4. \/ Goto(<<Answer("Error")>>) \/ Goto(Tail(todo))
      \/ Goto(<<Todo("push")>> \o Tail(todo))
  BY DEF ParkStep
<1>5. ServingTypes'
  BY <1>1, <1>3, <1>4, GotoType DEF TypeOK
<1>6. chan' = chan \/ chan' = Push(k, cur.pay)
  BY DEF ParkStep
<1>7. chan' \in [Channels -> ChannelStates]
  <2>1. Push(k, cur.pay) \in [Channels -> ChannelStates] /\ chan \in [Channels -> ChannelStates]
    BY <1>1, PushType DEF TypeOK, DaemonTypes
  <2>2. QED
    BY <1>6, <2>1
<1>8. QED
  BY <1>5, <1>7 DEF TypeOK, DaemonTypes, WireTypes, ClientTypes, HistoryTypes, ParkStep, client

LEMMA PushStepType ==
    ASSUME TypeOK, PushStep PROVE TypeOK'
<1> DEFINE k == cur.ch
           d == chan[k].recv_ready
           p == Head(chan[k].pending)
<1>1. k \in Channels /\ Tail(todo) \in Seq(ItemsOf(cur.op))
  BY ServedType DEF TypeOK, PushStep
<1>2. CASE Goto(Tail(todo)) /\ UNCHANGED <<out, dlv>>
           /\ (chan' = chan \/ (chan[k].pending # << >> /\ chan' = Pop(k)))
  <2>1. ServingTypes'
    BY <1>1, <1>2, GotoType DEF TypeOK
  <2>2. chan' \in [Channels -> ChannelStates]
    <3>1. CASE chan' = chan
      BY <3>1 DEF TypeOK, DaemonTypes
    <3>2. CASE chan[k].pending # << >> /\ chan' = Pop(k)
      BY <1>1, <3>2, PopType DEF TypeOK
    <3>3. QED
      BY <1>2, <3>1, <3>2
  <2>3. QED
    BY <1>2, <2>1, <2>2
       DEF TypeOK, DaemonTypes, WireTypes, ClientTypes, HistoryTypes, PushStep, client
<1>3. CASE /\ chan[k].pending # << >> /\ chan' = Pop(k)
           /\ Put(d, Deliver("ChannelPeer", p)) /\ Log(d, "ChannelPeer", p)
           /\ UNCHANGED <<cur, todo>>
  <2>1. p \in Payloads /\ chan' \in [Channels -> ChannelStates]
    BY <1>1, <1>3, PopType DEF TypeOK
  <2>2. Deliver("ChannelPeer", p) \in HubFrames /\ "ChannelPeer" \in AllModes
    BY <2>1 DEF Deliver, HubFrames, AllModes
  <2>3. out' \in [Clients -> Seq(HubFrames)] /\ dlv' \in [Clients -> Seq(Deliveries)]
    <3>1. CASE d \in Clients
      <4>1. out' \in [Clients -> Seq(HubFrames)]
        BY <1>3, <2>2, <3>1, PutType DEF TypeOK
      <4>2. dlv' \in [Clients -> Seq(Deliveries)]
        BY <1>1, <1>3, <2>1, <2>2, <3>1, LogType DEF TypeOK
      <4>3. QED
        BY <4>1, <4>2
    <3>2. CASE d \notin Clients
      BY <1>3, <3>2 DEF TypeOK, WireTypes, HistoryTypes, Put, Log
    <3>3. QED
      BY <3>1, <3>2
  <2>4. QED
    BY <1>3, <2>1, <2>3
       DEF TypeOK, DaemonTypes, ServingTypes, WireTypes, ClientTypes, HistoryTypes, PushStep, client
<1>4. QED
  BY <1>2, <1>3 DEF PushStep

LEMMA ResumeStepType ==
    ASSUME TypeOK, ResumeStep PROVE TypeOK'
<1>1. Tail(todo) \in Seq(ItemsOf(cur.op))
  BY ServedType DEF TypeOK, ResumeStep
<1>2. ServingTypes'
  BY <1>1, GotoType DEF TypeOK, ResumeStep
<1>3. status' \in {"running", "crashed"}
  BY DEF ResumeStep, Dangling
<1>4. QED
  BY <1>2, <1>3
     DEF TypeOK, DaemonTypes, WireTypes, ClientTypes, HistoryTypes, ResumeStep, client, daemon

LEMMA SigPipeType ==
    ASSUME TypeOK, SigPipe PROVE TypeOK'
<1>1. ServingTypes'
  BY IdleType DEF SigPipe, Goto
<1>2. QED
  BY <1>1
     DEF TypeOK, DaemonTypes, WireTypes, ClientTypes, HistoryTypes, SigPipe, client, daemon

-----------------------------------------------------------------------------
(* The type invariant.                                                     *)

LEMMA InitType ==
    Init => TypeOK
<1> SUFFICES ASSUME Init PROVE TypeOK
  OBVIOUS
<1>1. DaemonTypes
  <2>1. NoHandles \in [Clients -> Nat] /\ << >> \in Seq(Payloads)
    BY DEF NoHandles
  <2>2. EmptyChannel \in ChannelStates
    BY <2>1 DEF EmptyChannel, ChannelStates
  <2>3. QED
    BY <2>2 DEF Init, DaemonTypes
<1>2. ServingTypes
  <2>1. << >> \in Seq(ItemsOf(cur.op))
    OBVIOUS
  <2>2. QED
    BY <2>1 DEF Init, ServingTypes
<1>3. WireTypes
  <2>1. << >> \in Seq(Frames) /\ << >> \in Seq(HubFrames)
    OBVIOUS
  <2>2. QED
    BY <2>1 DEF Init, WireTypes
<1>4. ClientTypes
  <2>1. NoReq \in Requests /\ NoReq.op # "Attach"
    BY DEF NoReq, Frame, Requests
  <2>2. QED
    BY <2>1 DEF Init, ClientTypes
<1>5. HistoryTypes
  <2>1. << >> \in Seq(Deliveries) /\ 0 \in 0..MaxPublish
    BY BoundsAssumption
  <2>2. QED
    BY <2>1 DEF Init, HistoryTypes
<1>6. QED
  BY <1>1, <1>2, <1>3, <1>4, <1>5 DEF TypeOK

LEMMA StepType ==
    ASSUME TypeOK, Step PROVE TypeOK'
BY AnswerStepType, NotifyStepType, FlushStepType, CopyStepType, QueueStepType, DrainStepType,
   AnnounceStepType, PeerStepType, ParkStepType, PushStepType, ResumeStepType, SigPipeType
   DEF Step

LEMMA ClientStepType ==
    ASSUME TypeOK, NEW c \in Clients, ClientStep(c) PROVE TypeOK'
BY ConnectType, SendByeType, CloseEndType, ReadFrameType, RetryOfferType, SendPublishType,
   SendOfferType, SendRecvReadyType, SendAttachType, SendDetachType
   DEF ClientStep, Die, ReadEof

LEMMA ServeType ==
    ASSUME TypeOK, NEW c \in Clients, Serve(c) PROVE TypeOK'
BY ServeAttachType, ServeDetachType, ServeByeType, ServePublishType, ServeOfferType,
   ServeRecvReadyType DEF Serve

LEMMA NextType ==
    TypeOK /\ [Next]_vars => TypeOK'
<1> SUFFICES ASSUME TypeOK, [Next]_vars PROVE TypeOK'
  OBVIOUS
<1>1. CASE Next
  BY <1>1, StepType, ExitType, ServeType, HangUpType, ClientStepType DEF Next
<1>2. CASE UNCHANGED vars
  BY <1>2 DEF TypeOK, DaemonTypes, ServingTypes, WireTypes, ClientTypes, HistoryTypes, vars
<1>3. QED
  BY <1>1, <1>2

(* Whatever the clients do and whenever a write stalls or a process dies,  *)
(* the daemon's tables keep their types, a frame is being served exactly   *)
(* while something is left of its handler, and only parts of that handler  *)
(* are left: no return from a nested loop goes on with another frame.      *)
THEOREM TypeCorrect == Spec => []TypeOK
<1>1. Init => TypeOK
  BY InitType
<1>2. TypeOK /\ [Next]_vars => TypeOK'
  BY NextType
<1>3. QED
  BY <1>1, <1>2, PTL DEF Spec
=============================================================================
