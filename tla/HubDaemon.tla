------------------------------ MODULE HubDaemon ------------------------------
(***************************************************************************)
(* The pipe hub daemon (src/include/pipe_hub_daemon.hpp, POSIX build) with *)
(* the processes that are connected to it.                                 *)
(*                                                                         *)
(* The daemon is one thread around poll().  It takes one frame of one      *)
(* client at a time and runs its handler to the end; but a handler writes  *)
(* to several sockets, every write can wait 500 ms, and while it does the  *)
(* clients go on reading, closing and dying.  So a frame is served in      *)
(* steps: Serve* does the part of the handler before its first write and   *)
(* leaves in todo what is still to be done for the frame cur; each later   *)
(* step performs one write or one turn of a loop.                          *)
(*                                                                         *)
(* A client is a slot of the daemon's descriptor table: assign_id uses the *)
(* descriptor as the client id, so a slot freed by close() is reused by    *)
(* the next accept().                                                      *)
(***************************************************************************)
EXTENDS Naturals, Sequences, FiniteSets

CONSTANTS
    Clients,      \* descriptors the daemon can have open
    Channels,     \* pipe ids
    Modes,        \* the attachment modes the clients use
    None,         \* absent client, mode or payload
    MaxPending,   \* channel_state::max_pending (4096 in the code)
    SockBuf,      \* frames a client's socket holds before write() would block
    InBuf,        \* bound: unread frames of one client
    MaxHandles,   \* bound: handles of one kind that a client has open
    MaxPublish    \* bound: payloads published

AllModes == {"Writer", "QueueIn", "BroadcastIn", "ChannelPeer"}

ASSUME ModesAssumption == Modes \subseteq AllModes
ASSUME BoundsAssumption ==
    {MaxPending, SockBuf, InBuf, MaxHandles, MaxPublish} \subseteq Nat
ASSUME NoneAssumption == None \notin Clients /\ None \notin AllModes

VARIABLES
    status,   \* "running", "exited", "crashed": the daemon process
    served,   \* daemon_state::served_clients
    live,     \* live[c]: c is in daemon_state::clients
    att,      \* att[c]: client_state::attachments, as a set of pairs
    chan,     \* chan[k]: channel_state; an absent entry is the empty one
    cur,      \* the frame being served, with its client id
    todo,     \* what is left of its handler
    in,       \* in[c]: frames c has written and the daemon has not served
    out,      \* out[c]: frames the daemon has written and c has not read
    open,     \* open[c]: the client's end of the connection is open
    req,      \* req[c]: the request c's connection_mutex_ is held for
    handles,  \* handles[c][k][m]: open pipe_objects of c
    sent,     \* number of payloads published
    acked,    \* history: the payload numbers the daemon has acknowledged
    dlv       \* history: dlv[c], the payloads written to c, with channel and mode

daemon == <<live, att, chan>>
client == <<open, req, handles>>
vars == <<status, served, live, att, chan, cur, todo, in, out, open, req,
          handles, sent, acked, dlv>>

-----------------------------------------------------------------------------
(* Frames.                                                                 *)

Payloads == [from : Clients, n : 1..MaxPublish]

Frame(op, k, m, p) == [op |-> op, ch |-> k, mode |-> m, pay |-> p]
NoReq == Frame("None", None, None, None)
Reply(op) == [op |-> op, mode |-> None, pay |-> None]
Deliver(m, p) == [op |-> "Deliver", mode |-> m, pay |-> p]

NoFrame == [id |-> None, op |-> "None", ch |-> None, mode |-> None, pay |-> None]
Serving(c, f) == [id |-> c, op |-> f.op, ch |-> f.ch, mode |-> f.mode, pay |-> f.pay]

(* The requests for which the client library waits for a reply.            *)
Asking == {"Attach", "Publish", "Offer"}
Replies == {"Ack", "Error", "Accept", "Busy"}

-----------------------------------------------------------------------------
(* Channel state.                                                          *)

NoHandles == [c \in Clients |-> 0]
EmptyChannel ==
    [list       |-> [m \in AllModes |-> NoHandles],
     pending    |-> << >>,
     offer_from |-> None,
     recv_ready |-> None]

(* The clients in channel k's list for mode m.  A list is kept as a bag:   *)
(* the order of its entries is abstracted, a reader of a queue is any one. *)
Attached(k, m) == {c \in Clients : chan[k].list[m][c] > 0}
Peers(k) == Attached(k, "ChannelPeer")
HasReader(k) == Attached(k, "QueueIn") \union Attached(k, "BroadcastIn") # {}

(* channel_peers.size() >= 2.                                              *)
PeersFull(k) ==
    LET n == chan[k].list["ChannelPeer"]
    IN  \E c, d \in Clients : IF c = d THEN n[c] >= 2 ELSE n[c] > 0 /\ n[d] > 0

(* Variants of WithoutClient with a bug that a property must reveal: one   *)
(* entry is erased instead of all, a list or the marks are forgotten, the  *)
(* backlog is dropped with the client.                                     *)
WithoutOneEntry(s, c) == [s EXCEPT !.list = [m \in AllModes |-> [@[m] EXCEPT ![c] = @ - 1]]]
WithoutThreeLists(s, c) ==
    [s EXCEPT !.list = [m \in AllModes |->
                          IF m = "BroadcastIn" THEN @[m] ELSE [@[m] EXCEPT ![c] = 0]]]
WithoutListsOnly(s, c) == [s EXCEPT !.list = [m \in AllModes |-> [@[m] EXCEPT ![c] = 0]]]
WithoutBacklog(s, c) ==
    [s EXCEPT !.list = [m \in AllModes |-> [@[m] EXCEPT ![c] = 0]], !.pending = << >>]

WithoutClient(s, c) ==
    [list       |-> [m \in AllModes |-> [s.list[m] EXCEPT ![c] = 0]],
     pending    |-> s.pending,
     offer_from |-> IF s.offer_from = c THEN None ELSE s.offer_from,
     recv_ready |-> IF s.recv_ready = c THEN None ELSE s.recv_ready]

(* maybe_erase_channel erases such a state: a reference to it dangles.     *)
Unused(s) ==
    s.pending = << >> /\ \A m \in AllModes, c \in Clients : s.list[m][c] = 0

(* An offer of the other peer is parked; and variants of it with a bug.    *)
OfferNeverSeen(k, c) == FALSE
OfferSeenIfReady(k, c) ==
    chan[k].offer_from \notin {None, c} /\ chan[k].recv_ready # None
OtherOffered(k, c) == chan[k].offer_from \notin {None, c}

(* The backlog: its first payload leaves it, a payload joins it.  The      *)
(* variants leave the payload where it is, and add it at the wrong end.    *)
Peek(k) == chan
Pop(k) == [chan EXCEPT ![k].pending = Tail(@)]
PushFront(k, p) == [chan EXCEPT ![k].pending = <<p>> \o @]
Push(k, p) == [chan EXCEPT ![k].pending = Append(@, p)]

(* close_client(c), the channels being in the states channels.             *)
CloseClient(c, channels) ==
    /\ live' = [live EXCEPT ![c] = FALSE]
    /\ att' = [att EXCEPT ![c] = {}]
    /\ chan' = [k \in Channels |-> IF \E m \in AllModes : <<k, m>> \in att[c]
                                   THEN WithoutClient(channels[k], c)
                                   ELSE channels[k]]
    /\ in' = [in EXCEPT ![c] = << >>]

-----------------------------------------------------------------------------
(* What is left to do for a frame.                                         *)

(* CopiesToOthers is a variant that passes the publisher over.             *)
Todo(what) == [do |-> what]
Answer(op) == [do |-> "answer", op |-> op]
Notify(c, op) == [do |-> "notify", to |-> c, op |-> op]
CopiesToOthers(p, left) == [do |-> "copies", pay |-> p, left |-> [left EXCEPT ![p.from] = 0]]
Copies(p, left) == [do |-> "copies", pay |-> p, left |-> left]
Queue(p) == [do |-> "queue", pay |-> p]

Items ==
    [do : {"flush", "drain", "announce", "peer", "park", "push", "resume"}]
    \union [do : {"answer"}, op : {"Ack", "Error"}]
    \union [do : {"notify"}, to : Clients, op : {"Accept", "Busy"}]
    \union [do : {"copies"}, pay : Payloads, left : [Clients -> Nat]]
    \union [do : {"queue"}, pay : Payloads]

Goto(items) ==
    /\ todo' = items
    /\ cur' = IF items = << >> THEN NoFrame ELSE cur

(* The client has been closed under its handler, which returns.            *)
Returned == IF cur.op = "Attach" THEN <<Todo("resume")>> ELSE << >>

Doing(what) == status = "running" /\ todo # << >> /\ Head(todo).do = what
Idle == status = "running" /\ todo = << >>

(* Writing to c: it fits; or the socket stays full for 500 ms and          *)
(* write_all gives up (frames are smaller than what the kernel accepts in  *)
(* one piece, so none of the frame is written); or the peer has closed and *)
(* SIGPIPE, which nothing in the program handles, ends the daemon.         *)
CanWrite(c) == open[c] /\ Len(out[c]) < SockBuf
Stalled(c) == open[c] /\ Len(out[c]) >= SockBuf
Put(c, f) == out' = [out EXCEPT ![c] = Append(@, f)]
Log(c, m, p) == dlv' = [dlv EXCEPT ![c] = Append(@, [ch |-> cur.ch, mode |-> m, pay |-> p])]

-----------------------------------------------------------------------------
(* The client processes.  connection_mutex_ is held from a request to its  *)
(* reply, so nothing is sent in between.                                   *)

CanSend(c) ==
    status = "running" /\ live[c] /\ open[c] /\ req[c] = NoReq /\ Len(in[c]) < InBuf

(* What is written to a connection that the daemon has closed is lost (and *)
(* SIGPIPE ends the writer, which is one of the reasons for Die).          *)
Send(c, f) == in' = [in EXCEPT ![c] = IF live[c] THEN Append(@, f) ELSE @]

(* connect_locked, and the accept() of run_daemon_posix.                   *)
Connect(c) ==
    /\ Idle
    /\ ~live[c] /\ ~open[c]
    /\ live' = [live EXCEPT ![c] = TRUE]
    /\ open' = [open EXCEPT ![c] = TRUE]
    /\ served' = TRUE
    /\ UNCHANGED <<status, att, chan, cur, todo, in, out, req, handles, sent, acked, dlv>>

(* pipe_object::open and open_channel.                                     *)
SendAttach(c, k, m) ==
    /\ CanSend(c)
    /\ handles[c][k][m] < MaxHandles
    /\ handles' = [handles EXCEPT ![c][k][m] = @ + 1]
    /\ req' = [req EXCEPT ![c] = Frame("Attach", k, m, None)]
    /\ Send(c, Frame("Attach", k, m, None))
    /\ UNCHANGED <<status, served, daemon, cur, todo, out, open, sent, acked, dlv>>

(* pipe_object::close: nothing answers a Detach.                           *)
SendDetach(c, k, m) ==
    /\ CanSend(c)
    /\ handles[c][k][m] > 0
    /\ handles' = [handles EXCEPT ![c][k][m] = @ - 1]
    /\ Send(c, Frame("Detach", k, m, None))
    /\ UNCHANGED <<status, served, daemon, cur, todo, out, open, req, sent, acked, dlv>>

(* pipe_object::insert: the error of a read-only handle is recorded but    *)
(* does not stop the publication, so a handle of any mode will do; a       *)
(* channel handle publishes without an offer.                              *)
SendPublish(c, k) ==
    LET p == [from |-> c, n |-> sent + 1]
    IN  /\ CanSend(c)
        /\ sent < MaxPublish
        /\ \E m \in AllModes : handles[c][k][m] > 0
        /\ sent' = sent + 1
        /\ req' = [req EXCEPT ![c] = Frame("Publish", k, None, p)]
        /\ Send(c, Frame("Publish", k, None, p))
        /\ UNCHANGED <<status, served, daemon, cur, todo, out, open, handles, acked, dlv>>

(* channel_send: the payload waits in req[c] for the reply to the offer.   *)
SendOffer(c, k) ==
    LET p == [from |-> c, n |-> sent + 1]
    IN  /\ CanSend(c)
        /\ sent < MaxPublish
        /\ handles[c][k]["ChannelPeer"] > 0
        /\ sent' = sent + 1
        /\ req' = [req EXCEPT ![c] = Frame("Offer", k, None, p)]
        /\ Send(c, Frame("Offer", k, None, None))
        /\ UNCHANGED <<status, served, daemon, cur, todo, out, open, handles, acked, dlv>>

(* The next attempt of channel_send after the back-off of 1 to 10 ms.      *)
RetryOffer(c) ==
    /\ status = "running" /\ live[c] /\ open[c]
    /\ req[c].op = "Backoff"
    /\ req' = [req EXCEPT ![c] = [@ EXCEPT !.op = "Offer"]]
    /\ Send(c, Frame("Offer", req[c].ch, None, None))
    /\ UNCHANGED <<status, served, daemon, cur, todo, out, open, handles, sent, acked, dlv>>

(* channel_recv announces itself; it then reads whatever arrives.          *)
SendRecvReady(c, k) ==
    /\ CanSend(c)
    /\ handles[c][k]["ChannelPeer"] > 0
    /\ Send(c, Frame("RecvReady", k, None, None))
    /\ UNCHANGED <<status, served, daemon, cur, todo, out, client, sent, acked, dlv>>

(* disconnect() writes Bye, then closes (CloseEnd).                        *)
SendBye(c) ==
    /\ CanSend(c)
    /\ req' = [req EXCEPT ![c] = Frame("Bye", None, None, None)]
    /\ Send(c, Frame("Bye", None, None, None))
    /\ UNCHANGED <<status, served, daemon, cur, todo, out, open, handles, sent, acked, dlv>>

CloseEnd(c) ==
    /\ open[c]
    /\ open' = [open EXCEPT ![c] = FALSE]
    /\ req' = [req EXCEPT ![c] = NoReq]
    /\ handles' = [handles EXCEPT ![c] = [k \in Channels |-> [m \in AllModes |-> 0]]]
    /\ out' = [out EXCEPT ![c] = << >>]
    /\ UNCHANGED <<status, served, daemon, cur, todo, in, sent, acked, dlv>>

(* The process ends, or dies, at any moment.                               *)
Die(c) == CloseEnd(c)

(* read() returns end-of-file: the daemon is gone or has closed c.         *)
ReadEof(c) == out[c] = << >> /\ (~live[c] \/ status # "running") /\ CloseEnd(c)

(* A frame that does not answer the client's request is taken by           *)
(* client::handle_message without effect on the request.  The variant      *)
(* IgnoresErrors waits on after an Error.                                  *)
IgnoresErrors(c, op) ==
    CASE op = "Ack" -> req[c].op \notin {"Attach", "Publish"}
      [] op \in {"Accept", "Busy"} -> req[c].op # "Offer"
      [] OTHER -> TRUE

Ignored(c, op) ==
    CASE op = "Ack" -> req[c].op \notin {"Attach", "Publish"}
      [] op = "Error" -> req[c].op \notin Asking
      [] op \in {"Accept", "Busy"} -> req[c].op # "Offer"
      [] OTHER -> TRUE

ReadFrame(c) ==
    /\ open[c] /\ out[c] # << >>
    /\ out' = [out EXCEPT ![c] = Tail(@)]
    /\ LET op == Head(out[c]).op
           r == req[c]
       IN  \/ /\ Ignored(c, op)
              /\ UNCHANGED <<req, handles, in>>
           \/ /\ ~Ignored(c, op)
              /\ r.op = "Publish" \/ (r.op = "Attach" /\ op = "Ack")
              /\ req' = [req EXCEPT ![c] = NoReq]
              /\ UNCHANGED <<handles, in>>
           \/ \* The handle of a refused attach is dropped: its destructor detaches.
              /\ ~Ignored(c, op)
              /\ r.op = "Attach" /\ op = "Error"
              /\ req' = [req EXCEPT ![c] = NoReq]
              /\ handles' = [handles EXCEPT ![c][r.ch][r.mode] = @ - 1]
              /\ Send(c, Frame("Detach", r.ch, r.mode, None))
           \/ /\ ~Ignored(c, op)
              /\ r.op = "Offer" /\ op = "Busy"
              /\ req' = [req EXCEPT ![c] = [@ EXCEPT !.op = "Backoff"]]
              /\ UNCHANGED <<handles, in>>
           \/ \* After Accept, and after Error too, channel_send goes on to publish.
              /\ ~Ignored(c, op)
              /\ r.op = "Offer" /\ op # "Busy"
              /\ req' = [req EXCEPT ![c] = [@ EXCEPT !.op = "Publish"]]
              /\ Send(c, Frame("Publish", r.ch, None, r.pay))
              /\ UNCHANGED handles
    /\ UNCHANGED <<status, served, daemon, cur, todo, open, sent, acked, dlv>>

-----------------------------------------------------------------------------
(* The daemon takes the next frame of a client.  The input may come from a *)
(* client that has closed since poll() returned.                           *)

HasFrame(c, op) == Idle /\ live[c] /\ in[c] # << >> /\ Head(in[c]).op = op
Take(c) == in' = [in EXCEPT ![c] = Tail(@)]
Start(c, items) ==
    /\ todo' = items
    /\ cur' = IF items = << >> THEN NoFrame ELSE Serving(c, Head(in[c]))

Refused(k, m) ==
    \/ m \in {"QueueIn", "BroadcastIn"} /\ Attached(k, "Writer") = {}
    \/ m = "ChannelPeer" /\ PeersFull(k)

(* The backlog is drained after the Ack.  "resume" is the return to        *)
(* process_client_input, which for an Attach goes on with its reference to *)
(* the client even if the client was closed meanwhile.  The variant        *)
(* NoBacklog forgets to drain.                                             *)
NoBacklog(m) == << >>
Backlog(m) ==
    CASE m \in {"QueueIn", "BroadcastIn"} -> <<Todo("flush")>>
      [] m = "ChannelPeer" -> <<Todo("drain")>>
      [] OTHER -> << >>

ServeAttach(c) ==
    LET k == Head(in[c]).ch
        m == Head(in[c]).mode
    IN  /\ HasFrame(c, "Attach")
        /\ Take(c)
        /\ IF Refused(k, m)
           THEN /\ Start(c, <<Answer("Error"), Todo("resume")>>)
                /\ UNCHANGED <<att, chan>>
           ELSE /\ Start(c, <<Answer("Ack")>> \o Backlog(m) \o <<Todo("resume")>>)
                /\ att' = [att EXCEPT ![c] = @ \union {<<k, m>>}]
                /\ chan' = [chan EXCEPT ![k].list[m][c] = @ + 1]
        /\ UNCHANGED <<status, served, live, out, client, sent, acked, dlv>>

(* The pair leaves the attachments of c; c leaves every list of channel k. *)
ServeDetach(c) ==
    LET k == Head(in[c]).ch
        m == Head(in[c]).mode
    IN  /\ HasFrame(c, "Detach")
        /\ Take(c)
        /\ Start(c, << >>)
        /\ att' = [att EXCEPT ![c] = @ \ {<<k, m>>}]
        /\ chan' = [chan EXCEPT ![k] = WithoutClient(@, c)]
        /\ UNCHANGED <<status, served, live, out, client, sent, acked, dlv>>

ServeBye(c) ==
    /\ HasFrame(c, "Bye")
    /\ CloseClient(c, chan)
    /\ UNCHANGED <<status, served, cur, todo, out, client, sent, acked, dlv>>

ServePublish(c) ==
    LET k == Head(in[c]).ch
        p == Head(in[c]).pay
    IN  /\ HasFrame(c, "Publish")
        /\ Take(c)
        /\ \/ /\ c \in Peers(k)
              /\ Start(c, <<Todo(IF Peers(k) = {c} THEN "park" ELSE "peer"), Answer("Ack")>>)
           \/ /\ c \notin Peers(k) /\ ~HasReader(k)
              /\ Start(c, <<Todo("park"), Answer("Ack")>>)
           \/ /\ c \notin Peers(k) /\ HasReader(k)
              /\ Start(c, <<Copies(p, chan[k].list["BroadcastIn"]), Queue(p), Answer("Ack")>>)
        /\ UNCHANGED <<status, served, daemon, out, client, sent, acked, dlv>>

ServeOffer(c) ==
    LET k == Head(in[c]).ch
        s == chan[k]
        granted == Peers(k) # {c} \/ s.recv_ready \notin {None, c}
    IN  /\ HasFrame(c, "Offer")
        /\ Take(c)
        /\ \/ /\ c \notin Peers(k)
              /\ Start(c, <<Answer("Error")>>)
              /\ UNCHANGED chan
           \/ \* Collision: both peers tried to send at once.
              /\ c \in Peers(k) /\ OtherOffered(k, c)
              /\ Start(c, <<Notify(c, "Busy"), Notify(s.offer_from, "Busy")>>)
              /\ chan' = [chan EXCEPT ![k].offer_from = None]
           \/ /\ c \in Peers(k) /\ ~OtherOffered(k, c) /\ granted
              /\ Start(c, <<Notify(c, "Accept")>>)
              /\ chan' = [chan EXCEPT ![k].offer_from = None, ![k].recv_ready = None]
           \/ /\ c \in Peers(k) /\ ~OtherOffered(k, c) /\ ~granted
              /\ Start(c, << >>)
              /\ chan' = [chan EXCEPT ![k].offer_from = c]
        /\ UNCHANGED <<status, served, live, att, out, client, sent, acked, dlv>>

ServeRecvReady(c) ==
    LET k == Head(in[c]).ch
        o == chan[k].offer_from
        receive == <<Todo("drain"), Todo("announce")>>
    IN  /\ HasFrame(c, "RecvReady")
        /\ Take(c)
        /\ \/ /\ c \notin Peers(k)
              /\ Start(c, <<Answer("Error")>>)
              /\ UNCHANGED chan
           \/ /\ c \in Peers(k) /\ ~OtherOffered(k, c)
              /\ Start(c, receive)
              /\ UNCHANGED chan
           \/ /\ c \in Peers(k) /\ OtherOffered(k, c)
              /\ Start(c, <<Notify(o, "Accept")>> \o receive)
              /\ chan' = [chan EXCEPT ![k].offer_from = None]
        /\ UNCHANGED <<status, served, live, att, out, client, sent, acked, dlv>>

(* POLLHUP: the client is closed, its unread input is not looked at.       *)
HangUp(c) ==
    /\ Idle /\ live[c] /\ ~open[c]
    /\ CloseClient(c, chan)
    /\ UNCHANGED <<status, served, cur, todo, out, client, sent, acked, dlv>>

Exit ==
    /\ Idle /\ served
    /\ \A c \in Clients : ~live[c]
    /\ status' = "exited"
    /\ UNCHANGED <<served, daemon, cur, todo, in, out, client, sent, acked, dlv>>

-----------------------------------------------------------------------------
(* The rest of the handlers, one write or one turn of a loop at a time.    *)

(* send_ack and send_error close a client whose socket stays full.         *)
AnswerStep ==
    LET c == cur.id
        op == Head(todo).op
    IN  /\ Doing("answer")
        /\ \/ /\ ~live[c]      \* closed by deliver_to_readers, as one of the readers
              /\ Goto(Tail(todo))
              /\ UNCHANGED <<daemon, in, out, acked>>
           \/ /\ live[c] /\ CanWrite(c)
              /\ Put(c, Reply(op))
              /\ acked' = IF op = "Ack" /\ cur.op = "Publish"
                          THEN acked \union {cur.pay.n} ELSE acked
              /\ Goto(Tail(todo))
              /\ UNCHANGED <<daemon, in>>
           \/ /\ live[c] /\ Stalled(c)
              /\ CloseClient(c, chan)
              /\ Goto(Returned)
              /\ UNCHANGED <<out, acked>>
        /\ UNCHANGED <<status, served, client, sent, dlv>>

(* Accept and Busy: the result of the write is not looked at.              *)
NotifyStep ==
    LET c == Head(todo).to
    IN  /\ Doing("notify")
        /\ \/ CanWrite(c) /\ Put(c, Reply(Head(todo).op))
           \/ Stalled(c) /\ UNCHANGED out
        /\ Goto(Tail(todo))
        /\ UNCHANGED <<status, served, daemon, in, client, sent, acked, dlv>>

(* One turn of flush_pending.                                              *)
FlushStep ==
    LET k == cur.ch
        p == Head(chan[k].pending)
    IN  /\ Doing("flush")
        /\ \/ /\ chan[k].pending # << >> /\ HasReader(k)
              /\ chan' = Pop(k)
              /\ Goto(<<Copies(p, chan[k].list["BroadcastIn"]), Queue(p)>> \o todo)
           \/ /\ chan[k].pending = << >> \/ ~HasReader(k)
              /\ Goto(Tail(todo))
              /\ UNCHANGED chan
        /\ UNCHANGED <<status, served, live, att, in, out, client, sent, acked, dlv>>

(* Up to m of the entries in a bag.                                        *)
Entries(bag, m) ==
    {f \in [Clients -> 0..m] :
        /\ Cardinality({e \in Clients \X (1..m) : e[2] <= f[e[1]]}) <= m
        /\ \A d \in Clients : f[d] <= bag[d]}

(* close_client(c) erases the entries of c, m of them, from the vector     *)
(* that deliver_to_readers is iterating over: up to m of the next readers  *)
(* move into places that were visited and are skipped, and up to m of the  *)
(* last entries, which are stale, are visited once more.  Which ones       *)
(* depends on the order of the vector and on what it lost before; e holds  *)
(* those that are skipped and those that are visited again.                *)
Shifted(left, c, m) ==
    LET rest == [left EXCEPT ![c] = 0]
    IN  {[d \in Clients |-> rest[d] - e[1][d] + e[2][d]] :
            e \in Entries(rest, m) \X Entries(rest, m)}

(* Using a reference into an erased map entry may end the process.         *)
Dangling(gone) == status' \in IF gone THEN {"running", "crashed"} ELSE {"running"}

(* deliver_to_readers: the loop over broadcast_readers.                    *)
CopyStep ==
    LET k == cur.ch
        p == Head(todo).pay
        left == Head(todo).left
    IN  /\ Doing("copies")
        /\ \/ /\ left = NoHandles
              /\ Goto(Tail(todo))
              /\ UNCHANGED <<status, daemon, in, out, dlv>>
           \/ \E c \in Clients :
              /\ left[c] > 0 /\ CanWrite(c)
              /\ Put(c, Deliver("BroadcastIn", p))
              /\ Log(c, "BroadcastIn", p)
              /\ Goto(<<Copies(p, [left EXCEPT ![c] = @ - 1])>> \o Tail(todo))
              /\ UNCHANGED <<status, daemon, in>>
           \/ \E c \in Clients : \E l \in Shifted(left, c, chan[k].list["BroadcastIn"][c]) :
              /\ left[c] > 0 /\ Stalled(c)
              /\ CloseClient(c, chan)
              /\ Goto(<<Copies(p, l)>> \o Tail(todo))
              /\ Dangling(Unused(chan'[k]))
              /\ UNCHANGED <<out, dlv>>
        /\ UNCHANGED <<served, client, sent, acked>>

(* deliver_to_readers: the one queue reader the cursor selects.            *)
QueueStep ==
    LET k == cur.ch
        p == Head(todo).pay
    IN  /\ Doing("queue")
        /\ Goto(Tail(todo))
        /\ \/ /\ Attached(k, "QueueIn") = {}
              /\ UNCHANGED <<status, daemon, in, out, dlv>>
           \/ \E c \in Attached(k, "QueueIn") :
              /\ CanWrite(c)
              /\ Put(c, Deliver("QueueIn", p))
              /\ Log(c, "QueueIn", p)
              /\ UNCHANGED <<status, daemon, in>>
           \/ \E c \in Attached(k, "QueueIn") :
              /\ Stalled(c)
              /\ CloseClient(c, chan)
              /\ Dangling(cur.op = "Attach" /\ Unused(chan'[k]))
              /\ UNCHANGED <<out, dlv>>
        /\ UNCHANGED <<served, client, sent, acked>>

(* One turn of the loop that drains the backlog onto a channel peer.       *)
DrainStep ==
    LET c == cur.id
        k == cur.ch
        p == Head(chan[k].pending)
    IN  /\ Doing("drain")
        /\ \/ /\ chan[k].pending = << >>
              /\ Goto(Tail(todo))
              /\ UNCHANGED <<daemon, in, out, dlv>>
           \/ /\ chan[k].pending # << >> /\ CanWrite(c)
              /\ chan' = Pop(k)
              /\ Put(c, Deliver("ChannelPeer", p))
              /\ Log(c, "ChannelPeer", p)
              /\ UNCHANGED <<live, att, cur, todo, in>>
           \/ /\ chan[k].pending # << >> /\ Stalled(c)
              /\ CloseClient(c, Pop(k))
              /\ Goto(Returned)
              /\ UNCHANGED <<out, dlv>>
        /\ UNCHANGED <<status, served, client, sent, acked>>

AnnounceStep ==
    /\ Doing("announce")
    /\ chan' = [chan EXCEPT ![cur.ch].recv_ready = cur.id]
    /\ Goto(Tail(todo))
    /\ UNCHANGED <<status, served, live, att, in, out, client, sent, acked, dlv>>

(* publish_message to the other peer, which is not closed if it is stuck.  *)
PeerStep ==
    /\ Doing("peer")
    /\ \E d \in Peers(cur.ch) \ {cur.id} :
       \/ /\ CanWrite(d)
          /\ Put(d, Deliver("ChannelPeer", cur.pay))
          /\ Log(d, "ChannelPeer", cur.pay)
          /\ Goto(Tail(todo))
       \/ /\ Stalled(d)
          /\ Goto(<<Todo("park")>> \o Tail(todo))
          /\ UNCHANGED <<out, dlv>>
    /\ UNCHANGED <<status, served, daemon, in, client, sent, acked>>

(* The payload joins the backlog, if it has room.                          *)
ParkStep ==
    LET k == cur.ch
        s == chan[k]
    IN  /\ Doing("park")
        /\ \/ /\ Len(s.pending) >= MaxPending
              /\ Goto(<<Answer("Error")>>)
              /\ UNCHANGED chan
           \/ /\ Len(s.pending) < MaxPending
              /\ chan' = Push(k, cur.pay)
              /\ Goto(IF cur.id \in Peers(k) /\ s.recv_ready \notin {None, cur.id}
                      THEN <<Todo("push")>> \o Tail(todo) ELSE Tail(todo))
        /\ UNCHANGED <<status, served, live, att, in, out, client, sent, acked, dlv>>

(* One turn of the loop that pushes the backlog to the peer that announced *)
(* RecvReady; the payload whose write fails has already left the backlog.  *)
PushStep ==
    LET k == cur.ch
        d == chan[k].recv_ready
        p == Head(chan[k].pending)
    IN  /\ Doing("push")
        /\ \/ /\ chan[k].pending = << >>
              /\ Goto(Tail(todo))
              /\ UNCHANGED <<chan, out, dlv>>
           \/ /\ chan[k].pending # << >> /\ CanWrite(d)
              /\ chan' = Pop(k)
              /\ Put(d, Deliver("ChannelPeer", p))
              /\ Log(d, "ChannelPeer", p)
              /\ UNCHANGED <<cur, todo>>
           \/ /\ chan[k].pending # << >> /\ Stalled(d)
              /\ chan' = Pop(k)
              /\ Goto(Tail(todo))
              /\ UNCHANGED <<out, dlv>>
        /\ UNCHANGED <<status, served, live, att, in, client, sent, acked>>

ResumeStep ==
    /\ Doing("resume")
    /\ Dangling(~live[cur.id])
    /\ Goto(Tail(todo))
    /\ UNCHANGED <<served, daemon, in, out, client, sent, acked, dlv>>

(* The clients the next step writes to.                                    *)
Targets ==
    LET item == Head(todo)
        k == cur.ch
    IN  CASE item.do = "answer" -> {c \in {cur.id} : live[c]}
          [] item.do = "notify" -> {item.to}
          [] item.do = "copies" -> {c \in Clients : item.left[c] > 0}
          [] item.do = "queue" -> Attached(k, "QueueIn")
          [] item.do = "peer" -> Peers(k) \ {cur.id}
          [] item.do = "drain" -> {c \in {cur.id} : chan[k].pending # << >>}
          [] item.do = "push" -> {c \in {chan[k].recv_ready} : chan[k].pending # << >>}
          [] OTHER -> {}

SigPipe ==
    /\ status = "running" /\ todo # << >>
    /\ \E c \in Targets : ~open[c]
    /\ status' = "crashed"
    /\ Goto(<< >>)
    /\ UNCHANGED <<served, daemon, in, out, client, sent, acked, dlv>>

-----------------------------------------------------------------------------

Init ==
    /\ status = "running"
    /\ served = FALSE
    /\ live = [c \in Clients |-> FALSE]
    /\ att = [c \in Clients |-> {}]
    /\ chan = [k \in Channels |-> EmptyChannel]
    /\ cur = NoFrame
    /\ todo = << >>
    /\ in = [c \in Clients |-> << >>]
    /\ out = [c \in Clients |-> << >>]
    /\ open = [c \in Clients |-> FALSE]
    /\ req = [c \in Clients |-> NoReq]
    /\ handles = [c \in Clients |-> [k \in Channels |-> [m \in AllModes |-> 0]]]
    /\ sent = 0
    /\ acked = {}
    /\ dlv = [c \in Clients |-> << >>]

Serve(c) ==
    \/ ServeAttach(c) \/ ServeDetach(c) \/ ServeBye(c)
    \/ ServePublish(c) \/ ServeOffer(c) \/ ServeRecvReady(c)

Step ==
    \/ AnswerStep \/ NotifyStep \/ FlushStep \/ CopyStep \/ QueueStep
    \/ DrainStep \/ AnnounceStep \/ PeerStep \/ ParkStep \/ PushStep
    \/ ResumeStep \/ SigPipe

ClientStep(c) ==
    \/ Connect(c) \/ SendBye(c) \/ Die(c) \/ ReadEof(c) \/ ReadFrame(c) \/ RetryOffer(c)
    \/ \E k \in Channels :
       \/ SendPublish(c, k) \/ SendOffer(c, k) \/ SendRecvReady(c, k)
       \/ \E m \in Modes : SendAttach(c, k, m) \/ SendDetach(c, k, m)

Next ==
    \/ Step \/ Exit
    \/ \E c \in Clients : Serve(c) \/ HangUp(c) \/ ClientStep(c)

Spec == Init /\ [][Next]_vars

(* A handler runs to its end: no write blocks for more than 500 ms.  The   *)
(* daemon is ready for c only between two handlers, but poll() reports     *)
(* every readable or closed connection and the loop visits all of them     *)
(* before it polls again: strong fairness.  A client's reader thread, or   *)
(* the thread that waits for the reply, reads whatever arrives.            *)
Fairness ==
    /\ WF_vars(Step)
    /\ \A c \in Clients :
       /\ SF_vars(Serve(c)) /\ SF_vars(HangUp(c))
       /\ WF_vars(ReadFrame(c)) /\ WF_vars(ReadEof(c))

FairSpec == Spec /\ Fairness
=============================================================================
