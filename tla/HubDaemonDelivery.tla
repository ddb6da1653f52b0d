-------------------------- MODULE HubDaemonDelivery --------------------------
(***************************************************************************)
(* TLAPS proofs of what the pipe hub daemon does with a message, for any   *)
(* number of clients, channels, handles and messages.                      *)
(*                                                                         *)
(* As long as every write finds room, a message that was acknowledged      *)
(* stays in the hands of a handler, in a backlog, or delivered, and the    *)
(* loop over the subscribers comes to each of them.  Without channel       *)
(* handles, and whether there is room or not, a pipe that has a reader     *)
(* has no backlog between two handlers.  While there is room, a client     *)
(* that waits has one thing on its way to it that ends the wait.  What one *)
(* client publishes into a pipe reaches each reader of the pipe in that    *)
(* order.  And without channel handles the daemon implements the lines of  *)
(* HubBroker.                                                              *)
(***************************************************************************)
EXTENDS HubDaemonSafety

-----------------------------------------------------------------------------
(* What is left of each handler, by the step that is next: x is that step, *)
(* t what comes after it.  The copies and the queue are of one message.    *)
LoopNext(w, t) == t # << >> /\ Head(t) = Todo(w) /\ Tail(t) = <<Todo("resume")>>

AttachHandler(x, t) ==
    \/ x.do = "answer" /\ t = <<Todo("resume")>>
    \/ x.do = "answer" /\ \E w \in {"flush", "drain"} : LoopNext(w, t)
    \/ x.do \in {"flush", "drain"} /\ t = <<Todo("resume")>>
    \/ x.do = "copies" /\ t # << >> /\ Head(t) = Queue(x.pay) /\ LoopNext("flush", Tail(t))
    \/ x.do = "queue" /\ LoopNext("flush", t)
    \/ x.do = "resume" /\ t = << >>

PublishHandler(p, x, t) ==
    \/ x \in {Answer("Ack"), Answer("Error")} /\ t = << >>
    \/ x.do \in {"peer", "park", "push"} /\ t = <<Answer("Ack")>>
    \/ /\ x.do = "copies" /\ x.pay = p
       /\ t # << >> /\ Head(t) = Queue(p) /\ Tail(t) = <<Answer("Ack")>>
    \/ x.do = "queue" /\ x.pay = p /\ t = <<Answer("Ack")>>

OfferHandler(x, t) ==
    \/ x = Answer("Error") /\ t = << >>
    \/ x.do = "notify" /\ (t = << >> \/ \E c \in Clients : t = <<Notify(c, "Busy")>>)

RecvReadyHandler(x, t) ==
    \/ x = Answer("Error") /\ t = << >>
    \/ x.do = "notify" /\ t = <<Todo("drain"), Todo("announce")>>
    \/ x.do = "drain" /\ t = <<Todo("announce")>>
    \/ x.do = "announce" /\ t = << >>

Remains(f, items) ==
    LET x == Head(items)
        t == Tail(items)
    IN  \/ items = << >>
        \/ f.op = "Attach" /\ AttachHandler(x, t)
        \/ f.op = "Publish" /\ PublishHandler(f.pay, x, t)
        \/ f.op = "Offer" /\ OfferHandler(x, t)
        \/ f.op = "RecvReady" /\ RecvReadyHandler(x, t)

Handler == Remains(cur, todo)

LEMMA Tuples ==
    /\ \A a : Head(<<a>>) = a /\ Tail(<<a>>) = << >> /\ <<a>> # << >>
    /\ \A a, b : Head(<<a, b>>) = a /\ Tail(<<a, b>>) = <<b>> /\ <<a, b>> # << >>
    /\ \A a, b, c : /\ Head(<<a, b, c>>) = a /\ Tail(<<a, b, c>>) = <<b, c>>
                    /\ <<a, b, c>> # << >>
OBVIOUS

LEMMA ItemKinds ==
    /\ \A w : Todo(w).do = w
    /\ \A op : Answer(op).do = "answer" /\ Answer(op).op = op
    /\ \A c, op : Notify(c, op).do = "notify" /\ Notify(c, op).to = c /\ Notify(c, op).op = op
    /\ \A p, l : Copies(p, l).do = "copies" /\ Copies(p, l).pay = p /\ Copies(p, l).left = l
    /\ \A p : Queue(p).do = "queue" /\ Queue(p).pay = p
BY DEF Todo, Answer, Notify, Copies, Queue

LEMMA Prefixed ==
    ASSUME NEW S, NEW a \in S, NEW t \in Seq(S)
    PROVE  /\ Head(<<a>> \o t) = a /\ Tail(<<a>> \o t) = t /\ <<a>> \o t # << >>
           /\ \A b \in S : /\ Head(<<b, a>> \o t) = b /\ Tail(<<b, a>> \o t) = <<a>> \o t
                           /\ <<b, a>> \o t # << >>
OBVIOUS

LEMMA RestRemains ==
    ASSUME NEW f, NEW items, items # << >>, Remains(f, items)
    PROVE  Remains(f, Tail(items))
<1> DEFINE x == Head(items)
           t == Tail(items)
<1> SUFFICES Remains(f, t)
  OBVIOUS
<1>1. ASSUME NEW a, NEW b PROVE
        /\ t = <<a>> => Head(t) = a /\ Tail(t) = << >>
        /\ t = <<a, b>> => Head(t) = a /\ Tail(t) = <<b>>
  BY Tuples
<1>2. CASE f.op = "Attach" /\ AttachHandler(x, t)
  <2> HIDE DEF x, t
  <2> SUFFICES t = << >> \/ AttachHandler(Head(t), Tail(t))
    BY <1>2 DEF Remains
  <2>1. CASE t = <<Todo("resume")>>
    <3>1. Head(t).do = "resume" /\ Tail(t) = << >>
      BY <1>1, <2>1, ItemKinds
    <3>2. QED
      BY <3>1 DEF AttachHandler
  <2>2. ASSUME NEW w \in {"flush", "drain"}, LoopNext(w, t)
        PROVE  AttachHandler(Head(t), Tail(t))
    <3>1. Head(t).do = w /\ Tail(t) = <<Todo("resume")>>
      BY <2>2, ItemKinds DEF LoopNext
    <3>2. QED
      BY <3>1 DEF AttachHandler
  <2>3. CASE Head(t) = Queue(x.pay) /\ LoopNext("flush", Tail(t))
    BY <2>3, ItemKinds DEF AttachHandler
  <2>4. QED
    BY <1>2, <2>1, <2>2, <2>3 DEF AttachHandler
<1>3. CASE f.op = "Publish" /\ PublishHandler(f.pay, x, t)
  <2> HIDE DEF x, t
  <2> SUFFICES t = << >> \/ PublishHandler(f.pay, Head(t), Tail(t))
    BY <1>3 DEF Remains
  <2>1. CASE t = <<Answer("Ack")>>
    BY <1>1, <2>1 DEF PublishHandler
  <2>2. CASE Head(t) = Queue(f.pay) /\ Tail(t) = <<Answer("Ack")>>
    BY <2>2, ItemKinds DEF PublishHandler
  <2>3. QED
    BY <1>3, <2>1, <2>2 DEF PublishHandler
<1>4. CASE f.op = "Offer" /\ OfferHandler(x, t)
  <2> HIDE DEF x, t
  <2> SUFFICES t = << >> \/ OfferHandler(Head(t), Tail(t))
    BY <1>4 DEF Remains
  <2>1. ASSUME NEW c \in Clients, t = <<Notify(c, "Busy")>>
        PROVE  OfferHandler(Head(t), Tail(t))
    BY <1>1, <2>1, ItemKinds DEF OfferHandler
  <2>2. QED
    BY <1>4, <2>1 DEF OfferHandler
<1>5. CASE f.op = "RecvReady" /\ RecvReadyHandler(x, t)
  <2> HIDE DEF x, t
  <2> SUFFICES t = << >> \/ RecvReadyHandler(Head(t), Tail(t))
    BY <1>5 DEF Remains
  <2>1. CASE t = <<Todo("drain"), Todo("announce")>> \/ t = <<Todo("announce")>>
    <3>1. \/ Head(t).do = "drain" /\ Tail(t) = <<Todo("announce")>>
          \/ Head(t).do = "announce" /\ Tail(t) = << >>
      BY <1>1, <2>1, ItemKinds
    <3>2. QED
      BY <3>1 DEF RecvReadyHandler
  <2>2. QED
    BY <1>5, <2>1 DEF RecvReadyHandler
<1>6. QED
  BY <1>2, <1>3, <1>4, <1>5 DEF Remains

LEMMA Joined ==
    ASSUME NEW S, NEW a \in S, NEW b \in Seq(S), NEW r \in Seq(S)
    PROVE  /\ Head(<<a>> \o b \o r) = a /\ Tail(<<a>> \o b \o r) = b \o r
           /\ <<a>> \o b \o r # << >> /\ << >> \o r = r
OBVIOUS

(* What a handler puts before the rest of itself.                          *)
LEMMA MoreRemains ==
    ASSUME TypeOK, Handler, NEW w, Doing(w)
    PROVE  /\ w = "copies" =>
                 \A l \in [Clients -> Nat] : Remains(cur, <<Copies(Head(todo).pay, l)>> \o Tail(todo))
           /\ w \in {"peer", "park"} =>
                 \A v \in {"park", "push"} : Remains(cur, <<Todo(v)>> \o Tail(todo))
           /\ w = "flush" =>
                 \A p \in Payloads, l \in [Clients -> Nat] :
                    Remains(cur, <<Copies(p, l), Queue(p)>> \o todo)
<1> DEFINE x == Head(todo)
           t == Tail(todo)
           S == ItemsOf(cur.op)
<1>1. /\ todo \in Seq(S) /\ t \in Seq(S) /\ todo # << >> /\ x.do = w /\ x \in S
      /\ w = "copies" => x.pay \in Payloads /\ cur.op \in {"Attach", "Publish"}
      /\ w = "flush" => cur.op = "Attach"
      /\ w \in {"peer", "park"} => cur.op = "Publish"
  BY ServedType, HeadType DEF TypeOK, Doing
<1>2. /\ cur.op = "Attach" => AttachHandler(x, t)
      /\ cur.op = "Publish" => PublishHandler(cur.pay, x, t)
  BY <1>1 DEF Handler, Remains
<1> HIDE DEF x, t, S
<1>3. ASSUME w = "copies", NEW l \in [Clients -> Nat]
      PROVE  Remains(cur, <<Copies(x.pay, l)>> \o t)
  <2> DEFINE u == <<Copies(x.pay, l)>> \o t
             y == Copies(x.pay, l)
  <2>1. Copies(x.pay, l) \in S
    BY <1>1, <1>3, ItemTypes DEF S
  <2>2. Head(u) = y /\ Tail(u) = t /\ y.do = "copies" /\ y.pay = x.pay
    BY <1>1, <2>1, Prefixed, ItemKinds
  <2> HIDE DEF u, y
  <2>3. CASE cur.op = "Attach"
    <3>1. t # << >> /\ Head(t) = Queue(x.pay) /\ LoopNext("flush", Tail(t))
      BY <1>1, <1>2, <1>3, <2>3 DEF AttachHandler
    <3>2. AttachHandler(y, t)
      BY <2>2, <3>1 DEF AttachHandler
    <3>3. QED
      BY <2>2, <2>3, <3>2 DEF Remains, u
  <2>4. CASE cur.op = "Publish"
    <3>1. x.pay = cur.pay /\ t # << >> /\ Head(t) = Queue(cur.pay) /\ Tail(t) = <<Answer("Ack")>>
      BY <1>1, <1>2, <1>3, <2>4, ItemKinds DEF PublishHandler
    <3>2. PublishHandler(cur.pay, y, t)
      BY <2>2, <3>1 DEF PublishHandler
    <3>3. QED
      BY <2>2, <2>4, <3>2 DEF Remains, u
  <2>5. QED
    BY <1>1, <1>3, <2>3, <2>4 DEF u
<1>4. ASSUME w \in {"peer", "park"}, NEW v \in {"park", "push"}
      PROVE  Remains(cur, <<Todo(v)>> \o t)
  <2>1. Todo(v) \in S
    BY <1>1, <1>4, ItemTypes DEF S
  <2>2. Head(<<Todo(v)>> \o t) = Todo(v) /\ Tail(<<Todo(v)>> \o t) = t /\ Todo(v).do = v
    BY <1>1, <2>1, Prefixed, ItemKinds
  <2>3. t = <<Answer("Ack")>>
    BY <1>1, <1>2, <1>4, ItemKinds DEF PublishHandler
  <2>4. PublishHandler(cur.pay, Todo(v), t)
    BY <2>2, <2>3 DEF PublishHandler
  <2>5. QED
    BY <1>1, <1>4, <2>2, <2>4 DEF Remains
<1>5. ASSUME w = "flush", NEW p \in Payloads, NEW l \in [Clients -> Nat]
      PROVE  Remains(cur, <<Copies(p, l), Queue(p)>> \o todo)
  <2> DEFINE y == Copies(p, l)
             u == <<Copies(p, l), Queue(p)>> \o todo
             v == <<Queue(p)>> \o todo
  <2>1. y \in S /\ Queue(p) \in S
    BY <1>1, <1>5, ItemTypes DEF S
  <2>2. /\ Head(u) = y /\ Tail(u) = v /\ Head(v) = Queue(p) /\ Tail(v) = todo /\ v # << >>
        /\ y.do = "copies" /\ y.pay = p
    BY <1>1, <2>1, Prefixed, ItemKinds
  <2>3. LoopNext("flush", todo)
    <3>1. t = <<Todo("resume")>>
      BY <1>1, <1>2, <1>5 DEF AttachHandler
    <3>2. x = Todo("flush")
      BY <1>1, <1>5 DEF S, ItemsOf, Items, Todo
    <3>3. QED
      BY <1>1, <3>1, <3>2 DEF LoopNext, x, t
  <2> HIDE DEF u, v, y
  <2>4. AttachHandler(y, v)
    BY <2>2, <2>3 DEF AttachHandler
  <2>5. QED
    BY <1>1, <1>5, <2>2, <2>4 DEF Remains, u
<1>6. QED
  BY <1>3, <1>4, <1>5 DEF x, t

LEMMA GotoRemains ==
    ASSUME NEW items, Remains(cur, items), Goto(items)
    PROVE  Handler'
BY DEF Goto, Handler, Remains

LEMMA OverRemains ==
    ASSUME Goto(Returned) \/ Goto(<< >>) \/ (Goto(<<Answer("Error")>>) /\ cur.op = "Publish")
    PROVE  Handler'
<1>1. Remains(cur, << >>)
  BY DEF Remains
<1>2. CASE cur.op = "Attach"
  <2>1. Head(<<Todo("resume")>>) = Todo("resume") /\ Tail(<<Todo("resume")>>) = << >>
        /\ Todo("resume").do = "resume"
    BY Tuples, ItemKinds
  <2>2. Remains(cur, <<Todo("resume")>>)
    BY <1>2, <2>1 DEF Remains, AttachHandler
  <2>3. QED
    BY <1>1, <1>2, <2>2, GotoRemains DEF Returned
<1>3. CASE cur.op # "Attach"
  <2>1. Head(<<Answer("Error")>>) = Answer("Error") /\ Tail(<<Answer("Error")>>) = << >>
    BY Tuples
  <2>2. cur.op = "Publish" => Remains(cur, <<Answer("Error")>>)
    BY <2>1 DEF Remains, PublishHandler
  <2>3. QED
    BY <1>1, <1>3, <2>2, GotoRemains DEF Returned
<1>4. QED
  BY <1>2, <1>3

LEMMA StepRemains ==
    ASSUME TypeOK, Handler, Step
    PROVE  Handler'
<1>1. ASSUME todo # << >>, Goto(Tail(todo)) PROVE Handler'
  BY <1>1, RestRemains, GotoRemains DEF Handler
<1>2. ASSUME UNCHANGED <<cur, todo>> PROVE Handler'
  BY <1>2 DEF Handler
<1> DEFINE ending == Goto(Returned) \/ Goto(<< >>)
<1>3. ASSUME ending PROVE Handler'
  BY <1>3, OverRemains
<1>4. CASE FlushStep
  <2>1. /\ cur.ch \in Channels /\ Doing("flush")
        /\ chan[cur.ch].list["BroadcastIn"] \in [Clients -> Nat]
    BY <1>4, ServedType, ListType DEF TypeOK, FlushStep, AllModes
  <2>2. chan[cur.ch].pending # << >> => Head(chan[cur.ch].pending) \in Payloads
    BY <2>1, PopType DEF TypeOK
  <2>3. QED
    BY <1>1, <1>4, <2>1, <2>2, MoreRemains, GotoRemains DEF FlushStep, Doing
<1>5. CASE CopyStep
  <2> DEFINE p == Head(todo).pay
             left == Head(todo).left
  <2>1. Doing("copies") /\ todo # << >> /\ left \in [Clients -> Nat]
    BY <1>5, HeadType DEF TypeOK, CopyStep, Doing
  <2>2. \/ Goto(Tail(todo))
        \/ \E c \in Clients : left[c] > 0 /\ Goto(<<Copies(p, [left EXCEPT ![c] = @ - 1])>> \o Tail(todo))
        \/ \E c \in Clients : \E l \in Shifted(left, c, chan[cur.ch].list["BroadcastIn"][c]) : Goto(<<Copies(p, l)>> \o Tail(todo))
    BY <1>5, Zenon DEF CopyStep
  <2>3. ASSUME NEW c \in Clients, left[c] > 0 PROVE [left EXCEPT ![c] = @ - 1] \in [Clients -> Nat]
    BY <2>1, <2>3
  <2>4. \A c \in Clients : \A l \in Shifted(left, c, chan[cur.ch].list["BroadcastIn"][c]) : l \in [Clients -> Nat]
    BY <2>1, ShiftedType
  <2>5. \A l \in [Clients -> Nat] : Remains(cur, <<Copies(p, l)>> \o Tail(todo))
    BY <2>1, MoreRemains
  <2> HIDE DEF p, left
  <2>6. QED
    BY <1>1, <2>1, <2>2, <2>3, <2>4, <2>5, GotoRemains
<1>6. CASE PeerStep
  BY <1>1, <1>6, MoreRemains, GotoRemains DEF PeerStep, Doing
<1>7. CASE ParkStep
  <2>1. Doing("park") /\ cur.op = "Publish"
    BY <1>7, HeadType DEF TypeOK, ParkStep
  <2>2. \/ Goto(<<Answer("Error")>>) \/ Goto(Tail(todo)) \/ Goto(<<Todo("push")>> \o Tail(todo))
    BY <1>7 DEF ParkStep
  <2>3. QED
    BY <1>1, <2>1, <2>2, MoreRemains, GotoRemains, OverRemains DEF Doing
<1>8. CASE AnswerStep \/ NotifyStep \/ QueueStep \/ AnnounceStep \/ ResumeStep
  <2>1. todo # << >> /\ (Goto(Tail(todo)) \/ ending)
    BY <1>8 DEF AnswerStep, NotifyStep, QueueStep, AnnounceStep, ResumeStep, Doing
  <2>2. QED
    BY <1>1, <1>3, <2>1
<1>9. CASE DrainStep \/ PushStep \/ SigPipe
  <2>1. todo # << >> /\ (Goto(Tail(todo)) \/ ending \/ UNCHANGED <<cur, todo>>)
    BY <1>9 DEF DrainStep, PushStep, SigPipe, Doing
  <2>2. QED
    BY <1>1, <1>2, <1>3, <2>1
<1>10. QED
  BY <1>4, <1>5, <1>6, <1>7, <1>8, <1>9 DEF Step

LEMMA ServeRemains ==
    ASSUME TypeOK, Handler, NEW c \in Clients, Serve(c)
    PROVE  Handler'
<1> DEFINE f == Head(in[c])
           g == Serving(c, f)
           k == f.ch
           m == f.mode
<1>1. ASSUME NEW items, Start(c, items), Remains(g, items) PROVE Handler'
  BY <1>1 DEF Start, Handler, Remains
<1>2. g.op = f.op /\ g.pay = f.pay
  BY DEF Serving
<1> HIDE DEF g
<1>3. ASSUME NEW a PROVE Head(<<a>>) = a /\ Tail(<<a>>) = << >> /\ <<a>> # << >>
  BY Tuples
<1>4. ASSUME NEW a, NEW b PROVE Head(<<a, b>>) = a /\ Tail(<<a, b>>) = <<b>> /\ <<a, b>> # << >>
  BY Tuples
<1>5. CASE ServeAttach(c)
  <2> DEFINE r == <<Todo("resume")>>
             e == <<Answer("Error"), Todo("resume")>>
             s == <<Answer("Ack")>> \o Backlog(m) \o r
  <2>1. f.op = "Attach" /\ (Start(c, e) \/ Start(c, s))
    BY <1>5 DEF ServeAttach, HasFrame
  <2>2. Head(e) = Answer("Error") /\ Tail(e) = r /\ Answer("Error").do = "answer"
    BY <1>4, ItemKinds
  <2>3. Remains(g, e)
    BY <1>2, <2>1, <2>2 DEF Remains, AttachHandler
  <2>4. /\ Answer("Ack") \in ItemsOf("Attach") /\ r \in Seq(ItemsOf("Attach"))
        /\ \A w \in {"flush", "drain"} : Todo(w) \in ItemsOf("Attach")
    BY ItemTypes
  <2> HIDE DEF r, m
  <2>5. Backlog(m) = << >> \/ Backlog(m) = <<Todo("flush")>> \/ Backlog(m) = <<Todo("drain")>>
    BY DEF Backlog
  <2>6. \A w \in {"flush", "drain"} : <<Todo(w)>> \in Seq(ItemsOf("Attach"))
    BY <2>4
  <2>7. Backlog(m) \in Seq(ItemsOf("Attach"))
    <3>1. << >> \in Seq(ItemsOf("Attach"))
      OBVIOUS
    <3>2. QED
      BY <2>5, <2>6, <3>1, Zenon
  <2>8. Head(s) = Answer("Ack") /\ Tail(s) = Backlog(m) \o r /\ Answer("Ack").do = "answer"
    BY <2>4, <2>7, Joined, ItemKinds
  <2>9. AttachHandler(Answer("Ack"), Backlog(m) \o r)
    <3>1. CASE Backlog(m) = << >>
      <4>1. << >> \o r = r
        BY <2>4
      <4>2. QED
        BY <2>8, <3>1, <4>1 DEF AttachHandler, r
    <3>2. ASSUME NEW w \in {"flush", "drain"}, Backlog(m) = <<Todo(w)>>
          PROVE  AttachHandler(Answer("Ack"), Backlog(m) \o r)
      <4>1. LoopNext(w, <<Todo(w)>> \o r)
        BY <2>4, Prefixed DEF LoopNext, r
      <4>2. QED
        BY <2>8, <3>2, <4>1 DEF AttachHandler
    <3>3. QED
      BY <2>5, <3>1, <3>2
  <2> HIDE DEF s, e
  <2>10. Remains(g, s)
    BY <1>2, <2>1, <2>8, <2>9 DEF Remains
  <2>11. QED
    BY <1>1, <2>1, <2>3, <2>10
<1>6. CASE ServeDetach(c) \/ ServeBye(c)
  <2>1. todo' = << >>
    BY <1>6 DEF ServeDetach, ServeBye, Start, HasFrame, Idle
  <2>2. QED
    BY <2>1 DEF Handler, Remains
<1>7. CASE ServePublish(c)
  <2> DEFINE p == f.pay
             left == chan[k].list["BroadcastIn"]
             u == <<Copies(p, left), Queue(p), Answer("Ack")>>
  <2>1. /\ f.op = "Publish"
        /\ \/ \E w \in {"park", "peer"} : Start(c, <<Todo(w), Answer("Ack")>>)
           \/ Start(c, u)
    BY <1>7 DEF ServePublish, HasFrame
  <2>2. ASSUME NEW w \in {"park", "peer"} PROVE Remains(g, <<Todo(w), Answer("Ack")>>)
    <3>1. Todo(w).do = w
      BY ItemKinds
    <3>2. PublishHandler(p, Todo(w), <<Answer("Ack")>>)
      BY <3>1 DEF PublishHandler
    <3>3. QED
      BY <1>2, <1>4, <2>1, <3>2 DEF Remains
  <2>3. Remains(g, u)
    <3>1. /\ Head(u) = Copies(p, left) /\ Tail(u) = <<Queue(p), Answer("Ack")>>
          /\ Head(Tail(u)) = Queue(p) /\ Tail(Tail(u)) = <<Answer("Ack")>> /\ Tail(u) # << >>
      BY Tuples
    <3>2. Copies(p, left).do = "copies" /\ Copies(p, left).pay = p
      BY ItemKinds
    <3> HIDE DEF u, p, left
    <3>3. PublishHandler(p, Head(u), Tail(u))
      BY <3>1, <3>2 DEF PublishHandler
    <3>4. QED
      BY <1>2, <2>1, <3>3 DEF Remains, p
  <2>4. QED
    BY <1>1, <2>1, <2>2, <2>3
<1>8. CASE ServeOffer(c)
  <2> DEFINE o == chan[k].offer_from
  <2>1. /\ f.op = "Offer"
        /\ \/ Start(c, <<Answer("Error")>>) \/ Start(c, << >>) \/ Start(c, <<Notify(c, "Accept")>>)
           \/ o \notin {None, c} /\ Start(c, <<Notify(c, "Busy"), Notify(o, "Busy")>>)
    BY <1>8 DEF ServeOffer, HasFrame, OtherOffered
  <2>2. o \in Clients \union {None}
    <3>1. k \in Channels
      <4>1. f \in Frames
        BY <1>8, TakeType DEF TypeOK, ServeOffer
      <4>2. QED
        BY <2>1, <4>1 DEF Frames
    <3>2. QED
      BY <3>1 DEF TypeOK, DaemonTypes, ChannelStates
  <2>3. Remains(g, << >>) /\ Remains(g, <<Answer("Error")>>)
    BY <1>2, <1>3, <2>1 DEF Remains, OfferHandler
  <2>4. Remains(g, <<Notify(c, "Accept")>>)
    BY <1>2, <1>3, <2>1, ItemKinds DEF Remains, OfferHandler
  <2>5. o \notin {None, c} => Remains(g, <<Notify(c, "Busy"), Notify(o, "Busy")>>)
    <3>1. Notify(c, "Busy").do = "notify"
      BY ItemKinds
    <3>2. o \notin {None, c} => OfferHandler(Notify(c, "Busy"), <<Notify(o, "Busy")>>)
      BY <2>2, <3>1 DEF OfferHandler
    <3>3. QED
      BY <1>2, <1>4, <2>1, <3>2 DEF Remains
  <2>6. QED
    BY <1>1, <2>1, <2>3, <2>4, <2>5
<1>9. CASE ServeRecvReady(c)
  <2> DEFINE o == chan[k].offer_from
             receive == <<Todo("drain"), Todo("announce")>>
  <2>1. /\ f.op = "RecvReady"
        /\ \/ Start(c, <<Answer("Error")>>) \/ Start(c, receive)
           \/ o # None /\ Start(c, <<Notify(o, "Accept")>> \o receive)
    BY <1>9 DEF ServeRecvReady, HasFrame, OtherOffered
  <2>2. o \in Clients \union {None}
    <3>1. k \in Channels
      <4>1. f \in Frames
        BY <1>9, TakeType DEF TypeOK, ServeRecvReady
      <4>2. QED
        BY <2>1, <4>1 DEF Frames
    <3>2. QED
      BY <3>1 DEF TypeOK, DaemonTypes, ChannelStates
  <2>3. Remains(g, <<Answer("Error")>>)
    BY <1>2, <1>3, <2>1 DEF Remains, RecvReadyHandler
  <2>4. Remains(g, receive)
    BY <1>2, <1>4, <2>1, ItemKinds DEF Remains, RecvReadyHandler
  <2>5. o # None => Remains(g, <<Notify(o, "Accept")>> \o receive)
    <3>1. o # None => Notify(o, "Accept") \in ItemsOf("RecvReady")
      BY <2>2, ItemTypes
    <3>2. receive \in Seq(ItemsOf("RecvReady"))
      BY ItemTypes
    <3>3. o # None => /\ Head(<<Notify(o, "Accept")>> \o receive) = Notify(o, "Accept")
                      /\ Tail(<<Notify(o, "Accept")>> \o receive) = receive
      BY <3>1, <3>2, Prefixed, ZenonT(40)
    <3>4. RecvReadyHandler(Notify(o, "Accept"), receive)
      BY ItemKinds DEF RecvReadyHandler
    <3> HIDE DEF receive, o
    <3>5. QED
      BY <1>2, <2>1, <3>3, <3>4 DEF Remains
  <2>6. QED
    BY <1>1, <2>1, <2>3, <2>4, <2>5
<1>10. QED
  BY <1>5, <1>6, <1>7, <1>8, <1>9 DEF Serve

LEMMA HandlerNext ==
    ASSUME TypeOK, Handler, [Next]_vars
    PROVE  Handler'
<1>1. ASSUME UNCHANGED <<cur, todo>> PROVE Handler'
  BY <1>1 DEF Handler
<1>2. ASSUME NEW c \in Clients, ClientStep(c) \/ HangUp(c) PROVE UNCHANGED <<cur, todo>>
  BY <1>2 DEF ClientStep, HangUp, Connect, SendBye, Die, ReadEof, CloseEnd, ReadFrame, RetryOffer,
              SendPublish, SendOffer, SendRecvReady, SendAttach, SendDetach
<1>3. CASE Exit \/ UNCHANGED vars
  BY <1>1, <1>3 DEF Exit, vars
<1>4. QED
  BY <1>1, <1>2, <1>3, StepRemains, ServeRemains DEF Next

Now(w) == todo # << >> /\ Head(todo).do = w

(* What can follow step w: the queue follows the copies of its message.    *)
LEMMA NextItem ==
    ASSUME Handler, NEW w, Now(w), Tail(todo) # << >>
    PROVE  LET x == Head(todo)
               y == Head(Tail(todo))
           IN  /\ y.do \in {"resume", "flush", "drain", "announce", "answer", "notify", "queue"}
               /\ y.do = "queue" <=> w = "copies"
               /\ w = "copies" => y.pay = x.pay
               /\ y.do = "answer" => cur.op = "Publish" /\ w \in {"peer", "park", "push", "queue"}
               /\ cur.op = "Attach" /\ w = "queue" => y.do = "flush"
<1> DEFINE x == Head(todo)
           t == Tail(todo)
           y == Head(t)
<1>1. ASSUME NEW a, NEW b PROVE
        /\ t = <<a>> => Head(t) = a
        /\ t = <<a, b>> => Head(t) = a
  BY Tuples
<1>2. x.do = w /\ t # << >>
  BY DEF Now
<1> HIDE DEF x, t
<1> DEFINE goal == /\ y.do \in {"resume", "flush", "drain", "announce", "answer", "notify", "queue"}
                   /\ y.do = "queue" <=> w = "copies"
                   /\ w = "copies" => y.pay = x.pay
                   /\ y.do = "answer" => cur.op = "Publish" /\ w \in {"peer", "park", "push", "queue"}
                   /\ cur.op = "Attach" /\ w = "queue" => y.do = "flush"
<1>3. CASE cur.op = "Attach" /\ AttachHandler(x, t)
  <2>1. \/ w = "answer" /\ y = Todo("resume")
        \/ w = "answer" /\ \E v \in {"flush", "drain"} : y = Todo(v)
        \/ w \in {"flush", "drain"} /\ y = Todo("resume")
        \/ w = "copies" /\ y = Queue(x.pay)
        \/ w = "queue" /\ y = Todo("flush")
    BY <1>1, <1>2, <1>3 DEF AttachHandler, LoopNext
  <2> HIDE DEF y
  <2>2. QED
    BY <1>3, <2>1, ItemKinds DEF goal, y, x, t
<1>4. CASE cur.op = "Publish" /\ PublishHandler(cur.pay, x, t)
  <2>1. \/ w \in {"peer", "park", "push", "queue"} /\ y = Answer("Ack")
        \/ w = "copies" /\ y = Queue(x.pay)
    BY <1>1, <1>2, <1>4 DEF PublishHandler
  <2> HIDE DEF y
  <2>2. QED
    BY <1>4, <2>1, ItemKinds DEF goal, y, x, t
<1>5. CASE cur.op = "Offer" /\ OfferHandler(x, t)
  <2>1. w = "notify" /\ \E c \in Clients : y = Notify(c, "Busy")
    BY <1>1, <1>2, <1>5 DEF OfferHandler
  <2> HIDE DEF y
  <2>2. QED
    BY <1>5, <2>1, ItemKinds DEF goal, y, x, t
<1>6. CASE cur.op = "RecvReady" /\ RecvReadyHandler(x, t)
  <2>1. \/ w = "notify" /\ y = Todo("drain")
        \/ w = "drain" /\ y = Todo("announce")
    BY <1>1, <1>2, <1>6 DEF RecvReadyHandler
  <2> HIDE DEF y
  <2>2. QED
    BY <1>6, <2>1, ItemKinds DEF goal, y, x, t
<1>7. QED
  BY <1>2, <1>3, <1>4, <1>5, <1>6 DEF Handler, Remains, Now, x, t

-----------------------------------------------------------------------------
(* While no socket is full when the daemon writes to it, no message that   *)
(* has been acknowledged is lost and no subscriber is passed over.         *)

(* No write of the daemon meets a full socket.                             *)
Roomy == todo # << >> => \A c \in Targets : ~Stalled(c)

Safe(n) == Pending(n) \/ Delivered(n)
BeingSpread(n) ==
    todo # << >> /\ Head(todo).do \in {"copies", "queue"} /\ Head(todo).pay.n = n

(* Those the loop over the subscribers has passed have got their copy.     *)
Served ==
    Now("copies") =>
       \A c \in Attached(cur.ch, "BroadcastIn") :
          \/ Head(todo).left[c] > 0
          \/ \E i \in DOMAIN dlv[c] :
                dlv[c][i] = [ch |-> cur.ch, mode |-> "BroadcastIn", pay |-> Head(todo).pay]

(* A message that is acknowledged, or will be when the step that is next   *)
(* is done, is in a backlog or delivered, or goes to a reader for sure.    *)
Kept ==
    /\ status = "running" => \A n \in acked : Safe(n) \/ BeingSpread(n)
    /\ \A w \in {"push", "answer"} :
          Now(w) /\ cur.op = "Publish" /\ Head(todo) # Answer("Error") => Safe(cur.pay.n)
    /\ Now("copies") =>
          \/ Delivered(Head(todo).pay.n) \/ Attached(cur.ch, "QueueIn") # {}
          \/ \E c \in Clients : Head(todo).left[c] > 0
    /\ Now("queue") =>
          Delivered(Head(todo).pay.n) \/ Attached(cur.ch, "QueueIn") # {}
    /\ Now("push") => chan[cur.ch].recv_ready \in Clients

LEMMA SafeLogged ==
    ASSUME TypeOK, NEW c \in Clients, NEW m, NEW p, Log(c, m, p)
    PROVE  /\ Delivered(p.n)' /\ \A n : Delivered(n) => Delivered(n)'
           /\ \A d \in Clients : \A i \in DOMAIN dlv[d] : i \in DOMAIN dlv'[d] /\ dlv'[d][i] = dlv[d][i]
           /\ \E i \in DOMAIN dlv'[c] : dlv'[c][i] = [ch |-> cur.ch, mode |-> m, pay |-> p]
<1>1. /\ \A d \in Clients : dlv[d] \in Seq(Deliveries)
      /\ dlv'[c] = Append(dlv[c], [ch |-> cur.ch, mode |-> m, pay |-> p])
      /\ \A d \in Clients : d # c => dlv'[d] = dlv[d]
  BY DEF Log, TypeOK, HistoryTypes
<1> DEFINE e == [ch |-> cur.ch, mode |-> m, pay |-> p]
<1>2. /\ Len(dlv[c]) \in Nat /\ DOMAIN dlv[c] = 1..Len(dlv[c])
      /\ DOMAIN dlv'[c] = 1..(Len(dlv[c]) + 1) /\ dlv'[c][Len(dlv[c]) + 1] = e
      /\ \A i \in 1..Len(dlv[c]) : dlv'[c][i] = dlv[c][i]
  BY <1>1
<1>3. \A d \in Clients : \A i \in DOMAIN dlv[d] : i \in DOMAIN dlv'[d] /\ dlv'[d][i] = dlv[d][i]
  BY <1>1, <1>2
<1>4. Len(dlv[c]) + 1 \in DOMAIN dlv'[c] /\ e.pay.n = p.n
  BY <1>2
<1> HIDE DEF e
<1>5. Delivered(p.n)'
  BY <1>2, <1>4 DEF Delivered
<1>6. \A n : Delivered(n) => Delivered(n)'
  BY <1>3 DEF Delivered
<1>7. QED
  BY <1>2, <1>3, <1>4, <1>5, <1>6 DEF e

LEMMA SamePending ==
    ASSUME \A k \in Channels : chan'[k].pending = chan[k].pending
    PROVE  \A n : Pending(n) <=> Pending(n)'
BY DEF Pending

LEMMA PoppedPending ==
    ASSUME TypeOK, NEW k \in Channels, chan' = Pop(k), chan[k].pending # << >>
    PROVE  /\ \A n : Pending(n) => Pending(n)' \/ n = Head(chan[k].pending).n
<1> DEFINE s == chan[k].pending
<1>1. /\ s \in Seq(Payloads) /\ chan'[k].pending = Tail(s)
      /\ \A j \in Channels : j # k => chan'[j] = chan[j]
  BY PendingType DEF TypeOK, DaemonTypes, ChannelStates, Pop
<1>2. /\ Len(s) \in Nat /\ Head(s) = s[1] /\ DOMAIN Tail(s) = 1..(Len(s) - 1)
      /\ \A i \in 1..(Len(s) - 1) : Tail(s)[i] = s[i + 1]
  BY <1>1, TailOf
<1>3. DOMAIN s = 1..Len(s)
  BY <1>1
<1> HIDE DEF s
<1>4. ASSUME NEW i \in DOMAIN s, i # 1 PROVE i - 1 \in DOMAIN Tail(s) /\ Tail(s)[i - 1] = s[i]
  BY <1>2, <1>3, <1>4
<1>5. ASSUME NEW n, Pending(n), n # Head(s).n PROVE Pending(n)'
  <2>1. PICK j \in Channels : \E i \in DOMAIN chan[j].pending : chan[j].pending[i].n = n
    BY <1>5 DEF Pending
  <2>2. PICK i \in DOMAIN chan[j].pending : chan[j].pending[i].n = n
    BY <2>1
  <2>3. CASE j # k
    BY <1>1, <2>2, <2>3 DEF Pending
  <2>4. CASE j = k
    <3>1. i \in DOMAIN s /\ i # 1 /\ s[i].n = n
      BY <1>2, <1>5, <2>2, <2>4 DEF s
    <3>2. i - 1 \in DOMAIN chan'[k].pending /\ chan'[k].pending[i - 1].n = n
      BY <1>1, <1>4, <3>1
    <3>3. QED
      BY <3>2 DEF Pending
  <2>5. QED
    BY <2>3, <2>4
<1>6. QED
  BY <1>5 DEF s

LEMMA PushedPending ==
    ASSUME TypeOK, NEW k \in Channels, NEW p \in Payloads, chan' = Push(k, p)
    PROVE  Pending(p.n)' /\ \A n : Pending(n) => Pending(n)'
<1> DEFINE s == chan[k].pending
<1>1. /\ s \in Seq(Payloads) /\ chan'[k].pending = Append(s, p)
      /\ \A j \in Channels : j # k => chan'[j] = chan[j]
  BY PendingType DEF TypeOK, DaemonTypes, ChannelStates, Push
<1>2. /\ Len(s) \in Nat /\ DOMAIN s = 1..Len(s) /\ DOMAIN Append(s, p) = 1..(Len(s) + 1)
      /\ Append(s, p)[Len(s) + 1] = p /\ \A i \in 1..Len(s) : Append(s, p)[i] = s[i]
  BY <1>1
<1>3. \A j \in Channels : \A i \in DOMAIN chan[j].pending :
         i \in DOMAIN chan'[j].pending /\ chan'[j].pending[i] = chan[j].pending[i]
  BY <1>1, <1>2
<1>4. Len(s) + 1 \in DOMAIN chan'[k].pending /\ chan'[k].pending[Len(s) + 1] = p
  BY <1>1, <1>2
<1> HIDE DEF s
<1>5. QED
  BY <1>3, <1>4 DEF Pending

(* What a step must still promise: nothing acknowledged is lost, and what  *)
(* is in hand, given by the set spread, will be delivered.                 *)
AckedIn(spread) == \A n \in acked : Safe(n) \/ n \in spread

LEMMA KeptBy ==
    ASSUME Kept, status = "running"
    PROVE  /\ \A n \in acked : Safe(n) \/ BeingSpread(n)
           /\ todo = << >> => AckedIn({})
           /\ \A w : Now(w) /\ w \notin {"copies", "queue"} => AckedIn({})
           /\ \A w : Now(w) /\ w \in {"copies", "queue"} => AckedIn({Head(todo).pay.n})
BY DEF Kept, AckedIn, BeingSpread, Now

LEMMA SafeSame ==
    ASSUME \A k \in Channels : chan'[k].pending = chan[k].pending, dlv' = dlv
    PROVE  \A n : Safe(n) <=> Safe(n)'
<1>1. \A n : Delivered(n) <=> Delivered(n)'
  BY DEF Delivered
<1>2. QED
  BY <1>1, SamePending DEF Safe

(* The step that is next has nothing of its own to promise.                *)
LEMMA PlainNext ==
    ASSUME todo' # << >> => /\ Head(todo').do \notin {"copies", "queue", "push"}
                            /\ Head(todo').do = "answer" => cur'.op # "Publish",
           status' = "running" => AckedIn({})'
    PROVE  Served' /\ Kept'
<1>1. Served'
  BY DEF Served, Now
<1>2. status' = "running" => \A n \in acked' : Safe(n)'
  BY DEF AckedIn
<1>3. QED
  BY <1>1, <1>2 DEF Kept, Now

LEMMA QuietPromises ==
    ASSUME Served, Kept, UNCHANGED <<todo, cur, chan, dlv, acked>>,
           status' = "running" => status = "running"
    PROVE  Served' /\ Kept'
<1>1. \A n : (Safe(n) <=> Safe(n)') /\ (BeingSpread(n) <=> BeingSpread(n)')
  BY SafeSame DEF BeingSpread
<1>2. \A n : Delivered(n) <=> Delivered(n)'
  BY DEF Delivered
<1>3. /\ \A w : Now(w) <=> Now(w)'
      /\ \A k, m : Attached(k, m)' = Attached(k, m)
  BY DEF Now, Attached
<1>4. Served'
  BY <1>3 DEF Served
<1>5. QED
  BY <1>1, <1>2, <1>3, <1>4 DEF Kept

(* The handler goes on with the rest of itself.                            *)
LEMMA MovedOn ==
    ASSUME TypeOK, Handler, NEW w, Now(w), Goto(Tail(todo)),
           NEW k, k = cur.ch, NEW q, q = cur.pay, NEW p, w = "copies" => p = Head(todo).pay,
           w # "copies" => (status' = "running" => AckedIn({})'),
           w = "copies" => /\ status' = "running" => AckedIn({p.n})'
                           /\ Delivered(p.n)' \/ Attached(k, "QueueIn")' # {},
           w \in {"peer", "park", "push", "queue"} /\ cur.op = "Publish" => Safe(q.n)'
    PROVE  Served' /\ Kept'
<1> DEFINE t == Tail(todo)
           y == Head(t)
<1>1. CASE t = << >>
  <2>1. w # "copies"
    <3>1. w = "copies" => t # << >>
      <4>1. Head(todo).do = w /\ todo # << >>
        BY DEF Now
      <4>2. QED
        BY <4>1, ItemKinds DEF Handler, Remains, AttachHandler, PublishHandler, OfferHandler,
                               RecvReadyHandler
    <3>2. QED
      BY <1>1, <3>1
  <2>2. todo' = << >>
    BY <1>1 DEF Goto
  <2>3. QED
    BY <2>1, <2>2, PlainNext
<1>2. CASE t # << >>
  <2>1. todo' = t /\ cur' = cur
    BY <1>2 DEF Goto
  <2>2. /\ y.do \in {"resume", "flush", "drain", "announce", "answer", "notify", "queue"}
        /\ y.do = "queue" <=> w = "copies"
        /\ w = "copies" => y.pay = Head(todo).pay
        /\ cur.op = "Publish" /\ y.do = "answer" => w \in {"peer", "park", "push", "queue"}
    BY <1>2, NextItem
  <2>3. /\ Head(todo') = y /\ todo' # << >>
    BY <1>2, <2>1
  <2> HIDE DEF y, t
  <2>4. Served'
    BY <2>2, <2>3 DEF Served, Now
  <2>5. CASE w = "copies"
    <3>1. y.do = "queue" /\ y.pay = p
      BY <2>2, <2>5
    <3>2. status' = "running" => \A n \in acked' : Safe(n)' \/ BeingSpread(n)'
      BY <2>3, <2>5, <3>1 DEF AckedIn, BeingSpread
    <3>3. Head(todo').pay = p /\ Head(todo').do = "queue" /\ cur'.ch = k
      BY <2>1, <2>3, <3>1
    <3>4. QED
      BY <2>4, <2>5, <3>2, <3>3 DEF Kept, Now
  <2>6. CASE w # "copies" /\ (y.do = "answer" => cur.op # "Publish")
    BY <2>1, <2>2, <2>3, <2>6, PlainNext
  <2>7. CASE w # "copies" /\ y.do = "answer" /\ cur.op = "Publish"
    <3>1. Safe(q.n)' /\ (status' = "running" => \A n \in acked' : Safe(n)')
      BY <2>2, <2>7 DEF AckedIn
    <3>2. cur'.pay = q /\ Head(todo').do = "answer"
      BY <2>1, <2>3, <2>7
    <3>3. QED
      BY <2>4, <3>1, <3>2 DEF Kept, Now
  <2>8. QED
    BY <2>5, <2>6, <2>7
<1>3. QED
  BY <1>1, <1>2

LEMMA MovedPlain ==
    ASSUME TypeOK, Handler, NEW w \in {"answer", "notify", "flush", "drain", "announce", "resume"},
           Now(w), Goto(Tail(todo)), status' = "running" => AckedIn({})'
    PROVE  Served' /\ Kept'
<1>1. PICK q, k : q = cur.pay /\ k = cur.ch
  OBVIOUS
<1>2. w \notin {"copies", "peer", "park", "push", "queue"}
  OBVIOUS
<1>3. QED
  BY <1>1, <1>2, MovedOn

LEMMA MovedDone ==
    ASSUME TypeOK, Handler, NEW w \in {"peer", "park", "push", "queue"}, Now(w), Goto(Tail(todo)),
           NEW q, q = cur.pay, status' = "running" => AckedIn({})',
           cur.op = "Publish" => Safe(q.n)'
    PROVE  Served' /\ Kept'
<1>1. PICK p, k : p = q /\ k = cur.ch
  OBVIOUS
<1>2. w # "copies"
  OBVIOUS
<1>3. QED
  BY <1>1, <1>2, MovedOn

LEMMA AckedSame ==
    ASSUME \A k \in Channels : chan'[k].pending = chan[k].pending, dlv' = dlv, acked' = acked,
           NEW spread, AckedIn(spread)
    PROVE  AckedIn(spread)'
<1>1. \A n : Safe(n) <=> Safe(n)'
  BY SafeSame
<1>2. QED
  BY <1>1 DEF AckedIn

LEMMA AckedLogged ==
    ASSUME TypeOK, \A k \in Channels : chan'[k].pending = chan[k].pending, acked' = acked,
           NEW c \in Clients, NEW m, NEW p, Log(c, m, p),
           AckedIn({p.n}) \/ AckedIn({})
    PROVE  AckedIn({})' /\ Delivered(p.n)' /\ Safe(p.n)'
<1>1. /\ Delivered(p.n)' /\ \A n : Delivered(n) => Delivered(n)'
      /\ \A n : Pending(n) <=> Pending(n)'
  BY SafeLogged, SamePending
<1>2. \A n : Safe(n) => Safe(n)'
  BY <1>1 DEF Safe
<1>3. Safe(p.n)'
  BY <1>1 DEF Safe
<1>4. QED
  BY <1>1, <1>2, <1>3 DEF AckedIn

LEMMA AckedMoved ==
    ASSUME TypeOK, NEW k \in Channels, chan[k].pending # << >>, chan' = Pop(k), acked' = acked,
           NEW c \in Clients, NEW m, NEW p, p = Head(chan[k].pending), Log(c, m, p)
    PROVE  /\ AckedIn({}) => AckedIn({})'
           /\ \A n : Safe(n) => Safe(n)'
<1>1. /\ Delivered(p.n)' /\ \A n : Delivered(n) => Delivered(n)'
      /\ \A n : Pending(n) => Pending(n)' \/ n = p.n
  BY SafeLogged, PoppedPending
<1>2. \A n : Safe(n) => Safe(n)'
  BY <1>1 DEF Safe
<1>3. QED
  BY <1>2 DEF AckedIn

LEMMA NoStall ==
    ASSUME Roomy, NEW w, Now(w)
    PROVE  /\ w = "answer" /\ live[cur.id] => ~Stalled(cur.id)
           /\ w = "copies" => \A c \in Clients : Head(todo).left[c] > 0 => ~Stalled(c)
           /\ w = "queue" => \A c \in Attached(cur.ch, "QueueIn") : ~Stalled(c)
           /\ w = "peer" => \A c \in Peers(cur.ch) \ {cur.id} : ~Stalled(c)
           /\ w = "drain" /\ chan[cur.ch].pending # << >> => ~Stalled(cur.id)
           /\ w = "push" /\ chan[cur.ch].pending # << >> => ~Stalled(chan[cur.ch].recv_ready)
<1>1. todo # << >> /\ Head(todo).do = w /\ \A c \in Targets : ~Stalled(c)
  BY DEF Now, Roomy
<1>2. QED
  BY <1>1 DEF Targets

LEMMA AnswerPromises ==
    ASSUME TypeOK, Handler, Roomy, Served, Kept, AnswerStep
    PROVE  Served' /\ Kept'
<1> DEFINE op == Head(todo).op
<1>1. /\ Now("answer") /\ status = "running" /\ status' = status /\ dlv' = dlv
  BY DEF AnswerStep, Doing, Now
<1>2. /\ Goto(Tail(todo)) /\ chan' = chan
      /\ \/ acked' = acked
         \/ op = "Ack" /\ cur.op = "Publish" /\ acked' = acked \union {cur.pay.n}
  BY <1>1, NoStall DEF AnswerStep, daemon
<1>3. AckedIn({}) /\ \A n : Safe(n) <=> Safe(n)'
  BY <1>1, <1>2, KeptBy, SafeSame
<1>4. op = "Ack" /\ cur.op = "Publish" => Safe(cur.pay.n)
  <2>1. Answer("Error").op = "Error"
    BY ItemKinds
  <2>2. QED
    BY <1>1, <2>1 DEF Kept
<1>5. AckedIn({})'
  <2>1. PICK q : q = cur.pay
    OBVIOUS
  <2>2. op = "Ack" /\ cur.op = "Publish" => Safe(q.n)'
    BY <1>3, <1>4, <2>1
  <2>3. QED
    BY <1>2, <1>3, <2>1, <2>2 DEF AckedIn
<1>6. QED
  BY <1>1, <1>2, <1>5, MovedPlain

LEMMA MarkPromises ==
    ASSUME TypeOK, Handler, Roomy, Served, Kept,
           NotifyStep \/ AnnounceStep \/ ResumeStep \/ SigPipe
    PROVE  Served' /\ Kept'
<1>1. CASE NotifyStep \/ AnnounceStep \/ ResumeStep
  <2>1. PICK w \in {"notify", "announce", "resume"} : Doing(w) /\ Goto(Tail(todo))
    BY <1>1 DEF NotifyStep, AnnounceStep, ResumeStep
  <2>2. dlv' = dlv /\ acked' = acked /\ status = "running" /\ Now(w)
    BY <1>1, <2>1 DEF NotifyStep, AnnounceStep, ResumeStep, Doing, Now
  <2>3. \A k \in Channels : chan'[k].pending = chan[k].pending
    <3>1. cur.ch \in Channels /\ chan \in [Channels -> ChannelStates]
      BY <2>1, ServedType DEF TypeOK, DaemonTypes
    <3>2. CASE chan' = [chan EXCEPT ![cur.ch].recv_ready = cur.id]
      <4>1. \A k \in Channels : k # cur.ch => chan'[k] = chan[k]
        BY <3>1, <3>2
      <4>2. chan'[cur.ch] = [chan[cur.ch] EXCEPT !.recv_ready = cur.id]
        BY <3>1, <3>2
      <4>3. chan'[cur.ch].pending = chan[cur.ch].pending
        BY <3>1, <4>2 DEF ChannelStates
      <4>4. QED
        BY <4>1, <4>3
    <3>3. chan' = chan \/ chan' = [chan EXCEPT ![cur.ch].recv_ready = cur.id]
      BY <1>1 DEF NotifyStep, AnnounceStep, ResumeStep, daemon
    <3>4. QED
      BY <3>2, <3>3
  <2>4. AckedIn({})'
    BY <2>2, <2>3, KeptBy, AckedSame
  <2>5. QED
    BY <2>1, <2>2, <2>4, MovedPlain
<1>2. CASE SigPipe
  <2>1. todo' = << >> /\ status' # "running"
    BY <1>2 DEF SigPipe, Goto
  <2>2. QED
    BY <2>1, PlainNext
<1>3. QED
  BY <1>1, <1>2

LEMMA FlushPromises ==
    ASSUME TypeOK, Handler, Roomy, Served, Kept, FlushStep
    PROVE  Served' /\ Kept'
<1> DEFINE left == chan[cur.ch].list["BroadcastIn"]
<1>1. PICK k, q, p : k = cur.ch /\ q = cur.pay /\ p = Head(chan[k].pending)
  OBVIOUS
<1>2. /\ Now("flush") /\ status = "running" /\ status' = status /\ dlv' = dlv /\ acked' = acked
      /\ k \in Channels /\ left \in [Clients -> Nat] /\ todo \in Seq(ItemsOf(cur.op))
      /\ cur.op = "Attach"
  BY <1>1, ServedType, HeadType, ListType DEF TypeOK, FlushStep, Doing, Now, AllModes
<1>3. AckedIn({})
  BY <1>2, KeptBy
<1>4. CASE chan' = chan /\ Goto(Tail(todo))
  <2>1. AckedIn({})'
    BY <1>2, <1>3, <1>4, AckedSame
  <2>2. QED
    BY <1>2, <1>4, <2>1, MovedPlain
<1>5. CASE /\ chan[k].pending # << >> /\ HasReader(k) /\ chan' = Pop(k)
           /\ Goto(<<Copies(p, left), Queue(p)>> \o todo)
  <2>1. p \in Payloads
    BY <1>1, <1>2, <1>5, PopType DEF TypeOK
  <2>2. Copies(p, left) \in ItemsOf(cur.op) /\ Queue(p) \in ItemsOf(cur.op)
    BY <1>2, <2>1, ItemTypes
  <2>3. todo' = <<Copies(p, left), Queue(p)>> \o todo
    BY <1>5 DEF Goto
  <2>4. Head(todo') = Copies(p, left) /\ todo' # << >>
    BY <1>2, <2>2, <2>3, Prefixed
  <2>5. cur' = cur
    BY <1>5, <2>3, <2>4 DEF Goto
  <2>6. Head(todo').do = "copies" /\ Head(todo').pay = p /\ Head(todo').left = left
    BY <2>4, ItemKinds
  <2>7. \A m \in AllModes : Attached(k, m)' = Attached(k, m)
    BY <1>2, <1>5, PopKeepsLists DEF TypeOK, Attached
  <2>8. \A c \in Attached(k, "BroadcastIn") : left[c] > 0
    BY <1>1 DEF Attached
  <2>9. Served'
    BY <1>1, <2>5, <2>6, <2>7, <2>8 DEF Served, AllModes
  <2>10. \A n : Safe(n) => Safe(n)' \/ n = p.n
    <3>1. \A n : Pending(n) => Pending(n)' \/ n = p.n
      BY <1>1, <1>2, <1>5, PoppedPending
    <3>2. \A n : Delivered(n) <=> Delivered(n)'
      BY <1>2 DEF Delivered
    <3>3. QED
      BY <3>1, <3>2 DEF Safe
  <2>11. \A n \in acked' : Safe(n)' \/ BeingSpread(n)'
    <3>1. BeingSpread(p.n)'
      BY <2>4, <2>6 DEF BeingSpread
    <3>2. QED
      BY <1>2, <1>3, <2>10, <3>1 DEF AckedIn
  <2>12. Attached(k, "QueueIn")' # {} \/ \E c \in Clients : left[c] > 0
    BY <1>1, <1>5, <2>7 DEF HasReader, Attached, AllModes
  <2>13. cur'.ch = k
    BY <1>1, <2>5
  <2> HIDE DEF left
  <2>14. QED
    BY <2>6, <2>9, <2>11, <2>12, <2>13 DEF Kept, Now
<1>6. QED
  BY <1>1, <1>4, <1>5 DEF FlushStep

LEMMA CopyPromises ==
    ASSUME TypeOK, Handler, Roomy, Served, Kept, CopyStep
    PROVE  Served' /\ Kept'
<1>1. PICK k, q, p, left : /\ k = cur.ch /\ q = cur.pay
                           /\ p = Head(todo).pay /\ left = Head(todo).left
  OBVIOUS
<1>2. /\ Now("copies") /\ status = "running" /\ acked' = acked /\ k \in Channels
      /\ p \in Payloads /\ left \in [Clients -> Nat]
      /\ Tail(todo) \in Seq(ItemsOf(cur.op)) /\ cur.op \in {"Attach", "Publish"}
  BY <1>1, ServedType, HeadType DEF TypeOK, CopyStep, Doing, Now
<1>3. AckedIn({p.n})
  BY <1>1, <1>2, KeptBy
<1>4. \/ left = NoHandles /\ Goto(Tail(todo)) /\ UNCHANGED <<chan, dlv>>
      \/ \E c \in Clients :
            /\ left[c] > 0 /\ Log(c, "BroadcastIn", p) /\ chan' = chan
            /\ Goto(<<Copies(p, [left EXCEPT ![c] = @ - 1])>> \o Tail(todo))
  BY <1>1, <1>2, NoStall DEF CopyStep, daemon
<1>5. CASE left = NoHandles /\ Goto(Tail(todo)) /\ UNCHANGED <<chan, dlv>>
  <2>1. \A c \in Clients : ~(left[c] > 0)
    BY <1>5 DEF NoHandles
  <2>2. Delivered(p.n) \/ Attached(k, "QueueIn") # {}
    BY <1>1, <1>2, <2>1 DEF Kept
  <2>3. Delivered(p.n)' \/ Attached(k, "QueueIn")' # {}
    BY <1>5, <2>2 DEF Delivered, Attached
  <2>4. AckedIn({p.n})'
    BY <1>2, <1>3, <1>5, AckedSame
  <2>5. QED
    BY <1>1, <1>2, <1>5, <2>3, <2>4, MovedOn
<1>6. ASSUME NEW c \in Clients, left[c] > 0, Log(c, "BroadcastIn", p), chan' = chan,
             Goto(<<Copies(p, [left EXCEPT ![c] = @ - 1])>> \o Tail(todo))
      PROVE  Served' /\ Kept'
  <2> DEFINE l == [left EXCEPT ![c] = @ - 1]
  <2>1. l \in [Clients -> Nat] /\ \A d \in Clients : d # c => l[d] = left[d]
    BY <1>2, <1>6
  <2>2. Copies(p, l) \in ItemsOf(cur.op)
    BY <1>2, <2>1, ItemTypes
  <2>3. todo' = <<Copies(p, l)>> \o Tail(todo)
    BY <1>6 DEF Goto
  <2>4. Head(todo') = Copies(p, l) /\ todo' # << >>
    BY <1>2, <2>2, <2>3, Prefixed
  <2>5. cur'.ch = k
    BY <1>1, <1>6, <2>3, <2>4 DEF Goto
  <2>6. Head(todo').do = "copies" /\ Head(todo').pay = p /\ Head(todo').left = l
    BY <2>4, ItemKinds
  <2>7. AckedIn({})' /\ Delivered(p.n)'
    BY <1>2, <1>3, <1>6, AckedLogged
  <2>8. /\ \A d \in Clients : \A i \in DOMAIN dlv[d] : i \in DOMAIN dlv'[d] /\ dlv'[d][i] = dlv[d][i]
        /\ \E i \in DOMAIN dlv'[c] : dlv'[c][i] = [ch |-> k, mode |-> "BroadcastIn", pay |-> p]
    BY <1>1, <1>6, SafeLogged
  <2>9. \A d \in Attached(k, "BroadcastIn")' :
           \/ left[d] > 0
           \/ \E i \in DOMAIN dlv[d] : dlv[d][i] = [ch |-> k, mode |-> "BroadcastIn", pay |-> p]
    BY <1>1, <1>2, <1>6 DEF Served, Attached
  <2> HIDE DEF l
  <2>10. \A d \in Attached(k, "BroadcastIn")' :
           \/ l[d] > 0
           \/ \E i \in DOMAIN dlv'[d] : dlv'[d][i] = [ch |-> k, mode |-> "BroadcastIn", pay |-> p]
    <3>1. \A d \in Attached(k, "BroadcastIn")' : d \in Clients
      BY DEF Attached
    <3>2. QED
      BY <2>1, <2>8, <2>9, <3>1
  <2>11. Served'
    BY <2>5, <2>6, <2>10 DEF Served
  <2>12. status' = "running" => \A n \in acked' : Safe(n)'
    BY <2>7 DEF AckedIn
  <2>13. QED
    BY <2>6, <2>7, <2>11, <2>12 DEF Kept, Now
<1>7. QED
  BY <1>4, <1>5, <1>6

LEMMA QueuePromises ==
    ASSUME TypeOK, Handler, Roomy, Served, Kept, QueueStep
    PROVE  Served' /\ Kept'
<1>1. PICK k, q, p : k = cur.ch /\ q = cur.pay /\ p = Head(todo).pay
  OBVIOUS
<1>2. /\ Now("queue") /\ status = "running" /\ acked' = acked /\ Goto(Tail(todo))
      /\ \/ Attached(k, "QueueIn") = {} /\ UNCHANGED <<chan, dlv>>
         \/ \E c \in Clients : Log(c, "QueueIn", p) /\ chan' = chan
  <2>1. Now("queue")
    BY DEF QueueStep, Doing, Now
  <2>2. \A c \in Attached(k, "QueueIn") : c \in Clients /\ ~Stalled(c)
    BY <1>1, <2>1, NoStall DEF Attached
  <2>3. QED
    BY <1>1, <2>1, <2>2 DEF QueueStep, Doing, daemon
<1>3. AckedIn({p.n})
  BY <1>1, <1>2, KeptBy
<1>4. cur.op = "Publish" => q = p
  <2>1. cur.op = "Publish" => PublishHandler(cur.pay, Head(todo), Tail(todo))
    BY <1>2 DEF Handler, Remains, Now
  <2>2. QED
    BY <1>1, <1>2, <2>1, ItemKinds DEF PublishHandler, Now
<1>5. AckedIn({})' /\ Safe(p.n)'
  <2>1. CASE Attached(k, "QueueIn") = {} /\ UNCHANGED <<chan, dlv>>
    <3>1. Delivered(p.n)
      BY <1>1, <1>2, <2>1 DEF Kept
    <3>2. Safe(p.n) /\ \A n : Safe(n) <=> Safe(n)'
      BY <2>1, <3>1, SafeSame DEF Safe
    <3>3. QED
      BY <1>2, <1>3, <3>2 DEF AckedIn
  <2>2. CASE \E c \in Clients : Log(c, "QueueIn", p) /\ chan' = chan
    BY <1>2, <1>3, <2>2, AckedLogged
  <2>3. QED
    BY <1>2, <2>1, <2>2
<1>6. cur.op = "Publish" => Safe(q.n)'
  BY <1>4, <1>5
<1>7. QED
  BY <1>1, <1>2, <1>5, <1>6, MovedDone

LEMMA DrainPromises ==
    ASSUME TypeOK, Handler, Roomy, Served, Kept, DrainStep
    PROVE  Served' /\ Kept'
<1>1. PICK k, p : k = cur.ch /\ p = Head(chan[k].pending)
  OBVIOUS
<1>2. /\ Now("drain") /\ status = "running" /\ acked' = acked /\ cur.id \in Clients
      /\ k \in Channels
  BY <1>1, ServedType DEF TypeOK, DrainStep, Doing, Now
<1>3. AckedIn({})
  BY <1>2, KeptBy
<1>4. \/ Goto(Tail(todo)) /\ UNCHANGED <<chan, dlv>>
      \/ /\ chan[k].pending # << >> /\ chan' = Pop(k) /\ UNCHANGED <<cur, todo>>
         /\ Log(cur.id, "ChannelPeer", p)
  BY <1>1, <1>2, NoStall DEF DrainStep, daemon
<1>5. CASE Goto(Tail(todo)) /\ UNCHANGED <<chan, dlv>>
  <2>1. AckedIn({})'
    BY <1>2, <1>3, <1>5, AckedSame
  <2>2. QED
    BY <1>2, <1>5, <2>1, MovedPlain
<1>6. CASE /\ chan[k].pending # << >> /\ chan' = Pop(k) /\ UNCHANGED <<cur, todo>>
           /\ Log(cur.id, "ChannelPeer", p)
  <2>1. AckedIn({})'
    BY <1>1, <1>2, <1>3, <1>6, AckedMoved
  <2>2. Head(todo').do = "drain"
    BY <1>2, <1>6 DEF Now
  <2>3. QED
    BY <2>1, <2>2, PlainNext
<1>7. QED
  BY <1>4, <1>5, <1>6

LEMMA PeerPromises ==
    ASSUME TypeOK, Handler, Roomy, Served, Kept, PeerStep
    PROVE  Served' /\ Kept'
<1>1. PICK k, q : k = cur.ch /\ q = cur.pay
  OBVIOUS
<1>2. Now("peer") /\ status = "running" /\ acked' = acked /\ chan' = chan
  BY DEF PeerStep, Doing, Now, daemon
<1>3. AckedIn({})
  BY <1>2, KeptBy
<1>4. PICK d \in Clients : Log(d, "ChannelPeer", q) /\ Goto(Tail(todo))
  <2>1. \A d \in Peers(cur.ch) \ {cur.id} : d \in Clients /\ ~Stalled(d)
    BY <1>2, NoStall DEF Peers, Attached
  <2>2. QED
    BY <1>1, <2>1 DEF PeerStep
<1>5. AckedIn({})' /\ Safe(q.n)'
  BY <1>2, <1>3, <1>4, AckedLogged
<1>6. QED
  BY <1>1, <1>2, <1>4, <1>5, MovedDone

LEMMA ParkPromises ==
    ASSUME TypeOK, Handler, Roomy, Served, Kept, ParkStep
    PROVE  Served' /\ Kept'
<1>1. PICK k, q : k = cur.ch /\ q = cur.pay
  OBVIOUS
<1>2. /\ Now("park") /\ status = "running" /\ acked' = acked /\ dlv' = dlv /\ k \in Channels
      /\ q \in Payloads /\ cur.op = "Publish" /\ Tail(todo) \in Seq(ItemsOf(cur.op))
      /\ status' = status
  BY <1>1, ServedType, HeadType DEF TypeOK, ParkStep, Doing, Now
<1>3. AckedIn({})
  BY <1>2, KeptBy
<1>4. \/ Goto(<<Answer("Error")>>) /\ chan' = chan
      \/ chan' = Push(k, q) /\ Goto(Tail(todo))
      \/ /\ chan' = Push(k, q) /\ chan[k].recv_ready # None
         /\ Goto(<<Todo("push")>> \o Tail(todo))
  BY <1>1 DEF ParkStep
<1>5. CASE Goto(<<Answer("Error")>>) /\ chan' = chan
  <2>1. AckedIn({})'
    BY <1>2, <1>3, <1>5, AckedSame
  <2>2. todo' = <<Answer("Error")>>
    BY <1>5 DEF Goto
  <2>3. Head(todo') = Answer("Error") /\ Answer("Error").do = "answer"
    BY <2>2, Tuples, ItemKinds
  <2>4. QED
    BY <2>1, <2>3 DEF Kept, Served, Now, AckedIn
<1>6. ASSUME chan' = Push(k, q) PROVE AckedIn({})' /\ Safe(q.n)'
  <2>1. Pending(q.n)' /\ \A n : Pending(n) => Pending(n)'
    BY <1>2, <1>6, PushedPending
  <2>2. \A n : Delivered(n) <=> Delivered(n)'
    BY <1>2 DEF Delivered
  <2>3. QED
    BY <1>2, <1>3, <2>1, <2>2 DEF AckedIn, Safe
<1>7. CASE chan' = Push(k, q) /\ Goto(Tail(todo))
  BY <1>1, <1>2, <1>6, <1>7, MovedDone
<1>8. CASE /\ chan' = Push(k, q) /\ chan[k].recv_ready # None
           /\ Goto(<<Todo("push")>> \o Tail(todo))
  <2>1. Todo("push") \in ItemsOf(cur.op)
    BY <1>2, ItemTypes
  <2>2. todo' = <<Todo("push")>> \o Tail(todo)
    BY <1>8 DEF Goto
  <2>3. Head(todo') = Todo("push") /\ todo' # << >> /\ Todo("push").do = "push"
    BY <1>2, <2>1, <2>2, Prefixed, ItemKinds
  <2>4. cur' = cur
    BY <1>8, <2>2, <2>3 DEF Goto
  <2>5. chan'[k].recv_ready = chan[k].recv_ready /\ chan[k].recv_ready \in Clients
    BY <1>2, <1>8, PushKeepsLists DEF TypeOK, DaemonTypes, ChannelStates
  <2>6. AckedIn({})' /\ Safe(q.n)'
    BY <1>6, <1>8
  <2>7. Served'
    BY <2>3 DEF Served, Now
  <2>8. cur'.pay = q /\ cur'.ch = k
    BY <1>1, <2>4
  <2>9. QED
    BY <2>3, <2>5, <2>6, <2>7, <2>8 DEF Kept, Now, AckedIn
<1>9. QED
  BY <1>4, <1>5, <1>7, <1>8

LEMMA PushPromises ==
    ASSUME TypeOK, Handler, Roomy, Served, Kept, PushStep
    PROVE  Served' /\ Kept'
<1>1. PICK k, q, p, d : /\ k = cur.ch /\ q = cur.pay /\ p = Head(chan[k].pending)
                        /\ d = chan[k].recv_ready
  OBVIOUS
<1>2. /\ Now("push") /\ status = "running" /\ acked' = acked /\ k \in Channels
      /\ cur.op = "Publish"
  BY <1>1, ServedType, HeadType DEF TypeOK, PushStep, Doing, Now
<1>3. d \in Clients
  BY <1>1, <1>2 DEF Kept
<1>4. AckedIn({}) /\ Safe(q.n)
  <2>1. Head(todo) # Answer("Error")
    BY <1>2, ItemKinds DEF Now
  <2>2. QED
    BY <1>1, <1>2, <2>1, KeptBy DEF Kept
<1>5. \/ Goto(Tail(todo)) /\ UNCHANGED <<chan, dlv>>
      \/ /\ chan[k].pending # << >> /\ chan' = Pop(k) /\ UNCHANGED <<cur, todo>>
         /\ Log(d, "ChannelPeer", p)
  BY <1>1, <1>2, NoStall DEF PushStep, daemon
<1>6. CASE Goto(Tail(todo)) /\ UNCHANGED <<chan, dlv>>
  <2>1. AckedIn({})' /\ Safe(q.n)'
    BY <1>2, <1>4, <1>6, AckedSame, SafeSame
  <2>2. QED
    BY <1>1, <1>2, <1>6, <2>1, MovedDone
<1>7. CASE /\ chan[k].pending # << >> /\ chan' = Pop(k) /\ UNCHANGED <<cur, todo>>
           /\ Log(d, "ChannelPeer", p)
  <2>1. AckedIn({})' /\ Safe(q.n)'
    BY <1>1, <1>2, <1>3, <1>4, <1>7, AckedMoved
  <2>2. chan'[k].recv_ready = d
    BY <1>1, <1>2, <1>7, PopKeepsLists DEF TypeOK
  <2>3. Served' /\ Head(todo').do = "push"
    BY <1>2, <1>7 DEF Served, Now
  <2>4. cur'.pay = q /\ cur'.ch = k
    BY <1>1, <1>7
  <2>5. QED
    BY <1>3, <2>1, <2>2, <2>3, <2>4 DEF Kept, Now, AckedIn
<1>8. QED
  BY <1>5, <1>6, <1>7

-----------------------------------------------------------------------------
LEMMA ClosedPromises ==
    ASSUME Served, Kept, NEW c \in Clients, ServeBye(c) \/ HangUp(c)
    PROVE  Served' /\ Kept'
<1>1. /\ CloseClient(c, chan) /\ status = "running" /\ todo = << >>
      /\ UNCHANGED <<todo, dlv, acked>>
  BY DEF ServeBye, HangUp, HasFrame, Idle
<1>2. \A k \in Channels : chan'[k].pending = chan[k].pending
  <2>1. \A k \in Channels : chan'[k] = chan[k] \/ chan'[k] = WithoutClient(chan[k], c)
    BY <1>1 DEF CloseClient
  <2>2. \A k \in Channels : WithoutClient(chan[k], c).pending = chan[k].pending
    BY DEF WithoutClient
  <2>3. QED
    BY <2>1, <2>2
<1>3. AckedIn({})'
  BY <1>1, <1>2, KeptBy, AckedSame
<1>4. QED
  BY <1>1, <1>3, PlainNext

LEMMA OtherPromises ==
    ASSUME TypeOK, Served, Kept, NEW c \in Clients,
           ServeAttach(c) \/ ServeDetach(c) \/ ServeOffer(c) \/ ServeRecvReady(c)
    PROVE  Served' /\ Kept'
<1>1. status = "running" /\ todo = << >> /\ UNCHANGED <<dlv, acked>>
  BY DEF ServeAttach, ServeDetach, ServeOffer, ServeRecvReady, HasFrame, Idle
<1>2. AckedIn({})'
  BY <1>1, OtherBacklogs, KeptBy, AckedSame
<1>3. todo' # << >> => /\ Head(todo').do \notin {"copies", "queue", "push"}
                       /\ Head(todo').do = "answer" => cur'.op # "Publish"
  BY OtherItems DEF Idlers
<1>4. QED
  BY <1>2, <1>3, PlainNext

LEMMA PublishPromises ==
    ASSUME TypeOK, Served, Kept, NEW c \in Clients, ServePublish(c)
    PROVE  Served' /\ Kept'
<1>1. PICK k, p, left : /\ k = Head(in[c]).ch /\ p = Head(in[c]).pay
                        /\ left = chan[k].list["BroadcastIn"]
  OBVIOUS
<1>2. /\ status = "running" /\ todo = << >> /\ UNCHANGED <<chan, dlv, acked>>
      /\ cur' = Serving(c, Head(in[c])) \/ todo' = << >>
  BY DEF ServePublish, HasFrame, Idle, Start, daemon
<1>3. AckedIn({})'
  BY <1>2, KeptBy, AckedSame
<1>4. ASSUME NEW w \in {"park", "peer"}, todo' = <<Todo(w), Answer("Ack")>>
      PROVE  Served' /\ Kept'
  <2>1. Head(todo').do = w
    BY <1>4, Tuples, ItemKinds
  <2>2. QED
    BY <1>3, <2>1, PlainNext
<1>5. ASSUME HasReader(k), todo' = <<Copies(p, left), Queue(p), Answer("Ack")>>
      PROVE  Served' /\ Kept'
  <2>1. Head(todo').do = "copies" /\ Head(todo').pay = p /\ Head(todo').left = left
    BY <1>5, Tuples, ItemKinds
  <2>2. todo' # << >>
    BY <1>5, Tuples
  <2>3. cur'.ch = k
    BY <1>1, <1>2, <2>2 DEF Serving
  <2>4. \A m : Attached(k, m)' = Attached(k, m)
    BY <1>2 DEF Attached
  <2>5. \A d \in Attached(k, "BroadcastIn") : left[d] > 0
    BY <1>1 DEF Attached
  <2>6. Served'
    BY <2>1, <2>3, <2>4, <2>5 DEF Served
  <2>7. Attached(k, "QueueIn")' # {} \/ \E d \in Clients : left[d] > 0
    BY <1>1, <1>5, <2>4 DEF HasReader, Attached
  <2>8. QED
    BY <1>3, <2>1, <2>3, <2>6, <2>7 DEF Kept, Now, AckedIn
<1>6. QED
  BY <1>1, <1>4, <1>5 DEF ServePublish, Start

LEMMA PromisesNext ==
    ASSUME TypeOK, Handler, Roomy, Served, Kept, [Next]_vars
    PROVE  Served' /\ Kept'
<1>1. ASSUME NEW c \in Clients, ClientStep(c)
      PROVE  UNCHANGED <<todo, cur, chan, dlv, acked>> /\ status' = status
  BY <1>1 DEF ClientStep, Connect, SendBye, Die, ReadEof, CloseEnd, ReadFrame, RetryOffer,
              SendPublish, SendOffer, SendRecvReady, SendAttach, SendDetach, daemon
<1>2. CASE \E c \in Clients : ClientStep(c)
  BY <1>1, <1>2, QuietPromises
<1>3. CASE Exit \/ UNCHANGED vars
  BY <1>3, QuietPromises DEF Exit, vars, daemon
<1>4. CASE Step
  BY <1>4, AnswerPromises, MarkPromises, FlushPromises, CopyPromises, QueuePromises,
     DrainPromises, PeerPromises, ParkPromises, PushPromises DEF Step
<1>5. CASE \E c \in Clients : Serve(c) \/ HangUp(c)
  BY <1>5, ClosedPromises, OtherPromises, PublishPromises DEF Serve
<1>6. QED
  BY <1>2, <1>3, <1>4, <1>5 DEF Next

LEMMA PromisesHold == Spec /\ []Roomy => [](TypeOK /\ Handler /\ Served /\ Kept)
<1>1. Init => TypeOK /\ Handler /\ Served /\ Kept
  <2> SUFFICES ASSUME Init PROVE Handler /\ Served /\ Kept
    BY InitType
  <2>1. todo = << >> /\ acked = {}
    BY DEF Init
  <2>2. QED
    BY <2>1 DEF Handler, Remains, Served, Kept, Now
<1>2. TypeOK /\ Handler /\ Served /\ Kept /\ Roomy /\ [Next]_vars
         => (TypeOK /\ Handler /\ Served /\ Kept)'
  BY NextType, HandlerNext, PromisesNext
<1>3. QED
  BY <1>1, <1>2, PTL DEF Spec

(* As long as no write of the daemon meets a full socket, whatever the     *)
(* clients do otherwise, a message whose publisher was told Ack is, when   *)
(* the daemon is between two handlers, in a backlog or has been delivered. *)
(* The hypothesis is needed: a reader whose socket stays full is closed,   *)
(* and the message that was being written to it is lost.                   *)
THEOREM AckedWhenRoomy == Spec /\ []Roomy => []AckedIsKept
<1>1. Kept => AckedIsKept
  <2> SUFFICES ASSUME Kept, Idle, NEW n \in acked PROVE Safe(n)
    BY DEF AckedIsKept, Safe
  <2>1. QED
    BY KeptBy DEF Idle, AckedIn
<1>2. QED
  BY <1>1, PromisesHold, PTL

(* As long as no write of the daemon meets a full socket, the loop over    *)
(* the subscribers leaves none of them out, those that attach twice or     *)
(* that attach while a backlog is flushed included.                        *)
THEOREM SubscribersWhenRoomy == Spec /\ []Roomy => []EverySubscriberServed
<1>1. TypeOK /\ Served => EverySubscriberServed
  <2> SUFFICES ASSUME TypeOK, Served, Doing("copies"), Head(todo).left = NoHandles,
                      NEW c \in Attached(cur.ch, "BroadcastIn")
               PROVE  \E i \in DOMAIN dlv[c] :
                         dlv[c][i] = [ch |-> cur.ch, mode |-> "BroadcastIn", pay |-> Head(todo).pay]
    BY DEF EverySubscriberServed
  <2>1. c \in Clients
    BY DEF Attached
  <2>2. Now("copies") /\ ~(Head(todo).left[c] > 0)
    BY <2>1 DEF Now, Doing, NoHandles
  <2>3. QED
    BY <2>2 DEF Served
<1>2. QED
  BY <1>1, PromisesHold, PTL

-----------------------------------------------------------------------------
(* Without channel peers, a backlog and a reader meet only while a flush   *)
(* is on its way.                                                          *)
NoPeers ==
    /\ \A k \in Channels, c \in Clients : chan[k].list["ChannelPeer"][c] = 0
    /\ \A c \in Clients : \A i \in DOMAIN in[c] :
          in[c][i].op = "Attach" => in[c][i].mode # "ChannelPeer"

Readers(k) == Attached(k, "QueueIn") \union Attached(k, "BroadcastIn")
FlushAhead ==
    /\ cur.op = "Attach"
    /\ \/ Now("flush") \/ Now("copies") \/ Now("queue")
       \/ Now("answer") /\ LoopNext("flush", Tail(todo))

(* The client that has just attached is the first reader the backlog has.  *)
Flushing ==
    status = "running" =>
       /\ \A k \in Channels :
             chan[k].pending # << >> /\ Readers(k) # {} => FlushAhead /\ cur.ch = k
       /\ Now("answer") /\ cur.op = "Attach" /\ chan[cur.ch].pending # << >>
             => Readers(cur.ch) \subseteq {cur.id}
       /\ Now("park") => Readers(cur.ch) = {}
       /\ ~Now("peer") /\ ~Now("push")

(* Backlogs may end but none begins, readers may leave but none comes.     *)
Dwindling ==
    \A k \in Channels : /\ chan'[k].pending # << >> => chan[k].pending # << >>
                        /\ Readers(k)' \subseteq Readers(k)

LEMMA FewerReaders ==
    ASSUME DaemonTypes, ListsShrink
    PROVE  \A k \in Channels : Readers(k)' \subseteq Readers(k)
<1>1. ASSUME NEW k \in Channels, NEW m \in AllModes PROVE Attached(k, m)' \subseteq Attached(k, m)
  <2>1. chan[k].list[m] \in [Clients -> Nat]
    BY ListType
  <2>2. \A c \in Clients : chan'[k].list[m][c] \in {0, chan[k].list[m][c]}
    BY DEF ListsShrink
  <2>3. QED
    BY <2>1, <2>2 DEF Attached
<1>2. QED
  BY <1>1 DEF Readers, AllModes

LEMMA FlushGoesOn ==
    ASSUME Flushing, Dwindling, status' = "running" => status = "running",
           FlushAhead => \/ FlushAhead' /\ cur' = cur
                         \/ \A k \in Channels : k = cur.ch =>
                               chan'[k].pending = << >> \/ Readers(k)' = {},
           ~Now("park")' /\ ~Now("peer")' /\ ~Now("push")',
           Now("answer")' => cur'.op # "Attach"
    PROVE  Flushing'
<1> SUFFICES ASSUME status' = "running" PROVE Flushing'
  BY DEF Flushing
<1>1. ASSUME NEW k \in Channels, chan'[k].pending # << >>, Readers(k)' # {}
      PROVE  FlushAhead' /\ cur'.ch = k
  <2>1. FlushAhead /\ cur.ch = k
    BY <1>1 DEF Dwindling, Flushing
  <2>2. QED
    BY <1>1, <2>1
<1>2. QED
  BY <1>1 DEF Flushing

LEMMA FlushNext ==
    ASSUME Handler, NEW w, Now(w), FlushAhead, w # "flush"
    PROVE  /\ Tail(todo) # << >>
           /\ Head(Tail(todo)).do = IF w = "copies" THEN "queue" ELSE "flush"
<1>1. w \in {"copies", "queue", "answer"} /\ cur.op = "Attach"
      /\ (w = "answer" => LoopNext("flush", Tail(todo)))
  BY DEF FlushAhead, Now
<1>2. Tail(todo) # << >>
  <2>1. AttachHandler(Head(todo), Tail(todo)) /\ Head(todo).do = w
    BY <1>1, ItemKinds DEF Handler, Remains, Now
  <2>2. QED
    BY <1>1, <2>1 DEF AttachHandler, LoopNext
<1>3. w # "answer" => Head(Tail(todo)).do = IF w = "copies" THEN "queue" ELSE "flush"
  BY <1>1, <1>2, NextItem
<1>4. w = "answer" => Head(Tail(todo)).do = "flush"
  BY <1>1, ItemKinds DEF LoopNext
<1>5. QED
  BY <1>1, <1>2, <1>3, <1>4

LEMMA PlainAfter ==
    ASSUME Handler, NEW w, Now(w), Goto(Tail(todo))
    PROVE  /\ ~Now("park")' /\ ~Now("peer")' /\ ~Now("push")'
           /\ Now("answer")' => cur'.op # "Attach"
<1>1. CASE Tail(todo) = << >>
  BY <1>1 DEF Goto, Now
<1>2. CASE Tail(todo) # << >>
  <2>1. /\ Head(Tail(todo)).do \in {"resume", "flush", "drain", "announce", "answer", "notify", "queue"}
        /\ Head(Tail(todo)).do = "answer" => cur.op = "Publish"
    BY <1>2, NextItem
  <2>2. QED
    BY <1>2, <2>1 DEF Goto, Now
<1>3. QED
  BY <1>1, <1>2

LEMMA TailFlushes ==
    ASSUME Handler, Flushing, Dwindling, status' = "running" => status = "running",
           NEW w, Now(w), Goto(Tail(todo)),
           w = "flush" => \A k \in Channels : k = cur.ch =>
                             chan'[k].pending = << >> \/ Readers(k)' = {}
    PROVE  Flushing'
<1>1. ASSUME FlushAhead, w # "flush" PROVE FlushAhead' /\ cur' = cur
  <2>1. /\ Tail(todo) # << >> /\ cur.op = "Attach"
        /\ Head(Tail(todo)).do = IF w = "copies" THEN "queue" ELSE "flush"
    BY <1>1, FlushNext DEF FlushAhead
  <2>2. QED
    BY <2>1 DEF Goto, FlushAhead, Now
<1>2. QED
  BY <1>1, PlainAfter, FlushGoesOn

LEMMA OnlyResume ==
    ASSUME Goto(Returned)
    PROVE  /\ ~Now("park")' /\ ~Now("peer")' /\ ~Now("push")' /\ ~Now("answer")'
<1>1. todo' \in {<< >>, <<Todo("resume")>>}
  BY DEF Goto, Returned
<1>2. Head(<<Todo("resume")>>).do = "resume"
  BY Tuples, ItemKinds
<1>3. QED
  BY <1>1, <1>2 DEF Now

LEMMA SamePendingDwindles ==
    ASSUME TypeOK, ListsShrink, \A k \in Channels : chan'[k].pending = chan[k].pending
    PROVE  Dwindling
BY FewerReaders DEF Dwindling, TypeOK

LEMMA FramesArrive ==
    ASSUME TypeOK, [Next]_vars, NEW c \in Clients
    PROVE  \/ in'[c] = in[c] \/ in'[c] = << >>
           \/ in[c] # << >> /\ in'[c] = Tail(in[c])
           \/ \E f : in'[c] = Append(in[c], f) /\ (f.op = "Attach" => f.mode \in Modes)
<1> DEFINE fine == \/ in'[c] = in[c] \/ in'[c] = << >>
                   \/ in[c] # << >> /\ in'[c] = Tail(in[c])
                   \/ \E f : in'[c] = Append(in[c], f) /\ (f.op = "Attach" => f.mode \in Modes)
<1> SUFFICES fine
  OBVIOUS
<1>1. in \in [Clients -> Seq(Frames)]
  BY DEF TypeOK, WireTypes
<1>2. ASSUME NEW d \in Clients, NEW f, Send(d, f), f.op = "Attach" => f.mode \in Modes PROVE fine
  BY <1>1, <1>2 DEF Send
<1>3. ASSUME NEW d \in Clients, NEW channels, CloseClient(d, channels) PROVE fine
  BY <1>1, <1>3 DEF CloseClient
<1>4. ASSUME NEW d \in Clients, in[d] # << >>, Take(d) PROVE fine
  BY <1>1, <1>4 DEF Take
<1>5. CASE in' = in
  BY <1>5
<1> HIDE DEF fine
<1>6. CASE Step
  <2>1. in' = in \/ CloseClient(cur.id, chan) \/ CloseClient(cur.id, Pop(cur.ch))
        \/ \E d \in Clients : CloseClient(d, chan)
    BY <1>6 DEF Step, AnswerStep, NotifyStep, FlushStep, CopyStep, QueueStep, DrainStep,
                AnnounceStep, PeerStep, ParkStep, PushStep, ResumeStep, SigPipe, Attached
  <2>2. CASE CloseClient(cur.id, chan) \/ CloseClient(cur.id, Pop(cur.ch))
    <3>1. PICK d, channels : d = cur.id /\ CloseClient(d, channels)
      BY <2>2
    <3>2. \/ in'[c] = in[c] \/ in'[c] = << >>
      BY <1>1, <3>1 DEF CloseClient
    <3>3. QED
      BY <3>2 DEF fine
  <2>3. QED
    BY <1>3, <1>5, <2>1, <2>2
<1>7. ASSUME NEW d \in Clients, Serve(d) \/ HangUp(d) PROVE fine
  BY <1>3, <1>4, <1>7 DEF Serve, HangUp, ServeAttach, ServeDetach, ServeBye, ServePublish,
     ServeOffer, ServeRecvReady, HasFrame
<1>8. ASSUME NEW d \in Clients, ClientStep(d) PROVE fine
  <2>1. ASSUME NEW f, f.op # "Attach", Send(d, f) PROVE fine
    BY <1>2, <2>1
  <2>2. CASE Connect(d) \/ Die(d) \/ ReadEof(d)
    BY <1>5, <2>2 DEF Connect, Die, ReadEof, CloseEnd
  <2>3. \A op \in {"Detach", "Publish", "Offer", "RecvReady", "Bye"} : \A k, m, p :
           Frame(op, k, m, p).op # "Attach"
    BY DEF Frame
  <2>4. CASE SendBye(d) \/ RetryOffer(d) \/ \E k \in Channels :
                SendPublish(d, k) \/ SendOffer(d, k) \/ SendRecvReady(d, k)
                \/ \E m \in Modes : SendDetach(d, k, m)
    BY <2>1, <2>3, <2>4 DEF SendBye, RetryOffer, SendPublish, SendOffer, SendRecvReady, SendDetach
  <2>5. CASE ReadFrame(d)
    BY <1>5, <2>1, <2>3, <2>5 DEF ReadFrame
  <2>6. ASSUME NEW k \in Channels, NEW m \in Modes, SendAttach(d, k, m) PROVE fine
    <3>1. Frame("Attach", k, m, None).mode \in Modes
      BY DEF Frame
    <3>2. QED
      BY <1>2, <2>6, <3>1 DEF SendAttach
  <2>7. QED
    BY <1>8, <2>2, <2>4, <2>5, <2>6 DEF ClientStep
<1>9. CASE Exit \/ UNCHANGED vars
  BY <1>5, <1>9 DEF Exit, vars
<1>10. QED
  BY <1>6, <1>7, <1>8, <1>9 DEF Next

(* Only ServeAttach adds a client to a list, for the mode of its frame.    *)
LEMMA AttachGrows ==
    ASSUME TypeOK, NEW c \in Clients, ServeAttach(c)
    PROVE  \A k \in Channels, m \in AllModes, d \in Clients :
              \/ chan'[k].list[m][d] = chan[k].list[m][d]
              \/ k = Head(in[c]).ch /\ m = Head(in[c]).mode /\ d = c
<1> DEFINE j == Head(in[c]).ch
           n == Head(in[c]).mode
<1>1. j \in Channels /\ n \in AllModes
  <2>1. Head(in[c]) \in Frames /\ Head(in[c]).op = "Attach"
    BY TakeType DEF TypeOK, ServeAttach
  <2>2. QED
    BY <2>1 DEF Frames
<1>2. chan' = chan \/ chan' = [chan EXCEPT ![j].list[n][c] = @ + 1]
  BY DEF ServeAttach
<1> HIDE DEF j, n
<1>3. CASE chan' = [chan EXCEPT ![j].list[n][c] = @ + 1]
  <2>1. chan \in [Channels -> ChannelStates] /\ chan[j] \in ChannelStates
    BY <1>1 DEF TypeOK, DaemonTypes
  <2>2. \A k \in Channels : k # j => chan'[k] = chan[k]
    BY <1>3, <2>1
  <2>3. /\ chan[j].list \in [AllModes -> [Clients -> Nat]]
        /\ chan'[j].list = [chan[j].list EXCEPT ![n][c] = @ + 1]
    BY <1>1, <1>3, <2>1 DEF ChannelStates
  <2>4. \A m \in AllModes, d \in Clients :
           chan'[j].list[m][d] = chan[j].list[m][d] \/ (m = n /\ d = c)
    BY <1>1, <2>3
  <2>5. QED
    BY <2>2, <2>4 DEF j, n
<1>4. QED
  BY <1>2, <1>3

LEMMA NoPeersNext ==
    ASSUME TypeOK, NoPeers, "ChannelPeer" \notin Modes, [Next]_vars
    PROVE  NoPeers'
<1> DEFINE fine(s) == \A i \in DOMAIN s : s[i].op = "Attach" => s[i].mode # "ChannelPeer"
<1>1. ASSUME NEW c \in Clients PROVE fine(in'[c])
  <2>1. in[c] \in Seq(Frames) /\ fine(in[c])
    BY DEF TypeOK, WireTypes, NoPeers
  <2>2. fine(<< >>)
    OBVIOUS
  <2>3. in[c] # << >> => fine(Tail(in[c]))
    BY <2>1, TailOf
  <2>4. ASSUME NEW f, f.op = "Attach" => f.mode \in Modes PROVE fine(Append(in[c], f))
    BY <2>1, <2>4, AppendOf
  <2>5. QED
    BY <2>1, <2>2, <2>3, <2>4, FramesArrive, ZenonT(40)
<1>2. ASSUME ListsShrink PROVE NoPeers'
  BY <1>1, <1>2 DEF ListsShrink, NoPeers, AllModes
<1>3. ASSUME chan' = chan PROVE NoPeers'
  BY <1>1, <1>3 DEF NoPeers
<1>4. ASSUME NEW c \in Clients, ServeAttach(c) PROVE NoPeers'
  <2>1. Head(in[c]).mode # "ChannelPeer"
    <3>1. in[c] \in Seq(Frames) /\ in[c] # << >> /\ Head(in[c]).op = "Attach"
      BY <1>4 DEF TypeOK, WireTypes, ServeAttach, HasFrame
    <3>2. 1 \in DOMAIN in[c] /\ Head(in[c]) = in[c][1]
      BY <3>1
    <3>3. QED
      BY <3>1, <3>2 DEF NoPeers
  <2>2. \A k \in Channels, d \in Clients :
           chan'[k].list["ChannelPeer"][d] = chan[k].list["ChannelPeer"][d]
    BY <1>4, <2>1, AttachGrows DEF AllModes
  <2>3. QED
    BY <1>1, <2>2 DEF NoPeers
<1>5. ASSUME NEW c \in Clients, ClientStep(c) PROVE chan' = chan
  BY <1>5 DEF ClientStep, Connect, SendBye, Die, ReadEof, CloseEnd, ReadFrame, RetryOffer,
              SendPublish, SendOffer, SendRecvReady, SendAttach, SendDetach, daemon
<1>6. ASSUME NEW c \in Clients, HangUp(c) PROVE ListsShrink
  BY <1>6, CloseClientShrinks DEF HangUp, TypeOK, DaemonTypes
<1>7. CASE Exit \/ UNCHANGED vars
  BY <1>3, <1>7 DEF Exit, vars, daemon
<1>8. QED
  BY <1>2, <1>3, <1>4, <1>5, <1>6, <1>7, StepShrinks, ServeShrinks DEF Next

LEMMA ClosedReader ==
    ASSUME TypeOK, NoGhosts, NEW c \in Clients, CloseClient(c, chan)
    PROVE  \A k \in Channels : c \notin Readers(k)'
<1>1. ASSUME NEW k \in Channels, NEW m \in AllModes PROVE c \notin Attached(k, m)'
  <2>1. chan[k].list[m] \in [Clients -> Nat]
    BY ListType DEF TypeOK
  <2>2. CASE <<k, m>> \in att[c]
    <3>1. chan'[k] = WithoutClient(chan[k], c)
      BY <2>2 DEF CloseClient
    <3>2. chan'[k].list[m][c] = 0
      BY <2>1, <3>1 DEF WithoutClient
    <3>3. QED
      BY <3>2 DEF Attached
  <2>3. CASE <<k, m>> \notin att[c]
    <3>1. chan[k].list[m][c] = 0
      BY <2>1, <2>3 DEF NoGhosts
    <3>2. chan'[k] = chan[k] \/ chan'[k] = WithoutClient(chan[k], c)
      BY DEF CloseClient
    <3>3. chan'[k].list[m][c] = 0
      BY <2>1, <3>1, <3>2 DEF WithoutClient
    <3>4. QED
      BY <3>3 DEF Attached
  <2>4. QED
    BY <2>2, <2>3
<1>2. QED
  BY <1>1 DEF Readers, AllModes

LEMMA CloseDwindles ==
    ASSUME TypeOK, NEW c \in Clients, NEW channels \in [Channels -> ChannelStates],
           \A k \in Channels : /\ channels[k].list = chan[k].list
                               /\ channels[k].pending # << >> => chan[k].pending # << >>,
           CloseClient(c, channels)
    PROVE  Dwindling
<1>1. \A k \in Channels : Readers(k)' \subseteq Readers(k)
  BY CloseClientShrinks, FewerReaders DEF TypeOK
<1>2. \A k \in Channels : chan'[k] = channels[k] \/ chan'[k] = WithoutClient(channels[k], c)
  BY DEF CloseClient
<1>3. \A k \in Channels : WithoutClient(channels[k], c).pending = channels[k].pending
  BY DEF WithoutClient
<1>4. QED
  BY <1>1, <1>2, <1>3 DEF Dwindling

LEMMA PopDwindles ==
    ASSUME TypeOK, Step, NEW k \in Channels, chan[k].pending # << >>, chan' = Pop(k)
    PROVE  Dwindling
<1>1. \A j \in Channels : Readers(j)' \subseteq Readers(j)
  BY StepShrinks, FewerReaders DEF TypeOK
<1>2. \A j \in Channels : j # k => chan'[j] = chan[j]
  BY DEF TypeOK, DaemonTypes, Pop
<1>3. QED
  BY <1>1, <1>2 DEF Dwindling

LEMMA AnswerFlushes ==
    ASSUME TypeOK, NoGhosts, Handler, Flushing, AnswerStep
    PROVE  Flushing'
<1>1. PICK c, k : c = cur.id /\ k = cur.ch
  OBVIOUS
<1>2. /\ Now("answer") /\ status = "running" /\ status' = status /\ c \in Clients /\ k \in Channels
      /\ chan \in [Channels -> ChannelStates]
  BY <1>1, ServedType DEF TypeOK, DaemonTypes, AnswerStep, Doing, Now
<1>3. \/ chan' = chan /\ Goto(Tail(todo))
      \/ CloseClient(c, chan) /\ Goto(Returned)
  BY <1>1 DEF AnswerStep, daemon
<1>4. CASE chan' = chan /\ Goto(Tail(todo))
  <2>1. Dwindling
    BY <1>4 DEF Dwindling, Readers, Attached
  <2>2. QED
    BY <1>2, <1>4, <2>1, TailFlushes
<1>5. CASE CloseClient(c, chan) /\ Goto(Returned)
  <2>1. Dwindling
    BY <1>2, <1>5, CloseDwindles
  <2>2. FlushAhead => chan[k].pending = << >> \/ Readers(k) \subseteq {c}
    BY <1>1, <1>2 DEF Flushing, FlushAhead
  <2>3. FlushAhead => chan'[k].pending = << >> \/ Readers(k)' = {}
    BY <1>2, <1>5, <2>1, <2>2, ClosedReader DEF Dwindling
  <2>4. QED
    BY <1>1, <1>2, <1>5, <2>1, <2>3, OnlyResume, FlushGoesOn
<1>6. QED
  BY <1>3, <1>4, <1>5

LEMMA PlainFlushes ==
    ASSUME TypeOK, Handler, Flushing,
           NotifyStep \/ QueueStep \/ AnnounceStep \/ ResumeStep \/ SigPipe
    PROVE  Flushing'
<1>1. CASE SigPipe
  BY <1>1 DEF SigPipe, Flushing
<1>2. CASE NotifyStep \/ QueueStep \/ AnnounceStep \/ ResumeStep
  <2>1. PICK w \in {"notify", "queue", "announce", "resume"} : Doing(w) /\ Goto(Tail(todo))
    BY <1>2 DEF NotifyStep, QueueStep, AnnounceStep, ResumeStep
  <2>2. Now(w) /\ status = "running" /\ cur.ch \in Channels
    BY <2>1, ServedType DEF Doing, Now, TypeOK
  <2>3. Dwindling
    <3>1. ListsShrink
      BY <1>2, StepShrinks DEF Step
    <3>2. \/ chan' = chan \/ chan' = [chan EXCEPT ![cur.ch].recv_ready = cur.id]
          \/ \E c \in Clients : CloseClient(c, chan)
      BY <1>2 DEF NotifyStep, QueueStep, AnnounceStep, ResumeStep, daemon, Attached
    <3>3. CASE chan' = [chan EXCEPT ![cur.ch].recv_ready = cur.id]
      <4>1. chan \in [Channels -> ChannelStates] /\ chan[cur.ch] \in ChannelStates
        BY <2>2 DEF TypeOK, DaemonTypes
      <4>2. /\ \A k \in Channels : k # cur.ch => chan'[k] = chan[k]
            /\ chan'[cur.ch] = [chan[cur.ch] EXCEPT !.recv_ready = cur.id]
        BY <2>2, <3>3, <4>1
      <4>3. chan'[cur.ch].pending = chan[cur.ch].pending
        BY <4>1, <4>2 DEF ChannelStates
      <4>4. QED
        BY <3>1, <4>2, <4>3, SamePendingDwindles
    <3>4. QED
      BY <3>1, <3>2, <3>3, SamePendingDwindles, CloseDwindles DEF TypeOK, DaemonTypes
  <2>4. QED
    BY <2>1, <2>2, <2>3, TailFlushes
<1>3. QED
  BY <1>1, <1>2

LEMMA CopyFlushes ==
    ASSUME TypeOK, Handler, Flushing, CopyStep
    PROVE  Flushing'
<1>1. PICK p, left : p = Head(todo).pay /\ left = Head(todo).left
  OBVIOUS
<1>2. /\ Now("copies") /\ status = "running" /\ p \in Payloads /\ left \in [Clients -> Nat]
      /\ Tail(todo) \in Seq(ItemsOf(cur.op)) /\ cur.op \in {"Attach", "Publish"}
      /\ chan \in [Channels -> ChannelStates]
  BY <1>1, ServedType, HeadType DEF TypeOK, DaemonTypes, CopyStep, Doing, Now
<1>3. \/ Goto(Tail(todo)) \/ \E l \in [Clients -> Nat] : Goto(<<Copies(p, l)>> \o Tail(todo))
  <2>1. \/ Goto(Tail(todo))
        \/ \E c \in Clients : left[c] > 0 /\ Goto(<<Copies(p, [left EXCEPT ![c] = @ - 1])>> \o Tail(todo))
        \/ \E c \in Clients : \E l \in Shifted(left, c, chan[cur.ch].list["BroadcastIn"][c]) : Goto(<<Copies(p, l)>> \o Tail(todo))
    BY <1>1, Zenon DEF CopyStep
  <2>2. ASSUME NEW c \in Clients, left[c] > 0 PROVE [left EXCEPT ![c] = @ - 1] \in [Clients -> Nat]
    BY <1>2, <2>2
  <2>3. \A c \in Clients : \A l \in Shifted(left, c, chan[cur.ch].list["BroadcastIn"][c]) : l \in [Clients -> Nat]
    BY <1>2, ShiftedType
  <2>4. QED
    BY <2>1, <2>2, <2>3
<1>4. Dwindling
  <2>1. chan' = chan \/ \E c \in Clients : CloseClient(c, chan)
    BY DEF CopyStep, daemon
  <2>2. ListsShrink
    BY StepShrinks DEF Step
  <2>3. QED
    BY <1>2, <2>1, <2>2, SamePendingDwindles, CloseDwindles
<1>5. CASE Goto(Tail(todo))
  BY <1>2, <1>4, <1>5, TailFlushes
<1>6. ASSUME NEW l \in [Clients -> Nat], Goto(<<Copies(p, l)>> \o Tail(todo)) PROVE Flushing'
  <2>1. Copies(p, l) \in ItemsOf(cur.op)
    BY <1>2, ItemTypes
  <2>2. /\ Head(<<Copies(p, l)>> \o Tail(todo)) = Copies(p, l)
        /\ <<Copies(p, l)>> \o Tail(todo) # << >>
    BY <1>2, <2>1, Prefixed
  <2>3. /\ todo' # << >> /\ cur' = cur /\ Head(todo').do = "copies"
    BY <1>6, <2>2, ItemKinds DEF Goto
  <2>4. FlushAhead => FlushAhead'
    BY <2>3 DEF FlushAhead, Now
  <2>5. QED
    BY <1>2, <1>4, <2>3, <2>4, FlushGoesOn DEF Now
<1>7. QED
  BY <1>3, <1>5, <1>6

LEMMA FlushFlushes ==
    ASSUME TypeOK, Handler, Flushing, FlushStep
    PROVE  Flushing'
<1> DEFINE left == chan[cur.ch].list["BroadcastIn"]
<1>1. PICK k, p : k = cur.ch /\ p = Head(chan[k].pending)
  OBVIOUS
<1>2. /\ Now("flush") /\ status = "running" /\ status' = status /\ k \in Channels
      /\ left \in [Clients -> Nat] /\ todo \in Seq(ItemsOf(cur.op)) /\ cur.op = "Attach"
  BY <1>1, ServedType, HeadType, ListType DEF TypeOK, FlushStep, Doing, Now, AllModes
<1>3. CASE chan' = chan /\ Goto(Tail(todo)) /\ (chan[k].pending = << >> \/ ~HasReader(k))
  <2>1. Dwindling
    BY <1>3 DEF Dwindling, Readers, Attached
  <2>2. chan'[k].pending = << >> \/ Readers(k)' = {}
    BY <1>3 DEF HasReader, Readers, Attached
  <2>3. QED
    BY <1>1, <1>2, <1>3, <2>1, <2>2, TailFlushes
<1>4. CASE /\ chan[k].pending # << >> /\ chan' = Pop(k)
           /\ Goto(<<Copies(p, left), Queue(p)>> \o todo)
  <2>1. Dwindling
    BY <1>2, <1>4, PopDwindles DEF Step
  <2>2. p \in Payloads
    BY <1>1, <1>2, <1>4, PopType DEF TypeOK
  <2>3. Copies(p, left) \in ItemsOf(cur.op) /\ Queue(p) \in ItemsOf(cur.op)
    BY <1>2, <2>2, ItemTypes
  <2>4. /\ Head(<<Copies(p, left), Queue(p)>> \o todo) = Copies(p, left)
        /\ <<Copies(p, left), Queue(p)>> \o todo # << >>
    BY <1>2, <2>3, Prefixed
  <2>5. /\ todo' # << >> /\ cur' = cur /\ Head(todo').do = "copies"
    BY <1>4, <2>4, ItemKinds DEF Goto
  <2>6. FlushAhead'
    BY <1>2, <2>5 DEF FlushAhead, Now
  <2>7. QED
    BY <1>2, <2>1, <2>5, <2>6, FlushGoesOn DEF Now
<1>5. QED
  BY <1>1, <1>3, <1>4 DEF FlushStep

LEMMA DrainFlushes ==
    ASSUME TypeOK, Handler, Flushing, DrainStep
    PROVE  Flushing'
<1>1. PICK c, k : c = cur.id /\ k = cur.ch
  OBVIOUS
<1>2. /\ Now("drain") /\ status = "running" /\ status' = status /\ c \in Clients /\ k \in Channels
      /\ chan \in [Channels -> ChannelStates]
  BY <1>1, ServedType DEF TypeOK, DaemonTypes, DrainStep, Doing, Now
<1>3. ~FlushAhead
  BY <1>2 DEF FlushAhead, Now
<1>4. CASE chan' = chan /\ Goto(Tail(todo))
  <2>1. Dwindling
    BY <1>4 DEF Dwindling, Readers, Attached
  <2>2. QED
    BY <1>2, <1>4, <2>1, TailFlushes
<1>5. CASE chan[k].pending # << >> /\ chan' = Pop(k) /\ UNCHANGED <<cur, todo>>
  <2>1. Dwindling
    BY <1>2, <1>5, PopDwindles DEF Step
  <2>2. ~Now("park")' /\ ~Now("peer")' /\ ~Now("push")' /\ ~Now("answer")'
    BY <1>2, <1>5 DEF Now
  <2>3. QED
    BY <1>2, <1>3, <2>1, <2>2, FlushGoesOn
<1>6. CASE chan[k].pending # << >> /\ CloseClient(c, Pop(k)) /\ Goto(Returned)
  <2>1. Pop(k) \in [Channels -> ChannelStates]
    BY <1>2, <1>6, PopType DEF TypeOK
  <2>2. \A j \in Channels : Pop(k)[j].list = chan[j].list
    BY <1>2, PopKeepsLists DEF TypeOK
  <2>3. \A j \in Channels : Pop(k)[j].pending # << >> => chan[j].pending # << >>
    BY <1>2, <1>6 DEF Pop
  <2>4. Dwindling
    BY <1>2, <1>6, <2>1, <2>2, <2>3, CloseDwindles
  <2>5. QED
    BY <1>2, <1>3, <1>6, <2>4, OnlyResume, FlushGoesOn
<1>7. QED
  BY <1>1, <1>4, <1>5, <1>6 DEF DrainStep, daemon

LEMMA ParkFlushes ==
    ASSUME TypeOK, NoPeers, Handler, Flushing, ParkStep
    PROVE  Flushing'
<1>1. PICK k, q : k = cur.ch /\ q = cur.pay
  OBVIOUS
<1>2. /\ Now("park") /\ status = "running" /\ status' = status /\ k \in Channels
      /\ q \in Payloads /\ cur.op = "Publish" /\ cur.id \in Clients
  BY <1>1, ServedType, HeadType DEF TypeOK, ParkStep, Doing, Now
<1>3. ~FlushAhead /\ Readers(k) = {}
  BY <1>1, <1>2 DEF FlushAhead, Flushing
<1>4. \/ chan' = chan /\ Goto(<<Answer("Error")>>)
      \/ chan' = Push(k, q) /\ Goto(Tail(todo))
  <2>1. cur.id \notin Peers(k)
    BY <1>2 DEF NoPeers, Peers, Attached
  <2>2. QED
    BY <1>1, <2>1 DEF ParkStep
<1>5. ~Now("park")' /\ ~Now("peer")' /\ ~Now("push")' /\ (Now("answer")' => cur'.op # "Attach")
  <2>1. CASE Goto(Tail(todo))
    BY <1>2, <2>1, PlainAfter DEF Goto
  <2>2. CASE Goto(<<Answer("Error")>>)
    <3>1. todo' = <<Answer("Error")>> /\ cur' = cur
      BY <2>2, Tuples DEF Goto
    <3>2. Head(todo').do = "answer"
      BY <3>1, Tuples, ItemKinds
    <3>3. QED
      BY <1>2, <3>1, <3>2 DEF Now
  <2>3. QED
    BY <1>4, <2>1, <2>2
<1>6. \A j \in Channels : /\ Readers(j)' = Readers(j)
                          /\ j # k => chan'[j] = chan[j]
  <2>1. CASE chan' = chan
    BY <2>1 DEF Readers, Attached
  <2>2. CASE chan' = Push(k, q)
    <3>1. \A j \in Channels : chan'[j].list = chan[j].list
      BY <1>2, <2>2, PushKeepsLists DEF TypeOK
    <3>2. \A j \in Channels : j # k => chan'[j] = chan[j]
      BY <2>2 DEF Push, TypeOK, DaemonTypes
    <3>3. QED
      BY <3>1, <3>2 DEF Readers, Attached
  <2>3. QED
    BY <1>4, <2>1, <2>2
<1>7. \A j \in Channels : Readers(j)' # {} => chan'[j].pending = << >>
  BY <1>2, <1>3, <1>6 DEF Flushing
<1>8. QED
  BY <1>5, <1>7 DEF Flushing

LEMMA StepFlushes ==
    ASSUME TypeOK, NoGhosts, NoPeers, Handler, Flushing, Step
    PROVE  Flushing'
<1>1. ~PeerStep /\ ~PushStep
  BY DEF PeerStep, PushStep, Doing, Now, Flushing
<1>2. QED
  BY <1>1, AnswerFlushes, PlainFlushes, CopyFlushes, FlushFlushes, DrainFlushes, ParkFlushes
     DEF Step

LEMMA IdleReaders ==
    ASSUME Flushing, Idle
    PROVE  /\ \A k \in Channels : chan[k].pending # << >> => Readers(k) = {}
           /\ ~FlushAhead
BY DEF Flushing, FlushAhead, Idle, Now

LEMMA AttachFlushes ==
    ASSUME TypeOK, NoPeers, Flushing, NEW c \in Clients, ServeAttach(c)
    PROVE  Flushing'
<1>1. PICK k, m : k = Head(in[c]).ch /\ m = Head(in[c]).mode
  OBVIOUS
<1>2. /\ Head(in[c]).op = "Attach" /\ k \in Channels /\ m \in AllModes /\ Idle
  <2>1. Head(in[c]) \in Frames /\ Head(in[c]).op = "Attach"
    BY TakeType DEF TypeOK, ServeAttach
  <2>2. QED
    BY <1>1, <2>1 DEF Frames, ServeAttach, HasFrame
<1>3. m # "ChannelPeer"
  <2>1. in[c] \in Seq(Frames) /\ in[c] # << >>
    BY DEF TypeOK, WireTypes, ServeAttach, HasFrame
  <2>2. 1 \in DOMAIN in[c] /\ Head(in[c]) = in[c][1]
    BY <2>1
  <2>3. QED
    BY <1>1, <1>2, <2>2 DEF NoPeers
<1>4. \A j \in Channels : chan[j].pending # << >> => Readers(j) = {}
  BY <1>2, IdleReaders
<1> DEFINE g == Serving(c, Head(in[c]))
<1>5. CASE chan' = chan /\ Start(c, <<Answer("Error"), Todo("resume")>>)
  <2>1. todo' = <<Answer("Error"), Todo("resume")>> /\ todo' # << >>
    BY <1>5, Tuples DEF Start
  <2>2. Head(todo').do = "answer"
    BY <2>1, Tuples, ItemKinds
  <2>3. \A j \in Channels : chan'[j].pending # << >> => Readers(j)' = {}
    BY <1>4, <1>5 DEF Readers, Attached
  <2>4. cur' = g /\ g.ch = k
    BY <1>1, <1>5, <2>1 DEF Start, Serving
  <2>5. QED
    BY <1>2, <2>2, <2>3, <2>4 DEF Flushing, Now
<1>6. CASE /\ chan' = [chan EXCEPT ![k].list[m][c] = @ + 1]
           /\ Start(c, <<Answer("Ack")>> \o Backlog(m) \o <<Todo("resume")>>)
  <2> DEFINE r == <<Todo("resume")>>
             s == <<Answer("Ack")>> \o Backlog(m) \o r
  <2>1. /\ Answer("Ack") \in ItemsOf("Attach") /\ r \in Seq(ItemsOf("Attach"))
        /\ Todo("flush") \in ItemsOf("Attach")
    BY ItemTypes
  <2>2. Backlog(m) = << >> \/ (m \in {"QueueIn", "BroadcastIn"} /\ Backlog(m) = <<Todo("flush")>>)
    BY <1>3 DEF Backlog
  <2>3. m \in {"QueueIn", "BroadcastIn"} => Backlog(m) = <<Todo("flush")>>
    BY DEF Backlog
  <2>4. <<Todo("flush")>> \in Seq(ItemsOf("Attach")) /\ << >> \in Seq(ItemsOf("Attach"))
    BY <2>1
  <2>5. Backlog(m) \in Seq(ItemsOf("Attach"))
    BY <2>2, <2>4, Zenon
  <2>6. s # << >> /\ Head(s) = Answer("Ack") /\ Tail(s) = Backlog(m) \o r
    BY <2>1, <2>5, Joined
  <2>7. LoopNext("flush", <<Todo("flush")>> \o r)
    BY <2>1, Prefixed DEF LoopNext
  <2> HIDE DEF r
  <2>8. todo' = s /\ cur' = g /\ g.op = "Attach" /\ g.ch = k /\ g.id = c
    BY <1>1, <1>2, <1>6, <2>6 DEF Start, Serving, r
  <2> HIDE DEF s, g
  <2>9. Head(todo').do = "answer" /\ todo' # << >>
    BY <2>6, <2>8, ItemKinds
  <2>10. m \in {"QueueIn", "BroadcastIn"} => FlushAhead'
    BY <2>3, <2>6, <2>7, <2>8, <2>9 DEF FlushAhead, Now
  <2>11. \A j \in Channels : chan'[j].pending = chan[j].pending
    BY OtherBacklogs
  <2>12. \A j \in Channels : Readers(j)' \subseteq Readers(j) \union
              (IF j = k /\ m \in {"QueueIn", "BroadcastIn"} THEN {c} ELSE {})
    <3>1. ASSUME NEW j \in Channels, NEW n \in {"QueueIn", "BroadcastIn"}, NEW d \in Attached(j, n)'
          PROVE  d \in Attached(j, n) \/ (j = k /\ n = m /\ d = c)
      <4>1. n \in AllModes /\ d \in Clients
        BY <3>1 DEF AllModes, Attached
      <4>2. chan'[j].list[n][d] = chan[j].list[n][d] \/ (j = k /\ n = m /\ d = c)
        BY <1>1, <4>1, AttachGrows
      <4>3. QED
        BY <3>1, <4>1, <4>2 DEF Attached
    <3>2. QED
      BY <3>1 DEF Readers
  <2>13. \A j \in Channels : chan'[j].pending # << >> /\ Readers(j)' # {} => FlushAhead' /\ j = k
    BY <1>4, <2>10, <2>11, <2>12
  <2>14. chan'[k].pending # << >> => Readers(k)' \subseteq {c}
    BY <1>2, <1>4, <2>11, <2>12
  <2>15. cur'.ch = k /\ cur'.id = c
    BY <2>8
  <2>16. QED
    BY <2>9, <2>13, <2>14, <2>15 DEF Flushing, Now
<1>7. QED
  BY <1>1, <1>5, <1>6 DEF ServeAttach

LEMMA ServeFlushes ==
    ASSUME TypeOK, NoPeers, Flushing, NEW c \in Clients, Serve(c) \/ HangUp(c), ~ServeAttach(c)
    PROVE  Flushing'
<1>1. /\ Idle /\ ~FlushAhead
  <2>1. Idle
    BY DEF Serve, HangUp, ServeDetach, ServeBye, ServePublish, ServeOffer, ServeRecvReady, HasFrame
  <2>2. QED
    BY <2>1, IdleReaders
<1>2. CASE ServePublish(c)
  <2>1. PICK k, p, left : /\ k = Head(in[c]).ch /\ p = Head(in[c]).pay
                          /\ left = chan[k].list["BroadcastIn"]
    OBVIOUS
  <2>2. /\ chan' = chan /\ Head(in[c]).op = "Publish" /\ k \in Channels
        /\ cur' = Serving(c, Head(in[c])) \/ todo' = << >>
    <3>1. Head(in[c]) \in Frames /\ Head(in[c]).op = "Publish"
      BY <1>2, TakeType DEF TypeOK, ServePublish
    <3>2. QED
      BY <1>2, <2>1, <3>1 DEF ServePublish, Start, daemon, Frames
  <2>3. \/ ~HasReader(k) /\ todo' = <<Todo("park"), Answer("Ack")>>
        \/ todo' = <<Copies(p, left), Queue(p), Answer("Ack")>>
    <3>1. c \notin Peers(k)
      BY <2>2 DEF NoPeers, Peers, Attached
    <3>2. QED
      BY <1>2, <2>1, <3>1 DEF ServePublish, Start
  <2>4. \/ ~HasReader(k) /\ Head(todo').do = "park"
        \/ Head(todo').do = "copies"
    BY <2>3, Tuples, ItemKinds
  <2>5. todo' # << >>
    BY <2>3, Tuples
  <2>6. cur'.op = "Publish" /\ cur'.ch = k
    BY <2>1, <2>2, <2>5 DEF Serving
  <2>7. \A j \in Channels : Readers(j)' = Readers(j) /\ (Readers(j) = {} <=> ~HasReader(j))
    BY <2>2 DEF Readers, HasReader, Attached
  <2>8. \A j \in Channels : chan'[j].pending # << >> => Readers(j)' = {}
    BY <1>1, <2>2, <2>7, IdleReaders
  <2>9. QED
    BY <2>2, <2>4, <2>6, <2>7, <2>8 DEF Flushing, Now
<1>3. CASE ServeDetach(c) \/ ServeOffer(c) \/ ServeRecvReady(c)
  <2>1. Dwindling
    BY <1>3, ServeShrinks, OtherBacklogs, SamePendingDwindles DEF Serve
  <2>2. /\ ~Now("park")' /\ ~Now("peer")' /\ ~Now("push")' /\ (Now("answer")' => cur'.op # "Attach")
    <3>1. todo' # << >> => Head(todo').do \in Idlers \ {"push"}
      BY <1>3, OtherItems
    <3>2. todo' # << >> => cur'.op = Head(in[c]).op
      <4>1. \E items : Start(c, items)
        BY <1>3, Zenon DEF ServeDetach, ServeOffer, ServeRecvReady
      <4>2. QED
        BY <4>1 DEF Start, Serving
    <3>3. Head(in[c]).op # "Attach"
      BY <1>3 DEF ServeDetach, ServeOffer, ServeRecvReady, HasFrame
    <3>4. QED
      BY <3>1, <3>2, <3>3 DEF Now, Idlers
  <2>3. QED
    BY <1>1, <2>1, <2>2, FlushGoesOn DEF Idle
<1>4. CASE ServeBye(c) \/ HangUp(c)
  <2>1. CloseClient(c, chan) /\ todo' = << >>
    BY <1>1, <1>4 DEF ServeBye, HangUp, Idle
  <2>2. Dwindling
    BY <2>1, CloseDwindles DEF TypeOK, DaemonTypes
  <2>3. QED
    BY <1>1, <2>1, <2>2, FlushGoesOn DEF Idle, Now
<1>5. QED
  BY <1>2, <1>3, <1>4 DEF Serve

LEMMA FlushingNext ==
    ASSUME TypeOK, NoGhosts, NoPeers, Handler, Flushing, [Next]_vars
    PROVE  Flushing'
<1>1. ASSUME UNCHANGED <<todo, cur, chan>>, status' = "running" => status = "running" PROVE Flushing'
  <2>1. \A k \in Channels : Readers(k)' = Readers(k)
    BY <1>1 DEF Readers, Attached
  <2>2. FlushAhead' <=> FlushAhead
    BY <1>1 DEF FlushAhead, Now
  <2>3. \A w : Now(w)' <=> Now(w)
    BY <1>1 DEF Now
  <2>4. cur.op = "Attach" /\ Now("answer") => cur.ch \in Channels
    BY DEF Now, TypeOK, ServingTypes, ServedFrames, NoFrame
  <2>5. Now("park") => cur.ch \in Channels
    BY DEF Now, TypeOK, ServingTypes, ServedFrames, NoFrame, ItemsOf, PartsOf
  <2>6. QED
    BY <1>1, <2>1, <2>2, <2>3, <2>4, <2>5 DEF Flushing
<1>2. ASSUME NEW c \in Clients, ClientStep(c)
      PROVE  UNCHANGED <<todo, cur, chan>> /\ status' = status
  BY <1>2 DEF ClientStep, Connect, SendBye, Die, ReadEof, CloseEnd, ReadFrame, RetryOffer,
              SendPublish, SendOffer, SendRecvReady, SendAttach, SendDetach, daemon
<1>3. CASE \E c \in Clients : ClientStep(c)
  BY <1>1, <1>2, <1>3
<1>4. CASE Exit \/ UNCHANGED vars
  BY <1>1, <1>4 DEF Exit, vars, daemon
<1>5. QED
  BY <1>3, <1>4, StepFlushes, AttachFlushes, ServeFlushes DEF Next, Serve

LEMMA FlushingHolds ==
    ASSUME "ChannelPeer" \notin Modes
    PROVE  Spec => [](TypeOK /\ Handler /\ NoPeers /\ Flushing)
<1> DEFINE Inv == TypeOK /\ Handler /\ NoPeers /\ Flushing
<1>1. Init => Inv
  <2> SUFFICES ASSUME Init PROVE Handler /\ NoPeers /\ Flushing
    BY InitType
  <2>1. /\ todo = << >> /\ \A c \in Clients : in[c] = << >>
        /\ \A k \in Channels, m \in AllModes, c \in Clients : chan[k].list[m][c] = 0
    BY DEF Init, EmptyChannel, NoHandles
  <2>2. \A k \in Channels : Readers(k) = {}
    BY <2>1 DEF Readers, Attached, AllModes
  <2>3. QED
    BY <2>1, <2>2 DEF Handler, Remains, NoPeers, Flushing, Now, AllModes
<1>2. Inv /\ NoGhosts /\ [Next]_vars => Inv'
  BY NextType, HandlerNext, NoPeersNext, FlushingNext
<1>3. QED
  BY <1>1, <1>2, NothingLeftBehind, PTL DEF Spec

(* Without channel handles, and whatever sockets stall, readers come and   *)
(* go or die in the middle of a delivery: when the daemon is between two   *)
(* handlers, a pipe that has a reader has no backlog.                      *)
THEOREM PipeBacklog ==
    ASSUME "ChannelPeer" \notin Modes
    PROVE  Spec => []BacklogOnlyWithoutReaders
<1>1. TypeOK /\ Handler /\ NoPeers /\ Flushing => BacklogOnlyWithoutReaders
  <2> SUFFICES ASSUME NoPeers, Flushing, Idle, NEW k \in Channels, HasReader(k) \/ PeersFull(k)
               PROVE  chan[k].pending = << >>
    BY DEF BacklogOnlyWithoutReaders
  <2>1. ~PeersFull(k)
    BY DEF NoPeers, PeersFull
  <2>2. Readers(k) # {}
    BY <2>1 DEF HasReader, Readers
  <2>3. QED
    BY <2>2, IdleReaders
<1>2. QED
  BY <1>1, FlushingHolds, PTL

-----------------------------------------------------------------------------
(* While no socket is full when the daemon writes to it, a client that     *)
(* waits for a reply has exactly one thing on its way to it.               *)

(* A channel handle is the only handle its client has on the pipe.  With a *)
(* second one, the Detach of either takes the client off every list of the *)
(* pipe, and the daemon answers the RecvReady of the other with an Error   *)
(* that nothing in the client waits for.                                   *)
OneHandle ==
    \A c \in Clients, k \in Channels : handles[c][k]["ChannelPeer"] > 0 =>
       /\ handles[c][k]["ChannelPeer"] = 1
       /\ \A m \in AllModes : m # "ChannelPeer" => handles[c][k][m] = 0

NoneOf(s, S) == \A i \in DOMAIN s : s[i] \notin S
OneOf(s, S) ==
    \E i \in DOMAIN s : s[i] \in S /\ \A j \in DOMAIN s : s[j] \in S => j = i

(* The requests a client waits for; the steps that write a reply to it;    *)
(* the replies; and those of them its request does not wait for.  The Ack  *)
(* of a channel handle comes from a daemon that has listed the peer.       *)
Askings == {f \in Frames : f.op \in Asking}
Due(c) ==
    {x \in Items : \/ x.do = "answer" /\ cur.id = c
                   \/ x.do = "notify" /\ x.to = c}
Answers == {f \in HubFrames : f.op \in Replies}
Fits(c, op) ==
    /\ ~Ignored(c, op)
    /\ op = "Ack" /\ req[c].op = "Attach" /\ req[c].mode = "ChannelPeer" =>
          c \in Peers(req[c].ch)
Amiss(c, S) == {x \in S : ~Fits(c, x.op)}

NoOffer(c) == \A k \in Channels : chan[k].offer_from # c
OneOffer(c) ==
    \E k \in Channels : \A l \in Channels : chan[l].offer_from = c <=> l = k

(* Where the one thing is: nowhere; at the end of what the daemon has not  *)
(* read; in the rest of a handler; parked on a channel; written back.      *)
Quiet(c) ==
    /\ req[c].op \notin Asking
    /\ NoneOf(in[c], Askings) /\ NoneOf(todo, Due(c))
    /\ NoOffer(c) /\ NoneOf(out[c], Answers)

Asked(c) ==
    /\ req[c].op \in Asking
    /\ in[c] # << >>
    /\ \A i \in DOMAIN in[c] : in[c][i] \in Askings <=> i = Len(in[c])
    /\ LET f == in[c][Len(in[c])]
       IN  f.op = req[c].op /\ f.ch = req[c].ch /\ f.mode = req[c].mode
    /\ NoneOf(todo, Due(c)) /\ NoOffer(c) /\ NoneOf(out[c], Answers)

Deciding(c) ==
    /\ req[c].op \in Asking /\ in[c] = << >>
    /\ OneOf(todo, Due(c)) /\ NoneOf(todo, Amiss(c, Due(c)))
    /\ NoOffer(c) /\ NoneOf(out[c], Answers)

Offering(c) ==
    /\ req[c].op = "Offer" /\ in[c] = << >>
    /\ NoneOf(todo, Due(c)) /\ OneOffer(c) /\ NoneOf(out[c], Answers)

Answered(c) ==
    /\ req[c].op \in Asking /\ in[c] = << >>
    /\ NoneOf(todo, Due(c)) /\ NoOffer(c)
    /\ OneOf(out[c], Answers) /\ NoneOf(out[c], Amiss(c, Answers))

(* The daemon lists the client for each channel handle that it has been    *)
(* granted, and will when it reads the client's next RecvReady.            *)
Leaves(f, k) == f.op = "Detach" /\ f.ch = k

Attends(c) ==
    \A k \in Channels : handles[c][k]["ChannelPeer"] > 0 =>
       \/ req[c].op = "Attach" /\ req[c].ch = k
       \/ c \in Peers(k) /\ \A i \in DOMAIN in[c] : ~Leaves(in[c][i], k)

Announces(c) ==
    \A i \in DOMAIN in[c] : in[c][i].op = "RecvReady" =>
       /\ c \in Peers(in[c][i].ch)
       /\ \A j \in DOMAIN in[c] : j < i => ~Leaves(in[c][j], in[c][i].ch)

Dialogue(c) ==
    /\ Quiet(c) \/ Asked(c) \/ Deciding(c) \/ Offering(c) \/ Answered(c)
    /\ Attends(c) /\ Announces(c)

(* What a slot of the descriptor table is found in by its next client.     *)
Departed(c) ==
    /\ ~live[c] => in[c] = << >>
    /\ ~open[c] => /\ req[c] = NoReq /\ out[c] = << >>
                   /\ \A k \in Channels : handles[c][k]["ChannelPeer"] = 0

Dialogues ==
    \A c \in Clients :
       Departed(c) /\ (status = "running" /\ open[c] /\ live[c] => Dialogue(c))

LEMMA SequenceEnds ==
    ASSUME NEW U, NEW s \in Seq(U)
    PROVE  /\ DOMAIN s = 1..Len(s) /\ Len(s) \in Nat /\ s # << >> <=> Len(s) > 0
           /\ s # << >> => /\ 1 \in DOMAIN s /\ Head(s) = s[1] /\ Head(s) \in U
                           /\ Tail(s) \in Seq(U) /\ Len(Tail(s)) = Len(s) - 1
                           /\ \A i \in DOMAIN Tail(s) : i \in Nat /\ i + 1 \in DOMAIN s /\ Tail(s)[i] = s[i + 1]
           /\ \A x \in U : /\ Append(s, x) \in Seq(U) /\ Len(Append(s, x)) = Len(s) + 1
                           /\ Append(s, x)[Len(s) + 1] = x
                           /\ \A i \in DOMAIN s : Append(s, x)[i] = s[i]
OBVIOUS

LEMMA NoneInTail ==
    ASSUME NEW U, NEW s \in Seq(U), s # << >>, NEW S
    PROVE  /\ NoneOf(s, S) => NoneOf(Tail(s), S) /\ Head(s) \notin S
           /\ OneOf(s, S) /\ Head(s) \in S => NoneOf(Tail(s), S)
           /\ OneOf(s, S) /\ Head(s) \notin S => OneOf(Tail(s), S)
<1>1. /\ DOMAIN s = 1..Len(s) /\ Len(s) \in Nat /\ Len(s) > 0
      /\ 1 \in DOMAIN s /\ Head(s) = s[1]
      /\ Tail(s) \in Seq(U) /\ Len(Tail(s)) = Len(s) - 1 /\ DOMAIN Tail(s) = 1..(Len(s) - 1)
  BY SequenceEnds
<1>2. \A i \in DOMAIN Tail(s) : i \in Nat /\ i # 0 /\ i + 1 \in DOMAIN s /\ Tail(s)[i] = s[i + 1]
  BY <1>1, SequenceEnds
<1>3. NoneOf(s, S) => NoneOf(Tail(s), S) /\ Head(s) \notin S
  BY <1>1, <1>2 DEF NoneOf
<1>4. ASSUME OneOf(s, S), Head(s) \in S PROVE NoneOf(Tail(s), S)
  <2>1. \A j \in DOMAIN s : s[j] \in S => j = 1
    BY <1>1, <1>4 DEF OneOf
  <2>2. QED
    BY <1>2, <2>1 DEF NoneOf
<1>5. ASSUME OneOf(s, S), Head(s) \notin S PROVE OneOf(Tail(s), S)
  <2>1. PICK i \in DOMAIN s : s[i] \in S /\ \A j \in DOMAIN s : s[j] \in S => j = i
    BY <1>5 DEF OneOf
  <2>2. i # 1 /\ i \in 1..Len(s)
    BY <1>1, <1>5, <2>1
  <2>3. PICK h \in Nat : h = i - 1
    BY <1>1, <2>2
  <2>4. h \in DOMAIN Tail(s) /\ Tail(s)[h] \in S
    BY <1>1, <1>2, <2>1, <2>2, <2>3
  <2>5. \A j \in DOMAIN Tail(s) : Tail(s)[j] \in S => j = h
    BY <1>2, <2>1, <2>3
  <2>6. QED
    BY <2>4, <2>5 DEF OneOf
<1>6. QED
  BY <1>3, <1>4, <1>5

LEMMA NoneInAppend ==
    ASSUME NEW U, NEW s \in Seq(U), NEW x \in U, NEW S
    PROVE  /\ NoneOf(s, S) /\ x \notin S => NoneOf(Append(s, x), S)
           /\ NoneOf(s, S) /\ x \in S => OneOf(Append(s, x), S)
           /\ OneOf(s, S) /\ x \notin S => OneOf(Append(s, x), S)
<1> DEFINE r == Append(s, x)
           n == Len(s) + 1
<1>1. /\ DOMAIN s = 1..Len(s) /\ Len(s) \in Nat /\ DOMAIN r = 1..n /\ r[n] = x
      /\ \A i \in DOMAIN s : r[i] = s[i]
  <2>1. r \in Seq(U) /\ Len(r) = n
    BY SequenceEnds
  <2>2. DOMAIN r = 1..n
    BY <2>1, SequenceEnds
  <2>3. QED
    BY <2>2, SequenceEnds
<1> HIDE DEF r
<1>2. /\ \A i \in DOMAIN r : i \in DOMAIN s \/ i = n
      /\ n \in DOMAIN r /\ n \notin DOMAIN s /\ \A i \in DOMAIN s : i \in DOMAIN r
  BY <1>1
<1> HIDE DEF n
<1>3. NoneOf(s, S) /\ x \notin S => NoneOf(r, S)
  BY <1>1, <1>2 DEF NoneOf
<1>4. NoneOf(s, S) /\ x \in S => OneOf(r, S)
  BY <1>1, <1>2 DEF NoneOf, OneOf
<1>5. ASSUME OneOf(s, S), x \notin S PROVE OneOf(r, S)
  <2>1. PICK i \in DOMAIN s : s[i] \in S /\ \A j \in DOMAIN s : s[j] \in S => j = i
    BY <1>5 DEF OneOf
  <2>2. i \in DOMAIN r /\ r[i] \in S /\ \A j \in DOMAIN r : r[j] \in S => j = i
    BY <1>1, <1>2, <1>5, <2>1
  <2>3. QED
    BY <2>2 DEF OneOf
<1>6. QED
  BY <1>3, <1>4, <1>5 DEF r

LEMMA NoneInPrefixed ==
    ASSUME NEW U, NEW s \in Seq(U), NEW x \in U, NEW S, x \notin S
    PROVE  /\ <<x>> \o s \in Seq(U)
           /\ NoneOf(s, S) => NoneOf(<<x>> \o s, S)
           /\ OneOf(s, S) => OneOf(<<x>> \o s, S)
<1> DEFINE r == <<x>> \o s
           n == Len(s) + 1
<1>1. /\ r \in Seq(U) /\ DOMAIN s = 1..Len(s) /\ Len(s) \in Nat /\ DOMAIN r = 1..n /\ r[1] = x
      /\ \A i \in 2..n : r[i] = s[i - 1]
  OBVIOUS
<1>2. \A i \in DOMAIN s : i \in Nat /\ i + 1 \in DOMAIN r /\ r[i + 1] = s[i]
  <2>1. ASSUME NEW i \in DOMAIN s PROVE i \in Nat /\ i + 1 \in DOMAIN r /\ r[i + 1] = s[i]
    <3>1. i \in 1..Len(s) /\ i + 1 \in 2..n /\ i + 1 - 1 = i
      BY <1>1
    <3>2. QED
      BY <1>1, <3>1
  <2>2. QED
    BY <2>1
<1>3. \A i \in DOMAIN r : i = 1 \/ \E h \in DOMAIN s : i = h + 1
  <2>1. ASSUME NEW i \in DOMAIN r, i # 1 PROVE \E h \in DOMAIN s : i = h + 1
    <3>1. i - 1 \in DOMAIN s /\ i = i - 1 + 1
      BY <1>1, <2>1
    <3>2. QED
      BY <3>1
  <2>2. QED
    BY <2>1
<1> HIDE DEF r, n
<1>4. NoneOf(s, S) => NoneOf(r, S)
  BY <1>1, <1>2, <1>3 DEF NoneOf
<1>5. ASSUME OneOf(s, S) PROVE OneOf(r, S)
  <2>1. PICK i \in DOMAIN s : s[i] \in S /\ \A j \in DOMAIN s : s[j] \in S => j = i
    BY <1>5 DEF OneOf
  <2>2. i + 1 \in DOMAIN r /\ r[i + 1] \in S
    BY <1>2, <2>1
  <2>3. \A j \in DOMAIN r : r[j] \in S => j = i + 1
    BY <1>1, <1>2, <1>3, <2>1
  <2>4. QED
    BY <2>2, <2>3 DEF OneOf
<1>6. QED
  BY <1>1, <1>4, <1>5 DEF r

LEMMA NoneInShort ==
    ASSUME NEW S, NEW x, NEW y
    PROVE  /\ NoneOf(<< >>, S) /\ ~OneOf(<< >>, S)
           /\ x \notin S => NoneOf(<<x>>, S)
           /\ x \in S => OneOf(<<x>>, S) /\ ~NoneOf(<<x>>, S)
           /\ x \notin S /\ y \notin S => NoneOf(<<x, y>>, S)
           /\ x \in S /\ y \notin S => OneOf(<<x, y>>, S)
           /\ x \notin S /\ y \in S => OneOf(<<x, y>>, S)
<1>1. /\ DOMAIN << >> = {} /\ DOMAIN <<x>> = {1} /\ DOMAIN <<x, y>> = {1, 2}
      /\ <<x>>[1] = x /\ <<x, y>>[1] = x /\ <<x, y>>[2] = y /\ 1 # 2
  OBVIOUS
<1> DEFINE a == <<x>>
           b == <<x, y>>
<1>2. /\ DOMAIN a = {1} /\ DOMAIN b = {1, 2}
      /\ a[1] = x /\ b[1] = x /\ b[2] = y /\ 1 # 2
  BY <1>1
<1> HIDE DEF a, b
<1>3. NoneOf(<< >>, S) /\ ~OneOf(<< >>, S)
  BY <1>1 DEF NoneOf, OneOf
<1>4. /\ x \notin S => NoneOf(a, S)
      /\ x \notin S /\ y \notin S => NoneOf(b, S)
  BY <1>2 DEF NoneOf
<1>5. x \in S => OneOf(a, S) /\ ~NoneOf(a, S)
  BY <1>2 DEF OneOf, NoneOf
<1>6. x \in S /\ y \notin S => OneOf(b, S)
  BY <1>2 DEF OneOf
<1>7. x \notin S /\ y \in S => OneOf(b, S)
  BY <1>2 DEF OneOf
<1>8. QED
  BY <1>3, <1>4, <1>5, <1>6, <1>7 DEF a, b

(* What a step that is not about client d does to the rest of the handler: *)
(* no answer to d is added or lost.                                        *)
Passes(d) ==
    /\ NoneOf(todo, Due(d)) => NoneOf(todo', Due(d)')
    /\ OneOf(todo, Due(d)) => OneOf(todo', Due(d)')
    /\ NoneOf(todo, Amiss(d, Due(d))) => NoneOf(todo', Amiss(d, Due(d))')

SameSeat(d) ==
    \A k \in Channels : /\ d \in Peers(k)' <=> d \in Peers(k)
                        /\ chan'[k].offer_from = d <=> chan[k].offer_from = d

SameReplies(d) ==
    \/ out'[d] = out[d]
    \/ \E f \in HubFrames : f.op \notin Replies /\ out'[d] = Append(out[d], f)

LEMMA SameFits ==
    ASSUME TypeOK, NEW d \in Clients, req'[d] = req[d],
           \A k \in Channels : d \in Peers(k)' <=> d \in Peers(k)
    PROVE  /\ \A op : Fits(d, op)' <=> Fits(d, op)
           /\ \A S : Amiss(d, S)' = Amiss(d, S)
<1>1. req[d].op = "Attach" => req[d].ch \in Channels
  BY DEF TypeOK, ClientTypes, Requests
<1>2. ASSUME NEW op PROVE Ignored(d, op)' <=> Ignored(d, op)
  BY DEF Ignored
<1>3. ASSUME NEW op PROVE Fits(d, op)' <=> Fits(d, op)
  <2>1. CASE req[d].op = "Attach"
    BY <1>1, <1>2, <2>1 DEF Fits
  <2>2. CASE req[d].op # "Attach"
    BY <1>2, <2>2 DEF Fits
  <2>3. QED
    BY <2>1, <2>2
<1>4. QED
  BY <1>3 DEF Amiss

LEMMA SameOut ==
    ASSUME TypeOK, NEW d \in Clients, SameReplies(d), NEW S, S \subseteq Answers
    PROVE  /\ NoneOf(out[d], S) => NoneOf(out'[d], S)
           /\ OneOf(out[d], S) => OneOf(out'[d], S)
<1>1. out[d] \in Seq(HubFrames)
  BY DEF TypeOK, WireTypes
<1>2. ASSUME NEW f \in HubFrames, f.op \notin Replies, out'[d] = Append(out[d], f)
      PROVE  /\ NoneOf(out[d], S) => NoneOf(out'[d], S)
             /\ OneOf(out[d], S) => OneOf(out'[d], S)
  <2>1. f \notin S
    BY <1>2 DEF Answers
  <2>2. QED
    BY <1>1, <1>2, <2>1, NoneInAppend
<1>3. QED
  BY <1>2 DEF SameReplies

LEMMA SameListens ==
    ASSUME TypeOK, NEW d \in Clients, in'[d] = in[d],
           req'[d] = req[d], handles'[d] = handles[d],
           \A k \in Channels : d \in Peers(k)' <=> d \in Peers(k)
    PROVE  /\ Attends(d) => Attends(d)'
           /\ Announces(d) => Announces(d)'
<1>1. in[d] \in Seq(Frames)
  BY DEF TypeOK, WireTypes
<1>2. \A i \in DOMAIN in[d] : in[d][i].op = "RecvReady" => in[d][i].ch \in Channels
  BY <1>1 DEF Frames
<1>3. ASSUME Attends(d) PROVE Attends(d)'
  BY <1>3 DEF Attends, Leaves
<1>4. ASSUME Announces(d) PROVE Announces(d)'
  <2>1. SUFFICES ASSUME NEW i \in DOMAIN in[d], in[d][i].op = "RecvReady"
                 PROVE  /\ d \in Peers(in[d][i].ch)'
                        /\ \A j \in DOMAIN in[d] : j < i => ~Leaves(in[d][j], in[d][i].ch)
    BY DEF Announces
  <2>2. d \in Peers(in[d][i].ch)
    BY <1>4, <2>1 DEF Announces
  <2>3. PICK k \in Channels : k = in[d][i].ch
    BY <1>2, <2>1
  <2>4. d \in Peers(k)'
    BY <2>2, <2>3
  <2>5. QED
    BY <1>4, <2>1, <2>3, <2>4 DEF Announces
<1>5. QED
  BY <1>3, <1>4

LEMMA Bystander ==
    ASSUME TypeOK, NEW d \in Clients, Dialogue(d), in'[d] = in[d],
           req'[d] = req[d], handles'[d] = handles[d],
           SameSeat(d), SameReplies(d), Passes(d)
    PROVE  Dialogue(d)'
<1>1. Attends(d)' /\ Announces(d)'
  BY SameListens DEF Dialogue, SameSeat
<1>2. \A S : Amiss(d, S)' = Amiss(d, S)
  BY SameFits DEF SameSeat
<1>3. /\ NoOffer(d) => NoOffer(d)'
      /\ OneOffer(d) => OneOffer(d)'
  BY DEF NoOffer, OneOffer, SameSeat
<1>4. /\ NoneOf(out[d], Answers) => NoneOf(out'[d], Answers)
      /\ OneOf(out[d], Answers) => OneOf(out'[d], Answers)
      /\ NoneOf(out[d], Amiss(d, Answers)) => NoneOf(out'[d], Amiss(d, Answers)')
  <2>1. Amiss(d, Answers) \subseteq Answers
    BY DEF Amiss
  <2>2. Amiss(d, Answers)' = Amiss(d, Answers)
    BY <1>2 DEF Answers
  <2>3. QED
    BY <2>1, <2>2, SameOut
<1>5. /\ NoneOf(todo, Due(d)) => NoneOf(todo', Due(d)')
      /\ OneOf(todo, Due(d)) => OneOf(todo', Due(d)')
      /\ NoneOf(todo, Amiss(d, Due(d))) => NoneOf(todo', Amiss(d, Due(d))')
  BY DEF Passes
<1>6. Quiet(d) => Quiet(d)'
  BY <1>3, <1>4, <1>5 DEF Quiet
<1>7. Asked(d) => Asked(d)'
  BY <1>3, <1>4, <1>5 DEF Asked
<1>8. Deciding(d) => Deciding(d)'
  BY <1>3, <1>4, <1>5 DEF Deciding
<1>9. Offering(d) => Offering(d)'
  BY <1>3, <1>4, <1>5 DEF Offering
<1>10. Answered(d) => Answered(d)'
  BY <1>3, <1>4, <1>5 DEF Answered
<1>11. QED
  BY <1>1, <1>6, <1>7, <1>8, <1>9, <1>10 DEF Dialogue

LEMMA DueItems ==
    ASSUME NEW d, NEW x
    PROVE  /\ x \in Due(d) => x \in Items /\ x.do \in {"answer", "notify"}
           /\ x \in Items /\ x.do = "answer" => (x \in Due(d) <=> cur.id = d)
           /\ x \in Items /\ x.do = "notify" => (x \in Due(d) <=> x.to = d)
           /\ Amiss(d, Due(d)) \subseteq Due(d)
BY DEF Due, Amiss

LEMMA GotoPasses ==
    ASSUME TypeOK, NEW d \in Clients, req'[d] = req[d], SameSeat(d), NEW items, Goto(items),
           NoneOf(todo, Due(d)) => NoneOf(items, Due(d)),
           OneOf(todo, Due(d)) => OneOf(items, Due(d)),
           NoneOf(todo, Amiss(d, Due(d))) => NoneOf(items, Amiss(d, Due(d)))
    PROVE  Passes(d)
<1>1. CASE items = << >>
  BY <1>1, NoneInShort DEF Goto, Passes
<1>2. CASE items # << >>
  <2>1. Due(d)' = Due(d)
    BY <1>2 DEF Due, Goto
  <2>2. \A S : Amiss(d, S)' = Amiss(d, S)
    BY SameFits DEF SameSeat
  <2>3. Amiss(d, Due(d))' = Amiss(d, Due(d))
    BY <2>1, SameFits DEF SameSeat, Amiss
  <2>4. todo' = items
    BY DEF Goto
  <2>5. QED
    BY <2>1, <2>3, <2>4 DEF Passes
<1>3. QED
  BY <1>1, <1>2

(* A step that is done, and one that something comes before.               *)
LEMMA TailPasses ==
    ASSUME TypeOK, NEW d \in Clients, req'[d] = req[d], SameSeat(d),
           todo # << >>, Goto(Tail(todo)), Head(todo) \notin Due(d)
    PROVE  Passes(d)
<1>1. todo \in Seq(ItemsOf(cur.op))
  BY DEF TypeOK, ServingTypes
<1>2. Head(todo) \notin Amiss(d, Due(d))
  BY DueItems
<1>3. PICK items : items = Tail(todo)
  OBVIOUS
<1>4. /\ NoneOf(todo, Due(d)) => NoneOf(items, Due(d))
      /\ OneOf(todo, Due(d)) => OneOf(items, Due(d))
      /\ NoneOf(todo, Amiss(d, Due(d))) => NoneOf(items, Amiss(d, Due(d)))
  BY <1>1, <1>2, <1>3, NoneInTail
<1>5. QED
  BY <1>3, <1>4, GotoPasses

LEMMA PrefixPasses ==
    ASSUME TypeOK, NEW d \in Clients, req'[d] = req[d], SameSeat(d),
           todo # << >>, Head(todo) \notin Due(d), NEW x, x \notin Due(d),
           x \in ItemsOf(cur.op), Goto(<<x>> \o Tail(todo))
    PROVE  Passes(d)
<1>1. todo \in Seq(ItemsOf(cur.op))
  BY DEF TypeOK, ServingTypes
<1>2. Head(todo) \notin Amiss(d, Due(d)) /\ x \notin Amiss(d, Due(d))
  BY DueItems
<1>3. PICK t : t = Tail(todo)
  OBVIOUS
<1>4. /\ NoneOf(todo, Due(d)) => NoneOf(t, Due(d))
      /\ OneOf(todo, Due(d)) => OneOf(t, Due(d))
      /\ NoneOf(todo, Amiss(d, Due(d))) => NoneOf(t, Amiss(d, Due(d)))
  BY <1>1, <1>2, <1>3, NoneInTail
<1>5. t \in Seq(ItemsOf(cur.op))
  BY <1>1, <1>3
<1>6. PICK items : items = <<x>> \o t
  OBVIOUS
<1>7. /\ NoneOf(t, Due(d)) => NoneOf(items, Due(d))
      /\ OneOf(t, Due(d)) => OneOf(items, Due(d))
      /\ NoneOf(t, Amiss(d, Due(d))) => NoneOf(items, Amiss(d, Due(d)))
  BY <1>2, <1>5, <1>6, NoneInPrefixed
<1>8. QED
  BY <1>3, <1>4, <1>6, <1>7, GotoPasses

LEMMA SamePasses ==
    ASSUME TypeOK, NEW d \in Clients, req'[d] = req[d], SameSeat(d), UNCHANGED <<cur, todo>>
    PROVE  Passes(d)
<1>1. Due(d)' = Due(d)
  BY DEF Due
<1>2. Amiss(d, Due(d))' = Amiss(d, Due(d))
  BY <1>1, SameFits DEF SameSeat, Amiss
<1>3. QED
  BY <1>1, <1>2 DEF Passes

(* A new handler in which nothing is due to d.                             *)
LEMMA StartPasses ==
    ASSUME NEW d \in Clients, todo = << >>, NoneOf(todo', Due(d)')
    PROVE  Passes(d)
<1>1. ~OneOf(todo, Due(d))
  BY NoneInShort
<1>2. NoneOf(todo', Amiss(d, Due(d))')
  BY DEF NoneOf, Amiss
<1>3. QED
  BY <1>1, <1>2 DEF Passes

LEMMA SameMarksSeat ==
    ASSUME \A k \in Channels : /\ chan'[k].list = chan[k].list
                               /\ chan'[k].offer_from = chan[k].offer_from,
           NEW d \in Clients
    PROVE  SameSeat(d)
BY DEF SameSeat, Peers, Attached

(* A step of a handler: it takes nothing from a client, and what it does   *)
(* not answer it passes.                                                   *)
LEMMA DaemonDialogues ==
    ASSUME TypeOK, Dialogues, UNCHANGED <<in, live, open, req, handles>>,
           status' = "running" => status = "running",
           \A d \in Clients : ~open[d] => out'[d] = out[d],
           \A d \in Clients : status' = "running" /\ open[d] /\ live[d] /\ Dialogue(d) =>
              Dialogue(d)' \/ (SameSeat(d) /\ SameReplies(d) /\ Passes(d))
    PROVE  Dialogues'
<1>1. ASSUME NEW d \in Clients PROVE Departed(d)'
  BY DEF Dialogues, Departed
<1>2. ASSUME NEW d \in Clients, status' = "running", open[d], live[d] PROVE Dialogue(d)'
  <2>1. Dialogue(d)
    BY <1>2 DEF Dialogues
  <2>2. CASE SameSeat(d) /\ SameReplies(d) /\ Passes(d)
    <3>1. in'[d] = in[d] /\ req'[d] = req[d] /\ handles'[d] = handles[d]
      OBVIOUS
    <3>2. QED
      BY <2>1, <2>2, <3>1, Bystander
  <2>3. QED
    BY <1>2, <2>1, <2>2
<1>3. QED
  BY <1>1, <1>2 DEF Dialogues

LEMMA DeliverReplies ==
    ASSUME TypeOK, NEW c \in Clients, NEW m \in AllModes, NEW p \in Payloads, open[c],
           Put(c, Deliver(m, p))
    PROVE  \A d \in Clients : SameReplies(d) /\ (~open[d] => out'[d] = out[d])
<1>1. out \in [Clients -> Seq(HubFrames)]
  BY DEF TypeOK, WireTypes
<1>2. PICK f : f = Deliver(m, p)
  OBVIOUS
<1>3. f \in HubFrames /\ f.op \notin Replies
  BY <1>2 DEF Deliver, HubFrames, Replies
<1>4. /\ out'[c] = Append(out[c], f)
      /\ \A d \in Clients : d # c => out'[d] = out[d]
  BY <1>1, <1>2 DEF Put
<1>5. QED
  BY <1>3, <1>4 DEF SameReplies

LEMMA SameOutReplies ==
    ASSUME out' = out
    PROVE  \A d \in Clients : SameReplies(d) /\ (~open[d] => out'[d] = out[d])
BY DEF SameReplies

(* A step that answers nobody, and after which the handler goes on.        *)
LEMMA PlainDialogues ==
    ASSUME TypeOK, Dialogues, UNCHANGED <<in, live, open, req, handles>>,
           status = "running", todo # << >>, Head(todo).do \notin {"answer", "notify"},
           \A k \in Channels : /\ chan'[k].list = chan[k].list
                               /\ chan'[k].offer_from = chan[k].offer_from,
           \A d \in Clients : SameReplies(d) /\ (~open[d] => out'[d] = out[d]),
           \/ Goto(Tail(todo)) \/ UNCHANGED <<cur, todo>>
           \/ \E x \in ItemsOf(cur.op) :
                 x.do \notin {"answer", "notify"} /\ Goto(<<x>> \o Tail(todo))
    PROVE  Dialogues'
<1>1. ASSUME NEW d \in Clients PROVE SameSeat(d) /\ Passes(d)
  <2>1. SameSeat(d) /\ req'[d] = req[d] /\ Head(todo) \notin Due(d)
    BY SameMarksSeat, DueItems
  <2>2. CASE Goto(Tail(todo))
    BY <2>1, <2>2, TailPasses
  <2>3. CASE UNCHANGED <<cur, todo>>
    BY <2>1, <2>3, SamePasses
  <2>4. ASSUME NEW x \in ItemsOf(cur.op), x.do \notin {"answer", "notify"}, Goto(<<x>> \o Tail(todo))
        PROVE  Passes(d)
    BY <2>1, <2>4, DueItems, PrefixPasses
  <2>5. QED
    BY <2>1, <2>2, <2>3, <2>4
<1>2. QED
  BY <1>1, DaemonDialogues

LEMMA QueueDialogues ==
    ASSUME TypeOK, Roomy, Dialogues, QueueStep
    PROVE  Dialogues'
<1>1. /\ Now("queue") /\ todo # << >> /\ Head(todo).do = "queue" /\ status = "running"
      /\ cur.ch \in Channels /\ Head(todo).pay \in Payloads
  BY ServedType, HeadType DEF TypeOK, QueueStep, Doing, Now
<1>2. /\ Goto(Tail(todo)) /\ UNCHANGED <<daemon, in, client>>
      /\ \/ out' = out
         \/ \E c \in Clients : open[c] /\ Put(c, Deliver("QueueIn", Head(todo).pay))
  BY <1>1, NoStall DEF QueueStep, CanWrite, Attached
<1>3. \A d \in Clients : SameReplies(d) /\ (~open[d] => out'[d] = out[d])
  BY <1>1, <1>2, SameOutReplies, DeliverReplies DEF AllModes
<1>4. QED
  BY <1>1, <1>2, <1>3, PlainDialogues DEF daemon, client

LEMMA PeerDialogues ==
    ASSUME TypeOK, Roomy, Dialogues, PeerStep
    PROVE  Dialogues'
<1>1. /\ Now("peer") /\ todo # << >> /\ Head(todo).do = "peer" /\ status = "running"
      /\ cur.ch \in Channels /\ cur.op = "Publish" /\ cur.pay \in Payloads
  <2>1. cur.op = "Publish"
    BY HeadType DEF TypeOK, PeerStep
  <2>2. QED
    BY <2>1, ServedType DEF TypeOK, PeerStep, Doing, Now
<1>2. /\ Goto(Tail(todo)) /\ UNCHANGED <<daemon, in, client>>
      /\ \E c \in Clients : open[c] /\ Put(c, Deliver("ChannelPeer", cur.pay))
  BY <1>1, NoStall DEF PeerStep, CanWrite, Peers, Attached
<1>3. \A d \in Clients : SameReplies(d) /\ (~open[d] => out'[d] = out[d])
  BY <1>1, <1>2, DeliverReplies DEF AllModes
<1>4. QED
  BY <1>1, <1>2, <1>3, PlainDialogues DEF daemon, client

LEMMA CopyDialogues ==
    ASSUME TypeOK, Roomy, Dialogues, CopyStep
    PROVE  Dialogues'
<1> DEFINE p == Head(todo).pay
           left == Head(todo).left
<1>1. /\ Now("copies") /\ todo # << >> /\ Head(todo).do = "copies" /\ status = "running"
      /\ cur.ch \in Channels /\ p \in Payloads /\ cur.op \in {"Attach", "Publish"}
      /\ left \in [Clients -> Nat]
  BY ServedType, HeadType DEF TypeOK, CopyStep, Doing, Now
<1>2. /\ UNCHANGED <<daemon, in, client>>
      /\ \/ out' = out /\ Goto(Tail(todo))
         \/ \E c \in Clients : /\ left[c] > 0 /\ open[c] /\ Put(c, Deliver("BroadcastIn", p))
                               /\ Goto(<<Copies(p, [left EXCEPT ![c] = @ - 1])>> \o Tail(todo))
  BY <1>1, NoStall DEF CopyStep, CanWrite
<1> HIDE DEF p, left
<1>3. ASSUME NEW c \in Clients, left[c] > 0
      PROVE  /\ Copies(p, [left EXCEPT ![c] = @ - 1]) \in ItemsOf(cur.op)
             /\ Copies(p, [left EXCEPT ![c] = @ - 1]).do = "copies"
  <2>1. [left EXCEPT ![c] = @ - 1] \in [Clients -> Nat]
    BY <1>1, <1>3
  <2>2. PICK l : l = [left EXCEPT ![c] = @ - 1]
    OBVIOUS
  <2>3. Copies(p, l) \in ItemsOf(cur.op) /\ Copies(p, l).do = "copies"
    BY <1>1, <2>1, <2>2 DEF Copies, ItemsOf, Items, PartsOf
  <2>4. QED
    BY <2>2, <2>3
<1>4. \A d \in Clients : SameReplies(d) /\ (~open[d] => out'[d] = out[d])
  BY <1>1, <1>2, SameOutReplies, DeliverReplies DEF AllModes
<1>5. \/ Goto(Tail(todo))
      \/ \E x \in ItemsOf(cur.op) :
            x.do \notin {"answer", "notify"} /\ Goto(<<x>> \o Tail(todo))
  BY <1>2, <1>3
<1>6. QED
  BY <1>1, <1>2, <1>4, <1>5, PlainDialogues DEF daemon, client

LEMMA DrainPushDialogues ==
    ASSUME TypeOK, Roomy, Dialogues, Kept, DrainStep \/ PushStep
    PROVE  Dialogues'
<1>1. PICK w \in {"drain", "push"} :
        /\ Now(w) /\ Doing(w)
        /\ w = "drain" => DrainStep
        /\ w = "push" => PushStep
  BY DEF DrainStep, PushStep, Doing, Now
<1>2. /\ todo # << >> /\ Head(todo).do \notin {"answer", "notify"} /\ status = "running"
      /\ cur.ch \in Channels /\ cur.id \in Clients
      /\ chan[cur.ch].pending # << >> => Head(chan[cur.ch].pending) \in Payloads
  BY <1>1, ServedType, PopType DEF TypeOK, Doing, Now
<1>3. PICK c, p : /\ c = IF w = "drain" THEN cur.id ELSE chan[cur.ch].recv_ready
                  /\ p = Head(chan[cur.ch].pending)
  OBVIOUS
<1>4. c \in Clients
  BY <1>1, <1>2, <1>3 DEF Kept
<1>5. /\ UNCHANGED <<live, in, client>> /\ chan' \in {chan, Pop(cur.ch)}
      /\ Goto(Tail(todo)) \/ UNCHANGED <<cur, todo>>
      /\ \/ out' = out
         \/ p \in Payloads /\ open[c] /\ Put(c, Deliver("ChannelPeer", p))
  <2>1. CASE w = "drain"
    BY <1>1, <1>2, <1>3, <2>1, NoStall DEF DrainStep, CanWrite, daemon
  <2>2. CASE w = "push"
    BY <1>1, <1>2, <1>3, <2>2, NoStall DEF PushStep, CanWrite
  <2>3. QED
    BY <2>1, <2>2
<1>6. \A d \in Clients : SameReplies(d) /\ (~open[d] => out'[d] = out[d])
  BY <1>4, <1>5, SameOutReplies, DeliverReplies DEF AllModes
<1>7. \A k \in Channels : /\ chan'[k].list = chan[k].list
                          /\ chan'[k].offer_from = chan[k].offer_from
  BY <1>2, <1>5, PopKeepsLists DEF TypeOK
<1>8. QED
  BY <1>2, <1>5, <1>6, <1>7, PlainDialogues DEF client

LEMMA TwoPrefixed ==
    ASSUME NEW U, NEW s \in Seq(U), NEW a \in U, NEW b \in U
    PROVE  <<a, b>> \o s = <<a>> \o (<<b>> \o s)
<1> DEFINE l == <<a, b>> \o s
           t == <<b>> \o s
           r == <<a>> \o t
<1>1. /\ s \in Seq(U) /\ Len(s) \in Nat /\ DOMAIN l = 1..(Len(s) + 2)
      /\ l[1] = a /\ l[2] = b /\ \A i \in 3..(Len(s) + 2) : l[i] = s[i - 2]
      /\ l \in Seq(U)
  OBVIOUS
<1>2. /\ t \in Seq(U) /\ Len(t) = Len(s) + 1 /\ t[1] = b
      /\ \A i \in 2..(Len(s) + 1) : t[i] = s[i - 1]
  OBVIOUS
<1> HIDE DEF l, t
<1>3. /\ DOMAIN r = 1..(Len(s) + 2) /\ r \in Seq(U) /\ r[1] = a
      /\ \A i \in 2..(Len(s) + 2) : r[i] = t[i - 1]
  BY <1>1, <1>2
<1> HIDE DEF r
<1>4. ASSUME NEW i \in 1..(Len(s) + 2) PROVE l[i] = r[i]
  <2>1. CASE i = 1
    BY <1>1, <1>3, <2>1
  <2>2. CASE i = 2
    BY <1>1, <1>2, <1>3, <2>2
  <2>3. CASE i \in 3..(Len(s) + 2)
    <3>1. i - 1 \in 2..(Len(s) + 1) /\ i - 1 - 1 = i - 2 /\ i \in 2..(Len(s) + 2)
      BY <1>1, <2>3
    <3>2. QED
      BY <1>1, <1>2, <1>3, <2>3, <3>1
  <2>4. QED
    BY <1>1, <2>1, <2>2, <2>3
<1>5. l = r
  <2>1. l = [i \in 1..(Len(s) + 2) |-> l[i]] /\ r = [i \in 1..(Len(s) + 2) |-> r[i]]
    BY <1>1, <1>3
  <2>2. QED
    BY <1>4, <2>1
<1>6. QED
  BY <1>5 DEF l, t, r

LEMMA FlushDialogues ==
    ASSUME TypeOK, Dialogues, FlushStep
    PROVE  Dialogues'
<1>1. /\ todo # << >> /\ Head(todo).do = "flush" /\ status = "running" /\ cur.op = "Attach"
      /\ cur.ch \in Channels /\ todo \in Seq(ItemsOf(cur.op))
      /\ chan[cur.ch].pending # << >> => Head(chan[cur.ch].pending) \in Payloads
      /\ chan[cur.ch].list["BroadcastIn"] \in [Clients -> Nat]
  BY ServedType, HeadType, PopType, ListType DEF TypeOK, FlushStep, Doing, AllModes
<1>2. UNCHANGED <<live, in, out, client>> /\ status' = status
  BY DEF FlushStep
<1>3. CASE Goto(Tail(todo)) /\ chan' = chan
  BY <1>1, <1>2, <1>3, SameOutReplies, PlainDialogues DEF client
<1>4. CASE /\ chan[cur.ch].pending # << >> /\ chan' = Pop(cur.ch)
           /\ Goto(<<Copies(Head(chan[cur.ch].pending), chan[cur.ch].list["BroadcastIn"]),
                     Queue(Head(chan[cur.ch].pending))>> \o todo)
  <2>1. PICK a, b : /\ a = Copies(Head(chan[cur.ch].pending), chan[cur.ch].list["BroadcastIn"])
                    /\ b = Queue(Head(chan[cur.ch].pending))
    OBVIOUS
  <2>2. /\ a \in ItemsOf(cur.op) /\ a.do \notin {"answer", "notify"}
        /\ b \in ItemsOf(cur.op) /\ b.do \notin {"answer", "notify"}
    BY <1>1, <1>4, <2>1 DEF Copies, Queue, ItemsOf, Items, PartsOf
  <2>3. PICK items, rest : /\ rest = <<b>> \o todo /\ items = <<a>> \o rest
                           /\ items = <<a, b>> \o todo
    <3>1. PICK U, s : U = ItemsOf(cur.op) /\ s = todo
      OBVIOUS
    <3>2. s \in Seq(U) /\ a \in U /\ b \in U
      BY <1>1, <2>2, <3>1
    <3>3. <<a, b>> \o s = <<a>> \o (<<b>> \o s)
      BY <3>2, TwoPrefixed
    <3>4. QED
      BY <3>1, <3>3
  <2>4. Goto(items)
    BY <1>4, <2>1, <2>3
  <2>5. \A k \in Channels : /\ chan'[k].list = chan[k].list
                            /\ chan'[k].offer_from = chan[k].offer_from
    BY <1>1, <1>4, PopKeepsLists DEF TypeOK
  <2>6. ASSUME NEW d \in Clients PROVE SameSeat(d) /\ Passes(d)
    <3>1. SameSeat(d) /\ req'[d] = req[d]
      BY <1>2, <2>5, SameMarksSeat DEF client
    <3>2. ASSUME NEW S, S \subseteq Due(d)
          PROVE  /\ NoneOf(todo, S) => NoneOf(items, S)
                 /\ OneOf(todo, S) => OneOf(items, S)
      <4>1. a \notin S /\ b \notin S
        BY <2>2, <3>2, DueItems
      <4>2. /\ rest \in Seq(ItemsOf(cur.op))
            /\ NoneOf(todo, S) => NoneOf(rest, S)
            /\ OneOf(todo, S) => OneOf(rest, S)
        BY <1>1, <2>2, <2>3, <4>1, NoneInPrefixed
      <4>3. QED
        BY <2>2, <2>3, <4>1, <4>2, NoneInPrefixed
    <3>3. QED
      BY <2>4, <3>1, <3>2, DueItems, GotoPasses
  <2>7. QED
    BY <1>1, <1>2, <2>6, SameOutReplies, DaemonDialogues DEF client
<1>5. QED
  BY <1>3, <1>4 DEF FlushStep

LEMMA MarkDialogues ==
    ASSUME TypeOK, Dialogues, AnnounceStep \/ ResumeStep \/ SigPipe
    PROVE  Dialogues'
<1>1. CASE AnnounceStep \/ ResumeStep
  <2>1. PICK w \in {"announce", "resume"} : Doing(w)
    BY <1>1 DEF AnnounceStep, ResumeStep
  <2>2. /\ todo # << >> /\ Head(todo).do \notin {"answer", "notify"} /\ status = "running"
        /\ cur.ch \in Channels
    BY <2>1, ServedType DEF TypeOK, Doing
  <2>3. /\ UNCHANGED <<live, in, out, client>> /\ Goto(Tail(todo))
        /\ chan' = chan \/ chan' = [chan EXCEPT ![cur.ch].recv_ready = cur.id]
    BY <1>1 DEF AnnounceStep, ResumeStep, daemon
  <2>4. \A k \in Channels : /\ chan'[k].list = chan[k].list
                            /\ chan'[k].offer_from = chan[k].offer_from
    <3>1. chan \in [Channels -> ChannelStates]
      BY DEF TypeOK, DaemonTypes
    <3>2. ASSUME NEW k \in Channels, k # cur.ch PROVE chan'[k] = chan[k]
      BY <2>2, <2>3, <3>1, <3>2
    <3>3. chan'[cur.ch] = chan[cur.ch] \/ chan'[cur.ch] = [chan[cur.ch] EXCEPT !.recv_ready = cur.id]
      BY <2>2, <2>3, <3>1
    <3>4. /\ chan'[cur.ch].list = chan[cur.ch].list
          /\ chan'[cur.ch].offer_from = chan[cur.ch].offer_from
      BY <2>2, <3>1, <3>3 DEF ChannelStates
    <3>5. QED
      BY <3>2, <3>4
  <2>5. QED
    BY <2>2, <2>3, <2>4, SameOutReplies, PlainDialogues DEF client
<1>2. CASE SigPipe
  BY <1>2 DEF SigPipe, Dialogues, Departed, daemon, client
<1>3. QED
  BY <1>1, <1>2

(* The backlog is full: what is left of the handler, the Ack, becomes an   *)
(* Error.                                                                  *)
LEMMA RefusedPasses ==
    ASSUME TypeOK, Handler, NEW d \in Clients, req'[d] = req[d], SameSeat(d),
           Now("park"), Goto(<<Answer("Error")>>)
    PROVE  Passes(d)
<1>1. /\ todo # << >> /\ Head(todo).do = "park" /\ todo \in Seq(ItemsOf(cur.op))
      /\ Head(todo) \notin Due(d)
  BY DueItems DEF TypeOK, ServingTypes, Now
<1>2. Tail(todo) = <<Answer("Ack")>>
  <2>1. Answer("Ack").do = "answer" /\ Answer("Error").do = "answer"
    BY ItemKinds
  <2>2. QED
    BY <1>1, <2>1 DEF Handler, Remains, AttachHandler, PublishHandler, OfferHandler, RecvReadyHandler
<1>3. PICK a, e : a = Answer("Ack") /\ e = Answer("Error")
  OBVIOUS
<1>4. /\ a \in Items /\ a.do = "answer" /\ a.op = "Ack"
      /\ e \in Items /\ e.do = "answer" /\ e.op = "Error"
  BY <1>3 DEF Answer, Items
<1>5. /\ a \in Due(d) <=> cur.id = d
      /\ e \in Due(d) <=> cur.id = d
  BY <1>4, DueItems
<1>6. e \in Amiss(d, Due(d)) => a \in Amiss(d, Due(d))
  <2>1. Fits(d, "Ack") => Fits(d, "Error")
    <3>1. ~Ignored(d, "Ack") => req[d].op \in {"Attach", "Publish"}
      BY DEF Ignored
    <3>2. req[d].op \in {"Attach", "Publish"} => ~Ignored(d, "Error")
      BY DEF Ignored, Asking
    <3>3. QED
      BY <3>1, <3>2 DEF Fits
  <2>2. QED
    BY <1>4, <1>5, <2>1 DEF Amiss
<1>7. ASSUME NEW S, e \in S => a \in S, Head(todo) \notin S
      PROVE  NoneOf(todo, S) => NoneOf(<<e>>, S)
  <2>1. CASE e \in S
    <3>1. Tail(todo) = <<a>> /\ a \in S
      BY <1>2, <1>3, <1>7, <2>1
    <3>2. ~NoneOf(<<a>>, S)
      BY <3>1, NoneInShort
    <3>3. NoneOf(todo, S) => NoneOf(Tail(todo), S)
      BY <1>1, NoneInTail
    <3>4. QED
      BY <3>1, <3>2, <3>3
  <2>2. CASE e \notin S
    BY <2>2, NoneInShort
  <2>3. QED
    BY <2>1, <2>2
<1>8. OneOf(todo, Due(d)) => OneOf(<<e>>, Due(d))
  <2>1. OneOf(todo, Due(d)) => OneOf(<<a>>, Due(d))
    BY <1>1, <1>2, <1>3, NoneInTail
  <2>2. OneOf(<<a>>, Due(d)) => a \in Due(d)
    BY NoneInShort DEF OneOf, NoneOf
  <2>3. QED
    BY <1>5, <2>1, <2>2, NoneInShort
<1>9. /\ NoneOf(todo, Due(d)) => NoneOf(<<e>>, Due(d))
      /\ NoneOf(todo, Amiss(d, Due(d))) => NoneOf(<<e>>, Amiss(d, Due(d)))
  BY <1>1, <1>5, <1>6, <1>7, DueItems
<1>10. PICK items : items = <<e>>
  OBVIOUS
<1>11. QED
  BY <1>3, <1>8, <1>9, <1>10, GotoPasses

LEMMA ParkDialogues ==
    ASSUME TypeOK, Handler, Dialogues, ParkStep
    PROVE  Dialogues'
<1>1. /\ Now("park") /\ todo # << >> /\ Head(todo).do = "park" /\ status = "running"
      /\ cur.ch \in Channels /\ cur.op = "Publish"
  BY ServedType, HeadType DEF TypeOK, ParkStep, Doing, Now
<1>2. /\ UNCHANGED <<status, live, in, out, client>>
      /\ chan' \in {chan, Push(cur.ch, cur.pay)}
      /\ \/ Goto(Tail(todo)) \/ Goto(<<Todo("push")>> \o Tail(todo)) \/ Goto(<<Answer("Error")>>)
  BY DEF ParkStep
<1>3. Todo("push") \in ItemsOf(cur.op) /\ Todo("push").do \notin {"answer", "notify"}
  BY <1>1 DEF Todo, ItemsOf, Items, PartsOf
<1>4. \A k \in Channels : /\ chan'[k].list = chan[k].list
                          /\ chan'[k].offer_from = chan[k].offer_from
  BY <1>1, <1>2, PushKeepsLists DEF TypeOK
<1>5. CASE Goto(<<Answer("Error")>>)
  <2>1. ASSUME NEW d \in Clients PROVE SameSeat(d) /\ Passes(d)
    <3>1. SameSeat(d) /\ req'[d] = req[d]
      BY <1>2, <1>4, SameMarksSeat DEF client
    <3>2. QED
      BY <1>1, <1>5, <3>1, RefusedPasses
  <2>2. QED
    BY <1>1, <1>2, <2>1, SameOutReplies, DaemonDialogues DEF client
<1>6. CASE Goto(Tail(todo)) \/ Goto(<<Todo("push")>> \o Tail(todo))
  BY <1>1, <1>2, <1>3, <1>4, <1>6, SameOutReplies, PlainDialogues DEF client
<1>7. QED
  BY <1>2, <1>5, <1>6

(* The reply is written to the client that waits for it.                   *)
LEMMA RepliedDialogue ==
    ASSUME TypeOK, NEW c \in Clients, Dialogue(c), in'[c] = in[c], req'[c] = req[c],
           handles'[c] = handles[c], SameSeat(c), todo # << >>, Head(todo) \in Due(c),
           Goto(Tail(todo)), Put(c, Reply(Head(todo).op))
    PROVE  Dialogue(c)'
<1>1. todo \in Seq(ItemsOf(cur.op)) /\ out \in [Clients -> Seq(HubFrames)]
  BY DEF TypeOK, ServingTypes, WireTypes
<1>2. ~NoneOf(todo, Due(c))
  BY <1>1, NoneInTail
<1>3. Deciding(c) /\ Attends(c) /\ Announces(c)
  BY <1>2 DEF Dialogue, Quiet, Asked, Offering, Answered
<1>4. NoneOf(Tail(todo), Due(c)) /\ Head(todo) \notin Amiss(c, Due(c))
  BY <1>1, <1>3, NoneInTail DEF Deciding
<1>5. NoneOf(todo', Due(c)')
  <2>1. CASE Tail(todo) = << >>
    BY <2>1, NoneInShort DEF Goto
  <2>2. CASE Tail(todo) # << >>
    <3>1. Due(c)' = Due(c)
      BY <2>2 DEF Goto, Due
    <3>2. QED
      BY <1>4, <3>1 DEF Goto
  <2>3. QED
    BY <2>1, <2>2
<1>6. PICK f : f = Reply(Head(todo).op)
  OBVIOUS
<1>7. Head(todo).op \in Replies /\ Fits(c, Head(todo).op)
  BY <1>4 DEF Due, Items, Amiss, Replies
<1>8. f \in Answers /\ f \in HubFrames /\ f \notin Amiss(c, Answers)
  BY <1>6, <1>7 DEF Reply, Answers, HubFrames, Amiss
<1>9. out'[c] = Append(out[c], f)
  BY <1>1, <1>6 DEF Put
<1>10. NoneOf(out[c], Answers) /\ NoneOf(out[c], Amiss(c, Answers))
  BY <1>3 DEF Deciding, NoneOf, Amiss
<1>11. OneOf(out'[c], Answers) /\ NoneOf(out'[c], Amiss(c, Answers))
  BY <1>1, <1>8, <1>9, <1>10, NoneInAppend
<1>12. Amiss(c, Answers)' = Amiss(c, Answers)
  <2>1. Answers' = Answers
    BY DEF Answers
  <2>2. QED
    BY <2>1, SameFits DEF SameSeat, Amiss
<1>13. Answered(c)'
  BY <1>3, <1>5, <1>11, <1>12 DEF Answered, Deciding, NoOffer, SameSeat
<1>14. QED
  BY <1>3, <1>13, SameListens DEF Dialogue, SameSeat

LEMMA ReplyDialogues ==
    ASSUME TypeOK, Roomy, Dialogues, AnswerStep \/ NotifyStep
    PROVE  Dialogues'
<1>1. PICK w \in {"answer", "notify"} :
        /\ Now(w) /\ Doing(w) /\ Head(todo) \in Items
        /\ w = "answer" => AnswerStep
        /\ w = "notify" => NotifyStep
  <2>1. \A v : Doing(v) => Now(v)
    BY DEF Doing, Now
  <2>2. QED
    BY <2>1, DoingType DEF AnswerStep, NotifyStep, TypeOK
<1>2. /\ todo # << >> /\ Head(todo).do = w /\ status = "running" /\ cur.id \in Clients
      /\ w = "notify" => Head(todo).to \in Clients
  BY <1>1, ServedType, HeadType DEF TypeOK, Doing, Now
<1>3. PICK c \in Clients : c = IF w = "answer" THEN cur.id ELSE Head(todo).to
  BY <1>2
<1>4. \A d : Head(todo) \in Due(d) <=> d = c
  BY <1>1, <1>2, <1>3, DueItems
<1>5. /\ Goto(Tail(todo)) /\ UNCHANGED <<status, daemon, in, client>>
      /\ \/ ~live[c] /\ out' = out
         \/ open[c] /\ Put(c, Reply(Head(todo).op))
  <2>1. CASE w = "answer"
    BY <1>1, <1>3, <2>1, NoStall DEF AnswerStep, CanWrite
  <2>2. CASE w = "notify"
    <3>1. ~Stalled(c)
      BY <1>2, <1>3, <2>2 DEF Roomy, Targets
    <3>2. QED
      BY <1>1, <1>3, <2>2, <3>1 DEF NotifyStep, CanWrite
  <2>3. QED
    BY <2>1, <2>2
<1>6. ASSUME NEW d \in Clients PROVE SameSeat(d) /\ req'[d] = req[d]
  BY <1>5, SameMarksSeat DEF daemon, client
<1>7. ASSUME NEW d \in Clients, d # c \/ out' = out
      PROVE  out'[d] = out[d]
  BY <1>5, <1>7 DEF TypeOK, WireTypes, Put
<1>8. ASSUME NEW d \in Clients, d # c PROVE SameReplies(d) /\ Passes(d)
  BY <1>2, <1>4, <1>5, <1>6, <1>7, <1>8, TailPasses DEF SameReplies
<1>9. ASSUME open[c], live[c], Dialogue(c) PROVE Dialogue(c)'
  BY <1>2, <1>4, <1>5, <1>6, <1>9, RepliedDialogue DEF client
<1>10. ~open[c] => out'[c] = out[c]
  BY <1>5, <1>7
<1>11. \A d \in Clients : ~open[d] => out'[d] = out[d]
  BY <1>7, <1>10
<1>12. \A d \in Clients : open[d] /\ live[d] /\ Dialogue(d) =>
          Dialogue(d)' \/ (SameSeat(d) /\ SameReplies(d) /\ Passes(d))
  BY <1>6, <1>8, <1>9
<1>13. QED
  BY <1>2, <1>5, <1>11, <1>12, DaemonDialogues DEF daemon, client

LEMMA StepDialogues ==
    ASSUME TypeOK, Handler, Roomy, Kept, Dialogues, Step
    PROVE  Dialogues'
BY QueueDialogues, PeerDialogues, CopyDialogues, DrainPushDialogues, FlushDialogues, MarkDialogues,
   ParkDialogues, ReplyDialogues DEF Step

-----------------------------------------------------------------------------
(* The daemon takes a frame of client c.                                   *)

LEMMA NoneInTriple ==
    ASSUME NEW S, NEW x, NEW y, NEW z, z \notin S
    PROVE  /\ x \notin S /\ y \notin S => NoneOf(<<x, y, z>>, S)
           /\ x \in S /\ y \notin S => OneOf(<<x, y, z>>, S)
<1> DEFINE t == <<x, y, z>>
<1>1. DOMAIN t = {1, 2, 3} /\ t[1] = x /\ t[2] = y /\ t[3] = z
  OBVIOUS
<1> HIDE DEF t
<1>2. x \notin S /\ y \notin S => NoneOf(t, S)
  BY <1>1 DEF NoneOf
<1>3. x \in S /\ y \notin S => OneOf(t, S)
  BY <1>1 DEF OneOf
<1>4. QED
  BY <1>2, <1>3 DEF t

LEMMA LastInTriple ==
    ASSUME NEW S, NEW x, NEW y, NEW z, z \in S, x \notin S, y \notin S
    PROVE  OneOf(<<x, y, z>>, S)
<1> DEFINE t == <<x, y, z>>
<1>1. DOMAIN t = {1, 2, 3} /\ t[1] = x /\ t[2] = y /\ t[3] = z
  OBVIOUS
<1> HIDE DEF t
<1>2. OneOf(t, S)
  BY <1>1 DEF OneOf
<1>3. QED
  BY <1>2 DEF t

LEMMA NoneByTail ==
    ASSUME NEW U, NEW s \in Seq(U), s # << >>, NEW S, NoneOf(Tail(s), S)
    PROVE  /\ Head(s) \notin S => NoneOf(s, S)
           /\ Head(s) \in S => OneOf(s, S)
<1>1. /\ DOMAIN s = 1..Len(s) /\ Len(s) \in Nat /\ 1 \in DOMAIN s /\ Head(s) = s[1]
      /\ DOMAIN Tail(s) = 1..(Len(s) - 1)
  BY SequenceEnds
<1>2. ASSUME NEW i \in DOMAIN s, i # 1 PROVE s[i] \notin S
  <2>1. PICK h \in Nat : h = i - 1 /\ h \in DOMAIN Tail(s) /\ h + 1 = i
    BY <1>1, <1>2
  <2>2. Tail(s)[h] = s[i]
    BY <2>1, SequenceEnds
  <2>3. QED
    BY <2>1, <2>2 DEF NoneOf
<1>3. QED
  BY <1>1, <1>2 DEF NoneOf, OneOf

LEMMA HeadAsks ==
    ASSUME TypeOK, NEW c \in Clients, Dialogue(c), todo = << >>, in[c] # << >>
    PROVE  /\ Head(in[c]) \in Frames /\ Tail(in[c]) \in Seq(Frames)
           /\ Head(in[c]).op \in Asking =>
                 /\ Asked(c) /\ Tail(in[c]) = << >>
                 /\ Head(in[c]).op = req[c].op /\ Head(in[c]).ch = req[c].ch
                 /\ Head(in[c]).mode = req[c].mode
           /\ Head(in[c]).op \notin Asking => Quiet(c) \/ (Asked(c) /\ Tail(in[c]) # << >>)
<1> DEFINE s == in[c]
           n == Len(s)
<1>1. s \in Seq(Frames) /\ s # << >>
  BY DEF TypeOK, WireTypes
<1>2. /\ DOMAIN s = 1..n /\ n \in Nat /\ n > 0 /\ 1 \in DOMAIN s /\ Head(s) = s[1] /\ Head(s) \in Frames
      /\ Tail(s) \in Seq(Frames) /\ Len(Tail(s)) = n - 1
  BY <1>1, SequenceEnds
<1>3. Tail(s) = << >> <=> n = 1
  <2>1. PICK t \in Seq(Frames) : t = Tail(s)
    BY <1>2
  <2>2. t # << >> <=> Len(t) > 0
    BY SequenceEnds
  <2>3. Len(t) = n - 1 /\ n \in Nat
    BY <1>2, <2>1
  <2>4. t = << >> <=> n = 1
    <3> HIDE DEF n
    <3>1. Len(t) \in Nat /\ t = << >> => Len(t) = 0
      OBVIOUS
    <3>2. QED
      BY <2>2, <2>3, <3>1
  <2>5. QED
    BY <2>1, <2>4
<1>4. Quiet(c) \/ Asked(c)
  <2>1. ~OneOf(todo, Due(c))
    BY NoneInShort
  <2>2. QED
    BY <2>1 DEF Dialogue, Deciding, Offering, Answered
<1>5. Head(s) \in Askings <=> Head(s).op \in Asking
  BY <1>2 DEF Askings
<1>6. Head(s) \in Askings => ~Quiet(c)
  BY <1>2 DEF Quiet, NoneOf
<1>7. Asked(c) => /\ Head(s) \in Askings <=> 1 = n
                  /\ n = 1 => /\ Head(s).op = req[c].op /\ Head(s).ch = req[c].ch
                              /\ Head(s).mode = req[c].mode
  BY <1>2 DEF Asked
<1>8. QED
  BY <1>2, <1>3, <1>4, <1>5, <1>6, <1>7

LEMMA TailListens ==
    ASSUME TypeOK, NEW c \in Clients, in[c] # << >>, in'[c] = Tail(in[c]), req'[c] = req[c],
           handles'[c] = handles[c],
           \A k \in Channels : c \in Peers(k) => c \in Peers(k)' \/ Leaves(Head(in[c]), k)
    PROVE  /\ Attends(c) => Attends(c)'
           /\ Announces(c) => Announces(c)'
<1> DEFINE s == in[c]
<1>1. s \in Seq(Frames)
  BY DEF TypeOK, WireTypes
<1>4. PICK t : t = Tail(s) /\ in'[c] = t
  OBVIOUS
<1>2. \A i \in DOMAIN t : i \in Nat /\ i + 1 \in DOMAIN s /\ t[i] = s[i + 1]
  BY <1>1, <1>4, SequenceEnds
<1>3. \A i \in DOMAIN s : s[i].op = "RecvReady" => s[i].ch \in Channels
  BY <1>1 DEF Frames
<1>7. 1 \in DOMAIN s /\ s[1] = Head(s) /\ \A h \in DOMAIN s : h # 1 => 1 < h
  BY <1>1, SequenceEnds
<1>5. ASSUME Attends(c) PROVE Attends(c)'
  BY <1>2, <1>4, <1>5, <1>7 DEF Attends
<1>6. ASSUME Announces(c) PROVE Announces(c)'
  <2>1. SUFFICES ASSUME NEW i \in DOMAIN t, t[i].op = "RecvReady"
                 PROVE  /\ c \in Peers(t[i].ch)'
                        /\ \A j \in DOMAIN t : j < i => ~Leaves(t[j], t[i].ch)
    BY <1>4 DEF Announces
  <2>2. PICK h \in DOMAIN s : h = i + 1 /\ t[i] = s[h]
    BY <1>2
  <2>3. s[h].op = "RecvReady" /\ s[h].ch \in Channels
    BY <1>3, <2>1, <2>2
  <2>4. c \in Peers(s[h].ch) /\ \A j \in DOMAIN s : j < h => ~Leaves(s[j], s[h].ch)
    BY <1>6, <2>3 DEF Announces
  <2>5. PICK k \in Channels : k = s[h].ch
    BY <2>3
  <2>6. c \in Peers(k)'
    <3>1. 1 < h
      <4>1. i \in 1..Len(t) /\ i \in Nat
        BY <1>1, <1>2, <1>4, SequenceEnds
      <4>2. QED
        BY <2>2, <4>1
    <3>2. ~Leaves(s[1], k)
      BY <1>7, <2>4, <2>5, <3>1
    <3>3. QED
      BY <1>7, <2>4, <2>5, <3>2
  <2>7. ASSUME NEW j \in DOMAIN t, j < i PROVE ~Leaves(t[j], k)
    <3>1. PICK g \in DOMAIN s : g = j + 1 /\ t[j] = s[g]
      BY <1>2
    <3>2. i \in Nat /\ j \in Nat
      BY <1>2
    <3>3. g < h
      BY <2>2, <2>7, <3>1, <3>2
    <3>4. QED
      BY <2>4, <2>5, <3>1, <3>3
  <2>8. t[i].ch = k
    BY <2>2, <2>5
  <2>9. QED
    BY <2>6, <2>7, <2>8 DEF Peers, Attached
<1>8. QED
  BY <1>5, <1>6

(* The frame is one that asks for nothing: the phase of c stays.           *)
LEMMA TailDialogue ==
    ASSUME TypeOK, NEW c \in Clients, Dialogue(c), todo = << >>, in[c] # << >>,
           Head(in[c]).op \notin Asking, in'[c] = Tail(in[c]), req'[c] = req[c], out'[c] = out[c],
           NoOffer(c) => NoOffer(c)', NoneOf(todo', Due(c)'), Attends(c)', Announces(c)'
    PROVE  Dialogue(c)'
<1> DEFINE s == in[c]
           t == Tail(in[c])
<1>1. s \in Seq(Frames) /\ s # << >>
  BY DEF TypeOK, WireTypes
<1>2. Quiet(c) \/ (Asked(c) /\ t # << >>)
  BY HeadAsks
<1>3. CASE Quiet(c)
  <2>1. NoneOf(t, Askings)
    BY <1>1, <1>3, NoneInTail DEF Quiet
  <2>2. Quiet(c)'
    BY <1>3, <2>1 DEF Quiet
  <2>3. QED
    BY <2>2 DEF Dialogue
<1>4. CASE Asked(c) /\ t # << >>
  <2>1. t \in Seq(Frames) /\ Len(t) = Len(s) - 1 /\ Len(s) \in Nat
    BY <1>1, SequenceEnds
  <2>2. \A i \in DOMAIN t : i \in Nat /\ i + 1 \in DOMAIN s /\ t[i] = s[i + 1]
    BY <1>1, SequenceEnds
  <2>3. Len(t) \in DOMAIN t
    BY <1>4, <2>1, SequenceEnds
  <2>4. PICK n, m : n = Len(s) /\ m = Len(t)
    OBVIOUS
  <2> HIDE DEF t
  <2>5. t[m] = s[n] /\ m + 1 = n
    BY <2>1, <2>2, <2>3, <2>4
  <2>6. \A i \in DOMAIN t : t[i] \in Askings <=> i = m
    BY <1>4, <2>1, <2>2, <2>4, <2>5 DEF Asked
  <2>7. in'[c] = t
    BY DEF t
  <2>8. Asked(c)'
    BY <1>4, <2>4, <2>5, <2>6, <2>7 DEF Asked
  <2>9. QED
    BY <2>8 DEF Dialogue
<1>5. QED
  BY <1>2, <1>3, <1>4

(* The rest of what serving a frame of c does to the others.               *)
LEMMA TakenDialogues ==
    ASSUME TypeOK, Dialogues, NEW c \in Clients, live[c], status = "running", Take(c),
           UNCHANGED <<live, open, req, handles, out>>,
           open[c] /\ Dialogue(c) => Dialogue(c)',
           \A d \in Clients : d # c /\ Dialogue(d) =>
              Dialogue(d)' \/ (SameSeat(d) /\ Passes(d))
    PROVE  Dialogues'
<1>1. in \in [Clients -> Seq(Frames)]
  BY DEF TypeOK, WireTypes
<1>2. ASSUME NEW d \in Clients, d # c PROVE in'[d] = in[d]
  BY <1>1, <1>2 DEF Take
<1>3. ASSUME NEW d \in Clients PROVE Departed(d)'
  BY <1>2 DEF Dialogues, Departed
<1>4. ASSUME NEW d \in Clients, open[d], live[d] PROVE Dialogue(d)'
  <2>1. Dialogue(d)
    BY <1>4 DEF Dialogues
  <2>2. CASE d = c
    BY <1>4, <2>1, <2>2
  <2>3. CASE d # c /\ SameSeat(d) /\ Passes(d)
    <3>1. /\ in'[d] = in[d] /\ req'[d] = req[d] /\ handles'[d] = handles[d] /\ SameReplies(d)
      BY <1>2, <2>3 DEF SameReplies
    <3>2. QED
      BY <2>1, <2>3, <3>1, Bystander
  <2>4. QED
    BY <2>1, <2>2, <2>3
<1>5. QED
  BY <1>3, <1>4 DEF Dialogues

(* The request of c becomes an answer in the rest of its handler.          *)
LEMMA DecidingDialogue ==
    ASSUME TypeOK, NEW c \in Clients, Dialogue(c), todo = << >>, in[c] # << >>,
           Head(in[c]).op \in Asking, in'[c] = Tail(in[c]), req'[c] = req[c],
           handles'[c] = handles[c], out'[c] = out[c],
           \A k \in Channels : c \in Peers(k) => c \in Peers(k)',
           OneOf(todo', Due(c)'), NoneOf(todo', Amiss(c, Due(c))'), NoOffer(c)'
    PROVE  Dialogue(c)'
<1>1. Asked(c) /\ Tail(in[c]) = << >>
  BY HeadAsks
<1>2. Attends(c)' /\ Announces(c)'
  BY TailListens DEF Dialogue
<1>3. Deciding(c)'
  BY <1>1 DEF Deciding, Asked
<1>4. QED
  BY <1>2, <1>3 DEF Dialogue

(* The items that are no answer, and those that are.                       *)
LEMMA DueNext ==
    ASSUME NEW d
    PROVE  /\ \A x : x.do \notin {"answer", "notify"} => x \notin Due(d)'
           /\ \A op : Answer(op) \in Due(d)' => cur'.id = d
           /\ \A op \in {"Ack", "Error"} : cur'.id = d => Answer(op) \in Due(d)'
           /\ \A c, op : Notify(c, op) \in Due(d)' => c = d
           /\ \A op \in {"Accept", "Busy"} : d \in Clients => Notify(d, op) \in Due(d)'
           /\ \A op : Fits(d, op)' => /\ Answer(op) \notin Amiss(d, Due(d))'
                                      /\ Notify(d, op) \notin Amiss(d, Due(d))'
           /\ \A x : x \notin Due(d)' => x \notin Amiss(d, Due(d))'
<1>1. /\ \A x : x.do \notin {"answer", "notify"} => x \notin Due(d)'
      /\ \A x : x \notin Due(d)' => x \notin Amiss(d, Due(d))'
  BY DEF Due, Amiss
<1>2. /\ \A op : Answer(op) \in Due(d)' => cur'.id = d
      /\ \A op \in {"Ack", "Error"} : cur'.id = d => Answer(op) \in Due(d)'
  BY DEF Due, Answer, Items
<1>3. /\ \A c, op : Notify(c, op) \in Due(d)' => c = d
      /\ \A op \in {"Accept", "Busy"} : d \in Clients => Notify(d, op) \in Due(d)'
  BY DEF Due, Notify, Items
<1>4. \A op : Fits(d, op)' => /\ Answer(op) \notin Amiss(d, Due(d))'
                              /\ Notify(d, op) \notin Amiss(d, Due(d))'
  BY ItemKinds DEF Amiss
<1>5. QED
  BY <1>1, <1>2, <1>3, <1>4

(* A handler that answers c alone, with op.                                *)
Answering(c, op) ==
    /\ \A d \in Clients : d # c => NoneOf(todo', Due(d)')
    /\ OneOf(todo', Due(c)')
    /\ \A S : Answer(op) \notin S /\ (\A x : x \in S => x \in Due(c)') => NoneOf(todo', S)

LEMMA AnswersAlone ==
    ASSUME NEW c \in Clients, NEW op \in {"Ack", "Error"}, cur'.id = c,
           NEW x, x.do \notin {"answer", "notify"}, NEW y, y.do \notin {"answer", "notify"},
           todo' \in {<<Answer(op)>>, <<x, Answer(op)>>, <<Answer(op), x>>, <<x, y, Answer(op)>>}
    PROVE  Answering(c, op)
<1>1. PICK a : a = Answer(op)
  OBVIOUS
<1>2. PICK t : t = todo'
  OBVIOUS
<1>3. t \in {<<a>>, <<x, a>>, <<a, x>>, <<x, y, a>>}
  BY <1>1, <1>2
<1>4. ASSUME NEW S, a \in S, x \notin S, y \notin S PROVE OneOf(t, S)
  <2>1. OneOf(<<a>>, S) /\ OneOf(<<x, a>>, S) /\ OneOf(<<a, x>>, S)
    BY <1>4, NoneInShort
  <2>2. OneOf(<<x, y, a>>, S)
    BY <1>4, LastInTriple
  <2>3. QED
    BY <1>3, <2>1, <2>2
<1>5. ASSUME NEW S, a \notin S, x \notin S, y \notin S PROVE NoneOf(t, S)
  <2>1. NoneOf(<<a>>, S) /\ NoneOf(<<x, a>>, S) /\ NoneOf(<<a, x>>, S)
    BY <1>5, NoneInShort
  <2>2. NoneOf(<<x, y, a>>, S)
    BY <1>5, NoneInTriple
  <2>3. QED
    BY <1>3, <2>1, <2>2
<1>6. \A d : x \notin Due(d)' /\ y \notin Due(d)'
  BY DueNext
<1>7. a \in Due(c)' /\ \A d \in Clients : d # c => a \notin Due(d)'
  BY <1>1, DueNext
<1>8. /\ \A d \in Clients : d # c => NoneOf(t, Due(d)')
      /\ OneOf(t, Due(c)')
  BY <1>4, <1>5, <1>6, <1>7
<1>9. \A S : a \notin S /\ (\A z : z \in S => z \in Due(c)') => NoneOf(t, S)
  BY <1>5, <1>6
<1>10. QED
  BY <1>1, <1>2, <1>8, <1>9 DEF Answering

LEMMA AnswerPasses ==
    ASSUME NEW c \in Clients, NEW op, Answering(c, op), todo = << >>
    PROVE  /\ \A d \in Clients : d # c => Passes(d)
           /\ OneOf(todo', Due(c)')
           /\ Fits(c, op)' => NoneOf(todo', Amiss(c, Due(c))')
<1>1. \A d \in Clients : d # c => Passes(d)
  BY StartPasses DEF Answering
<1>2. ASSUME Fits(c, op)' PROVE NoneOf(todo', Amiss(c, Due(c))')
  <2>1. PICK S : S = Amiss(c, Due(c))'
    OBVIOUS
  <2>2. Answer(op) \notin S /\ \A x : x \in S => x \in Due(c)'
    BY <1>2, <2>1, DueNext
  <2>3. QED
    BY <2>1, <2>2 DEF Answering
<1>3. QED
  BY <1>1, <1>2 DEF Answering

LEMMA AttachAnswers ==
    ASSUME NEW c \in Clients, NEW m \in AllModes, cur'.id = c,
           todo' = <<Answer("Ack")>> \o Backlog(m) \o <<Todo("resume")>>
    PROVE  Answering(c, "Ack")
<1>1. PICK a, r : a = Answer("Ack") /\ r = Todo("resume")
  OBVIOUS
<1>2. PICK b : b = Backlog(m)
  OBVIOUS
<1>3. PICK l \in {"flush", "drain"} : b \in {<< >>, <<Todo(l)>>}
  BY <1>2 DEF Backlog, AllModes
<1>4. PICK q : q = Todo(l)
  OBVIOUS
<1>5. q.do \notin {"answer", "notify"} /\ r.do \notin {"answer", "notify"}
  BY <1>1, <1>4, ItemKinds
<1>6. PICK t : t = <<a>> \o b \o <<r>>
  OBVIOUS
<1> DEFINE U == {a, q, r}
<1>7. b \in Seq(U) /\ <<r>> \in Seq(U) /\ a \in U /\ q \in U
  <2>1. a \in U /\ q \in U /\ r \in U
    OBVIOUS
  <2> HIDE DEF U
  <2>2. <<r>> \in Seq(U) /\ <<q>> \in Seq(U) /\ << >> \in Seq(U)
    BY <2>1
  <2>3. QED
    BY <1>3, <1>4, <2>1, <2>2
<1>8. /\ t \in Seq(U) /\ t # << >> /\ Head(t) = a /\ Tail(t) = b \o <<r>>
  BY <1>6, <1>7, Joined
<1>9. ASSUME NEW S, q \notin S, r \notin S PROVE NoneOf(b \o <<r>>, S)
  <2>1. NoneOf(<<r>>, S)
    BY <1>9, NoneInShort
  <2>2. CASE b = << >>
    <3>1. b \o <<r>> = <<r>>
      BY <1>7, <2>2, Joined
    <3>2. QED
      BY <2>1, <3>1
  <2>3. CASE b = <<q>>
    BY <1>7, <1>9, <2>1, <2>3, NoneInPrefixed
  <2>4. QED
    BY <1>3, <1>4, <2>2, <2>3
<1> HIDE DEF U
<1>10. ASSUME NEW S, q \notin S, r \notin S
       PROVE  /\ a \in S => OneOf(t, S)
              /\ a \notin S => NoneOf(t, S)
  BY <1>8, <1>9, <1>10, NoneByTail
<1>11. \A d : q \notin Due(d)' /\ r \notin Due(d)'
  BY <1>5, DueNext
<1>12. a \in Due(c)' /\ \A d \in Clients : d # c => a \notin Due(d)'
  BY <1>1, DueNext
<1>13. /\ \A d \in Clients : d # c => NoneOf(t, Due(d)')
       /\ OneOf(t, Due(c)')
  BY <1>10, <1>11, <1>12
<1>14. \A S : a \notin S /\ (\A z : z \in S => z \in Due(c)') => NoneOf(t, S)
  BY <1>10, <1>11
<1>15. todo' = t
  BY <1>1, <1>2, <1>6
<1>16. QED
  BY <1>1, <1>13, <1>14, <1>15 DEF Answering

LEMMA AckNotEmpty ==
    ASSUME NEW m \in AllModes
    PROVE  /\ <<Answer("Ack")>> \o Backlog(m) \o <<Todo("resume")>> # << >>
           /\ <<Answer("Error"), Todo("resume")>> # << >>
<1> DEFINE U == {Answer("Ack"), Todo("resume"), Todo("flush"), Todo("drain")}
<1>1. \A x \in U : <<x>> \in Seq(U)
  OBVIOUS
<1>2. Answer("Ack") \in U /\ <<Todo("resume")>> \in Seq(U) /\ Backlog(m) \in Seq(U)
  <2>1. Todo("resume") \in U /\ Todo("flush") \in U /\ Todo("drain") \in U /\ Answer("Ack") \in U
    OBVIOUS
  <2> HIDE DEF U
  <2>2. << >> \in Seq(U)
    OBVIOUS
  <2>3. Backlog(m) \in {<< >>, <<Todo("flush")>>, <<Todo("drain")>>}
    BY DEF Backlog, AllModes
  <2>4. QED
    BY <1>1, <2>1, <2>2, <2>3
<1> HIDE DEF U
<1>3. QED
  BY <1>2, Joined, Tuples

LEMMA ServeAttachDialogues ==
    ASSUME TypeOK, Dialogues, NEW c \in Clients, ServeAttach(c)
    PROVE  Dialogues'
<1> DEFINE f == Head(in[c])
<1>1. /\ Idle /\ live[c] /\ in[c] # << >> /\ f.op = "Attach" /\ Take(c) /\ status = "running"
      /\ todo = << >> /\ UNCHANGED <<live, open, req, handles, out>>
  BY DEF ServeAttach, HasFrame, Idle, client
<1>2. PICK k \in Channels, m \in AllModes : k = f.ch /\ m = f.mode
  <2>1. f \in Frames
    BY <1>1, TakeType DEF TypeOK, ServeAttach
  <2>2. QED
    BY <1>1, <2>1 DEF Frames
<1>3. in'[c] = Tail(in[c])
  BY <1>1 DEF Take, TypeOK, WireTypes
<1>4. PICK op \in {"Ack", "Error"} :
        /\ Start(c, IF op = "Error" THEN <<Answer("Error"), Todo("resume")>>
                                    ELSE <<Answer("Ack")>> \o Backlog(m) \o <<Todo("resume")>>)
        /\ op = "Error" => chan' = chan
        /\ op = "Ack" => chan' = [chan EXCEPT ![k].list[m][c] = @ + 1]
  BY <1>2 DEF ServeAttach
<1>5. cur'.id = c /\ todo' # << >>
  BY <1>4, AckNotEmpty DEF Start, Serving
<1>6. Answering(c, op)
  <2>1. CASE op = "Ack"
    BY <1>2, <1>4, <1>5, <2>1, AttachAnswers DEF Start
  <2>2. CASE op = "Error"
    <3>1. Todo("resume").do \notin {"answer", "notify"}
      BY ItemKinds
    <3>2. todo' = <<Answer("Error"), Todo("resume")>>
      BY <1>4, <2>2 DEF Start
    <3>3. QED
      BY <1>5, <2>2, <3>1, <3>2, AnswersAlone
  <2>3. QED
    BY <2>1, <2>2
<1>7. \A j \in Channels, n \in AllModes, d \in Clients :
         chan'[j].list[n][d] = chan[j].list[n][d] \/ (j = k /\ n = m /\ d = c)
  BY <1>2, AttachGrows
<1>8. /\ \A j \in Channels : chan'[j].offer_from = chan[j].offer_from
      /\ op = "Ack" => chan'[k].list[m][c] = chan[k].list[m][c] + 1
  <2>1. chan \in [Channels -> ChannelStates] /\ chan[k] \in ChannelStates
    BY <1>2 DEF TypeOK, DaemonTypes
  <2>2. CASE chan' = [chan EXCEPT ![k].list[m][c] = @ + 1]
    <3>1. \A j \in Channels : j # k => chan'[j] = chan[j]
      BY <1>2, <2>1, <2>2
    <3>2. /\ chan[k].list \in [AllModes -> [Clients -> Nat]]
          /\ chan'[k].list = [chan[k].list EXCEPT ![m][c] = @ + 1]
          /\ chan'[k].offer_from = chan[k].offer_from
      BY <1>2, <2>1, <2>2 DEF ChannelStates
    <3>3. chan'[k].list[m][c] = chan[k].list[m][c] + 1
      <4>1. PICK l \in [AllModes -> [Clients -> Nat]] :
              chan[k].list = l /\ chan'[k].list = [l EXCEPT ![m][c] = @ + 1]
        BY <3>2
      <4>2. [l EXCEPT ![m][c] = @ + 1][m][c] = l[m][c] + 1
        BY <1>2
      <4>3. QED
        BY <4>1, <4>2
    <3>4. \A j \in Channels : chan'[j].offer_from = chan[j].offer_from
      BY <3>1, <3>2
    <3>5. QED
      BY <3>3, <3>4
  <2>3. CASE op = "Error"
    BY <1>4, <2>3
  <2>4. QED
    BY <1>4, <2>2, <2>3
<1>9. \A j \in Channels : c \in Peers(j) => c \in Peers(j)'
  <2>1. \A j \in Channels : /\ chan[j].list["ChannelPeer"][c] \in Nat
                            /\ chan'[j].list["ChannelPeer"][c] \in
                                  {chan[j].list["ChannelPeer"][c], chan[j].list["ChannelPeer"][c] + 1}
    <3>1. \A j \in Channels : chan[j].list["ChannelPeer"] \in [Clients -> Nat]
      BY ListType DEF TypeOK, AllModes
    <3>2. CASE op = "Ack"
      BY <1>7, <1>8, <3>1, <3>2 DEF AllModes
    <3>3. CASE op = "Error"
      BY <1>4, <3>1, <3>3
    <3>4. QED
      BY <3>2, <3>3
  <2>2. QED
    BY <2>1 DEF Peers, Attached
<1>10. ASSUME NEW d \in Clients, d # c PROVE SameSeat(d)
  BY <1>7, <1>8, <1>10 DEF SameSeat, Peers, Attached, AllModes
<1>11. ASSUME open[c], Dialogue(c) PROVE Dialogue(c)'
  <2>1. f.op \in Asking
    BY <1>1 DEF Asking
  <2>2. Asked(c) /\ req[c].op = "Attach" /\ req[c].ch = k /\ req[c].mode = m
    BY <1>1, <1>2, <1>11, <2>1, HeadAsks
  <2>3. op = "Ack" /\ m = "ChannelPeer" => c \in Peers(k)'
    <3>1. chan[k].list[m][c] \in Nat
      BY <1>2, ListType DEF TypeOK
    <3>2. op = "Ack" => chan'[k].list[m][c] > 0
      BY <1>8, <3>1
    <3>3. QED
      BY <3>2 DEF Peers, Attached
  <2>4. Fits(c, op)'
    <3>1. /\ req'[c].op = "Attach" /\ req'[c].ch = k /\ req'[c].mode = m
      BY <1>1, <2>2
    <3>2. ~Ignored(c, op)'
      BY <3>1 DEF Ignored, Asking
    <3>3. QED
      BY <2>3, <3>1, <3>2 DEF Fits, Peers, Attached
  <2>5. NoOffer(c)'
    BY <1>8, <2>2 DEF Asked, NoOffer
  <2>6. OneOf(todo', Due(c)') /\ NoneOf(todo', Amiss(c, Due(c))')
    BY <1>1, <1>6, <2>4, AnswerPasses
  <2>7. req'[c] = req[c] /\ handles'[c] = handles[c] /\ out'[c] = out[c]
    BY <1>1
  <2>8. QED
    BY <1>1, <1>3, <1>9, <1>11, <2>1, <2>5, <2>6, <2>7, DecidingDialogue
<1>12. \A d \in Clients : d # c => SameSeat(d) /\ Passes(d)
  BY <1>1, <1>6, <1>10, AnswerPasses
<1>13. QED
  BY <1>1, <1>11, <1>12, TakenDialogues

(* What the daemon starts on, when it takes a frame.                       *)
LEMMA StartServes ==
    ASSUME NEW c, NEW items, Start(c, items)
    PROVE  todo' = items /\ (items # << >> => cur'.id = c)
BY DEF Start, Serving

LEMMA ServePublishDialogues ==
    ASSUME TypeOK, Dialogues, NEW c \in Clients, ServePublish(c)
    PROVE  Dialogues'
<1> DEFINE f == Head(in[c])
<1>1. /\ live[c] /\ in[c] # << >> /\ f.op = "Publish" /\ Take(c) /\ status = "running"
      /\ todo = << >> /\ UNCHANGED <<live, open, req, handles, out, chan>>
  BY DEF ServePublish, HasFrame, Idle, client, daemon
<1>2. in'[c] = Tail(in[c])
  BY <1>1 DEF Take, TypeOK, WireTypes
<1>3. PICK x, y : /\ x.do \notin {"answer", "notify"} /\ y.do \notin {"answer", "notify"}
                  /\ Start(c, <<x, Answer("Ack")>>) \/ Start(c, <<x, y, Answer("Ack")>>)
  <2>1. CASE \E w \in {"park", "peer"} : Start(c, <<Todo(w), Answer("Ack")>>)
    <3>1. PICK w \in {"park", "peer"} : Start(c, <<Todo(w), Answer("Ack")>>)
      BY <2>1
    <3>2. Todo(w).do \notin {"answer", "notify"}
      BY ItemKinds
    <3>3. QED
      BY <3>1, <3>2
  <2>2. CASE \E p, l : Start(c, <<Copies(p, l), Queue(p), Answer("Ack")>>)
    <3>1. PICK p, l : Start(c, <<Copies(p, l), Queue(p), Answer("Ack")>>)
      BY <2>2
    <3>2. Copies(p, l).do = "copies" /\ Queue(p).do = "queue"
      BY ItemKinds
    <3>3. QED
      BY <3>1, <3>2
  <2>3. QED
    BY <2>1, <2>2 DEF ServePublish
<1>4. /\ todo' \in {<<x, Answer("Ack")>>, <<x, y, Answer("Ack")>>}
      /\ cur'.id = c
  <2>1. <<x, Answer("Ack")>> # << >> /\ <<x, y, Answer("Ack")>> # << >>
    BY Tuples
  <2>2. QED
    BY <1>3, <2>1, StartServes
<1>5. Answering(c, "Ack")
  BY <1>3, <1>4, AnswersAlone
<1>6. ASSUME NEW d \in Clients PROVE SameSeat(d)
  BY <1>1 DEF SameSeat, Peers, Attached
<1>7. ASSUME Dialogue(c) PROVE Dialogue(c)'
  <2>1. f.op \in Asking
    BY <1>1 DEF Asking
  <2>2. Asked(c) /\ req[c].op = "Publish"
    BY <1>1, <1>7, <2>1, HeadAsks
  <2>3. Fits(c, "Ack")'
    BY <1>1, <2>2 DEF Fits, Ignored
  <2>4. NoOffer(c)'
    BY <1>1, <2>2 DEF Asked, NoOffer
  <2>5. OneOf(todo', Due(c)') /\ NoneOf(todo', Amiss(c, Due(c))')
    BY <1>1, <1>5, <2>3, AnswerPasses
  <2>6. /\ req'[c] = req[c] /\ handles'[c] = handles[c] /\ out'[c] = out[c]
        /\ \A k \in Channels : c \in Peers(k) => c \in Peers(k)'
    BY <1>1, <1>6 DEF SameSeat
  <2>7. QED
    BY <1>1, <1>2, <1>7, <2>1, <2>4, <2>5, <2>6, DecidingDialogue
<1>8. \A d \in Clients : d # c => SameSeat(d) /\ Passes(d)
  BY <1>1, <1>5, <1>6, AnswerPasses
<1>9. QED
  BY <1>1, <1>7, <1>8, TakenDialogues

LEMMA OfferMarked ==
    ASSUME TypeOK, NEW k \in Channels, NEW v,
           \/ chan' = [chan EXCEPT ![k].offer_from = v]
           \/ chan' = [chan EXCEPT ![k].offer_from = v, ![k].recv_ready = None]
    PROVE  /\ \A j \in Channels : j # k => chan'[j].offer_from = chan[j].offer_from
           /\ chan'[k].offer_from = v
           /\ \A j \in Channels : chan'[j].list = chan[j].list
           /\ \A j \in Channels : Peers(j)' = Peers(j)
<1>1. chan \in [Channels -> ChannelStates] /\ chan[k] \in ChannelStates
  BY DEF TypeOK, DaemonTypes
<1>2. \A j \in Channels : j # k => chan'[j] = chan[j]
  BY <1>1
<1>3. chan'[k].offer_from = v /\ chan'[k].list = chan[k].list
  BY <1>1 DEF ChannelStates
<1>4. \A j \in Channels : chan'[j].list = chan[j].list
  BY <1>2, <1>3
<1>5. QED
  BY <1>2, <1>3, <1>4 DEF Peers, Attached

(* The client whose parked offer the daemon decides.                       *)
LEMMA OfferDecided ==
    ASSUME TypeOK, NEW o \in Clients, Dialogue(o), NEW k \in Channels, chan[k].offer_from = o,
           in'[o] = in[o], req'[o] = req[o], handles'[o] = handles[o], out'[o] = out[o],
           \A j \in Channels : Peers(j)' = Peers(j),
           \A j \in Channels : j # k => chan'[j].offer_from = chan[j].offer_from,
           chan'[k].offer_from # o, NEW op \in {"Accept", "Busy"}, OneOf(todo', Due(o)'),
           Fits(o, op)' => NoneOf(todo', Amiss(o, Due(o))')
    PROVE  Dialogue(o)'
<1>1. Offering(o)
  BY DEF Dialogue, Quiet, Asked, Deciding, Answered, NoOffer
<1>2. Fits(o, op)'
  BY <1>1 DEF Offering, Fits, Ignored
<1>3. NoOffer(o)'
  BY <1>1 DEF Offering, OneOffer, NoOffer
<1>4. Attends(o)' /\ Announces(o)'
  BY SameListens DEF Dialogue
<1>5. Deciding(o)'
  BY <1>1, <1>2, <1>3 DEF Offering, Deciding, Asking
<1>6. QED
  BY <1>4, <1>5 DEF Dialogue

LEMMA ServeOfferDialogues ==
    ASSUME TypeOK, Dialogues, NEW c \in Clients, ServeOffer(c)
    PROVE  Dialogues'
<1> DEFINE f == Head(in[c])
<1>1. /\ live[c] /\ in[c] # << >> /\ f.op = "Offer" /\ Take(c) /\ status = "running"
      /\ todo = << >> /\ UNCHANGED <<live, open, req, handles, out>>
  BY DEF ServeOffer, HasFrame, Idle, client
<1>2. PICK k \in Channels : k = f.ch
  <2>1. f \in Frames
    BY <1>1, TakeType DEF TypeOK, ServeOffer
  <2>2. QED
    BY <1>1, <2>1 DEF Frames
<1>3. in \in [Clients -> Seq(Frames)] /\ in'[c] = Tail(in[c])
  BY <1>1 DEF Take, TypeOK, WireTypes
<1>4. \A d \in Clients : d # c => in'[d] = in[d]
  BY <1>1, <1>3 DEF Take
<1>5. chan[k].offer_from \in Clients \union {None}
  BY <1>2 DEF TypeOK, DaemonTypes, ChannelStates
<1>6. \A d \in Clients : d # None
  BY NoneAssumption
<1>7. ASSUME Dialogue(c)
      PROVE  /\ f.op \in Asking /\ Asked(c) /\ Tail(in[c]) = << >> /\ req[c].op = "Offer" /\ NoOffer(c)
             /\ \A op \in {"Error", "Accept", "Busy"} : Fits(c, op)'
  <2>1. f.op \in Asking
    BY <1>1 DEF Asking
  <2>2. Asked(c) /\ req[c].op = "Offer" /\ Tail(in[c]) = << >>
    BY <1>1, <1>7, <2>1, HeadAsks
  <2>3. QED
    BY <1>1, <2>1, <2>2 DEF Asked, Fits, Ignored
<1>8. ASSUME \A j \in Channels : Peers(j)' = Peers(j),
             NEW op \in {"Error", "Accept", "Busy"}, NoOffer(c) => NoOffer(c)',
             OneOf(todo', Due(c)'), Fits(c, op)' => NoneOf(todo', Amiss(c, Due(c))'), Dialogue(c)
      PROVE  Dialogue(c)'
  BY <1>1, <1>3, <1>7, <1>8, DecidingDialogue
<1>9. CASE Start(c, <<Answer("Error")>>) /\ chan' = chan
  <2>1. todo' = <<Answer("Error")>> /\ cur'.id = c
    BY <1>9, Tuples, StartServes
  <2>2. Todo("resume").do \notin {"answer", "notify"}
    BY ItemKinds
  <2>3. Answering(c, "Error")
    BY <2>1, <2>2, AnswersAlone
  <2>4. \A d \in Clients : SameSeat(d)
    BY <1>9 DEF SameSeat, Peers, Attached
  <2>5. (\A j \in Channels : Peers(j)' = Peers(j)) /\ (NoOffer(c) => NoOffer(c)')
    BY <1>9 DEF Peers, Attached, NoOffer
  <2>6. Dialogue(c) => Dialogue(c)'
    BY <1>1, <1>8, <2>3, <2>5, AnswerPasses
  <2>7. \A d \in Clients : d # c => SameSeat(d) /\ Passes(d)
    BY <1>1, <2>3, <2>4, AnswerPasses
  <2>8. QED
    BY <1>1, <2>6, <2>7, TakenDialogues
<1>10. CASE /\ OtherOffered(k, c)
            /\ Start(c, <<Notify(c, "Busy"), Notify(chan[k].offer_from, "Busy")>>)
            /\ chan' = [chan EXCEPT ![k].offer_from = None]
  <2>1. PICK o \in Clients : o = chan[k].offer_from /\ o # c
    BY <1>5, <1>10 DEF OtherOffered
  <2>2. PICK a, b : a = Notify(c, "Busy") /\ b = Notify(o, "Busy")
    OBVIOUS
  <2>3. todo' = <<a, b>>
    BY <1>10, <2>1, <2>2, StartServes
  <2>4. /\ \A j \in Channels : j # k => chan'[j].offer_from = chan[j].offer_from
        /\ chan'[k].offer_from = None
        /\ \A j \in Channels : Peers(j)' = Peers(j)
    BY <1>10, OfferMarked
  <2>5. /\ a \in Due(c)' /\ b \in Due(o)'
        /\ \A d \in Clients : (d # c => a \notin Due(d)') /\ (d # o => b \notin Due(d)')
    BY <2>2, DueNext
  <2>6. /\ OneOf(todo', Due(c)') /\ OneOf(todo', Due(o)')
        /\ \A d \in Clients : d \notin {c, o} => NoneOf(todo', Due(d)')
    BY <2>1, <2>3, <2>5, NoneInShort
  <2>7. ASSUME NEW d \in {c, o}, Fits(d, "Busy")' PROVE NoneOf(todo', Amiss(d, Due(d))')
    <3>1. a \notin Amiss(d, Due(d))' /\ b \notin Amiss(d, Due(d))'
      BY <2>1, <2>2, <2>5, <2>7, DueNext
    <3>2. QED
      BY <2>3, <3>1, NoneInShort
  <2>8. NoOffer(c) => NoOffer(c)'
    BY <1>6, <2>4 DEF NoOffer
  <2>9. Dialogue(c) => Dialogue(c)'
    BY <1>8, <2>4, <2>6, <2>7, <2>8
  <2>10. Dialogue(o) => Dialogue(o)'
    <3>1. /\ in'[o] = in[o] /\ req'[o] = req[o] /\ handles'[o] = handles[o] /\ out'[o] = out[o]
          /\ chan'[k].offer_from # o
      BY <1>1, <1>4, <1>6, <2>1, <2>4
    <3>2. QED
      BY <2>1, <2>4, <2>6, <2>7, <3>1, OfferDecided
  <2>11. ASSUME NEW d \in Clients, d \notin {c, o} PROVE SameSeat(d) /\ Passes(d)
    BY <1>1, <1>6, <2>1, <2>4, <2>6, <2>11, StartPasses DEF SameSeat
  <2>12. QED
    BY <1>1, <2>9, <2>10, <2>11, TakenDialogues
<1>11. CASE /\ ~OtherOffered(k, c) /\ Start(c, <<Notify(c, "Accept")>>)
            /\ chan' = [chan EXCEPT ![k].offer_from = None, ![k].recv_ready = None]
  <2>1. PICK a : a = Notify(c, "Accept")
    OBVIOUS
  <2>2. todo' = <<a>>
    BY <1>11, <2>1, StartServes
  <2>3. /\ \A j \in Channels : j # k => chan'[j].offer_from = chan[j].offer_from
        /\ chan'[k].offer_from = None
        /\ \A j \in Channels : Peers(j)' = Peers(j)
    BY <1>11, OfferMarked
  <2>4. a \in Due(c)' /\ \A d \in Clients : d # c => a \notin Due(d)'
    BY <2>1, DueNext
  <2>5. OneOf(todo', Due(c)') /\ \A d \in Clients : d # c => NoneOf(todo', Due(d)')
    BY <2>2, <2>4, NoneInShort
  <2>6. ASSUME Fits(c, "Accept")' PROVE NoneOf(todo', Amiss(c, Due(c))')
    <3>1. a \notin Amiss(c, Due(c))'
      BY <2>1, <2>6, DueNext
    <3>2. QED
      BY <2>2, <3>1, NoneInShort
  <2>7. NoOffer(c) => NoOffer(c)'
    BY <1>6, <2>3 DEF NoOffer
  <2>8. Dialogue(c) => Dialogue(c)'
    BY <1>8, <2>3, <2>5, <2>6, <2>7
  <2>9. ASSUME NEW d \in Clients, d # c PROVE SameSeat(d) /\ Passes(d)
    BY <1>1, <1>6, <1>11, <2>3, <2>5, <2>9, StartPasses DEF SameSeat, OtherOffered
  <2>10. QED
    BY <1>1, <2>8, <2>9, TakenDialogues
<1>12. CASE /\ ~OtherOffered(k, c) /\ Start(c, << >>)
            /\ chan' = [chan EXCEPT ![k].offer_from = c]
  <2>1. todo' = << >> /\ \A S : NoneOf(todo', S)
    <3>1. todo' = << >>
      BY <1>12, StartServes
    <3>2. QED
      BY <3>1, NoneInShort
  <2>2. /\ \A j \in Channels : j # k => chan'[j].offer_from = chan[j].offer_from
        /\ chan'[k].offer_from = c
        /\ \A j \in Channels : Peers(j)' = Peers(j)
    BY <1>12, OfferMarked
  <2>3. ASSUME Dialogue(c) PROVE Dialogue(c)'
    <3>1. Attends(c)' /\ Announces(c)'
      BY <1>1, <1>3, <2>2, <2>3, TailListens DEF Dialogue
    <3>2. OneOffer(c)'
      BY <1>7, <2>2, <2>3 DEF NoOffer, OneOffer
    <3>3. Offering(c)'
      BY <1>1, <1>3, <1>7, <2>1, <2>3, <3>2 DEF Offering, Asked
    <3>4. QED
      BY <3>1, <3>3 DEF Dialogue
  <2>4. ASSUME NEW d \in Clients, d # c PROVE SameSeat(d) /\ Passes(d)
    BY <1>1, <1>6, <1>12, <2>1, <2>2, <2>4, StartPasses DEF SameSeat, OtherOffered
  <2>5. QED
    BY <1>1, <2>3, <2>4, TakenDialogues
<1>13. QED
  BY <1>2, <1>9, <1>10, <1>11, <1>12 DEF ServeOffer

LEMMA Tripled ==
    ASSUME NEW a, NEW x, NEW y
    PROVE  <<a>> \o <<x, y>> = <<a, x, y>>
<1> DEFINE U == {a, x, y}
           p == <<x, y>>
           q == <<a>>
           l == q \o p
           r == <<a, x, y>>
<1>1. p \in Seq(U) /\ Len(p) = 2 /\ p[1] = x /\ p[2] = y /\ q \in Seq(U) /\ Len(q) = 1 /\ q[1] = a
  OBVIOUS
<1>2. r \in Seq(U) /\ Len(r) = 3 /\ r[1] = a /\ r[2] = x /\ r[3] = y
  OBVIOUS
<1> HIDE DEF p, q, U, r
<1>3. l \in Seq(U) /\ Len(l) = 3 /\ l[1] = a /\ l[2] = p[1] /\ l[3] = p[2]
  <2>1. ASSUME NEW V, NEW u \in Seq(V), NEW w \in Seq(V)
        PROVE  /\ u \o w \in Seq(V) /\ Len(u \o w) = Len(u) + Len(w)
               /\ \A i \in 1..(Len(u) + Len(w)) :
                     (u \o w)[i] = IF i <= Len(u) THEN u[i] ELSE w[i - Len(u)]
    OBVIOUS
  <2>2. l \in Seq(U) /\ Len(l) = 3 /\ \A i \in 1..3 : l[i] = IF i <= 1 THEN q[i] ELSE p[i - 1]
    BY <1>1, <2>1
  <2>3. QED
    BY <1>1, <2>2
<1> HIDE DEF l
<1>4. l = r
  BY <1>1, <1>2, <1>3
<1>5. QED
  BY <1>4 DEF l, r, p, q

LEMMA ServeRecvReadyDialogues ==
    ASSUME TypeOK, Dialogues, NEW c \in Clients, ServeRecvReady(c)
    PROVE  Dialogues'
<1> DEFINE f == Head(in[c])
<1>1. /\ live[c] /\ in[c] # << >> /\ f.op = "RecvReady" /\ Take(c) /\ status = "running"
      /\ todo = << >> /\ UNCHANGED <<live, open, req, handles, out>>
  BY DEF ServeRecvReady, HasFrame, Idle, client
<1>2. PICK k \in Channels : k = f.ch
  <2>1. f \in Frames
    BY <1>1, TakeType DEF TypeOK, ServeRecvReady
  <2>2. QED
    BY <1>1, <2>1 DEF Frames
<1>3. in \in [Clients -> Seq(Frames)] /\ in'[c] = Tail(in[c])
  BY <1>1 DEF Take, TypeOK, WireTypes
<1>4. \A d \in Clients : d # c => in'[d] = in[d]
  BY <1>1, <1>3 DEF Take
<1>5. chan[k].offer_from \in Clients \union {None}
  BY <1>2 DEF TypeOK, DaemonTypes, ChannelStates
<1>6. \A d \in Clients : d # None
  BY NoneAssumption
<1>7. Dialogue(c) => c \in Peers(k)
  <2>1. 1 \in DOMAIN in[c] /\ in[c][1] = f
    BY <1>1, <1>3, SequenceEnds
  <2>2. QED
    BY <1>1, <1>2, <2>1 DEF Dialogue, Announces
<1>8. ASSUME Dialogue(c), \A j \in Channels : Peers(j)' = Peers(j),
             NoOffer(c) => NoOffer(c)', NoneOf(todo', Due(c)')
      PROVE  Dialogue(c)'
  <2>1. f.op \notin Asking
    BY <1>1 DEF Asking
  <2>2. Attends(c)' /\ Announces(c)'
    BY <1>1, <1>3, <1>8, TailListens DEF Dialogue
  <2>3. req'[c] = req[c] /\ out'[c] = out[c]
    BY <1>1
  <2>4. QED
    BY <1>1, <1>3, <1>8, <2>1, <2>2, <2>3, TailDialogue
<1>9. PICK x, y : /\ x = Todo("drain") /\ y = Todo("announce")
                  /\ x.do \notin {"answer", "notify"} /\ y.do \notin {"answer", "notify"}
  BY ItemKinds
<1>10. \A d : x \notin Due(d)' /\ y \notin Due(d)'
  BY <1>9, DueNext
<1>11. CASE c \notin Peers(k) /\ Start(c, <<Answer("Error")>>) /\ chan' = chan
  <2>1. todo' = <<Answer("Error")>> /\ cur'.id = c
    BY <1>11, Tuples, StartServes
  <2>2. Answering(c, "Error")
    BY <1>9, <2>1, AnswersAlone
  <2>3. \A d \in Clients : SameSeat(d)
    BY <1>11 DEF SameSeat, Peers, Attached
  <2>4. \A d \in Clients : d # c => SameSeat(d) /\ Passes(d)
    BY <1>1, <2>2, <2>3, AnswerPasses
  <2>5. QED
    BY <1>1, <1>7, <1>11, <2>4, TakenDialogues
<1>12. CASE Start(c, <<x, y>>) /\ chan' = chan
  <2>1. todo' = <<x, y>>
    BY <1>12, StartServes
  <2>2. \A d : NoneOf(todo', Due(d)')
    BY <1>10, <2>1, NoneInShort
  <2>3. \A d \in Clients : SameSeat(d)
    BY <1>12 DEF SameSeat, Peers, Attached
  <2>4. (\A j \in Channels : Peers(j)' = Peers(j)) /\ (NoOffer(c) => NoOffer(c)')
    BY <1>12 DEF Peers, Attached, NoOffer
  <2>5. Dialogue(c) => Dialogue(c)'
    BY <1>8, <2>2, <2>4
  <2>6. \A d \in Clients : d # c => SameSeat(d) /\ Passes(d)
    BY <1>1, <2>2, <2>3, StartPasses
  <2>7. QED
    BY <1>1, <2>5, <2>6, TakenDialogues
<1>13. CASE /\ OtherOffered(k, c)
            /\ Start(c, <<Notify(chan[k].offer_from, "Accept")>> \o <<x, y>>)
            /\ chan' = [chan EXCEPT ![k].offer_from = None]
  <2>1. PICK o \in Clients : o = chan[k].offer_from /\ o # c
    BY <1>5, <1>13 DEF OtherOffered
  <2>2. PICK a : a = Notify(o, "Accept")
    OBVIOUS
  <2>3. todo' = <<a, x, y>>
    <3>1. todo' = <<a>> \o <<x, y>>
      BY <1>13, <2>1, <2>2, StartServes
    <3>2. QED
      BY <3>1, Tripled
  <2>4. /\ \A j \in Channels : j # k => chan'[j].offer_from = chan[j].offer_from
        /\ chan'[k].offer_from = None
        /\ \A j \in Channels : Peers(j)' = Peers(j)
    BY <1>13, OfferMarked
  <2>5. a \in Due(o)' /\ \A d \in Clients : d # o => a \notin Due(d)'
    BY <2>2, DueNext
  <2>6. OneOf(todo', Due(o)') /\ \A d \in Clients : d # o => NoneOf(todo', Due(d)')
    BY <1>10, <2>3, <2>5, NoneInTriple
  <2>7. ASSUME Fits(o, "Accept")' PROVE NoneOf(todo', Amiss(o, Due(o))')
    <3>1. a \notin Amiss(o, Due(o))' /\ x \notin Amiss(o, Due(o))' /\ y \notin Amiss(o, Due(o))'
      BY <1>10, <2>2, <2>7, DueNext
    <3>2. QED
      BY <2>3, <3>1, NoneInTriple
  <2>8. NoOffer(c) => NoOffer(c)'
    BY <1>6, <2>4 DEF NoOffer
  <2>9. Dialogue(c) => Dialogue(c)'
    BY <1>8, <2>1, <2>4, <2>6, <2>8
  <2>10. Dialogue(o) => Dialogue(o)'
    <3>1. /\ in'[o] = in[o] /\ req'[o] = req[o] /\ handles'[o] = handles[o] /\ out'[o] = out[o]
          /\ chan'[k].offer_from # o
      BY <1>1, <1>4, <1>6, <2>1, <2>4
    <3>2. QED
      BY <2>1, <2>4, <2>6, <2>7, <3>1, OfferDecided
  <2>11. ASSUME NEW d \in Clients, d \notin {c, o} PROVE SameSeat(d) /\ Passes(d)
    BY <1>1, <1>6, <2>1, <2>4, <2>6, <2>11, StartPasses DEF SameSeat
  <2>12. QED
    BY <1>1, <2>9, <2>10, <2>11, TakenDialogues
<1>14. QED
  BY <1>2, <1>9, <1>11, <1>12, <1>13 DEF ServeRecvReady

LEMMA WithoutSeat ==
    ASSUME NEW s \in ChannelStates, NEW c \in Clients
    PROVE  /\ \A m \in AllModes, d \in Clients : d # c => WithoutClient(s, c).list[m][d] = s.list[m][d]
           /\ \A d \in Clients : d # c =>
                 (WithoutClient(s, c).offer_from = d <=> s.offer_from = d)
           /\ WithoutClient(s, c).offer_from # c
BY NoneAssumption DEF WithoutClient, ChannelStates

LEMMA ServeDetachDialogues ==
    ASSUME TypeOK, Dialogues, NEW c \in Clients, ServeDetach(c)
    PROVE  Dialogues'
<1> DEFINE f == Head(in[c])
<1>1. /\ live[c] /\ in[c] # << >> /\ f.op = "Detach" /\ Take(c) /\ status = "running"
      /\ todo = << >> /\ UNCHANGED <<live, open, req, handles, out>>
  BY DEF ServeDetach, HasFrame, Idle, client
<1>2. PICK k \in Channels : k = f.ch
  <2>1. f \in Frames
    BY <1>1, TakeType DEF TypeOK, ServeDetach
  <2>2. QED
    BY <1>1, <2>1 DEF Frames
<1>3. in'[c] = Tail(in[c])
  BY <1>1 DEF Take, TypeOK, WireTypes
<1>4. todo' = << >>
  BY StartServes DEF ServeDetach
<1>5. \A S : NoneOf(todo', S)
  BY <1>4, NoneInShort
<1>6. /\ chan[k] \in ChannelStates /\ chan'[k] = WithoutClient(chan[k], c)
      /\ \A j \in Channels : j # k => chan'[j] = chan[j]
  <2>1. chan \in [Channels -> ChannelStates]
    BY DEF TypeOK, DaemonTypes
  <2>2. chan' = [chan EXCEPT ![k] = WithoutClient(@, c)]
    BY <1>2 DEF ServeDetach
  <2>3. QED
    BY <2>1, <2>2
<1>7. ASSUME NEW d \in Clients, d # c PROVE SameSeat(d) /\ Passes(d)
  <2>1. \A j \in Channels : /\ chan'[j].list["ChannelPeer"][d] = chan[j].list["ChannelPeer"][d]
                            /\ chan'[j].offer_from = d <=> chan[j].offer_from = d
    BY <1>6, <1>7, WithoutSeat DEF AllModes
  <2>2. SameSeat(d)
    BY <2>1 DEF SameSeat, Peers, Attached
  <2>3. QED
    BY <1>1, <1>5, <2>2, StartPasses
<1>8. ASSUME Dialogue(c) PROVE Dialogue(c)'
  <2>1. f.op \notin Asking
    BY <1>1 DEF Asking
  <2>2. \A j \in Channels : c \in Peers(j) => c \in Peers(j)' \/ Leaves(f, j)
    <3>1. \A j \in Channels : j # k => Peers(j)' = Peers(j)
      BY <1>6 DEF Peers, Attached
    <3>2. QED
      BY <1>1, <1>2, <3>1 DEF Leaves
  <2>3. Attends(c)' /\ Announces(c)'
    BY <1>1, <1>3, <1>8, <2>2, TailListens DEF Dialogue
  <2>4. NoOffer(c) => NoOffer(c)'
    BY <1>6, WithoutSeat DEF NoOffer
  <2>5. req'[c] = req[c] /\ out'[c] = out[c]
    BY <1>1
  <2>6. QED
    BY <1>1, <1>3, <1>5, <1>8, <2>1, <2>3, <2>4, <2>5, TailDialogue
<1>9. QED
  BY <1>1, <1>7, <1>8, TakenDialogues

(* The connection of c is over: it leaves the daemon's tables.             *)
LEMMA ClosingDialogues ==
    ASSUME TypeOK, Dialogues, NEW c \in Clients, CloseClient(c, chan),
           UNCHANGED <<status, cur, todo, out, open, req, handles>>
    PROVE  Dialogues'
<1>1. /\ in \in [Clients -> Seq(Frames)] /\ live \in [Clients -> BOOLEAN]
      /\ chan \in [Channels -> ChannelStates]
  BY DEF TypeOK, DaemonTypes, WireTypes
<1>2. /\ live'[c] = FALSE /\ in'[c] = << >>
      /\ \A d \in Clients : d # c => live'[d] = live[d] /\ in'[d] = in[d]
  BY <1>1 DEF CloseClient
<1>3. \A j \in Channels : chan'[j] \in {chan[j], WithoutClient(chan[j], c)}
  BY DEF CloseClient
<1>4. ASSUME NEW d \in Clients, d # c, Dialogue(d) PROVE Dialogue(d)'
  <2>1. \A j \in Channels : /\ chan'[j].list["ChannelPeer"][d] = chan[j].list["ChannelPeer"][d]
                            /\ chan'[j].offer_from = d <=> chan[j].offer_from = d
    <3>1. SUFFICES ASSUME NEW j \in Channels
                   PROVE  /\ chan'[j].list["ChannelPeer"][d] = chan[j].list["ChannelPeer"][d]
                          /\ chan'[j].offer_from = d <=> chan[j].offer_from = d
      OBVIOUS
    <3>2. chan[j] \in ChannelStates /\ "ChannelPeer" \in AllModes
      BY <1>1 DEF AllModes
    <3>3. CASE chan'[j] = WithoutClient(chan[j], c)
      BY <1>4, <3>2, <3>3, WithoutSeat
    <3>4. QED
      BY <1>3, <3>3
  <2>2. SameSeat(d)
    BY <2>1 DEF SameSeat, Peers, Attached
  <2>3. req'[d] = req[d] /\ handles'[d] = handles[d] /\ SameReplies(d) /\ in'[d] = in[d]
    BY <1>2, <1>4 DEF SameReplies
  <2>4. Passes(d)
    BY <2>2, <2>3, SamePasses
  <2>5. QED
    BY <1>4, <2>2, <2>3, <2>4, Bystander
<1>5. ASSUME NEW d \in Clients PROVE Departed(d)'
  BY <1>2 DEF Dialogues, Departed
<1>6. QED
  BY <1>2, <1>4, <1>5 DEF Dialogues

LEMMA ServeDialogues ==
    ASSUME TypeOK, Dialogues, NEW c \in Clients, Serve(c) \/ HangUp(c)
    PROVE  Dialogues'
<1>1. CASE ServeBye(c) \/ HangUp(c)
  BY <1>1, ClosingDialogues DEF ServeBye, HangUp, client
<1>2. QED
  BY <1>1, ServeAttachDialogues, ServeDetachDialogues, ServePublishDialogues, ServeOfferDialogues,
     ServeRecvReadyDialogues DEF Serve

-----------------------------------------------------------------------------
(* The clients.                                                            *)

(* A step of client c is none of the others.                               *)
LEMMA OthersDialogues ==
    ASSUME TypeOK, Dialogues, NEW c \in Clients, UNCHANGED <<status, cur, todo, chan>>,
           \A d \in Clients : d # c => /\ in'[d] = in[d] /\ live'[d] = live[d] /\ open'[d] = open[d]
                                       /\ req'[d] = req[d] /\ handles'[d] = handles[d]
                                       /\ out'[d] = out[d],
           Departed(c)', status = "running" /\ open'[c] /\ live'[c] => Dialogue(c)'
    PROVE  Dialogues'
<1>1. ASSUME NEW d \in Clients PROVE Departed(d)'
  BY DEF Dialogues, Departed
<1>2. ASSUME NEW d \in Clients, d # c, Dialogue(d) PROVE Dialogue(d)'
  <2>1. SameSeat(d) /\ SameReplies(d)
    BY <1>2 DEF SameSeat, Peers, Attached, SameReplies
  <2>2. Passes(d)
    BY <1>2, <2>1, SamePasses
  <2>3. in'[d] = in[d] /\ req'[d] = req[d] /\ handles'[d] = handles[d]
    BY <1>2
  <2>4. QED
    BY <1>2, <2>1, <2>2, <2>3, Bystander
<1>3. QED
  BY <1>1, <1>2 DEF Dialogues

LEMMA AskedNext ==
    ASSUME TypeOK, NEW c \in Clients, NEW f \in Frames, f.op \in Asking,
           in'[c] = Append(in[c], f), UNCHANGED <<cur, todo, chan>>,
           req'[c].op = f.op, req'[c].ch = f.ch, req'[c].mode = f.mode,
           NoneOf(in[c], Askings), NoneOf(todo, Due(c)), NoOffer(c), NoneOf(out'[c], Answers)
    PROVE  Asked(c)'
<1>1. in[c] \in Seq(Frames)
  BY DEF TypeOK, WireTypes
<1>2. PICK s \in Seq(Frames), n \in Nat : s = in[c] /\ n = Len(s) + 1
  BY <1>1, SequenceEnds
<1>3. PICK t \in Seq(Frames) : t = Append(s, f) /\ in'[c] = t
  <2>1. Append(s, f) \in Seq(Frames)
    BY SequenceEnds
  <2>2. QED
    BY <1>2, <2>1
<1>4. /\ Len(t) = n /\ DOMAIN t = 1..n /\ t[n] = f /\ t # << >> /\ n > 0
      /\ \A i \in DOMAIN t : i # n => i \in DOMAIN s /\ t[i] = s[i]
  <2>1. /\ Len(t) = Len(s) + 1 /\ t[Len(s) + 1] = f /\ \A i \in DOMAIN s : t[i] = s[i]
        /\ Len(s) \in Nat /\ DOMAIN s = 1..Len(s) /\ DOMAIN t = 1..Len(t)
        /\ t # << >> <=> Len(t) > 0
    BY <1>3, SequenceEnds
  <2>2. QED
    BY <1>2, <2>1
<1>5. f \in Askings
  BY DEF Askings
<1>6. \A i \in DOMAIN t : t[i] \in Askings <=> i = n
  BY <1>2, <1>4, <1>5 DEF NoneOf
<1>7. NoneOf(todo', Due(c)') /\ NoOffer(c)'
  BY DEF Due, NoOffer
<1>8. QED
  BY <1>3, <1>4, <1>6, <1>7 DEF Asked

LEMMA QuietNext ==
    ASSUME TypeOK, NEW c \in Clients, UNCHANGED <<cur, todo, chan>>,
           \/ in'[c] = in[c]
           \/ \E f \in Frames : f.op \notin Asking /\ in'[c] = Append(in[c], f),
           req'[c].op \notin Asking,
           NoneOf(in[c], Askings), NoneOf(todo, Due(c)), NoOffer(c), NoneOf(out'[c], Answers)
    PROVE  Quiet(c)'
<1>1. in[c] \in Seq(Frames)
  BY DEF TypeOK, WireTypes
<1>2. ASSUME NEW f \in Frames, f.op \notin Asking, in'[c] = Append(in[c], f)
      PROVE  NoneOf(in'[c], Askings)
  <2>1. f \notin Askings
    BY <1>2 DEF Askings
  <2>2. QED
    BY <1>1, <1>2, <2>1, NoneInAppend
<1>3. NoneOf(in'[c], Askings)
  BY <1>2
<1>4. NoneOf(todo', Due(c)') /\ NoOffer(c)'
  BY DEF Due, NoOffer
<1>5. QED
  BY <1>3, <1>4 DEF Quiet

(* What a client has sent the daemon will read after all that came before. *)
LEMMA SentListens ==
    ASSUME TypeOK, NEW c \in Clients, Announces(c), UNCHANGED chan,
           NEW f \in Frames, in'[c] = Append(in[c], f),
           f.op = "RecvReady" =>
              c \in Peers(f.ch) /\ \A i \in DOMAIN in[c] : ~Leaves(in[c][i], f.ch),
           \A k \in Channels : handles'[c][k]["ChannelPeer"] > 0 =>
              \/ req'[c].op = "Attach" /\ req'[c].ch = k
              \/ c \in Peers(k) /\ ~Leaves(f, k) /\ \A i \in DOMAIN in[c] : ~Leaves(in[c][i], k)
    PROVE  Attends(c)' /\ Announces(c)'
<1>1. in[c] \in Seq(Frames)
  BY DEF TypeOK, WireTypes
<1>2. PICK s \in Seq(Frames), n \in Nat : s = in[c] /\ n = Len(s) + 1
  BY <1>1, SequenceEnds
<1>3. PICK t \in Seq(Frames) : t = Append(s, f) /\ in'[c] = t
  <2>1. Append(s, f) \in Seq(Frames)
    BY SequenceEnds
  <2>2. QED
    BY <1>2, <2>1
<1>4. /\ DOMAIN t = 1..n /\ DOMAIN s = 1..(n - 1) /\ t[n] = f
      /\ \A i \in DOMAIN s : t[i] = s[i]
  <2>1. /\ Len(t) = Len(s) + 1 /\ t[Len(s) + 1] = f /\ \A i \in DOMAIN s : t[i] = s[i]
        /\ Len(s) \in Nat /\ DOMAIN s = 1..Len(s) /\ DOMAIN t = 1..Len(t)
    BY <1>3, SequenceEnds
  <2>2. QED
    BY <1>2, <2>1
<1>5. \A k : Peers(k)' = Peers(k)
  BY DEF Peers, Attached
<1>6. \A k : (\A i \in DOMAIN s : ~Leaves(s[i], k)) /\ ~Leaves(f, k) => \A i \in DOMAIN t : ~Leaves(t[i], k)
  BY <1>4
<1>7. Attends(c)'
  BY <1>2, <1>3, <1>5, <1>6 DEF Attends
<1>8. ASSUME NEW i \in DOMAIN t, t[i].op = "RecvReady"
      PROVE  /\ c \in Peers(t[i].ch)
             /\ \A j \in DOMAIN t : j < i => ~Leaves(t[j], t[i].ch)
  <2>1. CASE i = n
    <3>1. t[i] = f
      BY <1>4, <2>1
    <3>2. \A j \in DOMAIN t : j < i => j \in DOMAIN s
      BY <1>4, <2>1
    <3>3. QED
      BY <1>2, <1>4, <1>8, <3>1, <3>2
  <2>2. CASE i # n
    <3>1. i \in DOMAIN s /\ t[i] = s[i] /\ \A j \in DOMAIN t : j < i => j \in DOMAIN s /\ t[j] = s[j]
      BY <1>4, <2>2
    <3>2. QED
      BY <1>2, <1>8, <3>1 DEF Announces
  <2>3. QED
    BY <2>1, <2>2
<1>9. Announces(c)'
  BY <1>3, <1>5, <1>8 DEF Announces
<1>10. QED
  BY <1>7, <1>9

(* A client that may send waits for nothing.                               *)
LEMMA SenderQuiet ==
    ASSUME TypeOK, Dialogues, NEW c \in Clients, status = "running", live[c], open[c],
           req[c].op \notin Asking
    PROVE  Dialogue(c) /\ Quiet(c) /\ Departed(c)
<1>1. Departed(c) /\ Dialogue(c)
  BY DEF Dialogues
<1>2. Quiet(c)
  BY <1>1 DEF Dialogue, Asked, Deciding, Offering, Answered, Asking
<1>3. QED
  BY <1>1, <1>2

LEMMA MaySend ==
    ASSUME NEW c, CanSend(c)
    PROVE  status = "running" /\ live[c] /\ open[c] /\ req[c].op = "None" /\ req[c].op \notin Asking
BY DEF CanSend, NoReq, Frame, Asking

LEMMA SentByOne ==
    ASSUME TypeOK, NEW c \in Clients, NEW f, Send(c, f), live[c]
    PROVE  in'[c] = Append(in[c], f) /\ \A d \in Clients : d # c => in'[d] = in[d]
BY DEF Send, TypeOK, WireTypes

(* A request that waits for a reply.                                       *)
LEMMA AskDialogues ==
    ASSUME TypeOK, Dialogues, NEW c \in Clients, status = "running", live[c], open[c],
           req[c].op \notin Asking, NEW f \in Frames, f.op \in Asking,
           Send(c, f), UNCHANGED <<status, cur, todo, chan, live, open, out>>,
           NEW r \in Requests, req' = [req EXCEPT ![c] = r],
           r.op = f.op, r.ch = f.ch, r.mode = f.mode,
           \A d \in Clients : d # c => handles'[d] = handles[d],
           \A k \in Channels : \/ r.op = "Attach" /\ r.ch = k
                               \/ handles'[c][k]["ChannelPeer"] = handles[c][k]["ChannelPeer"]
    PROVE  Dialogues'
<1>1. Dialogue(c) /\ Quiet(c) /\ Departed(c)
  BY SenderQuiet
<1>2. in'[c] = Append(in[c], f) /\ \A d \in Clients : d # c => in'[d] = in[d]
  BY SentByOne
<1>3. req'[c] = r /\ \A d \in Clients : d # c => req'[d] = req[d]
  BY DEF TypeOK, ClientTypes
<1>4. Asked(c)'
  BY <1>1, <1>2, <1>3, AskedNext DEF Quiet
<1>5. Attends(c)' /\ Announces(c)'
  <2>1. f.op # "RecvReady" /\ \A k : ~Leaves(f, k)
    BY DEF Asking, Leaves
  <2>2. \A k \in Channels : handles'[c][k]["ChannelPeer"] > 0 =>
              \/ req'[c].op = "Attach" /\ req'[c].ch = k
              \/ c \in Peers(k) /\ ~Leaves(f, k) /\ \A i \in DOMAIN in[c] : ~Leaves(in[c][i], k)
    BY <1>1, <1>3, <2>1 DEF Dialogue, Attends, Asking
  <2>3. QED
    BY <1>1, <1>2, <2>1, <2>2, SentListens DEF Dialogue
<1>6. Dialogue(c)'
  BY <1>4, <1>5 DEF Dialogue
<1>7. Departed(c)'
  BY <1>1 DEF Departed
<1>8. QED
  BY <1>2, <1>3, <1>6, <1>7, OthersDialogues

LEMMA SendPublishDialogues ==
    ASSUME TypeOK, Dialogues, NEW c \in Clients, NEW k \in Channels,
           SendPublish(c, k) \/ SendOffer(c, k)
    PROVE  Dialogues'
<1>1. PICK p : p = [from |-> c, n |-> sent + 1]
  OBVIOUS
<1>2. p \in Payloads
  BY <1>1, BoundsAssumption DEF SendPublish, SendOffer, Payloads, TypeOK, HistoryTypes
<1>3. PICK op, f, r :
        /\ op \in {"Publish", "Offer"}
        /\ f = Frame(op, k, None, IF op = "Publish" THEN p ELSE None)
        /\ r = Frame(op, k, None, p)
        /\ CanSend(c) /\ Send(c, f) /\ req' = [req EXCEPT ![c] = r]
        /\ UNCHANGED <<status, cur, todo, chan, live, open, out, handles>>
  BY <1>1 DEF SendPublish, SendOffer, daemon
<1>4. /\ f \in Frames /\ r \in Requests /\ f.op \in Asking
      /\ r.op = f.op /\ r.ch = f.ch /\ r.mode = f.mode
  BY <1>2, <1>3 DEF Frame, Frames, Requests, Asking
<1>5. QED
  BY <1>3, <1>4, MaySend, AskDialogues

LEMMA SendAttachDialogues ==
    ASSUME TypeOK, Dialogues, NEW c \in Clients, NEW k \in Channels, NEW m \in AllModes,
           SendAttach(c, k, m)
    PROVE  Dialogues'
<1>1. PICK f : f = Frame("Attach", k, m, None)
  OBVIOUS
<1>2. /\ f \in Frames /\ f \in Requests /\ f.op \in Asking /\ f.op = "Attach" /\ f.ch = k
  BY <1>1 DEF Frame, Frames, Requests, Asking
<1>3. /\ CanSend(c) /\ Send(c, f) /\ req' = [req EXCEPT ![c] = f]
      /\ UNCHANGED <<status, cur, todo, chan, live, open, out>>
      /\ handles' = [handles EXCEPT ![c][k][m] = @ + 1]
  BY <1>1 DEF SendAttach, daemon
<1>4. /\ \A d \in Clients : d # c => handles'[d] = handles[d]
      /\ \A j \in Channels : j # k => handles'[c][j] = handles[c][j]
  BY <1>3 DEF TypeOK, ClientTypes
<1>5. /\ status = "running" /\ live[c] /\ open[c] /\ req[c].op \notin Asking
      /\ \A j \in Channels : \/ f.op = "Attach" /\ f.ch = j
                             \/ handles'[c][j]["ChannelPeer"] = handles[c][j]["ChannelPeer"]
  BY <1>2, <1>3, <1>4, MaySend
<1>6. QED
  BY <1>2, <1>3, <1>4, <1>5, AskDialogues

(* A frame that nothing answers.                                           *)
LEMMA TellDialogues ==
    ASSUME TypeOK, Dialogues, NEW c \in Clients, CanSend(c), NEW f \in Frames, f.op \notin Asking,
           Send(c, f), UNCHANGED <<status, cur, todo, chan, live, open, out>>,
           req'[c].op \notin Asking, \A d \in Clients : d # c => req'[d] = req[d],
           \A d \in Clients : d # c => handles'[d] = handles[d],
           f.op = "RecvReady" =>
              c \in Peers(f.ch) /\ \A i \in DOMAIN in[c] : ~Leaves(in[c][i], f.ch),
           \A k \in Channels : handles'[c][k]["ChannelPeer"] > 0 =>
              handles[c][k]["ChannelPeer"] > 0 /\ ~Leaves(f, k)
    PROVE  Dialogues'
<1>1. /\ status = "running" /\ live[c] /\ open[c] /\ req[c].op = "None"
      /\ Dialogue(c) /\ Quiet(c) /\ Departed(c)
  BY MaySend, SenderQuiet
<1>2. in'[c] = Append(in[c], f) /\ \A d \in Clients : d # c => in'[d] = in[d]
  BY <1>1, SentByOne
<1>3. Quiet(c)'
  BY <1>1, <1>2, QuietNext DEF Quiet
<1>4. Attends(c)' /\ Announces(c)'
  <2>1. \A k \in Channels : handles'[c][k]["ChannelPeer"] > 0 =>
              c \in Peers(k) /\ ~Leaves(f, k) /\ \A i \in DOMAIN in[c] : ~Leaves(in[c][i], k)
    BY <1>1 DEF Dialogue, Attends
  <2>2. QED
    BY <1>1, <1>2, <2>1, SentListens DEF Dialogue
<1>5. Dialogue(c)'
  BY <1>3, <1>4 DEF Dialogue
<1>6. Departed(c)'
  BY <1>1 DEF Departed
<1>7. QED
  BY <1>2, <1>5, <1>6, OthersDialogues

LEMMA SendOtherDialogues ==
    ASSUME TypeOK, Dialogues, OneHandle, NEW c \in Clients, NEW k \in Channels, NEW m \in AllModes,
           SendDetach(c, k, m) \/ SendRecvReady(c, k)
    PROVE  Dialogues'
<1>1. CanSend(c)
  BY DEF SendDetach, SendRecvReady
<1>2. Dialogue(c) /\ req[c].op = "None" /\ "None" \notin Asking
  BY <1>1, MaySend, SenderQuiet DEF Asking
<1>3. CASE SendDetach(c, k, m)
  <2>1. PICK f : f = Frame("Detach", k, m, None)
    OBVIOUS
  <2>2. f \in Frames /\ f.op = "Detach" /\ f.ch = k
    BY <2>1 DEF Frame, Frames
  <2>3. /\ Send(c, f) /\ UNCHANGED <<status, cur, todo, chan, live, open, out, req>>
        /\ handles' = [handles EXCEPT ![c][k][m] = @ - 1] /\ handles[c][k][m] > 0
    BY <1>3, <2>1 DEF SendDetach, daemon
  <2>4. /\ \A d \in Clients : d # c => handles'[d] = handles[d]
        /\ \A j \in Channels : j # k => handles'[c][j] = handles[c][j]
        /\ handles'[c][k] = [handles[c][k] EXCEPT ![m] = @ - 1]
        /\ handles[c][k] \in [AllModes -> Nat]
    BY <2>3 DEF TypeOK, ClientTypes
  <2>5. ~(handles'[c][k]["ChannelPeer"] > 0)
    BY <2>3, <2>4 DEF OneHandle, AllModes
  <2>6. \A j \in Channels : handles'[c][j]["ChannelPeer"] > 0 =>
              handles[c][j]["ChannelPeer"] > 0 /\ ~Leaves(f, j)
    BY <2>2, <2>4, <2>5 DEF Leaves
  <2>7. f.op \notin Asking /\ f.op # "RecvReady" /\ req'[c].op \notin Asking
    BY <1>2, <2>2, <2>3 DEF Asking
  <2>8. QED
    BY <1>1, <2>2, <2>3, <2>4, <2>6, <2>7, TellDialogues
<1>4. CASE SendRecvReady(c, k)
  <2>1. PICK f : f = Frame("RecvReady", k, None, None)
    OBVIOUS
  <2>2. f \in Frames /\ f.op = "RecvReady" /\ f.ch = k
    BY <2>1 DEF Frame, Frames
  <2>3. /\ Send(c, f) /\ UNCHANGED <<status, cur, todo, chan, live, open, out, req, handles>>
        /\ handles[c][k]["ChannelPeer"] > 0
    BY <1>4, <2>1 DEF SendRecvReady, daemon, client
  <2>4. c \in Peers(k) /\ \A i \in DOMAIN in[c] : ~Leaves(in[c][i], k)
    BY <1>2, <2>3 DEF Dialogue, Attends
  <2>5. f.op \notin Asking /\ req'[c].op \notin Asking /\ \A j : ~Leaves(f, j)
    BY <1>2, <2>2, <2>3 DEF Asking, Leaves
  <2>6. QED
    BY <1>1, <2>2, <2>3, <2>4, <2>5, TellDialogues
<1>5. QED
  BY <1>3, <1>4

LEMMA SendByeDialogues ==
    ASSUME TypeOK, Dialogues, NEW c \in Clients, SendBye(c)
    PROVE  Dialogues'
<1>1. PICK f : f = Frame("Bye", None, None, None)
  OBVIOUS
<1>2. f \in Frames /\ f.op = "Bye"
  BY <1>1 DEF Frame, Frames
<1>3. /\ Send(c, f) /\ UNCHANGED <<status, cur, todo, chan, live, open, out, handles>>
      /\ req' = [req EXCEPT ![c] = f]
  BY <1>1 DEF SendBye, daemon
<1>4. req'[c] = f /\ \A d \in Clients : d # c => req'[d] = req[d]
  BY <1>3 DEF TypeOK, ClientTypes
<1>5. f.op \notin Asking /\ req'[c].op \notin Asking /\ \A j : ~Leaves(f, j)
  BY <1>2, <1>4 DEF Asking, Leaves
<1>6. CanSend(c) /\ req[c].op = "None"
  BY MaySend DEF SendBye
<1>7. QED
  BY <1>2, <1>3, <1>4, <1>5, <1>6, TellDialogues

(* A client that backs off waits for nothing until it offers again.        *)
LEMMA RetryOfferDialogues ==
    ASSUME TypeOK, Dialogues, NEW c \in Clients, RetryOffer(c)
    PROVE  Dialogues'
<1>1. PICK f, r : /\ f = Frame("Offer", req[c].ch, None, None)
                  /\ r = [req[c] EXCEPT !.op = "Offer"]
  OBVIOUS
<1>2. /\ req[c] \in Requests /\ req[c].op = "Backoff" /\ req[c].op \notin Asking
      /\ status = "running" /\ live[c] /\ open[c] /\ Send(c, f) /\ req' = [req EXCEPT ![c] = r]
      /\ UNCHANGED <<cur, todo, chan, live, open, out, handles, status>>
  BY <1>1 DEF RetryOffer, daemon, TypeOK, ClientTypes, Asking
<1>3. /\ f \in Frames /\ r \in Requests /\ f.op \in Asking
      /\ r.op = f.op /\ r.ch = f.ch /\ r.mode = f.mode
  BY <1>1, <1>2 DEF Frame, Frames, Requests, Asking
<1>4. QED
  BY <1>2, <1>3, AskDialogues

LEMMA ConnectDialogues ==
    ASSUME TypeOK, Dialogues, NoGhosts, NEW c \in Clients, Connect(c)
    PROVE  Dialogues'
<1>1. /\ todo = << >> /\ ~live[c] /\ ~open[c]
      /\ UNCHANGED <<status, cur, todo, chan, in, out, req, handles>>
      /\ \A d \in Clients : d # c => live'[d] = live[d] /\ open'[d] = open[d]
      /\ live'[c] /\ open'[c]
  BY DEF Connect, Idle, TypeOK, DaemonTypes, ClientTypes
<1>2. /\ in[c] = << >> /\ out[c] = << >> /\ req[c] = NoReq
      /\ \A k \in Channels : handles[c][k]["ChannelPeer"] = 0
  BY <1>1 DEF Dialogues, Departed
<1>3. NoOffer(c)
  BY <1>1, NoneAssumption DEF NoOffer, NoGhosts, Peers, Attached, AllModes
<1>4. NoneOf(in[c], Askings) /\ NoneOf(todo, Due(c)) /\ NoneOf(out[c], Answers)
  <2>1. \A s : s = << >> => \A S : NoneOf(s, S)
    BY DEF NoneOf
  <2>2. QED
    BY <1>1, <1>2, <2>1
<1>5. req'[c].op \notin Asking
  BY <1>1, <1>2 DEF NoReq, Frame, Asking
<1>6. Quiet(c)'
  BY <1>1, <1>3, <1>4, <1>5, QuietNext
<1>7. Attends(c)' /\ Announces(c)'
  BY <1>1, <1>2 DEF Attends, Announces
<1>8. Dialogue(c)' /\ Departed(c)'
  BY <1>1, <1>6, <1>7 DEF Dialogue, Departed
<1>9. QED
  BY <1>1, <1>8, OthersDialogues

LEMMA CloseEndDialogues ==
    ASSUME TypeOK, Dialogues, NEW c \in Clients, CloseEnd(c)
    PROVE  Dialogues'
<1>1. /\ UNCHANGED <<status, cur, todo, chan, in, live>>
      /\ \A d \in Clients : d # c => /\ open'[d] = open[d] /\ out'[d] = out[d]
                                      /\ req'[d] = req[d] /\ handles'[d] = handles[d]
      /\ ~open'[c] /\ req'[c] = NoReq /\ out'[c] = << >>
      /\ handles'[c] = [k \in Channels |-> [m \in AllModes |-> 0]]
  BY DEF CloseEnd, daemon, TypeOK, ClientTypes, WireTypes
<1>2. \A k \in Channels : handles'[c][k]["ChannelPeer"] = 0
  BY <1>1 DEF AllModes
<1>3. Departed(c)'
  BY <1>1, <1>2 DEF Dialogues, Departed
<1>4. QED
  BY <1>1, <1>3, OthersDialogues

(* A frame of the daemon that the client reads: if it is a reply, it is    *)
(* the one that the client waits for.                                      *)
LEMMA HeadReplies ==
    ASSUME TypeOK, NEW c \in Clients, Dialogue(c), out[c] # << >>, out'[c] = Tail(out[c])
    PROVE  /\ Ignored(c, Head(out[c]).op) => Head(out[c]).op \notin Replies
           /\ Head(out[c]).op \notin Replies => \A S : S \subseteq Answers =>
                 /\ NoneOf(out[c], S) => NoneOf(out'[c], S)
                 /\ OneOf(out[c], S) => OneOf(out'[c], S)
           /\ Head(out[c]).op \in Replies =>
                 Answered(c) /\ Fits(c, Head(out[c]).op) /\ NoneOf(out'[c], Answers)
<1> DEFINE s == out[c]
           f == Head(s)
<1>1. /\ s \in Seq(HubFrames) /\ f \in HubFrames /\ 1 \in DOMAIN s /\ s[1] = f
  BY SequenceEnds DEF TypeOK, WireTypes
<1>2. f \in Answers <=> f.op \in Replies
  BY <1>1 DEF Answers
<1>3. ASSUME f.op \in Replies
      PROVE  Answered(c) /\ Fits(c, f.op) /\ NoneOf(out'[c], Answers)
  <2>1. ~NoneOf(s, Answers)
    BY <1>1, <1>2, <1>3 DEF NoneOf
  <2>2. Answered(c)
    BY <2>1 DEF Dialogue, Quiet, Asked, Deciding, Offering
  <2>3. Fits(c, f.op)
    BY <1>1, <1>2, <1>3, <2>2 DEF Answered, NoneOf, Amiss
  <2>4. NoneOf(Tail(s), Answers)
    <3>1. PICK t : t = Tail(s)
      OBVIOUS
    <3>2. \A i \in DOMAIN t : i \in Nat /\ i + 1 \in DOMAIN s /\ t[i] = s[i + 1]
      BY <1>1, <3>1, SequenceEnds
    <3>3. \A i \in DOMAIN t : i + 1 # 1
      <4>1. DOMAIN t = 1..Len(t) /\ Len(t) \in Nat
        BY <1>1, <3>1, SequenceEnds
      <4>2. QED
        BY <4>1
    <3>4. NoneOf(t, Answers)
      <4>1. \A j \in DOMAIN s : s[j] \in Answers => j = 1
        BY <1>1, <1>2, <1>3, <2>2 DEF Answered, OneOf
      <4>2. QED
        BY <3>2, <3>3, <4>1 DEF NoneOf
    <3>5. QED
      BY <3>1, <3>4
  <2>5. QED
    BY <2>2, <2>3, <2>4
<1>4. ASSUME f.op \notin Replies, NEW S, S \subseteq Answers
      PROVE  /\ NoneOf(s, S) => NoneOf(Tail(s), S)
             /\ OneOf(s, S) => OneOf(Tail(s), S)
  <2>1. f \notin S
    BY <1>2, <1>4
  <2>2. QED
    BY <1>1, <2>1, NoneInTail
<1>5. Ignored(c, f.op) => f.op \notin Replies
  BY <1>3 DEF Fits
<1>6. QED
  BY <1>3, <1>4, <1>5

(* A frame that answers nothing.                                           *)
LEMMA ReadIgnored ==
    ASSUME TypeOK, NEW c \in Clients, Dialogue(c), out[c] # << >>, out'[c] = Tail(out[c]),
           Ignored(c, Head(out[c]).op), UNCHANGED <<cur, todo, chan>>,
           in'[c] = in[c], req'[c] = req[c], handles'[c] = handles[c]
    PROVE  Dialogue(c)'
<1>1. \A S : S \subseteq Answers => /\ NoneOf(out[c], S) => NoneOf(out'[c], S)
                                    /\ OneOf(out[c], S) => OneOf(out'[c], S)
  BY HeadReplies
<1>2. Due(c)' = Due(c) /\ (NoOffer(c)' <=> NoOffer(c)) /\ (OneOffer(c)' <=> OneOffer(c))
  BY DEF Due, NoOffer, OneOffer
<1>3. \A k \in Channels : c \in Peers(k)' <=> c \in Peers(k)
  BY DEF Peers, Attached
<1>4. \A S : Amiss(c, S)' = Amiss(c, S)
  BY <1>3, SameFits
<1>5. /\ NoneOf(out[c], Answers) => NoneOf(out'[c], Answers)
      /\ OneOf(out[c], Answers) => OneOf(out'[c], Answers)
      /\ NoneOf(out[c], Amiss(c, Answers)) => NoneOf(out'[c], Amiss(c, Answers)')
  <2>1. Amiss(c, Answers) \subseteq Answers
    BY DEF Amiss
  <2>2. Amiss(c, Answers)' = Amiss(c, Answers)
    BY <1>4 DEF Answers
  <2>3. QED
    BY <1>1, <2>1, <2>2
<1>6. Amiss(c, Due(c))' = Amiss(c, Due(c))
  BY <1>2, <1>3, SameFits DEF Amiss
<1>7. Attends(c)' /\ Announces(c)'
  BY <1>3, SameListens DEF Dialogue
<1>8. Quiet(c) => Quiet(c)'
  BY <1>2, <1>5 DEF Quiet
<1>9. Asked(c) => Asked(c)'
  BY <1>2, <1>5 DEF Asked
<1>10. Deciding(c) => Deciding(c)'
  BY <1>2, <1>5, <1>6 DEF Deciding
<1>11. Offering(c) => Offering(c)'
  BY <1>2, <1>5 DEF Offering
<1>12. Answered(c) => Answered(c)'
  BY <1>2, <1>5 DEF Answered
<1>13. QED
  BY <1>7, <1>8, <1>9, <1>10, <1>11, <1>12 DEF Dialogue

(* The reply to a request: the client waits for nothing, or asks again.    *)
LEMMA ReplyRead ==
    ASSUME TypeOK, OneHandle, NEW c \in Clients, Dialogue(c), live[c], ReadFrame(c),
           out'[c] = Tail(out[c]), ~Ignored(c, Head(out[c]).op)
    PROVE  Dialogue(c)'
<1> DEFINE op == Head(out[c]).op
           r == req[c]
<1>1. /\ UNCHANGED <<cur, todo, chan>> /\ out[c] # << >> /\ r \in Requests
      /\ req \in [Clients -> Requests] /\ handles \in [Clients -> [Channels -> [AllModes -> Nat]]]
      /\ r.op = "Attach" => handles[c][r.ch][r.mode] > 0
  BY DEF ReadFrame, daemon, TypeOK, ClientTypes
<1>2. op \in Replies
  BY DEF Ignored, Replies
<1>3. Answered(c) /\ Fits(c, op) /\ NoneOf(out'[c], Answers)
  BY <1>1, <1>2, HeadReplies
<1>4. /\ in[c] = << >> /\ NoneOf(todo, Due(c)) /\ NoOffer(c) /\ Attends(c) /\ Announces(c)
      /\ NoneOf(in[c], Askings)
  <2>1. in[c] = << >> /\ NoneOf(todo, Due(c)) /\ NoOffer(c) /\ Attends(c) /\ Announces(c)
    BY <1>3 DEF Answered, Dialogue
  <2>2. QED
    BY <2>1 DEF NoneOf
<1>5. ASSUME in'[c] = in[c], req'[c].op \notin Asking PROVE Quiet(c)'
  BY <1>1, <1>3, <1>4, <1>5, QuietNext
<1>6. ASSUME in'[c] = in[c] PROVE Announces(c)'
  BY <1>4, <1>6 DEF Announces
<1>7. CASE /\ r.op = "Publish" \/ (r.op = "Attach" /\ op = "Ack")
           /\ req' = [req EXCEPT ![c] = NoReq] /\ UNCHANGED <<handles, in>>
  <2>1. Quiet(c)'
    BY <1>1, <1>5, <1>7 DEF NoReq, Frame, Asking
  <2>2. ASSUME NEW k \in Channels, handles[c][k]["ChannelPeer"] > 0 PROVE c \in Peers(k)
    <3>1. CASE r.op = "Attach" /\ op = "Ack" /\ r.ch = k
      <4>1. r.mode \in AllModes
        BY <1>1, <3>1 DEF Requests
      <4>2. r.mode = "ChannelPeer"
        BY <1>1, <2>2, <3>1, <4>1 DEF OneHandle
      <4>3. QED
        BY <1>3, <3>1, <4>2 DEF Fits
    <3>2. CASE ~(r.op = "Attach" /\ r.ch = k)
      BY <1>4, <2>2, <3>2 DEF Attends
    <3>3. QED
      BY <1>7, <3>1, <3>2
  <2>3. Attends(c)'
    BY <1>1, <1>4, <1>7, <2>2 DEF Attends, Peers, Attached
  <2>4. Announces(c)'
    BY <1>6, <1>7
  <2>5. QED
    BY <2>1, <2>3, <2>4 DEF Dialogue
<1>8. CASE /\ r.op = "Attach" /\ op = "Error"
           /\ req' = [req EXCEPT ![c] = NoReq]
           /\ handles' = [handles EXCEPT ![c][r.ch][r.mode] = @ - 1]
           /\ Send(c, Frame("Detach", r.ch, r.mode, None))
  <2>1. PICK k, m, f :
          /\ k \in Channels /\ k = r.ch
          /\ m \in AllModes /\ m = r.mode
          /\ f = Frame("Detach", r.ch, r.mode, None)
    BY <1>1, <1>8 DEF Requests
  <2>2. f \in Frames /\ f.op = "Detach" /\ f.ch = k /\ f.op \notin Asking
    BY <2>1 DEF Frame, Frames, Asking
  <2>3. in'[c] = Append(in[c], f)
    BY <1>8, <2>1, SentByOne
  <2>4. req'[c].op \notin Asking
    BY <1>1, <1>8 DEF NoReq, Frame, Asking
  <2>5. Quiet(c)'
    BY <1>1, <1>3, <1>4, <2>2, <2>3, <2>4, QuietNext
  <2>6. /\ \A j \in Channels : j # k => handles'[c][j] = handles[c][j]
        /\ handles'[c][k] = [handles[c][k] EXCEPT ![m] = @ - 1]
        /\ handles[c][k] \in [AllModes -> Nat] /\ handles[c][k][m] > 0
        /\ k \in Channels /\ m \in AllModes
    BY <1>1, <1>8, <2>1
  <2>7. ~(handles'[c][k]["ChannelPeer"] > 0)
    BY <2>6 DEF OneHandle, AllModes
  <2>8. ASSUME NEW j \in Channels, handles'[c][j]["ChannelPeer"] > 0
        PROVE  c \in Peers(j) /\ ~Leaves(f, j)
    <3>1. j # k /\ handles[c][j]["ChannelPeer"] > 0
      BY <2>6, <2>7, <2>8
    <3>2. QED
      BY <1>4, <2>1, <2>2, <3>1 DEF Attends, Leaves
  <2>9. \A i \in DOMAIN in[c] : \A j : ~Leaves(in[c][i], j)
    BY <1>4
  <2>10. Attends(c)' /\ Announces(c)'
    BY <1>1, <1>4, <2>2, <2>3, <2>8, <2>9, SentListens
  <2>11. QED
    BY <2>5, <2>10 DEF Dialogue
<1>9. CASE /\ r.op = "Offer" /\ req' = [req EXCEPT ![c] = [@ EXCEPT !.op = "Backoff"]]
           /\ UNCHANGED <<handles, in>>
  <2>1. req'[c].op = "Backoff" /\ "Backoff" \notin Asking
    BY <1>1, <1>9 DEF Requests, Asking
  <2>2. Quiet(c)'
    BY <1>5, <1>9, <2>1
  <2>3. Attends(c)'
    BY <1>1, <1>4, <1>9 DEF Attends, Peers, Attached
  <2>4. Announces(c)'
    BY <1>6, <1>9
  <2>5. QED
    BY <2>2, <2>3, <2>4 DEF Dialogue
<1>10. CASE /\ r.op = "Offer" /\ req' = [req EXCEPT ![c] = [@ EXCEPT !.op = "Publish"]]
            /\ Send(c, Frame("Publish", r.ch, None, r.pay)) /\ UNCHANGED handles
  <2>1. PICK f : f = Frame("Publish", r.ch, None, r.pay)
    OBVIOUS
  <2>2. /\ f \in Frames /\ f.op = "Publish" /\ f.ch = r.ch /\ f.mode = r.mode
        /\ f.op \in Asking /\ \A j : ~Leaves(f, j)
    BY <1>1, <1>10, <2>1 DEF Frame, Frames, Requests, Asking, Leaves
  <2>3. in'[c] = Append(in[c], f)
    BY <1>10, <2>1, SentByOne
  <2>4. req'[c].op = "Publish" /\ req'[c].ch = r.ch /\ req'[c].mode = r.mode
    BY <1>1, <1>10 DEF Requests
  <2>5. Asked(c)'
    BY <1>1, <1>3, <1>4, <2>2, <2>3, <2>4, AskedNext
  <2>6. \A j \in Channels : handles'[c][j]["ChannelPeer"] > 0 =>
           c \in Peers(j) /\ ~Leaves(f, j) /\ \A i \in DOMAIN in[c] : ~Leaves(in[c][i], j)
    BY <1>4, <1>10, <2>2 DEF Attends
  <2>7. Attends(c)' /\ Announces(c)'
    BY <1>1, <1>4, <2>2, <2>3, <2>6, SentListens
  <2>8. QED
    BY <2>5, <2>7 DEF Dialogue
<1>11. QED
  BY <1>7, <1>8, <1>9, <1>10 DEF ReadFrame

LEMMA ReadFrameDialogues ==
    ASSUME TypeOK, Dialogues, OneHandle, NEW c \in Clients, ReadFrame(c)
    PROVE  Dialogues'
<1>1. /\ open[c] /\ out[c] # << >> /\ UNCHANGED <<status, cur, todo, chan, live, open>>
      /\ out'[c] = Tail(out[c])
  BY DEF ReadFrame, daemon, TypeOK, WireTypes
<1>2. /\ in' = in \/ \E f : Send(c, f)
      /\ req' = req \/ \E r : req' = [req EXCEPT ![c] = r]
      /\ \/ handles' = handles
         \/ \E k, m : handles' = [handles EXCEPT ![c][k][m] = @ - 1]
      /\ out' = [out EXCEPT ![c] = Tail(@)]
  BY DEF ReadFrame
<1>3. /\ in \in [Clients -> Seq(Frames)] /\ out \in [Clients -> Seq(HubFrames)]
      /\ req \in [Clients -> Requests] /\ handles \in [Clients -> [Channels -> [AllModes -> Nat]]]
  BY DEF TypeOK, WireTypes, ClientTypes
<1>4. \A d \in Clients : d # c => /\ in'[d] = in[d] /\ req'[d] = req[d]
                                  /\ handles'[d] = handles[d] /\ out'[d] = out[d]
  <2>1. SUFFICES ASSUME NEW d \in Clients, d # c
                 PROVE  /\ in'[d] = in[d] /\ req'[d] = req[d]
                        /\ handles'[d] = handles[d] /\ out'[d] = out[d]
    OBVIOUS
  <2>2. in'[d] = in[d]
    BY <1>2, <1>3, <2>1 DEF Send
  <2>3. req'[d] = req[d] /\ out'[d] = out[d]
    BY <1>2, <1>3, <2>1
  <2>4. handles'[d] = handles[d]
    BY <1>2, <1>3, <2>1
  <2>5. QED
    BY <2>2, <2>3, <2>4
<1>5. Departed(c)'
  <2>1. ~live[c] => in'[c] = in[c]
    BY <1>2, <1>3 DEF Send
  <2>2. QED
    BY <1>1, <2>1 DEF Dialogues, Departed
<1>6. ASSUME status = "running", live[c] PROVE Dialogue(c)'
  <2>1. Dialogue(c)
    BY <1>1, <1>6 DEF Dialogues
  <2>2. CASE ~Ignored(c, Head(out[c]).op)
    BY <1>1, <1>6, <2>1, <2>2, ReplyRead
  <2>3. CASE Ignored(c, Head(out[c]).op)
    <3>1. UNCHANGED <<req, handles, in>>
      BY <2>3, Zenon DEF ReadFrame
    <3>2. QED
      BY <1>1, <2>1, <2>3, <3>1, ReadIgnored
  <2>4. QED
    BY <2>2, <2>3
<1>7. QED
  BY <1>1, <1>4, <1>5, <1>6, OthersDialogues

LEMMA ClientDialogues ==
    ASSUME TypeOK, Dialogues, NoGhosts, OneHandle, NEW c \in Clients, ClientStep(c)
    PROVE  Dialogues'
<1>1. CASE Connect(c) \/ Die(c) \/ ReadEof(c) \/ ReadFrame(c) \/ RetryOffer(c)
  BY <1>1, ConnectDialogues, CloseEndDialogues, ReadFrameDialogues, RetryOfferDialogues
  DEF Die, ReadEof
<1>2. CASE SendBye(c)
  BY <1>2, SendByeDialogues
<1>3. CASE \E k \in Channels : SendPublish(c, k) \/ SendOffer(c, k) \/ SendRecvReady(c, k)
  BY <1>3, SendPublishDialogues, SendOtherDialogues DEF AllModes
<1>4. CASE \E k \in Channels, m \in Modes : SendAttach(c, k, m) \/ SendDetach(c, k, m)
  BY <1>4, ModesAssumption, SendAttachDialogues, SendOtherDialogues
<1>5. QED
  BY <1>1, <1>2, <1>3, <1>4 DEF ClientStep

LEMMA InitDialogues ==
    ASSUME Init
    PROVE  Dialogues
<1>1. ASSUME NEW c \in Clients PROVE Departed(c) /\ ~live[c]
  BY <1>1 DEF Init, Departed, AllModes
<1>2. QED
  BY <1>1 DEF Dialogues

LEMMA DialoguesNext ==
    ASSUME TypeOK, Handler, Kept, NoGhosts, Roomy, OneHandle, Dialogues, [Next]_vars
    PROVE  Dialogues'
<1>1. CASE Exit
  <2>1. status' # "running" /\ UNCHANGED <<live, in, open, req, out, handles>>
    BY <1>1 DEF Exit, daemon, client
  <2>2. QED
    BY <2>1 DEF Dialogues, Departed
<1>2. CASE UNCHANGED vars
  <2>1. UNCHANGED <<status, cur, todo, chan, live, in, open, req, out, handles>>
    BY <1>2 DEF vars
  <2>2. CASE Clients = {}
    BY <2>2 DEF Dialogues
  <2>3. CASE Clients # {}
    <3>1. PICK c \in Clients : TRUE
      BY <2>3
    <3>2. ASSUME Dialogue(c) PROVE Dialogue(c)'
      <4>1. SameSeat(c) /\ SameReplies(c) /\ in'[c] = in[c] /\ req'[c] = req[c]
            /\ handles'[c] = handles[c]
        BY <2>1 DEF SameSeat, Peers, Attached, SameReplies
      <4>2. Passes(c)
        BY <2>1, <4>1, SamePasses
      <4>3. QED
        BY <3>2, <4>1, <4>2, Bystander
    <3>3. Departed(c)' /\ (status = "running" /\ open'[c] /\ live'[c] => Dialogue(c)')
      BY <2>1, <3>2 DEF Dialogues, Departed
    <3>4. QED
      BY <2>1, <3>3, OthersDialogues
  <2>4. QED
    BY <2>2, <2>3
<1>3. QED
  BY <1>1, <1>2, StepDialogues, ServeDialogues, ClientDialogues DEF Next

LEMMA DialoguesHold == Spec /\ []Roomy /\ []OneHandle => []Dialogues
<1>1. Init => Dialogues
  BY InitDialogues
<1>2. TypeOK /\ Handler /\ Kept /\ NoGhosts /\ Roomy /\ OneHandle /\ Dialogues /\ [Next]_vars => Dialogues'
  BY DialoguesNext
<1>3. QED
  BY <1>1, <1>2, PromisesHold, NothingLeftBehind, PTL DEF Spec

LEMMA DueMeans ==
    ASSUME NEW d, NEW x \in Items
    PROVE  x \in Due(d) <=> \/ x.do = "answer" /\ cur.id = d
                            \/ x.do = "notify" /\ x.to = d
<1>1. x \in Due(d) => \/ x.do = "answer" /\ cur.id = d
                      \/ x.do = "notify" /\ x.to = d
  BY DEF Due
<1>2. x.do = "answer" /\ cur.id = d => x \in Due(d)
  BY DEF Due
<1>3. x.do = "notify" /\ x.to = d => x \in Due(d)
  BY DEF Due
<1>4. QED
  BY <1>1, <1>2, <1>3

(* What a phase says of the things on their way to a client.               *)
LEMMA OneItem ==
    ASSUME TypeOK, NEW c \in Clients, Dialogue(c)
    PROVE  IF req[c].op \in Asking THEN \E x \in Outstanding(c) : Outstanding(c) = {x}
                                   ELSE Outstanding(c) = {}
<1> DEFINE I == {<<"in", i>> : i \in {j \in DOMAIN in[c] : in[c][j].op \in Asking}}
           Waits(j) == \/ todo[j].do = "answer" /\ cur.id = c
                       \/ todo[j].do = "notify" /\ todo[j].to = c
           T == {<<"todo", i>> : i \in {j \in DOMAIN todo : Waits(j)}}
           O == {<<"offer", k>> : k \in {l \in Channels : chan[l].offer_from = c}}
           A == {<<"out", i>> : i \in {j \in DOMAIN out[c] : out[c][j].op \in Replies}}
<1>1. Outstanding(c) = I \union T \union O \union A
  BY DEF Outstanding
<1>2. /\ in[c] \in Seq(Frames) /\ out[c] \in Seq(HubFrames) /\ todo \in Seq(Items)
  <2>1. todo \in Seq(ItemsOf(cur.op)) /\ ItemsOf(cur.op) \subseteq Items
    BY DEF TypeOK, ServingTypes, ItemsOf
  <2>2. QED
    BY <2>1 DEF TypeOK, WireTypes
<1>3. /\ NoneOf(in[c], Askings) => I = {}
      /\ Asked(c) => \E x : I = {x}
  <2>1. \A j \in DOMAIN in[c] : in[c][j].op \in Asking <=> in[c][j] \in Askings
    BY <1>2 DEF Askings
  <2>2. NoneOf(in[c], Askings) => I = {}
    BY <2>1 DEF NoneOf
  <2>3. ASSUME Asked(c) PROVE I = {<<"in", Len(in[c])>>}
    <3>1. Len(in[c]) \in DOMAIN in[c]
      BY <1>2, <2>3, SequenceEnds DEF Asked
    <3>2. \A j \in DOMAIN in[c] : in[c][j].op \in Asking <=> j = Len(in[c])
      BY <2>1, <2>3 DEF Asked
    <3>3. QED
      BY <3>1, <3>2
  <2>4. QED
    BY <2>2, <2>3
<1>4. /\ NoneOf(todo, Due(c)) => T = {}
      /\ OneOf(todo, Due(c)) => \E x : T = {x}
  <2>1. ASSUME NEW j \in DOMAIN todo PROVE Waits(j) <=> todo[j] \in Due(c)
    <3>1. todo[j] \in Items
      BY <1>2
    <3>2. QED
      BY <3>1, DueMeans
  <2> HIDE DEF Waits
  <2>2. ASSUME NoneOf(todo, Due(c)) PROVE T = {}
    BY <2>1, <2>2 DEF NoneOf
  <2>3. ASSUME OneOf(todo, Due(c)) PROVE \E x : T = {x}
    <3>1. PICK i \in DOMAIN todo : todo[i] \in Due(c) /\ \A j \in DOMAIN todo : todo[j] \in Due(c) => j = i
      BY <2>3 DEF OneOf
    <3>2. \A j \in DOMAIN todo : Waits(j) <=> j = i
      BY <2>1, <3>1
    <3>3. T = {<<"todo", i>>}
      BY <3>2
    <3>4. QED
      BY <3>3
  <2>4. QED
    BY <2>2, <2>3
<1>5. /\ NoOffer(c) => O = {}
      /\ OneOffer(c) => \E x : O = {x}
  <2>1. NoOffer(c) => O = {}
    BY DEF NoOffer
  <2>2. ASSUME OneOffer(c) PROVE \E x : O = {x}
    <3>1. PICK k \in Channels : \A l \in Channels : chan[l].offer_from = c <=> l = k
      BY <2>2 DEF OneOffer
    <3>2. O = {<<"offer", k>>}
      BY <3>1
    <3>3. QED
      BY <3>2
  <2>3. QED
    BY <2>1, <2>2
<1>6. /\ NoneOf(out[c], Answers) => A = {}
      /\ OneOf(out[c], Answers) => \E x : A = {x}
  <2>1. \A j \in DOMAIN out[c] : out[c][j].op \in Replies <=> out[c][j] \in Answers
    BY <1>2 DEF Answers
  <2>2. NoneOf(out[c], Answers) => A = {}
    BY <2>1 DEF NoneOf
  <2>3. ASSUME OneOf(out[c], Answers) PROVE \E x : A = {x}
    <3>1. PICK i \in DOMAIN out[c] : \A j \in DOMAIN out[c] : out[c][j] \in Answers <=> j = i
      BY <2>3 DEF OneOf
    <3>2. A = {<<"out", i>>}
      BY <2>1, <3>1
    <3>3. QED
      BY <3>2
  <2>4. QED
    BY <2>2, <2>3
<1> HIDE DEF I, T, O, A
<1>7. Quiet(c) => req[c].op \notin Asking /\ Outstanding(c) = {}
  BY <1>1, <1>3, <1>4, <1>5, <1>6 DEF Quiet
<1>8. in[c] = << >> => NoneOf(in[c], Askings)
  BY DEF NoneOf
<1>9. Asked(c) => req[c].op \in Asking /\ \E x : Outstanding(c) = {x}
  BY <1>1, <1>3, <1>4, <1>5, <1>6 DEF Asked
<1>10. Deciding(c) => req[c].op \in Asking /\ \E x : Outstanding(c) = {x}
  BY <1>1, <1>3, <1>4, <1>5, <1>6, <1>8 DEF Deciding
<1>11. Offering(c) => req[c].op \in Asking /\ \E x : Outstanding(c) = {x}
  BY <1>1, <1>3, <1>4, <1>5, <1>6, <1>8 DEF Offering, Asking
<1>12. Answered(c) => req[c].op \in Asking /\ \E x : Outstanding(c) = {x}
  BY <1>1, <1>3, <1>4, <1>5, <1>6, <1>8 DEF Answered
<1>13. QED
  BY <1>7, <1>9, <1>10, <1>11, <1>12 DEF Dialogue

(* As long as no write of the daemon meets a full socket, and a channel    *)
(* handle is the only one its client has on the pipe, a client that waits  *)
(* has exactly one thing on its way that ends the wait, and one that does  *)
(* not wait has none: whatever the order in which two peers offer, are     *)
(* refused as colliding, back off, offer again, announce themselves, leave *)
(* and come back.  Both hypotheses are needed: the result of the write of  *)
(* an Accept or a Busy is not looked at, and the Detach of one handle of a *)
(* client takes its other handles on the pipe off the daemon's lists.      *)
THEOREM OneReplyWhenRoomy == Spec /\ []Roomy /\ []OneHandle => []OneReplyPerRequest
<1>1. TypeOK /\ Dialogues => OneReplyPerRequest
  BY OneItem DEF Dialogues, OneReplyPerRequest
<1>2. QED
  BY <1>1, DialoguesHold, PromisesHold, PTL

------------------------------------------------------------------------------
(* A reader sees the messages of one publisher in the order in which they  *)
(* were published.                                                         *)

Before(p, q) == p.from = q.from => p.n <= q.n
AllBefore(S, T) == \A p \in S, q \in T : Before(p, q)
Members(s) == {p \in Payloads : \E i \in DOMAIN s : s[i] = p}
Sorted(s) == \A i, j \in DOMAIN s : i < j => Before(s[i], s[j])

(* The messages of channel k that have been written to a reader, that are  *)
(* being spread, that wait in the backlog; and the one that its publisher  *)
(* is being served for.                                                    *)
Told(k) ==
    {p \in Payloads : \E c \in Clients : \E i \in DOMAIN dlv[c] :
                         dlv[c][i].ch = k /\ dlv[c][i].pay = p}
InHand(k) ==
    {p \in Payloads : cur.ch = k /\ (Now("copies") \/ Now("queue")) /\ Head(todo).pay = p}
Stored(k) == Members(chan[k].pending)
Brought(k) == {p \in Payloads : cur.ch = k /\ cur.op = "Publish" /\ cur.pay = p}
Passed(k) == Told(k) \union InHand(k) \union Stored(k) \union Brought(k)

(* They leave the daemon in this order.                                    *)
Line(k) ==
    /\ Sorted(chan[k].pending)
    /\ AllBefore(Told(k), InHand(k) \union Stored(k) \union Brought(k))
    /\ AllBefore(InHand(k), Stored(k) \union Brought(k))
    /\ AllBefore(Stored(k), Brought(k))
    /\ Now("peer") => AllBefore(Brought(k), Stored(k))

(* What its client has published and the daemon has not taken, in order;   *)
(* the offer that the client still makes is its last.                      *)
Proposed(r) == IF r.op \in {"Offer", "Backoff"} THEN {r.pay} ELSE {}
Written(s) == {p \in Payloads : \E i \in DOMAIN s : s[i].op = "Publish" /\ s[i].pay = p}
Yet(c) == Written(in[c]) \union Proposed(req[c])

InOrder(s) ==
    \A i, j \in DOMAIN s :
       i < j /\ s[i].op = "Publish" /\ s[j].op = "Publish" => s[i].pay.n <= s[j].pay.n

Own(c, s, r, n) ==
    /\ \A p \in Written(s) \union Proposed(r) : p.from = c /\ p.n <= n
    /\ InOrder(s)
    /\ AllBefore(Written(s), Proposed(r))

(* What a reader has been written, per channel.                            *)
DlvOrder(s) ==
    \A i, j \in DOMAIN s : i < j /\ s[i].ch = s[j].ch => Before(s[i].pay, s[j].pay)

Earlier(k, c, n) == (\A p \in Passed(k) : p.n <= n) /\ AllBefore(Passed(k), Yet(c))
Lines ==
    /\ \A k \in Channels : Line(k)
    /\ \A c \in Clients : DlvOrder(dlv[c])
    /\ \A c \in Clients : Own(c, in[c], req[c], sent)
    /\ \A k \in Channels, c \in Clients : Earlier(k, c, sent)

(* A message that is handed on at once overtakes none of its publisher's.  *)
Ahead(c, k) ==
    IF c \in Peers(k) THEN Peers(k) # {c} ELSE HasReader(k)
NoneOvertaken ==
    \A c \in Clients : HasFrame(c, "Publish") =>
       LET k == Head(in[c]).ch IN
       Ahead(c, k) => \A p \in Stored(k) : p.from # c

LEMMA BacklogTail ==
    ASSUME NEW s \in Seq(Payloads), s # << >>, Sorted(s)
    PROVE  /\ Sorted(Tail(s)) /\ Members(Tail(s)) \subseteq Members(s)
           /\ Head(s) \in Members(s) /\ AllBefore({Head(s)}, Members(Tail(s)))
<1>1. /\ Len(s) \in Nat /\ DOMAIN s = 1..Len(s) /\ Len(s) > 0 /\ Head(s) = s[1]
      /\ DOMAIN Tail(s) = 1..(Len(s) - 1) /\ \A i \in 1..(Len(s) - 1) : Tail(s)[i] = s[i + 1]
      /\ s[1] \in Payloads
  BY TailOf
<1> DEFINE t == Tail(s)
<1>2. \A i \in DOMAIN t : i \in Nat /\ i + 1 \in DOMAIN s /\ 1 < i + 1 /\ t[i] = s[i + 1]
  BY <1>1
<1> HIDE DEF t
<1>3. Sorted(t)
  <2> SUFFICES ASSUME NEW i \in DOMAIN t, NEW j \in DOMAIN t, i < j PROVE Before(t[i], t[j])
    BY DEF Sorted
  <2>1. i + 1 < j + 1
    BY <1>2
  <2>2. QED
    BY <1>2, <2>1 DEF Sorted
<1>4. Members(t) \subseteq Members(s)
  BY <1>2 DEF Members
<1>5. s[1] \in Members(s)
  BY <1>1 DEF Members
<1>6. AllBefore({s[1]}, Members(t))
  <2> SUFFICES ASSUME NEW i \in DOMAIN t PROVE Before(s[1], t[i])
    BY DEF AllBefore, Members
  <2>1. QED
    BY <1>1, <1>2 DEF Sorted
<1>7. QED
  BY <1>1, <1>3, <1>4, <1>5, <1>6 DEF t

LEMMA BacklogAppend ==
    ASSUME NEW s \in Seq(Payloads), NEW p \in Payloads, Sorted(s), AllBefore(Members(s), {p})
    PROVE  Sorted(Append(s, p)) /\ Members(Append(s, p)) \subseteq Members(s) \union {p}
<1> DEFINE t == Append(s, p)
<1>1. /\ Len(s) \in Nat /\ DOMAIN s = 1..Len(s) /\ DOMAIN t = 1..(Len(s) + 1)
      /\ \A i \in 1..Len(s) : t[i] = s[i] /\ s[i] \in Payloads
      /\ t[Len(s) + 1] = p
  BY AppendOf
<1> HIDE DEF t
<1>2. \A i \in DOMAIN s : s[i] \in Members(s)
  BY <1>1 DEF Members
<1>3. Sorted(t)
  <2> SUFFICES ASSUME NEW i \in DOMAIN t, NEW j \in DOMAIN t, i < j PROVE Before(t[i], t[j])
    BY DEF Sorted
  <2>1. i \in DOMAIN s /\ t[i] = s[i]
    BY <1>1
  <2>2. CASE j \in DOMAIN s
    BY <1>1, <2>1, <2>2 DEF Sorted
  <2>3. CASE j \notin DOMAIN s
    <3>1. t[j] = p
      BY <1>1, <2>3
    <3>2. QED
      BY <1>2, <2>1, <3>1 DEF AllBefore
  <2>4. QED
    BY <2>2, <2>3
<1>4. Members(t) \subseteq Members(s) \union {p}
  BY <1>1 DEF Members
<1>5. QED
  BY <1>3, <1>4 DEF t

LEMMA ReadingAppend ==
    ASSUME NEW s \in Seq(Deliveries), NEW e \in Deliveries, DlvOrder(s),
           \A i \in DOMAIN s : s[i].ch = e.ch => Before(s[i].pay, e.pay)
    PROVE  DlvOrder(Append(s, e))
<1> DEFINE t == Append(s, e)
<1>1. /\ Len(s) \in Nat /\ DOMAIN s = 1..Len(s) /\ DOMAIN t = 1..(Len(s) + 1)
      /\ \A i \in 1..Len(s) : t[i] = s[i]
      /\ t[Len(s) + 1] = e
  BY AppendOf
<1> HIDE DEF t
<1>2. DlvOrder(t)
  <2> SUFFICES ASSUME NEW i \in DOMAIN t, NEW j \in DOMAIN t, i < j, t[i].ch = t[j].ch
               PROVE  Before(t[i].pay, t[j].pay)
    BY DEF DlvOrder
  <2>1. i \in DOMAIN s /\ t[i] = s[i]
    BY <1>1
  <2>2. CASE j \in DOMAIN s
    BY <1>1, <2>1, <2>2 DEF DlvOrder
  <2>3. CASE j \notin DOMAIN s
    BY <1>1, <2>1, <2>3
  <2>4. QED
    BY <2>2, <2>3
<1>3. QED
  BY <1>2 DEF t

LEMMA WrittenTail ==
    ASSUME NEW s \in Seq(Frames), s # << >>, InOrder(s)
    PROVE  /\ InOrder(Tail(s)) /\ Written(Tail(s)) \subseteq Written(s)
           /\ Head(s).op = "Publish" =>
                 /\ Head(s).pay \in Written(s)
                 /\ \A q \in Written(Tail(s)) : Head(s).pay.n <= q.n
<1>1. /\ Len(s) \in Nat /\ DOMAIN s = 1..Len(s) /\ Len(s) > 0 /\ Head(s) = s[1]
      /\ DOMAIN Tail(s) = 1..(Len(s) - 1) /\ \A i \in 1..(Len(s) - 1) : Tail(s)[i] = s[i + 1]
      /\ s[1] \in Frames
  BY TailOf
<1> DEFINE t == Tail(s)
<1>2. \A i \in DOMAIN t : i \in Nat /\ i + 1 \in DOMAIN s /\ 1 < i + 1 /\ t[i] = s[i + 1]
  BY <1>1
<1> HIDE DEF t
<1>3. InOrder(t)
  <2> SUFFICES ASSUME NEW i \in DOMAIN t, NEW j \in DOMAIN t, i < j,
                      t[i].op = "Publish", t[j].op = "Publish"
               PROVE  t[i].pay.n <= t[j].pay.n
    BY DEF InOrder
  <2>1. i + 1 < j + 1
    BY <1>2
  <2>2. QED
    BY <1>2, <2>1 DEF InOrder
<1>4. Written(t) \subseteq Written(s)
  BY <1>2 DEF Written
<1>5. ASSUME s[1].op = "Publish"
      PROVE  s[1].pay \in Written(s) /\ \A q \in Written(t) : s[1].pay.n <= q.n
  <2>1. s[1].pay \in Payloads /\ 1 \in DOMAIN s
    BY <1>1, <1>5 DEF Frames
  <2>2. ASSUME NEW i \in DOMAIN t, t[i].op = "Publish" PROVE s[1].pay.n <= t[i].pay.n
    BY <1>2, <1>5, <2>1, <2>2 DEF InOrder
  <2>3. QED
    BY <1>5, <2>1, <2>2 DEF Written
<1>6. QED
  BY <1>1, <1>3, <1>4, <1>5 DEF t

LEMMA WrittenAppend ==
    ASSUME NEW s \in Seq(Frames), NEW f \in Frames, InOrder(s),
           f.op = "Publish" => \A p \in Written(s) : p.n <= f.pay.n
    PROVE  /\ InOrder(Append(s, f))
           /\ f.op # "Publish" => Written(Append(s, f)) \subseteq Written(s)
           /\ f.op = "Publish" => Written(Append(s, f)) \subseteq Written(s) \union {f.pay}
<1> DEFINE t == Append(s, f)
<1>1. /\ Len(s) \in Nat /\ DOMAIN s = 1..Len(s) /\ DOMAIN t = 1..(Len(s) + 1)
      /\ \A i \in 1..Len(s) : t[i] = s[i] /\ s[i] \in Frames
      /\ t[Len(s) + 1] = f
  BY AppendOf
<1> HIDE DEF t
<1>2. \A i \in DOMAIN s : s[i].op = "Publish" => s[i].pay \in Written(s)
  BY <1>1 DEF Written, Frames
<1>3. InOrder(t)
  <2> SUFFICES ASSUME NEW i \in DOMAIN t, NEW j \in DOMAIN t, i < j,
                      t[i].op = "Publish", t[j].op = "Publish"
               PROVE  t[i].pay.n <= t[j].pay.n
    BY DEF InOrder
  <2>1. i \in DOMAIN s /\ t[i] = s[i]
    BY <1>1
  <2>2. CASE j \in DOMAIN s
    BY <1>1, <2>1, <2>2 DEF InOrder
  <2>3. CASE j \notin DOMAIN s
    <3>1. t[j] = f
      BY <1>1, <2>3
    <3>2. QED
      BY <1>2, <2>1, <3>1
  <2>4. QED
    BY <2>2, <2>3
<1>4. Written(t) \subseteq Written(s) \union {p \in Payloads : f.op = "Publish" /\ f.pay = p}
  BY <1>1 DEF Written
<1>5. QED
  BY <1>3, <1>4 DEF t

(* What a step of the daemon may do besides delivering: frames are taken   *)
(* or dropped, backlogs get shorter, what is in hand is disposed of.       *)
FewerFrames ==
    \A c \in Clients : \/ in'[c] \in {in[c], << >>}
                       \/ in[c] # << >> /\ in'[c] = Tail(in[c])
Shortens(k) ==
    \/ chan'[k].pending = chan[k].pending
    \/ chan[k].pending # << >> /\ chan'[k].pending = Tail(chan[k].pending)
LetsGo(k) == InHand(k)' \subseteq InHand(k) /\ Brought(k)' \subseteq Brought(k)

LEMMA OwnFewer ==
    ASSUME TypeOK, Lines, FewerFrames, UNCHANGED <<req, sent>>, NEW c \in Clients
    PROVE  Own(c, in[c], req[c], sent)' /\ Yet(c)' \subseteq Yet(c)
<1>1. in[c] \in Seq(Frames) /\ Own(c, in[c], req[c], sent)
  BY DEF TypeOK, WireTypes, Lines
<1>2. Written(in'[c]) \subseteq Written(in[c]) /\ InOrder(in'[c])
  <2>1. Written(<< >>) = {} /\ InOrder(<< >>)
    BY DEF Written, InOrder
  <2>2. InOrder(in[c])
    BY <1>1 DEF Own
  <2>3. CASE in'[c] = in[c]
    BY <2>2, <2>3
  <2>4. CASE in'[c] = << >>
    BY <2>1, <2>4
  <2>5. CASE in[c] # << >> /\ in'[c] = Tail(in[c])
    BY <1>1, <2>2, <2>5, WrittenTail
  <2>6. QED
    BY <2>3, <2>4, <2>5 DEF FewerFrames
<1>3. QED
  BY <1>1, <1>2 DEF Own, Yet, AllBefore

LEMMA ShortensLess ==
    ASSUME TypeOK, Lines, NEW k \in Channels, Shortens(k)
    PROVE  Stored(k)' \subseteq Stored(k) /\ Sorted(chan'[k].pending)
<1>1. chan[k].pending \in Seq(Payloads) /\ Sorted(chan[k].pending)
  BY DEF TypeOK, DaemonTypes, ChannelStates, Lines, Line
<1>2. QED
  BY <1>1, BacklogTail DEF Shortens, Stored

LEMMA DaemonLines ==
    ASSUME TypeOK, Lines, UNCHANGED <<req, sent>>, FewerFrames,
           \A k \in Channels : Passed(k)' \subseteq Passed(k) /\ Line(k)',
           \A c \in Clients : DlvOrder(dlv'[c])
    PROVE  Lines'
<1>1. \A c \in Clients : Own(c, in[c], req[c], sent)' /\ Yet(c)' \subseteq Yet(c)
  BY OwnFewer
<1>2. ASSUME NEW k \in Channels, NEW c \in Clients PROVE Earlier(k, c, sent)'
  <2>1. Earlier(k, c, sent) /\ Passed(k)' \subseteq Passed(k) /\ Yet(c)' \subseteq Yet(c)
    BY <1>1 DEF Lines
  <2>2. QED
    BY <2>1 DEF Earlier, AllBefore
<1>3. QED
  BY <1>1, <1>2 DEF Lines

LEMMA ShrinkingLines ==
    ASSUME TypeOK, Lines, UNCHANGED <<req, sent, dlv>>, FewerFrames,
           \A k \in Channels : LetsGo(k) /\ Shortens(k), ~Now("peer")'
    PROVE  Lines'
<1>1. ASSUME NEW k \in Channels PROVE Passed(k)' \subseteq Passed(k) /\ Line(k)'
  <2>1. /\ Told(k)' = Told(k) /\ InHand(k)' \subseteq InHand(k)
        /\ Brought(k)' \subseteq Brought(k) /\ Stored(k)' \subseteq Stored(k)
        /\ Sorted(chan'[k].pending) /\ Line(k)
    BY ShortensLess DEF Told, LetsGo, Lines
  <2>2. QED
    BY <2>1 DEF Passed, Line, AllBefore
<1>2. \A c \in Clients : DlvOrder(dlv'[c])
  BY DEF Lines
<1>3. QED
  BY <1>1, <1>2, DaemonLines

(* The rest of the handler.                                                *)
LEMMA NextGoes ==
    ASSUME Handler, NEW w, Now(w), Goto(Tail(todo))
    PROVE  /\ \A k \in Channels : /\ LetsGo(k)
                                  /\ w # "copies" => InHand(k)' = {}
           /\ ~Now("peer")'
<1>1. CASE Tail(todo) = << >>
  <2>1. todo' = << >> /\ cur' = NoFrame /\ NoFrame.op # "Publish"
    BY <1>1 DEF Goto, NoFrame
  <2>2. QED
    BY <2>1 DEF LetsGo, InHand, Brought, Now
<1>2. CASE Tail(todo) # << >>
  <2>1. /\ Head(Tail(todo)).do \notin {"peer", "copies"}
        /\ Head(Tail(todo)).do = "queue" <=> w = "copies"
        /\ w = "copies" => Head(Tail(todo)).pay = Head(todo).pay
    BY <1>2, NextItem
  <2>2. todo' = Tail(todo) /\ cur' = cur /\ Head(todo).do = w /\ todo # << >>
    BY <1>2 DEF Goto, Now
  <2>3. ASSUME NEW k \in Channels
        PROVE  /\ InHand(k)' \subseteq InHand(k) /\ Brought(k)' \subseteq Brought(k)
               /\ w # "copies" => InHand(k)' = {}
    BY <2>1, <2>2 DEF InHand, Brought, Now
  <2>4. ~Now("peer")'
    BY <2>1, <2>2 DEF Now
  <2>5. QED
    BY <2>3, <2>4 DEF LetsGo
<1>3. QED
  BY <1>1, <1>2

(* The handler stops, or goes on with something that is in no hand.        *)
LEMMA IdleGoes ==
    ASSUME todo' # << >> => Head(todo').do \in Idlers,
           cur' = cur \/ cur'.op # "Publish"
    PROVE  /\ \A k \in Channels : LetsGo(k) /\ InHand(k)' = {}
           /\ ~Now("peer")'
<1>1. ~Now("peer")' /\ ~Now("copies")' /\ ~Now("queue")'
  BY DEF Now, Idlers
<1>2. QED
  BY <1>1 DEF LetsGo, InHand, Brought

LEMMA ReturnedGoes ==
    ASSUME Goto(Returned) \/ Goto(<< >>)
    PROVE  /\ \A k \in Channels : LetsGo(k) /\ InHand(k)' = {}
           /\ ~Now("peer")'
<1>1. (todo' # << >> => Head(todo').do = "resume") /\ (cur' = cur \/ cur' = NoFrame)
  BY Tuples, ItemKinds DEF Goto, Returned
<1>2. NoFrame.op # "Publish" /\ "resume" \in Idlers
  BY DEF NoFrame, Idlers
<1>3. QED
  BY <1>1, <1>2, IdleGoes

LEMMA ClosedBacklogs ==
    ASSUME NEW c \in Clients, NEW channels, CloseClient(c, channels), TypeOK
    PROVE  /\ \A k \in Channels : chan'[k].pending = channels[k].pending
           /\ FewerFrames
<1>1. \A k \in Channels : chan'[k] = channels[k] \/ chan'[k] = WithoutClient(channels[k], c)
  BY DEF CloseClient
<1>2. \A d \in Clients : in'[d] \in {in[d], << >>}
  BY DEF CloseClient, TypeOK, WireTypes
<1>3. \A k \in Channels : WithoutClient(channels[k], c).pending = channels[k].pending
  BY DEF WithoutClient
<1>4. QED
  BY <1>1, <1>2, <1>3 DEF FewerFrames

LEMMA PopShortens ==
    ASSUME TypeOK, NEW k \in Channels, chan[k].pending # << >>
    PROVE  \A j \in Channels : Pop(k)[j].pending =
              IF j = k THEN Tail(chan[k].pending) ELSE chan[j].pending
<1>1. chan \in [Channels -> ChannelStates]
  BY DEF TypeOK, DaemonTypes
<1>2. Pop(k)[k].pending = Tail(chan[k].pending)
  <2>1. Pop(k)[k] = [chan[k] EXCEPT !.pending = Tail(@)] /\ chan[k] \in ChannelStates
    BY <1>1 DEF Pop
  <2>2. QED
    BY <2>1 DEF ChannelStates
<1>3. \A j \in Channels : j # k => Pop(k)[j] = chan[j]
  BY <1>1 DEF Pop
<1>4. QED
  BY <1>2, <1>3

(* What the handler has in hand, and for whom.                             *)
LEMMA InServing ==
    ASSUME TypeOK, NEW w, Doing(w)
    PROVE  /\ cur.ch \in Channels /\ cur.id \in Clients /\ Now(w)
           /\ w \in {"peer", "park"} => cur.op = "Publish" /\ cur.pay \in Payloads
           /\ cur.op = "Publish" => cur.pay \in Payloads
           /\ w \in {"copies", "queue"} => Head(todo).pay \in Payloads
           /\ w \notin {"copies", "queue"} => \A k \in Channels : InHand(k) = {}
           /\ w \in {"copies", "queue"} =>
                 InHand(cur.ch) = {Head(todo).pay} /\ \A k \in Channels \ {cur.ch} : InHand(k) = {}
           /\ cur.op = "Publish" => Brought(cur.ch) = {cur.pay}
<1>1. /\ cur.ch \in Channels /\ cur.id \in Clients /\ todo # << >> /\ Head(todo).do = w
      /\ cur.op = "Publish" => cur.pay \in Payloads
      /\ w \in {"copies", "queue"} => Head(todo).pay \in Payloads
      /\ w \in PartsOf(cur.op)
  BY ServedType, HeadType, DoingType DEF Doing, TypeOK
<1>2. w \in {"peer", "park"} => cur.op = "Publish"
  BY <1>1 DEF PartsOf
<1>3. QED
  BY <1>1, <1>2 DEF Now, InHand, Brought

(* A message of channel k that has not been written to a reader before is. *)
LEMMA DeliveringLines ==
    ASSUME TypeOK, Lines, UNCHANGED <<req, sent>>, FewerFrames,
           NEW k \in Channels, k = cur.ch,
           NEW d \in Clients, NEW m \in AllModes, NEW p \in Payloads, Log(d, m, p),
           p \in Passed(k), AllBefore(Told(k), {p}),
           AllBefore({p}, InHand(k)' \union Stored(k)' \union Brought(k)'),
           \A j \in Channels : LetsGo(j) /\ Shortens(j), ~Now("peer")'
    PROVE  Lines'
<1> DEFINE e == [ch |-> k, mode |-> m, pay |-> p]
<1>1. /\ dlv'[d] = Append(dlv[d], e) /\ dlv[d] \in Seq(Deliveries) /\ e \in Deliveries
      /\ e.ch = k /\ e.pay = p
      /\ \A c \in Clients : c # d => dlv'[c] = dlv[c]
  BY DEF Log, TypeOK, HistoryTypes, Deliveries
<1> HIDE DEF e
<1>2. /\ Len(dlv[d]) \in Nat /\ DOMAIN dlv[d] = 1..Len(dlv[d])
      /\ DOMAIN dlv'[d] = 1..(Len(dlv[d]) + 1)
      /\ \A i \in 1..Len(dlv[d]) : dlv'[d][i] = dlv[d][i]
      /\ dlv'[d][Len(dlv[d]) + 1] = e
  BY <1>1, AppendOf
<1>3. \A i \in DOMAIN dlv'[d] : (i \in DOMAIN dlv[d] /\ dlv'[d][i] = dlv[d][i]) \/ dlv'[d][i] = e
  BY <1>2
<1>4. ASSUME NEW j \in Channels
      PROVE  Told(j)' \subseteq Told(j) \union {q \in Payloads : j = k /\ q = p}
  <2> SUFFICES ASSUME NEW q \in Payloads, NEW c \in Clients, NEW i \in DOMAIN dlv'[c],
                      dlv'[c][i].ch = j, dlv'[c][i].pay = q
               PROVE  q \in Told(j) \/ (j = k /\ q = p)
    BY DEF Told
  <2>1. CASE c # d
    BY <1>1, <2>1 DEF Told
  <2>2. CASE c = d
    <3>1. CASE i \in DOMAIN dlv[d] /\ dlv'[d][i] = dlv[d][i]
      BY <2>2, <3>1 DEF Told
    <3>2. CASE dlv'[d][i] = e
      BY <1>1, <2>2, <3>2
    <3>3. QED
      BY <1>3, <2>2, <3>1, <3>2
  <2>3. QED
    BY <2>1, <2>2
<1>5. \A c \in Clients : DlvOrder(dlv'[c])
  <2>1. DlvOrder(dlv[d])
    BY DEF Lines
  <2>2. ASSUME NEW i \in DOMAIN dlv[d], dlv[d][i].ch = e.ch PROVE Before(dlv[d][i].pay, e.pay)
    <3>1. dlv[d][i].pay \in Payloads
      <4>1. dlv[d][i] \in Deliveries
        BY <1>1, <1>2
      <4>2. QED
        BY <4>1 DEF Deliveries
    <3>2. dlv[d][i].pay \in Told(k)
      BY <1>1, <2>2, <3>1 DEF Told
    <3>3. QED
      BY <1>1, <3>2 DEF AllBefore
  <2>3. DlvOrder(Append(dlv[d], e))
    BY <1>1, <2>1, <2>2, ReadingAppend
  <2>4. QED
    BY <1>1, <2>3 DEF Lines
<1>6. ASSUME NEW j \in Channels PROVE Passed(j)' \subseteq Passed(j) /\ Line(j)'
  <2>1. /\ InHand(j)' \subseteq InHand(j) /\ Brought(j)' \subseteq Brought(j)
        /\ Stored(j)' \subseteq Stored(j) /\ Sorted(chan'[j].pending) /\ Line(j)
    BY ShortensLess DEF LetsGo, Lines
  <2>2. Passed(j)' \subseteq Passed(j)
    BY <1>4, <2>1 DEF Passed
  <2>3. AllBefore(Told(j)', InHand(j)' \union Stored(j)' \union Brought(j)')
    BY <1>4, <2>1 DEF Line, AllBefore
  <2>4. QED
    BY <2>1, <2>2, <2>3 DEF Line, AllBefore
<1>7. QED
  BY <1>5, <1>6, DaemonLines

(* The order of what the three places of channel k hold.                   *)
LEMMA LineUp ==
    ASSUME Lines, NEW k \in Channels
    PROVE  /\ AllBefore(Told(k), InHand(k)) /\ AllBefore(Told(k), Stored(k))
           /\ AllBefore(Told(k), Brought(k)) /\ AllBefore(InHand(k), Stored(k))
           /\ AllBefore(InHand(k), Brought(k)) /\ AllBefore(Stored(k), Brought(k))
           /\ Now("peer") => AllBefore(Brought(k), Stored(k))
BY DEF Lines, Line, AllBefore

LEMMA BeforeItself == \A p \in Payloads : AllBefore({p}, {p})
BY DEF Payloads, AllBefore, Before

LEMMA KeptPending ==
    ASSUME NEW k, chan'[k].pending = chan[k].pending
    PROVE  Shortens(k) /\ Stored(k)' = Stored(k)
BY DEF Shortens, Stored

LEMMA FewerBefore ==
    ASSUME NEW S, NEW T, AllBefore(S, T), NEW A, NEW B, A \subseteq S, B \subseteq T
    PROVE  AllBefore(A, B)
BY DEF AllBefore

LEMMA BeforeThree ==
    ASSUME NEW S, NEW A, NEW B, NEW C, AllBefore(S, A), AllBefore(S, B), AllBefore(S, C)
    PROVE  AllBefore(S, A \union B \union C)
BY DEF AllBefore

LEMMA SameShortens ==
    ASSUME TypeOK, UNCHANGED in, \A k \in Channels : chan'[k].pending = chan[k].pending
    PROVE  FewerFrames /\ \A k \in Channels : Shortens(k)
BY KeptPending DEF FewerFrames

LEMMA ClosedShortens ==
    ASSUME TypeOK, NEW c \in Clients, CloseClient(c, chan)
    PROVE  FewerFrames /\ \A k \in Channels : Shortens(k)
BY ClosedBacklogs, KeptPending

LEMMA MarkLines ==
    ASSUME TypeOK, Lines, Handler,
           AnswerStep \/ NotifyStep \/ AnnounceStep \/ ResumeStep \/ SigPipe
    PROVE  Lines'
<1>1. CASE AnswerStep
  <2>1. UNCHANGED <<req, sent, dlv>> /\ Doing("answer")
    BY <1>1 DEF AnswerStep, client
  <2>2. cur.id \in Clients /\ Now("answer")
    BY <2>1, InServing
  <2>3. Goto(Tail(todo)) \/ Goto(Returned)
    BY <1>1 DEF AnswerStep
  <2>4. UNCHANGED <<chan, in>> \/ CloseClient(cur.id, chan)
    BY <1>1 DEF AnswerStep, daemon
  <2>5. FewerFrames /\ \A k \in Channels : Shortens(k)
    BY <2>2, <2>4, SameShortens, ClosedShortens
  <2>6. (\A k \in Channels : LetsGo(k)) /\ ~Now("peer")'
    BY <2>2, <2>3, NextGoes, ReturnedGoes
  <2>7. QED
    BY <2>1, <2>5, <2>6, ShrinkingLines
<1>2. ASSUME NEW w, Doing(w), Goto(Tail(todo)), UNCHANGED <<req, sent, dlv, in>>,
             \A k \in Channels : chan'[k].pending = chan[k].pending
      PROVE  Lines'
  <2>1. (\A k \in Channels : LetsGo(k)) /\ ~Now("peer")'
    BY <1>2, InServing, NextGoes
  <2>2. QED
    BY <1>2, <2>1, SameShortens, ShrinkingLines
<1>3. CASE NotifyStep
  BY <1>2, <1>3 DEF NotifyStep, client, daemon
<1>4. CASE ResumeStep
  BY <1>2, <1>4 DEF ResumeStep, client, daemon
<1>5. CASE AnnounceStep
  <2>1. \A k \in Channels : chan'[k].pending = chan[k].pending
    <3>1. chan \in [Channels -> ChannelStates]
      BY DEF TypeOK, DaemonTypes
    <3>2. chan' = [chan EXCEPT ![cur.ch].recv_ready = cur.id]
      BY <1>5 DEF AnnounceStep
    <3>3. QED
      BY <3>1, <3>2 DEF ChannelStates
  <2>2. QED
    BY <1>2, <1>5, <2>1 DEF AnnounceStep, client
<1>6. CASE SigPipe
  <2>1. UNCHANGED <<req, sent, dlv, in, chan>> /\ Goto(<< >>)
    BY <1>6 DEF SigPipe, client, daemon
  <2>2. (\A k \in Channels : LetsGo(k)) /\ ~Now("peer")'
    BY <2>1, ReturnedGoes
  <2>3. QED
    BY <2>1, <2>2, SameShortens, ShrinkingLines
<1>7. QED
  BY <1>1, <1>3, <1>4, <1>5, <1>6

LEMMA FlushLines ==
    ASSUME TypeOK, Lines, Handler, FlushStep
    PROVE  Lines'
<1>1. /\ UNCHANGED <<req, sent, dlv, in>> /\ Doing("flush")
  BY DEF FlushStep, client
<1>2. Now("flush") /\ \A j \in Channels : InHand(j) = {}
  BY <1>1, InServing
<1>k. PICK k \in Channels : k = cur.ch
  BY <1>1, InServing
<1>p. PICK p, left : p = Head(chan[k].pending) /\ left = chan[k].list["BroadcastIn"]
  OBVIOUS
<1>3. CASE Goto(Tail(todo)) /\ chan' = chan
  <2>1. (\A j \in Channels : LetsGo(j)) /\ ~Now("peer")'
    BY <1>2, <1>3, NextGoes
  <2>2. QED
    BY <1>1, <1>3, <2>1, SameShortens, ShrinkingLines
<1>4. CASE chan[k].pending # << >> /\ chan' = Pop(k) /\ Goto(<<Copies(p, left), Queue(p)>> \o todo)
  <2>1. p \in Payloads /\ todo \in Seq(ItemsOf(cur.op))
    BY <1>1, <1>p, <1>4, PopType, ServedType DEF TypeOK
  <2>2. todo' = <<Copies(p, left), Queue(p)>> \o todo /\ cur' = cur
    <3>1. <<Copies(p, left), Queue(p)>> \o todo # << >>
      BY <2>1
    <3>2. QED
      BY <1>4, <3>1, Zenon DEF Goto
  <2>3. todo' # << >> /\ Head(todo') = Copies(p, left)
    BY <2>1, <2>2
  <2>4. Head(todo').do = "copies" /\ Head(todo').pay = p
    BY <2>3, ItemKinds
  <2>5. ~Now("peer")' /\ \A j \in Channels : /\ Brought(j)' = Brought(j)
                                             /\ InHand(j)' = {q \in {p} : j = k}
                                             /\ Told(j)' = Told(j)
    BY <1>1, <1>k, <2>1, <2>2, <2>3, <2>4 DEF Now, Brought, InHand, Told
  <2>6. chan[k].pending \in Seq(Payloads) /\ Sorted(chan[k].pending)
    BY DEF TypeOK, DaemonTypes, ChannelStates, Lines, Line
  <2>7. /\ chan'[k].pending = Tail(chan[k].pending)
        /\ \A j \in Channels : j # k => chan'[j].pending = chan[j].pending
    BY <1>4, PopShortens
  <2>8. \A j \in Channels : Shortens(j)
    BY <1>4, <2>7 DEF Shortens
  <2>9. p \in Stored(k) /\ AllBefore({p}, Stored(k)')
    <3> DEFINE s == chan[k].pending
    <3>1. s \in Seq(Payloads) /\ s # << >> /\ Sorted(s)
      BY <1>4, <2>6
    <3>2. Head(s) \in Members(s) /\ AllBefore({Head(s)}, Members(Tail(s)))
      BY <3>1, BacklogTail
    <3>3. Stored(k) = Members(s) /\ Stored(k)' = Members(Tail(s))
      BY <2>7 DEF Stored
    <3>4. QED
      BY <1>p, <3>2, <3>3
  <2>10. ASSUME NEW j \in Channels PROVE Passed(j)' \subseteq Passed(j) /\ Line(j)'
    <3>1. Stored(j)' \subseteq Stored(j) /\ Sorted(chan'[j].pending)
      BY <2>8, ShortensLess
    <3>2. Passed(j)' \subseteq Passed(j)
      BY <2>5, <2>9, <3>1 DEF Passed
    <3>3. InHand(j)' \subseteq Stored(j) /\ AllBefore(InHand(j)', Stored(j)')
      BY <2>5, <2>9 DEF AllBefore
    <3>4. /\ AllBefore(Told(j), Stored(j)) /\ AllBefore(Told(j), Brought(j))
          /\ AllBefore(Stored(j), Brought(j))
      BY LineUp
    <3>5. /\ AllBefore(Told(j)', InHand(j)') /\ AllBefore(Told(j)', Stored(j)')
          /\ AllBefore(Told(j)', Brought(j)') /\ AllBefore(InHand(j)', Brought(j)')
          /\ AllBefore(Stored(j)', Brought(j)')
      BY <2>5, <3>1, <3>3, <3>4 DEF AllBefore
    <3>6. QED
      BY <2>5, <3>1, <3>2, <3>3, <3>5 DEF Line, AllBefore
  <2>11. FewerFrames /\ \A c \in Clients : DlvOrder(dlv'[c])
    BY <1>1 DEF FewerFrames, Lines
  <2>12. QED
    BY <1>1, <2>10, <2>11, DaemonLines
<1>5. QED
  BY <1>k, <1>p, <1>3, <1>4 DEF FlushStep

LEMMA CopyLines ==
    ASSUME TypeOK, Lines, Handler, CopyStep
    PROVE  Lines'
<1>1. UNCHANGED <<req, sent>> /\ Doing("copies")
  BY DEF CopyStep, client
<1>k. PICK k \in Channels : k = cur.ch
  BY <1>1, InServing
<1>p. PICK p \in Payloads : p = Head(todo).pay
  BY <1>1, InServing
<1>2. /\ Now("copies") /\ InHand(k) = {p}
      /\ Tail(todo) \in Seq(ItemsOf(cur.op))
      /\ \A j \in Channels : j # k => InHand(j) = {}
  BY <1>1, <1>k, <1>p, InServing, ServedType DEF TypeOK
<1>3. CASE Goto(Tail(todo)) /\ UNCHANGED <<chan, in, dlv>>
  <2>1. (\A j \in Channels : LetsGo(j)) /\ ~Now("peer")'
    BY <1>2, <1>3, NextGoes
  <2>2. QED
    BY <1>1, <1>3, <2>1, SameShortens, ShrinkingLines
<1>4. ASSUME NEW l, Goto(<<Copies(p, l)>> \o Tail(todo))
      PROVE  ~Now("peer")' /\ \A j \in Channels : LetsGo(j) /\ InHand(j)' = InHand(j)
  <2>1. /\ <<Copies(p, l)>> \o Tail(todo) # << >>
        /\ Head(<<Copies(p, l)>> \o Tail(todo)) = Copies(p, l)
    BY <1>2
  <2>2. todo' # << >> /\ Head(todo') = Copies(p, l) /\ cur' = cur
    BY <1>4, <2>1, Zenon DEF Goto
  <2>3. Head(todo').do = "copies" /\ Head(todo').pay = p
    BY <2>2, ItemKinds
  <2>4. QED
    BY <1>2, <1>p, <2>2, <2>3 DEF Now, LetsGo, InHand, Brought
<1>5. ASSUME NEW c \in Clients, NEW l, Log(c, "BroadcastIn", p), UNCHANGED <<chan, in>>,
             Goto(<<Copies(p, l)>> \o Tail(todo))
      PROVE  Lines'
  <2>1. ~Now("peer")' /\ \A j \in Channels : LetsGo(j) /\ InHand(j)' = InHand(j)
    BY <1>4, <1>5
  <2>2. FewerFrames /\ \A j \in Channels : Shortens(j) /\ Stored(j)' = Stored(j)
    BY <1>5, KeptPending DEF FewerFrames
  <2>3. "BroadcastIn" \in AllModes
    BY DEF AllModes
  <2>4. p \in Passed(k) /\ AllBefore(Told(k), {p})
    BY <1>2, LineUp DEF Passed
  <2>5. AllBefore({p}, InHand(k)' \union Stored(k)' \union Brought(k)')
    <3>1. Brought(k)' \subseteq Brought(k) /\ InHand(k)' = {p} /\ Stored(k)' = Stored(k)
      BY <1>2, <2>1, <2>2 DEF LetsGo
    <3>2. AllBefore({p}, {p}) /\ AllBefore({p}, Stored(k)) /\ AllBefore({p}, Brought(k))
      BY <1>2, LineUp, BeforeItself
    <3>3. AllBefore({p}, Brought(k)')
      BY <3>1, <3>2 DEF AllBefore
    <3>4. QED
      BY <3>1, <3>2, <3>3, BeforeThree
  <2>6. QED
    BY <1>1, <1>k, <1>5, <2>1, <2>2, <2>3, <2>4, <2>5, DeliveringLines
<1>6. ASSUME NEW c \in Clients, NEW l, CloseClient(c, chan), UNCHANGED dlv,
             Goto(<<Copies(p, l)>> \o Tail(todo))
      PROVE  Lines'
  BY <1>1, <1>4, <1>6, ClosedShortens, ShrinkingLines
<1>7. \/ Goto(Tail(todo)) /\ UNCHANGED <<chan, in, dlv>>
      \/ \E c \in Clients :
            /\ Log(c, "BroadcastIn", p) /\ UNCHANGED <<chan, in>>
            /\ \E l : Goto(<<Copies(p, l)>> \o Tail(todo))
      \/ \E c \in Clients : \E l :
            /\ CloseClient(c, chan) /\ UNCHANGED dlv
            /\ Goto(<<Copies(p, l)>> \o Tail(todo))
  BY <1>p, Zenon DEF CopyStep, daemon
<1>8. QED
  BY <1>3, <1>5, <1>6, <1>7

LEMMA QueueLines ==
    ASSUME TypeOK, Lines, Handler, QueueStep
    PROVE  Lines'
<1>1. UNCHANGED <<req, sent>> /\ Doing("queue") /\ Goto(Tail(todo))
  BY DEF QueueStep, client
<1>k. PICK k \in Channels : k = cur.ch
  BY <1>1, InServing
<1>p. PICK p \in Payloads : p = Head(todo).pay
  BY <1>1, InServing
<1>2. Now("queue") /\ InHand(k) = {p}
  BY <1>1, <1>k, <1>p, InServing
<1>3. ~Now("peer")' /\ \A j \in Channels : LetsGo(j) /\ InHand(j)' = {}
  BY <1>1, <1>2, NextGoes
<1>4. CASE UNCHANGED <<chan, in, dlv>>
  BY <1>1, <1>3, <1>4, SameShortens, ShrinkingLines
<1>5. ASSUME NEW c \in Clients, Log(c, "QueueIn", p), UNCHANGED <<chan, in>> PROVE Lines'
  <2>1. FewerFrames /\ \A j \in Channels : Shortens(j) /\ Stored(j)' = Stored(j)
    BY <1>5, KeptPending DEF FewerFrames
  <2>2. "QueueIn" \in AllModes
    BY DEF AllModes
  <2>3. p \in Passed(k) /\ AllBefore(Told(k), {p})
    BY <1>2, LineUp DEF Passed
  <2>4. AllBefore({p}, InHand(k)' \union Stored(k)' \union Brought(k)')
    <3>1. Brought(k)' \subseteq Brought(k) /\ InHand(k)' = {} /\ Stored(k)' = Stored(k)
      BY <1>2, <1>3, <2>1 DEF LetsGo
    <3>2. AllBefore({p}, Stored(k)) /\ AllBefore({p}, Brought(k))
      BY <1>2, LineUp
    <3>3. AllBefore({p}, Brought(k)') /\ AllBefore({p}, {})
      BY <3>1, <3>2 DEF AllBefore
    <3>4. QED
      BY <3>1, <3>2, <3>3, BeforeThree
  <2>5. QED
    BY <1>1, <1>k, <1>3, <1>5, <2>1, <2>2, <2>3, <2>4, DeliveringLines
<1>6. ASSUME NEW c \in Clients, CloseClient(c, chan), UNCHANGED dlv PROVE Lines'
  BY <1>1, <1>3, <1>6, ClosedShortens, ShrinkingLines
<1>7. QED
  BY <1>p, <1>4, <1>5, <1>6 DEF QueueStep, daemon, Attached

(* The first payload of a backlog is written to a reader.                  *)
LEMMA PoppedLines ==
    ASSUME TypeOK, Lines, UNCHANGED <<req, sent, in, cur, todo>>,
           NEW k \in Channels, k = cur.ch, chan[k].pending # << >>, chan' = Pop(k),
           ~Now("peer"), NEW d, Log(d, "ChannelPeer", Head(chan[k].pending)),
           InHand(k) = {}
    PROVE  Lines'
<1> DEFINE s == chan[k].pending
<1>1. s \in Seq(Payloads) /\ s # << >> /\ Sorted(s)
  BY DEF TypeOK, DaemonTypes, ChannelStates, Lines, Line
<1>2. PICK p \in Payloads : p = Head(s)
  BY PopType DEF TypeOK
<1>3. p \in Members(s) /\ AllBefore({p}, Members(Tail(s)))
  BY <1>1, <1>2, BacklogTail
<1>4. /\ chan'[k].pending = Tail(s)
      /\ \A j \in Channels : j # k => chan'[j].pending = chan[j].pending
  BY PopShortens
<1>5. \A j \in Channels : Shortens(j)
  BY <1>4 DEF Shortens
<1>6. p \in Stored(k) /\ Stored(k)' = Members(Tail(s))
  BY <1>3, <1>4 DEF Stored
<1>7. ~Now("peer")' /\ \A j \in Channels : LetsGo(j) /\ InHand(j)' = InHand(j) /\ Brought(j)' = Brought(j)
  BY DEF Now, LetsGo, InHand, Brought
<1>8. FewerFrames
  BY DEF FewerFrames
<1>9. CASE d \in Clients
  <2>1. p \in Passed(k) /\ AllBefore(Told(k), {p})
    BY <1>6, LineUp DEF Passed, AllBefore
  <2>2. AllBefore({p}, InHand(k)' \union Stored(k)' \union Brought(k)')
    <3>1. AllBefore({p}, Brought(k)) /\ AllBefore({p}, {})
      BY <1>6, LineUp DEF AllBefore
    <3>2. QED
      BY <1>3, <1>6, <1>7, <3>1, BeforeThree
  <2>3. "ChannelPeer" \in AllModes
    BY DEF AllModes
  <2>4. Log(d, "ChannelPeer", p)
    BY <1>2
  <2>5. QED
    BY <1>5, <1>7, <1>8, <1>9, <2>1, <2>2, <2>3, <2>4, DeliveringLines
<1>10. CASE d \notin Clients
  <2>1. dlv' = dlv
    BY <1>10 DEF Log, TypeOK, HistoryTypes
  <2>2. QED
    BY <1>5, <1>7, <1>8, <2>1, ShrinkingLines
<1>11. QED
  BY <1>9, <1>10

LEMMA DrainLines ==
    ASSUME TypeOK, Lines, Handler, DrainStep
    PROVE  Lines'
<1>1. UNCHANGED <<req, sent>> /\ Doing("drain")
  BY DEF DrainStep, client
<1>2. PICK k \in Channels : k = cur.ch
  BY <1>1, InServing
<1>3. Now("drain") /\ ~Now("peer") /\ InHand(k) = {} /\ cur.id \in Clients
  BY <1>1, InServing DEF Now
<1>4. CASE Goto(Tail(todo)) /\ UNCHANGED <<chan, in, dlv>>
  BY <1>1, <1>3, <1>4, NextGoes, SameShortens, ShrinkingLines
<1>5. CASE /\ chan[k].pending # << >> /\ chan' = Pop(k) /\ UNCHANGED <<in, cur, todo>>
           /\ Log(cur.id, "ChannelPeer", Head(chan[k].pending))
  BY <1>1, <1>2, <1>3, <1>5, PoppedLines
<1>6. CASE /\ chan[k].pending # << >> /\ CloseClient(cur.id, Pop(k)) /\ Goto(Returned)
           /\ UNCHANGED dlv
  <2>1. FewerFrames /\ \A j \in Channels : chan'[j].pending = Pop(k)[j].pending
    BY <1>3, <1>6, ClosedBacklogs
  <2>2. \A j \in Channels : Shortens(j)
    BY <1>6, <2>1, PopShortens DEF Shortens
  <2>3. QED
    BY <1>1, <1>6, <2>1, <2>2, ReturnedGoes, ShrinkingLines
<1>7. QED
  BY <1>2, <1>4, <1>5, <1>6 DEF DrainStep, daemon

LEMMA PushLines ==
    ASSUME TypeOK, Lines, Handler, PushStep
    PROVE  Lines'
<1>1. UNCHANGED <<req, sent, in>> /\ Doing("push")
  BY DEF PushStep, client
<1>2. PICK k \in Channels : k = cur.ch
  BY <1>1, InServing
<1>3. Now("push") /\ ~Now("peer") /\ InHand(k) = {}
  BY <1>1, InServing DEF Now
<1>4. CASE /\ Goto(Tail(todo)) /\ UNCHANGED dlv
           /\ chan' = chan \/ (chan[k].pending # << >> /\ chan' = Pop(k))
  <2>1. FewerFrames /\ \A j \in Channels : Shortens(j)
    <3>1. CASE chan' = chan
      BY <1>1, <3>1, SameShortens
    <3>2. CASE chan[k].pending # << >> /\ chan' = Pop(k)
      BY <1>1, <3>2, PopShortens DEF Shortens, FewerFrames
    <3>3. QED
      BY <1>4, <3>1, <3>2
  <2>2. QED
    BY <1>1, <1>3, <1>4, <2>1, NextGoes, ShrinkingLines
<1>5. CASE /\ chan[k].pending # << >> /\ chan' = Pop(k) /\ UNCHANGED <<cur, todo>>
           /\ Log(chan[k].recv_ready, "ChannelPeer", Head(chan[k].pending))
  BY <1>1, <1>2, <1>3, <1>5, PoppedLines
<1>6. QED
  BY <1>2, <1>4, <1>5 DEF PushStep

LEMMA PeerLines ==
    ASSUME TypeOK, Lines, Handler, PeerStep
    PROVE  Lines'
<1>1. UNCHANGED <<req, sent, in, chan>> /\ Doing("peer")
  BY DEF PeerStep, client, daemon
<1>2. PICK k \in Channels : k = cur.ch
  BY <1>1, InServing
<1>3. PICK p \in Payloads : p = cur.pay
  BY <1>1, InServing
<1>4. Now("peer") /\ InHand(k) = {} /\ Brought(k) = {p}
  BY <1>1, <1>2, <1>3, InServing
<1>5. FewerFrames /\ \A j \in Channels : Shortens(j) /\ Stored(j)' = Stored(j)
  BY <1>1, KeptPending DEF FewerFrames
<1>6. ASSUME NEW d \in Clients, Log(d, "ChannelPeer", p), Goto(Tail(todo)) PROVE Lines'
  <2>1. ~Now("peer")' /\ \A j \in Channels : LetsGo(j) /\ InHand(j)' = {}
    BY <1>4, <1>6, NextGoes
  <2>2. p \in Passed(k) /\ AllBefore(Told(k), {p})
    BY <1>4, LineUp DEF Passed
  <2>3. AllBefore({p}, InHand(k)' \union Stored(k)' \union Brought(k)')
    <3>1. AllBefore({p}, {p}) /\ AllBefore({p}, Stored(k)) /\ AllBefore({p}, {})
      BY <1>4, LineUp, BeforeItself DEF AllBefore
    <3>2. Brought(k)' \subseteq {p}
      BY <1>4, <2>1 DEF LetsGo
    <3>3. AllBefore({p}, Brought(k)')
      BY <3>1, <3>2 DEF AllBefore
    <3>4. QED
      BY <1>5, <2>1, <3>1, <3>3, BeforeThree
  <2>4. "ChannelPeer" \in AllModes
    BY DEF AllModes
  <2>5. QED
    BY <1>1, <1>2, <1>5, <1>6, <2>1, <2>2, <2>3, <2>4, DeliveringLines
<1>7. CASE Goto(<<Todo("park")>> \o Tail(todo)) /\ dlv' = dlv
  <2>1. Tail(todo) \in Seq(ItemsOf(cur.op))
    BY <1>1, ServedType DEF TypeOK
  <2>2. /\ <<Todo("park")>> \o Tail(todo) # << >>
        /\ Head(<<Todo("park")>> \o Tail(todo)) = Todo("park")
    BY <2>1
  <2>3. todo' # << >> /\ Head(todo') = Todo("park") /\ cur' = cur
    BY <1>7, <2>2, Zenon DEF Goto
  <2>4. Head(todo').do = "park"
    BY <2>3, ItemKinds
  <2>5. ~Now("peer")' /\ \A j \in Channels : LetsGo(j)
    BY <2>3, <2>4 DEF Now, LetsGo, InHand, Brought
  <2>6. QED
    BY <1>1, <1>5, <1>7, <2>5, ShrinkingLines
<1>8. QED
  BY <1>3, <1>6, <1>7 DEF PeerStep, Peers, Attached

LEMMA ParkLines ==
    ASSUME TypeOK, Lines, Handler, ParkStep
    PROVE  Lines'
<1>1. UNCHANGED <<req, sent, in, dlv>> /\ Doing("park")
  BY DEF ParkStep, client
<1>2. PICK k \in Channels : k = cur.ch
  BY <1>1, InServing
<1>3. PICK p \in Payloads : p = cur.pay
  BY <1>1, InServing
<1>4. /\ Now("park") /\ InHand(k) = {} /\ Brought(k) = {p}
      /\ Tail(todo) \in Seq(ItemsOf(cur.op))
  BY <1>1, <1>2, <1>3, InServing, ServedType DEF TypeOK
<1>5. CASE Goto(<<Answer("Error")>>) /\ chan' = chan
  <2>1. todo' = <<Answer("Error")>> /\ cur' = cur
    BY <1>5, Tuples DEF Goto
  <2>2. Head(todo').do \in Idlers
    BY <2>1, Tuples, ItemKinds DEF Idlers
  <2>3. QED
    BY <1>1, <1>5, <2>1, <2>2, IdleGoes, SameShortens, ShrinkingLines
<1>6. CASE /\ chan' = Push(k, p)
           /\ Goto(<<Todo("push")>> \o Tail(todo)) \/ Goto(Tail(todo))
  <2>1. ~Now("peer")' /\ \A j \in Channels : LetsGo(j) /\ InHand(j)' = {}
    <3>1. CASE Goto(Tail(todo))
      BY <1>4, <3>1, NextGoes
    <3>2. CASE Goto(<<Todo("push")>> \o Tail(todo))
      <4>1. /\ <<Todo("push")>> \o Tail(todo) # << >>
            /\ Head(<<Todo("push")>> \o Tail(todo)) = Todo("push")
        BY <1>4
      <4>2. todo' # << >> /\ Head(todo') = Todo("push") /\ cur' = cur
        BY <3>2, <4>1, Zenon DEF Goto
      <4>3. Head(todo').do \in Idlers
        BY <4>2, ItemKinds DEF Idlers
      <4>4. QED
        BY <4>2, <4>3, IdleGoes
    <3>3. QED
      BY <1>6, <3>1, <3>2
  <2> DEFINE s == chan[k].pending
  <2>2. s \in Seq(Payloads) /\ Sorted(s) /\ Stored(k) = Members(s)
    BY DEF TypeOK, DaemonTypes, ChannelStates, Lines, Line, Stored
  <2>3. AllBefore(Members(s), {p})
    BY <1>4, <2>2, LineUp
  <2>4. Sorted(Append(s, p)) /\ Members(Append(s, p)) \subseteq Members(s) \union {p}
    BY <2>2, <2>3, BacklogAppend
  <2>5. /\ chan'[k].pending = Append(s, p)
        /\ \A j \in Channels : j # k => chan'[j].pending = chan[j].pending
    BY <1>6 DEF Push, TypeOK, DaemonTypes, ChannelStates
  <2>6. ASSUME NEW j \in Channels
        PROVE  /\ Sorted(chan'[j].pending) /\ Told(j)' = Told(j)
               /\ Stored(j)' \subseteq Stored(j) \union Brought(j)
               /\ j # k => Stored(j)' = Stored(j)
    <3>1. Told(j)' = Told(j)
      BY <1>1 DEF Told
    <3>2. CASE j = k
      <4>1. Stored(k)' = Members(Append(s, p))
        BY <2>5 DEF Stored
      <4>2. QED
        BY <1>4, <2>2, <2>4, <2>5, <3>1, <3>2, <4>1
    <3>3. CASE j # k
      <4>1. Sorted(chan[j].pending)
        BY DEF Lines, Line
      <4>2. QED
        BY <2>5, <3>1, <3>3, <4>1 DEF Stored
    <3>4. QED
      BY <3>2, <3>3
  <2>7. ASSUME NEW j \in Channels PROVE Passed(j)' \subseteq Passed(j) /\ Line(j)'
    <3>1. InHand(j)' = {} /\ Brought(j)' \subseteq Brought(j)
      BY <2>1 DEF LetsGo
    <3>2. Passed(j)' \subseteq Passed(j)
      BY <2>6, <3>1 DEF Passed
    <3>3. /\ AllBefore(Told(j), Stored(j)) /\ AllBefore(Told(j), Brought(j))
          /\ AllBefore(Stored(j), Brought(j))
      BY LineUp
    <3>4. AllBefore(Stored(j)', Brought(j)')
      <4>1. CASE j = k
        <5>1. AllBefore({p}, {p})
          BY BeforeItself
        <5>2. QED
          BY <1>4, <2>6, <3>1, <3>3, <4>1, <5>1 DEF AllBefore
      <4>2. CASE j # k
        BY <2>6, <3>1, <3>3, <4>2 DEF AllBefore
      <4>3. QED
        BY <4>1, <4>2
    <3>5. AllBefore(Told(j)', InHand(j)' \union Stored(j)' \union Brought(j)')
      BY <2>6, <3>1, <3>3 DEF AllBefore
    <3>6. AllBefore(InHand(j)', Stored(j)' \union Brought(j)')
      BY <3>1 DEF AllBefore
    <3>7. QED
      BY <2>1, <2>6, <3>2, <3>4, <3>5, <3>6 DEF Line
  <2>8. FewerFrames /\ \A c \in Clients : DlvOrder(dlv'[c])
    BY <1>1 DEF FewerFrames, Lines
  <2>9. QED
    BY <1>1, <2>7, <2>8, DaemonLines
<1>7. QED
  BY <1>2, <1>3, <1>5, <1>6 DEF ParkStep

LEMMA StepLines ==
    ASSUME TypeOK, Lines, Handler, Step
    PROVE  Lines'
BY MarkLines, FlushLines, CopyLines, QueueLines, DrainLines, PushLines, PeerLines, ParkLines
   DEF Step

LEMMA TakenFewer ==
    ASSUME TypeOK, NEW c \in Clients, Take(c), in[c] # << >>
    PROVE  FewerFrames
BY DEF Take, FewerFrames, TypeOK, WireTypes

LEMMA ServeOtherLines ==
    ASSUME TypeOK, Lines, NEW c \in Clients,
           ServeAttach(c) \/ ServeDetach(c) \/ ServeOffer(c) \/ ServeRecvReady(c)
    PROVE  Lines'
<1>1. /\ UNCHANGED <<req, sent, dlv>> /\ Take(c) /\ in[c] # << >>
      /\ \E items : Start(c, items)
  <2>1. CASE ServeAttach(c)
    BY <2>1, Zenon DEF ServeAttach, client, HasFrame
  <2>2. CASE ServeDetach(c)
    BY <2>2, Zenon DEF ServeDetach, client, HasFrame
  <2>3. CASE ServeOffer(c)
    BY <2>3, Zenon DEF ServeOffer, client, HasFrame
  <2>4. CASE ServeRecvReady(c)
    BY <2>4, Zenon DEF ServeRecvReady, client, HasFrame
  <2>5. QED
    BY <2>1, <2>2, <2>3, <2>4
<1>2. FewerFrames
  BY <1>1, TakenFewer
<1>3. \A k \in Channels : Shortens(k)
  BY OtherBacklogs, KeptPending
<1>4. todo' # << >> => Head(todo').do \in Idlers /\ cur'.op # "Publish"
  BY OtherItems
<1>5. todo' = << >> => cur'.op # "Publish"
  BY <1>1 DEF Start, NoFrame
<1>6. (\A k \in Channels : LetsGo(k)) /\ ~Now("peer")'
  BY <1>4, <1>5, IdleGoes
<1>7. QED
  BY <1>1, <1>2, <1>3, <1>6, ShrinkingLines

LEMMA ClosingLines ==
    ASSUME TypeOK, Lines, NEW c \in Clients, ServeBye(c) \/ HangUp(c)
    PROVE  Lines'
<1>1. /\ UNCHANGED <<req, sent, dlv, cur, todo>> /\ CloseClient(c, chan) /\ todo = << >>
  BY DEF ServeBye, HangUp, client, HasFrame, Idle
<1>2. (\A k \in Channels : LetsGo(k)) /\ ~Now("peer")'
  BY <1>1, IdleGoes
<1>3. QED
  BY <1>1, <1>2, ClosedShortens, ShrinkingLines

(* The message whose publisher is served next comes after those that the   *)
(* channel has taken, and before those that the publisher still has.       *)
LEMMA NextComes ==
    ASSUME TypeOK, Lines, NEW c \in Clients, HasFrame(c, "Publish"), Take(c),
           UNCHANGED <<req, sent>>
    PROVE  LET k == Head(in[c]).ch
               p == Head(in[c]).pay
           IN  /\ k \in Channels /\ p \in Payloads /\ p.from = c /\ p.n <= sent
               /\ AllBefore(Passed(k), {p}) /\ \A d \in Clients : AllBefore({p}, Yet(d)')
<1> DEFINE k == Head(in[c]).ch
           p == Head(in[c]).pay
<1>1. /\ in[c] \in Seq(Frames) /\ in[c] # << >> /\ Head(in[c]).op = "Publish"
      /\ Head(in[c]) \in Frames /\ Own(c, in[c], req[c], sent)
  BY TakeType DEF TypeOK, WireTypes, HasFrame, Lines
<1>2. k \in Channels /\ p \in Payloads
  BY <1>1 DEF Frames
<1>3. /\ p \in Written(in[c]) /\ \A q \in Written(Tail(in[c])) : p.n <= q.n
      /\ Written(Tail(in[c])) \subseteq Written(in[c])
  BY <1>1, WrittenTail DEF Own
<1>4. p.from = c /\ p.n <= sent
  BY <1>1, <1>3 DEF Own
<1>5. AllBefore(Passed(k), {p})
  <2>1. Earlier(k, c, sent) /\ p \in Yet(c)
    BY <1>2, <1>3 DEF Lines, Yet
  <2>2. QED
    BY <2>1 DEF Earlier, AllBefore
<1>6. /\ in'[c] = Tail(in[c]) /\ \A d \in Clients : d # c => in'[d] = in[d]
  BY DEF Take, TypeOK, WireTypes
<1>7. ASSUME NEW d \in Clients PROVE AllBefore({p}, Yet(d)')
  <2>1. CASE d = c
    <3>1. Yet(c)' = Written(Tail(in[c])) \union Proposed(req[c])
      BY <1>6 DEF Yet
    <3>2. AllBefore({p}, Proposed(req[c]))
      BY <1>1, <1>3 DEF Own, AllBefore
    <3>3. AllBefore({p}, Written(Tail(in[c])))
      BY <1>3 DEF AllBefore, Before
    <3>4. QED
      BY <2>1, <3>1, <3>2, <3>3 DEF AllBefore
  <2>2. CASE d # c
    <3>1. Yet(d)' = Written(in[d]) \union Proposed(req[d])
      BY <1>6, <2>2 DEF Yet
    <3>2. \A q \in Yet(d)' : q.from = d
      BY <3>1 DEF Lines, Own
    <3>3. QED
      BY <1>4, <2>2, <3>2 DEF AllBefore, Before
  <2>3. QED
    BY <2>1, <2>2
<1>8. QED
  BY <1>2, <1>4, <1>5, <1>7

LEMMA ServePublishLines ==
    ASSUME TypeOK, Lines, NEW c \in Clients, ServePublish(c), NoneOvertaken
    PROVE  Lines'
<1>1. /\ UNCHANGED <<req, dlv, sent, chan>> /\ Take(c) /\ HasFrame(c, "Publish")
      /\ in[c] # << >> /\ todo = << >>
  BY DEF ServePublish, client, daemon, HasFrame, Idle
<1>2. PICK k \in Channels, p \in Payloads : k = Head(in[c]).ch /\ p = Head(in[c]).pay
  BY <1>1, NextComes
<1>3. /\ p.from = c /\ p.n <= sent /\ AllBefore(Passed(k), {p})
      /\ \A d \in Clients : AllBefore({p}, Yet(d)')
  BY <1>1, <1>2, NextComes
<1>4. PICK left : left = chan[k].list["BroadcastIn"]
  OBVIOUS
<1>5. \/ Start(c, <<Todo("park"), Answer("Ack")>>)
      \/ Start(c, <<Todo("peer"), Answer("Ack")>>) /\ Ahead(c, k)
      \/ Start(c, <<Copies(p, left), Queue(p), Answer("Ack")>>) /\ Ahead(c, k)
  BY <1>2, <1>4 DEF ServePublish, Ahead
<1>6. /\ cur'.op = "Publish" /\ cur'.ch = k /\ cur'.pay = p /\ todo' # << >>
      /\ \/ Head(todo').do = "park"
         \/ Head(todo').do = "peer" /\ Ahead(c, k)
         \/ Head(todo').do = "copies" /\ Head(todo').pay = p /\ Ahead(c, k)
  <2>1. ASSUME NEW a, NEW items, Start(c, items), items # << >>, Head(items) = a
        PROVE  /\ todo' # << >> /\ Head(todo') = a
               /\ cur'.op = "Publish" /\ cur'.ch = k /\ cur'.pay = p
    <3>1. todo' = items /\ cur' = Serving(c, Head(in[c]))
      BY <2>1 DEF Start
    <3>2. Head(in[c]).op = "Publish"
      BY <1>1 DEF HasFrame
    <3>3. QED
      BY <1>2, <2>1, <3>1, <3>2 DEF Serving
  <2>2. ASSUME NEW a, NEW x, NEW y
        PROVE  /\ <<a, x>> # << >> /\ Head(<<a, x>>) = a
               /\ <<a, x, y>> # << >> /\ Head(<<a, x, y>>) = a
    OBVIOUS
  <2>3. CASE Start(c, <<Todo("park"), Answer("Ack")>>)
    BY <2>1, <2>2, <2>3, ItemKinds
  <2>4. CASE Start(c, <<Todo("peer"), Answer("Ack")>>) /\ Ahead(c, k)
    BY <2>1, <2>2, <2>4, ItemKinds
  <2>5. CASE Start(c, <<Copies(p, left), Queue(p), Answer("Ack")>>) /\ Ahead(c, k)
    BY <2>1, <2>2, <2>5, ItemKinds
  <2>6. QED
    BY <1>5, <2>3, <2>4, <2>5
<1>7. Now("peer")' \/ Now("copies")' => AllBefore({p}, Stored(k))
  <2>1. ASSUME Ahead(c, k) PROVE \A q \in Stored(k) : q.from # c
    BY <1>1, <1>2, <2>1 DEF NoneOvertaken
  <2>2. Now("peer")' \/ Now("copies")' => Ahead(c, k)
    BY <1>6 DEF Now
  <2>3. QED
    BY <1>3, <2>1, <2>2 DEF AllBefore, Before
<1>8. \A j \in Channels : Told(j)' = Told(j) /\ Stored(j)' = Stored(j) /\ InHand(j) = {}
  BY <1>1 DEF Told, Stored, InHand, Now
<1>9. /\ Brought(k)' = {p} /\ InHand(k)' \subseteq {p}
      /\ InHand(k)' # {} => AllBefore({p}, Stored(k))
      /\ \A j \in Channels : j # k => Brought(j)' = {} /\ InHand(j)' = {}
  BY <1>6, <1>7 DEF Brought, InHand, Now
<1>10. \A j \in Channels : Passed(j)' \subseteq Passed(j) \union {q \in {p} : j = k}
  BY <1>8, <1>9 DEF Passed
<1>11. ASSUME NEW j \in Channels PROVE Line(j)'
  <2>1. /\ AllBefore(Told(j), Stored(j)) /\ Sorted(chan[j].pending)
    BY LineUp DEF Lines, Line
  <2>2. CASE j # k
    BY <1>1, <1>8, <1>9, <2>1, <2>2 DEF Line, AllBefore
  <2>3. CASE j = k
    <3>1. /\ AllBefore(Told(k), {p}) /\ AllBefore(Stored(k), {p}) /\ AllBefore({p}, {p})
      BY <1>3, BeforeItself DEF Passed, AllBefore
    <3>2. AllBefore(Told(k)', InHand(k)' \union Stored(k)' \union Brought(k)')
      BY <1>8, <1>9, <2>1, <2>3, <3>1 DEF AllBefore
    <3>3. AllBefore(InHand(k)', Stored(k)' \union Brought(k)')
      BY <1>8, <1>9, <3>1 DEF AllBefore
    <3>4. AllBefore(Stored(k)', Brought(k)')
      BY <1>8, <1>9, <3>1
    <3>5. Now("peer")' => AllBefore(Brought(k)', Stored(k)')
      BY <1>7, <1>8, <1>9
    <3>6. QED
      BY <1>1, <2>1, <2>3, <3>2, <3>3, <3>4, <3>5 DEF Line
  <2>4. QED
    BY <2>2, <2>3
<1>12. \A d \in Clients : Own(d, in[d], req[d], sent)' /\ Yet(d)' \subseteq Yet(d)
  BY <1>1, TakenFewer, OwnFewer
<1>13. ASSUME NEW j \in Channels, NEW d \in Clients PROVE Earlier(j, d, sent)'
  <2>1. Earlier(j, d, sent) /\ Yet(d)' \subseteq Yet(d) /\ sent' = sent
    BY <1>1, <1>12 DEF Lines
  <2>2. QED
    BY <1>3, <1>10, <2>1 DEF Earlier, AllBefore
<1>14. QED
  BY <1>1, <1>11, <1>12, <1>13 DEF Lines

LEMMA YetTypes ==
    ASSUME TypeOK, NEW c \in Clients
    PROVE  /\ Yet(c) \subseteq Payloads /\ sent \in Nat /\ MaxPublish \in Nat
           /\ in[c] \in Seq(Frames) /\ req[c] \in Requests
           /\ req[c].op \in {"Offer", "Backoff"} => req[c].pay \in Payloads
<1>1. req[c] \in Requests /\ in[c] \in Seq(Frames) /\ sent \in Nat /\ MaxPublish \in Nat
  BY BoundsAssumption DEF TypeOK, ClientTypes, WireTypes, HistoryTypes
<1>2. req[c].op \in {"Offer", "Backoff"} => req[c].pay \in Payloads
  BY <1>1 DEF Requests
<1>3. Proposed(req[c]) \subseteq Payloads /\ Written(in[c]) \subseteq Payloads
  BY <1>2 DEF Proposed, Written
<1>4. QED
  BY <1>1, <1>2, <1>3 DEF Yet

(* What a client does leaves the lines of the channels alone; it may have  *)
(* one more message to publish.                                            *)
LEMMA ClientLines ==
    ASSUME TypeOK, Lines, UNCHANGED <<dlv, chan, cur, todo>>, sent' \in {sent, sent + 1},
           NEW c \in Clients, \A d \in Clients : d # c => in'[d] = in[d] /\ req'[d] = req[d],
           Own(c, in[c], req[c], sent)',
           \A p \in Yet(c)' : p \in Yet(c) \/ (p \in Payloads /\ p.n = sent + 1)
    PROVE  Lines'
<1>1. sent \in Nat /\ \A p \in Payloads : p.n \in Nat
  BY YetTypes DEF Payloads
<1>2. ASSUME NEW k \in Channels
      PROVE  Passed(k)' = Passed(k) /\ Passed(k) \subseteq Payloads /\ Line(k)'
  <2>1. /\ Told(k)' = Told(k) /\ InHand(k)' = InHand(k) /\ Stored(k)' = Stored(k)
        /\ Brought(k)' = Brought(k) /\ (Now("peer")' <=> Now("peer"))
    BY DEF Told, InHand, Stored, Brought, Now
  <2>2. Passed(k)' = Passed(k) /\ Passed(k) \subseteq Payloads
    BY <2>1 DEF Passed, Told, InHand, Stored, Members, Brought
  <2>3. Line(k)
    BY DEF Lines
  <2>4. QED
    BY <2>1, <2>2, <2>3 DEF Line
<1>3. \A d \in Clients : DlvOrder(dlv'[d])
  BY DEF Lines
<1>4. ASSUME NEW d \in Clients PROVE Own(d, in[d], req[d], sent)'
  <2>1. CASE d = c
    BY <2>1
  <2>2. CASE d # c
    <3>1. Own(d, in[d], req[d], sent) /\ Yet(d) \subseteq Payloads
      BY YetTypes DEF Lines
    <3>2. \A p \in Written(in[d]) \union Proposed(req[d]) : p.from = d /\ p.n <= sent'
      BY <1>1, <3>1 DEF Own, Yet
    <3>3. QED
      BY <2>2, <3>1, <3>2 DEF Own
  <2>3. QED
    BY <2>1, <2>2
<1>5. ASSUME NEW k \in Channels, NEW d \in Clients PROVE Earlier(k, d, sent)'
  <2>1. Earlier(k, d, sent) /\ Earlier(k, c, sent)
    BY DEF Lines
  <2>2. \A p \in Passed(k) : p.n <= sent'
    BY <1>1, <1>2, <2>1 DEF Earlier
  <2>3. AllBefore(Passed(k), Yet(d)')
    <3>1. CASE d # c
      BY <2>1, <3>1 DEF Yet, Earlier
    <3>2. CASE d = c
      <4> SUFFICES ASSUME NEW p \in Passed(k), NEW q \in Yet(c)' PROVE Before(p, q)
        BY <3>2 DEF AllBefore
      <4>1. CASE q \in Yet(c)
        BY <2>1, <4>1 DEF Earlier, AllBefore
      <4>2. CASE q \in Payloads /\ q.n = sent + 1
        BY <1>1, <1>2, <2>1, <4>2 DEF Earlier, Before
      <4>3. QED
        BY <4>1, <4>2
    <3>3. QED
      BY <3>1, <3>2
  <2>4. QED
    BY <1>2, <2>2, <2>3 DEF Earlier
<1>6. QED
  BY <1>2, <1>3, <1>4, <1>5 DEF Lines

LEMMA SentFrame ==
    ASSUME TypeOK, Lines, NEW c \in Clients, NEW f \in Frames, Send(c, f),
           f.op = "Publish" => \A p \in Written(in[c]) : p.n <= f.pay.n
    PROVE  /\ \A d \in Clients : d # c => in'[d] = in[d]
           /\ InOrder(in'[c])
           /\ f.op # "Publish" => Written(in'[c]) \subseteq Written(in[c])
           /\ f.op = "Publish" => Written(in'[c]) \subseteq Written(in[c]) \union {f.pay}
<1>1. /\ in'[c] = in[c] \/ in'[c] = Append(in[c], f)
      /\ \A d \in Clients : d # c => in'[d] = in[d]
  BY DEF Send, TypeOK, WireTypes
<1>2. in[c] \in Seq(Frames) /\ InOrder(in[c])
  BY YetTypes DEF Lines, Own
<1>3. QED
  BY <1>1, <1>2, WrittenAppend

(* Requests without a new message.                                         *)
LEMMA PlainClientLines ==
    ASSUME TypeOK, Lines, UNCHANGED <<dlv, chan, cur, todo, sent>>, NEW c \in Clients,
           \A d \in Clients : d # c => req'[d] = req[d],
           Proposed(req'[c]) \subseteq Proposed(req[c]),
           \/ in' = in
           \/ \E f \in Frames : f.op # "Publish" /\ Send(c, f)
    PROVE  Lines'
<1>1. /\ \A d \in Clients : d # c => in'[d] = in[d]
      /\ InOrder(in'[c]) /\ Written(in'[c]) \subseteq Written(in[c])
  <2>1. CASE in' = in
    BY <2>1 DEF Lines, Own
  <2>2. CASE in' # in
    <3>1. PICK f \in Frames : f.op # "Publish" /\ Send(c, f)
      BY <2>2
    <3>2. QED
      BY <3>1, SentFrame
  <2>3. QED
    BY <2>1, <2>2
<1>2. Own(c, in[c], req[c], sent)
  BY DEF Lines
<1>3. Own(c, in[c], req[c], sent)'
  BY <1>1, <1>2 DEF Own, AllBefore
<1>4. \A p \in Yet(c)' : p \in Yet(c)
  BY <1>1 DEF Yet
<1>5. QED
  BY <1>1, <1>3, <1>4, ClientLines

LEMMA AskLines ==
    ASSUME TypeOK, Lines, NEW c \in Clients,
           \/ SendBye(c) \/ RetryOffer(c)
           \/ \E k \in Channels :
              \/ SendRecvReady(c, k)
              \/ \E m \in Modes : SendAttach(c, k, m) \/ SendDetach(c, k, m)
    PROVE  Lines'
<1>1. req \in [Clients -> Requests] /\ Modes \subseteq AllModes
  BY ModesAssumption DEF TypeOK, ClientTypes
<1>2. CASE SendBye(c)
  <2>1. Frame("Bye", None, None, None) \in Frames /\ Frame("Bye", None, None, None).op = "Bye"
    BY DEF Frame, Frames
  <2>2. req' = [req EXCEPT ![c] = Frame("Bye", None, None, None)]
    BY <1>2 DEF SendBye
  <2>3. Proposed(req'[c]) = {} /\ \A d \in Clients : d # c => req'[d] = req[d]
    BY <1>1, <2>1, <2>2 DEF Proposed
  <2>4. QED
    BY <1>2, <2>1, <2>3, PlainClientLines DEF SendBye, daemon
<1>3. CASE RetryOffer(c)
  <2>1. req[c].ch \in Channels /\ req[c].op = "Backoff"
    BY <1>1, <1>3 DEF RetryOffer, Requests
  <2> DEFINE f == Frame("Offer", req[c].ch, None, None)
  <2>2. f \in Frames /\ f.op = "Offer" /\ Send(c, f)
    BY <1>3, <2>1 DEF Frame, Frames, RetryOffer
  <2> HIDE DEF f
  <2>3. req' = [req EXCEPT ![c] = [req[c] EXCEPT !.op = "Offer"]]
    BY <1>3 DEF RetryOffer
  <2>4. /\ req'[c].op = "Offer" /\ req'[c].pay = req[c].pay
        /\ \A d \in Clients : d # c => req'[d] = req[d]
    <3>1. req[c] \in Requests /\ req'[c] = [req[c] EXCEPT !.op = "Offer"]
      BY <1>1, <2>3
    <3>2. QED
      BY <1>1, <2>3, <3>1 DEF Requests
  <2>5. Proposed(req'[c]) \subseteq Proposed(req[c])
    BY <2>1, <2>4 DEF Proposed
  <2>6. QED
    BY <1>3, <2>2, <2>4, <2>5, PlainClientLines DEF RetryOffer, daemon
<1>4. ASSUME NEW k \in Channels, SendRecvReady(c, k) PROVE Lines'
  <2>1. Frame("RecvReady", k, None, None) \in Frames /\ Frame("RecvReady", k, None, None).op = "RecvReady"
    BY DEF Frame, Frames
  <2>2. req' = req
    BY <1>4 DEF SendRecvReady, client
  <2>3. QED
    BY <1>4, <2>1, <2>2, PlainClientLines DEF SendRecvReady, daemon
<1>5. ASSUME NEW k \in Channels, NEW m \in AllModes, SendAttach(c, k, m) PROVE Lines'
  <2>1. Frame("Attach", k, m, None) \in Frames /\ Frame("Attach", k, m, None).op = "Attach"
    BY DEF Frame, Frames
  <2>2. req' = [req EXCEPT ![c] = Frame("Attach", k, m, None)]
    BY <1>5 DEF SendAttach
  <2>3. Proposed(req'[c]) = {} /\ \A d \in Clients : d # c => req'[d] = req[d]
    BY <1>1, <2>1, <2>2 DEF Proposed
  <2>4. QED
    BY <1>5, <2>1, <2>3, PlainClientLines DEF SendAttach, daemon
<1>6. ASSUME NEW k \in Channels, NEW m \in AllModes, SendDetach(c, k, m) PROVE Lines'
  <2>1. Frame("Detach", k, m, None) \in Frames /\ Frame("Detach", k, m, None).op = "Detach"
    BY DEF Frame, Frames
  <2>2. req' = req
    BY <1>6 DEF SendDetach
  <2>3. QED
    BY <1>6, <2>1, <2>2, PlainClientLines DEF SendDetach, daemon
<1>7. QED
  BY <1>1, <1>2, <1>3, <1>4, <1>5, <1>6

LEMMA NewMessageLines ==
    ASSUME TypeOK, Lines, NEW c \in Clients, NEW k \in Channels,
           SendPublish(c, k) \/ SendOffer(c, k)
    PROVE  Lines'
<1>1. sent' = sent + 1 /\ UNCHANGED <<todo, cur, chan, dlv>> /\ req[c] = NoReq
  BY DEF SendPublish, SendOffer, daemon, CanSend
<1>2. PICK p : p = [from |-> c, n |-> sent + 1]
  OBVIOUS
<1>3. p \in Payloads /\ p.n = sent + 1 /\ p.from = c /\ sent \in Nat
  <2>1. sent \in Nat /\ MaxPublish \in Nat /\ sent < MaxPublish
    BY YetTypes DEF SendPublish, SendOffer
  <2>2. QED
    BY <1>2, <2>1 DEF Payloads
<1>4. /\ Own(c, in[c], req[c], sent) /\ Proposed(req[c]) = {}
      /\ Written(in[c]) \subseteq Payloads /\ req \in [Clients -> Requests]
  BY <1>1, YetTypes DEF Lines, Proposed, NoReq, Frame, Yet, TypeOK, ClientTypes
<1>5. \A q \in Written(in[c]) : q.from = c /\ q.n <= sent + 1 /\ q.n <= p.n
  <2>1. \A q \in Written(in[c]) : q.from = c /\ q.n <= sent /\ q.n \in Nat
    BY <1>4 DEF Own, Payloads
  <2>2. QED
    BY <1>3, <2>1
<1>6. ASSUME NEW f \in Frames, NEW r, Send(c, f), req' = [req EXCEPT ![c] = r],
             \/ f.op = "Publish" /\ f.pay = p /\ Proposed(r) = {}
             \/ f.op # "Publish" /\ Proposed(r) = {p}
      PROVE  Lines'
  <2>1. req'[c] = r /\ \A d \in Clients : d # c => req'[d] = req[d]
    BY <1>4, <1>6
  <2>2. /\ \A d \in Clients : d # c => in'[d] = in[d]
        /\ InOrder(in'[c])
        /\ f.op # "Publish" => Written(in'[c]) \subseteq Written(in[c])
        /\ f.op = "Publish" => Written(in'[c]) \subseteq Written(in[c]) \union {f.pay}
    BY <1>5, <1>6, SentFrame
  <2>3. \A q \in Written(in'[c]) \union Proposed(req'[c]) : q \in Written(in[c]) \/ q = p
    BY <1>6, <2>1, <2>2
  <2>4. AllBefore(Written(in'[c]), Proposed(req'[c]))
    BY <1>5, <1>6, <2>1, <2>2 DEF AllBefore, Before
  <2>5. \A q \in Written(in'[c]) \union Proposed(req'[c]) : q.from = c /\ q.n <= sent + 1
    BY <1>3, <1>5, <2>3
  <2>6. Own(c, in[c], req[c], sent)'
    BY <1>1, <2>2, <2>4, <2>5 DEF Own
  <2>7. \A q \in Yet(c)' : q \in Yet(c) \/ (q \in Payloads /\ q.n = sent + 1)
    BY <1>3, <2>3 DEF Yet
  <2>8. QED
    BY <1>1, <2>1, <2>2, <2>6, <2>7, ClientLines
<1>7. CASE SendPublish(c, k)
  <2> DEFINE f == Frame("Publish", k, None, p)
  <2>1. /\ f \in Frames /\ f.op = "Publish" /\ f.pay = p
        /\ Send(c, f) /\ req' = [req EXCEPT ![c] = f]
    BY <1>2, <1>3, <1>7, Zenon DEF Frame, Frames, SendPublish
  <2>2. Proposed(f) = {}
    BY <2>1 DEF Proposed
  <2> HIDE DEF f
  <2>3. QED
    BY <1>6, <2>1, <2>2
<1>8. CASE SendOffer(c, k)
  <2> DEFINE f == Frame("Offer", k, None, None)
             r == Frame("Offer", k, None, p)
  <2>1. Send(c, f) /\ req' = [req EXCEPT ![c] = r]
    BY <1>2, <1>8 DEF SendOffer
  <2>2. f \in Frames /\ f.op = "Offer" /\ r.op = "Offer" /\ r.pay = p
    BY DEF Frame, Frames
  <2>3. Proposed(r) = {p}
    BY <2>2 DEF Proposed
  <2> HIDE DEF f, r
  <2>4. QED
    BY <1>6, <2>1, <2>2, <2>3
<1>9. QED
  BY <1>7, <1>8

LEMMA ReadFrameLines ==
    ASSUME TypeOK, Lines, NEW c \in Clients, ReadFrame(c)
    PROVE  Lines'
<1> DEFINE r == req[c]
<1>1. /\ UNCHANGED <<todo, cur, chan, dlv, sent>> /\ req \in [Clients -> Requests]
      /\ r \in Requests
  BY DEF ReadFrame, daemon, TypeOK, ClientTypes
<1>2. CASE UNCHANGED <<req, in>>
  BY <1>1, <1>2, PlainClientLines
<1>3. CASE /\ req' = [req EXCEPT ![c] = NoReq]
           /\ \/ in' = in
              \/ r.op = "Attach" /\ Send(c, Frame("Detach", r.ch, r.mode, None))
  <2>1. Proposed(req'[c]) = {} /\ \A d \in Clients : d # c => req'[d] = req[d]
    BY <1>1, <1>3 DEF NoReq, Frame, Proposed
  <2>2. r.op = "Attach" => /\ Frame("Detach", r.ch, r.mode, None) \in Frames
                           /\ Frame("Detach", r.ch, r.mode, None).op = "Detach"
    BY <1>1 DEF Frame, Frames, Requests
  <2>3. QED
    BY <1>1, <1>3, <2>1, <2>2, PlainClientLines
<1>4. CASE r.op = "Offer" /\ in' = in /\ req' = [req EXCEPT ![c] = [@ EXCEPT !.op = "Backoff"]]
  <2>1. req'[c] = [r EXCEPT !.op = "Backoff"] /\ \A d \in Clients : d # c => req'[d] = req[d]
    BY <1>1, <1>4
  <2>2. req'[c].op = "Backoff" /\ req'[c].pay = r.pay
    BY <1>1, <2>1 DEF Requests
  <2>3. Proposed(req'[c]) \subseteq Proposed(req[c])
    BY <1>4, <2>2 DEF Proposed
  <2>4. QED
    BY <1>1, <1>4, <2>1, <2>3, PlainClientLines
<1>5. CASE /\ r.op = "Offer" /\ Send(c, Frame("Publish", r.ch, None, r.pay))
           /\ req' = [req EXCEPT ![c] = [@ EXCEPT !.op = "Publish"]]
  <2>1. r.ch \in Channels /\ r.pay \in Payloads
    BY <1>1, <1>5 DEF Requests
  <2>2. PICK p \in Payloads : p = r.pay
    BY <2>1
  <2>3. PICK f \in Frames : f = Frame("Publish", r.ch, None, p)
    BY <2>1 DEF Frame, Frames
  <2>4. f.op = "Publish" /\ f.pay = p /\ Send(c, f)
    BY <1>5, <2>2, <2>3 DEF Frame
  <2>5. Own(c, in[c], req[c], sent) /\ Proposed(req[c]) = {p}
    BY <1>5, <2>2 DEF Lines, Proposed
  <2>6. \A q \in Written(in[c]) : q.from = c /\ q.n <= sent /\ q.n <= p.n
    BY <2>5 DEF Own, AllBefore, Before
  <2>7. /\ \A d \in Clients : d # c => in'[d] = in[d]
        /\ InOrder(in'[c]) /\ Written(in'[c]) \subseteq Written(in[c]) \union {p}
    BY <2>4, <2>6, SentFrame
  <2>8. req'[c].op = "Publish" /\ \A d \in Clients : d # c => req'[d] = req[d]
    <3>1. /\ req'[c] = [r EXCEPT !.op = "Publish"]
          /\ \A d \in Clients : d # c => req'[d] = req[d]
      BY <1>1, <1>5
    <3>2. QED
      BY <1>1, <3>1 DEF Requests
  <2>9. Proposed(req'[c]) = {}
    BY <2>8 DEF Proposed
  <2>10. Own(c, in[c], req[c], sent)'
    BY <1>1, <2>5, <2>7, <2>9 DEF Own, AllBefore
  <2>11. \A q \in Yet(c)' : q \in Yet(c)
    BY <2>5, <2>7, <2>9 DEF Yet
  <2>12. QED
    BY <1>1, <2>7, <2>8, <2>10, <2>11, ClientLines
<1>6. \/ UNCHANGED <<req, in>>
      \/ /\ req' = [req EXCEPT ![c] = NoReq]
         /\ \/ in' = in
            \/ r.op = "Attach" /\ Send(c, Frame("Detach", r.ch, r.mode, None))
      \/ r.op = "Offer" /\ in' = in /\ req' = [req EXCEPT ![c] = [@ EXCEPT !.op = "Backoff"]]
      \/ /\ r.op = "Offer" /\ Send(c, Frame("Publish", r.ch, None, r.pay))
         /\ req' = [req EXCEPT ![c] = [@ EXCEPT !.op = "Publish"]]
  BY Zenon DEF ReadFrame
<1>7. QED
  BY <1>2, <1>3, <1>4, <1>5, <1>6

LEMMA ClientStepLines ==
    ASSUME TypeOK, Lines, NEW c \in Clients, ClientStep(c)
    PROVE  Lines'
<1>1. CASE Connect(c)
  <2>1. UNCHANGED <<todo, cur, chan, dlv, sent, in, req>>
    BY <1>1 DEF Connect
  <2>2. QED
    BY <2>1, PlainClientLines
<1>2. CASE CloseEnd(c)
  <2>1. UNCHANGED <<todo, cur, chan, dlv, sent, in>> /\ req' = [req EXCEPT ![c] = NoReq]
    BY <1>2 DEF CloseEnd, daemon
  <2>2. Proposed(req'[c]) = {} /\ \A d \in Clients : d # c => req'[d] = req[d]
    BY <2>1 DEF TypeOK, ClientTypes, NoReq, Frame, Proposed
  <2>3. QED
    BY <2>1, <2>2, PlainClientLines
<1>3. QED
  BY <1>1, <1>2, ReadFrameLines, AskLines, NewMessageLines DEF ClientStep, Die, ReadEof

LEMMA LinesNext ==
    ASSUME TypeOK, Handler, Lines, NoneOvertaken, [Next]_vars
    PROVE  Lines'
<1>1. CASE UNCHANGED vars \/ Exit
  <2>1. UNCHANGED <<todo, cur, chan, dlv, sent, in, req>>
    BY <1>1 DEF vars, Exit, client, daemon
  <2>2. CASE Clients = {}
    <3>1. \A k \in Channels : /\ Told(k)' = Told(k) /\ InHand(k)' = InHand(k)
                              /\ Stored(k)' = Stored(k) /\ Brought(k)' = Brought(k)
                              /\ (Now("peer")' <=> Now("peer")) /\ Line(k)
      BY <2>1 DEF Told, InHand, Stored, Brought, Now, Lines
    <3>2. QED
      BY <2>1, <2>2, <3>1 DEF Lines, Line
  <2>3. CASE Clients # {}
    BY <2>1, <2>3, PlainClientLines
  <2>4. QED
    BY <2>2, <2>3
<1>2. QED
  BY <1>1, StepLines, ServeOtherLines, ClosingLines, ServePublishLines, ClientStepLines
     DEF Next, Serve

LEMMA InitLines ==
    ASSUME Init
    PROVE  Lines
<1>1. /\ \A c \in Clients : in[c] = << >> /\ dlv[c] = << >> /\ req[c].op = "None"
      /\ \A k \in Channels : chan[k].pending = << >>
      /\ todo = << >> /\ cur.op = "None"
  BY DEF Init, EmptyChannel, NoReq, Frame, NoFrame
<1>2. /\ Members(<< >>) = {} /\ Sorted(<< >>) /\ DlvOrder(<< >>) /\ InOrder(<< >>)
      /\ Written(<< >>) = {}
  BY DEF Members, Sorted, DlvOrder, InOrder, Written
<1>3. \A k \in Channels : Told(k) = {} /\ InHand(k) = {} /\ Stored(k) = {} /\ Brought(k) = {}
  BY <1>1, <1>2 DEF Told, InHand, Stored, Brought, Now
<1>4. \A k \in Channels : Line(k) /\ Passed(k) = {}
  BY <1>1, <1>2, <1>3 DEF Line, AllBefore, Passed
<1>5. \A c \in Clients : Own(c, in[c], req[c], sent) /\ Yet(c) = {}
  BY <1>1, <1>2 DEF Own, Proposed, AllBefore, Yet
<1>6. QED
  BY <1>1, <1>2, <1>4, <1>5 DEF Lines, Earlier, AllBefore

LEMMA LinesOrder ==
    ASSUME Lines
    PROVE  PublisherOrder
BY DEF Lines, DlvOrder, Before, PublisherOrder

(* Without channel handles, and whatever sockets stall, a reader sees one  *)
(* publisher's messages of a pipe in the order in which they were          *)
(* published: the Publish handler hands a message on at once only if there *)
(* is a reader, and then there is no backlog that it could overtake.       *)
THEOREM PipeOrder ==
    ASSUME "ChannelPeer" \notin Modes
    PROVE  Spec => []PublisherOrder
<1>1. TypeOK /\ NoPeers /\ Flushing => NoneOvertaken
  <2> SUFFICES ASSUME TypeOK, NoPeers, Flushing, NEW c \in Clients, HasFrame(c, "Publish"),
                      NEW k, k = Head(in[c]).ch, Ahead(c, k)
               PROVE  Stored(k) = {}
    BY Zenon DEF NoneOvertaken
  <2>1. k \in Channels /\ Idle
    <3>1. in[c] \in Seq(Frames) /\ in[c] # << >> /\ Head(in[c]).op = "Publish" /\ Idle
      BY DEF TypeOK, WireTypes, HasFrame
    <3>2. Head(in[c]) \in Frames
      BY <3>1
    <3>3. QED
      BY <3>1, <3>2 DEF Frames
  <2>2. c \notin Peers(k)
    BY <2>1 DEF NoPeers, Peers, Attached
  <2>3. Readers(k) # {}
    BY <2>2 DEF Ahead, HasReader, Readers
  <2>4. chan[k].pending = << >>
    BY <2>1, <2>3, IdleReaders
  <2>5. QED
    BY <2>4 DEF Stored, Members
<1>2. Init => Lines
  BY InitLines
<1>3. TypeOK /\ Handler /\ NoPeers /\ Flushing /\ Lines /\ [Next]_vars => Lines'
  BY <1>1, LinesNext
<1>4. Lines => PublisherOrder
  BY LinesOrder
<1>5. QED
  BY <1>2, <1>3, <1>4, FlushingHolds, PTL DEF Spec

(* A pipe with channel handles only has no readers.                        *)
OnlyPeers ==
    /\ \A k \in Channels, c \in Clients, m \in AllModes \ {"ChannelPeer"} :
          chan[k].list[m][c] = 0
    /\ \A c \in Clients : \A i \in DOMAIN in[c] :
          in[c][i].op = "Attach" => in[c][i].mode = "ChannelPeer"

(* What a peer has in the backlog of its channel, it published while it    *)
(* was alone; the peer that joins it is given the backlog before anything  *)
(* else.                                                                   *)
DrainAhead(k) ==
    /\ cur.op = "Attach" /\ cur.ch = k
    /\ Now("drain") \/ (Now("answer") /\ LoopNext("drain", Tail(todo)))
FromPeer(k, q) == \E p \in Stored(k) : p.from = q
OwnBacklog ==
    /\ status = "running" =>
          \A k \in Channels : \A q \in Peers(k) :
             FromPeer(k, q) => Peers(k) = {q} \/ DrainAhead(k)
    /\ cur.op = "Publish" => cur.pay.from = cur.id
    /\ Now("park") => cur.id \notin Peers(cur.ch) \/ Peers(cur.ch) = {cur.id}

LEMMA OnlyPeersNext ==
    ASSUME TypeOK, OnlyPeers, Modes \subseteq {"ChannelPeer"}, [Next]_vars
    PROVE  OnlyPeers'
<1> DEFINE fine(s) == \A i \in DOMAIN s : s[i].op = "Attach" => s[i].mode = "ChannelPeer"
<1>1. ASSUME NEW c \in Clients PROVE fine(in'[c])
  <2>1. in[c] \in Seq(Frames) /\ fine(in[c])
    BY DEF TypeOK, WireTypes, OnlyPeers
  <2>2. fine(<< >>)
    OBVIOUS
  <2>3. in[c] # << >> => fine(Tail(in[c]))
    BY <2>1, TailOf
  <2>4. ASSUME NEW f, f.op = "Attach" => f.mode \in Modes PROVE fine(Append(in[c], f))
    <3>1. f.op = "Attach" => f.mode = "ChannelPeer"
      BY <2>4
    <3>2. QED
      BY <2>1, <3>1, AppendOf
  <2> HIDE DEF fine
  <2>5. CASE \E f : in'[c] = Append(in[c], f) /\ (f.op = "Attach" => f.mode \in Modes)
    BY <2>4, <2>5
  <2>6. QED
    BY <2>1, <2>2, <2>3, <2>5, FramesArrive
<1>2. ASSUME ListsShrink PROVE OnlyPeers'
  BY <1>1, <1>2 DEF ListsShrink, OnlyPeers, AllModes
<1>3. ASSUME chan' = chan PROVE OnlyPeers'
  BY <1>1, <1>3 DEF OnlyPeers
<1>4. ASSUME NEW c \in Clients, ServeAttach(c) PROVE OnlyPeers'
  <2>1. Head(in[c]).mode = "ChannelPeer"
    <3>1. in[c] \in Seq(Frames) /\ in[c] # << >> /\ Head(in[c]).op = "Attach"
      BY <1>4 DEF TypeOK, WireTypes, ServeAttach, HasFrame
    <3>2. 1 \in DOMAIN in[c] /\ Head(in[c]) = in[c][1]
      BY <3>1
    <3>3. QED
      BY <3>1, <3>2 DEF OnlyPeers
  <2>2. \A k \in Channels, d \in Clients, m \in AllModes \ {"ChannelPeer"} :
           chan'[k].list[m][d] = chan[k].list[m][d]
    BY <1>4, <2>1, AttachGrows
  <2>3. QED
    BY <1>1, <2>2 DEF OnlyPeers
<1>5. ASSUME NEW c \in Clients, ClientStep(c) PROVE chan' = chan
  BY <1>5 DEF ClientStep, Connect, SendBye, Die, ReadEof, CloseEnd, ReadFrame, RetryOffer,
              SendPublish, SendOffer, SendRecvReady, SendAttach, SendDetach, daemon
<1>6. ASSUME NEW c \in Clients, HangUp(c) PROVE ListsShrink
  BY <1>6, CloseClientShrinks DEF HangUp, TypeOK, DaemonTypes
<1>7. CASE Exit \/ UNCHANGED vars
  BY <1>3, <1>7 DEF Exit, vars, daemon
<1>8. QED
  BY <1>2, <1>3, <1>4, <1>5, <1>6, <1>7, StepShrinks, ServeShrinks DEF Next

LEMMA FewerPeers ==
    ASSUME TypeOK, ListsShrink
    PROVE  \A k \in Channels : Peers(k)' \subseteq Peers(k)
<1>1. ASSUME NEW k \in Channels PROVE chan[k].list["ChannelPeer"] \in [Clients -> Nat]
  BY ListType DEF AllModes, TypeOK
<1>2. QED
  BY <1>1 DEF ListsShrink, AllModes, Peers, Attached

(* Backlogs get shorter, peers leave, and a drain goes on to its end.      *)
LEMMA BacklogGoes ==
    ASSUME TypeOK, Lines, OwnBacklog, ListsShrink, \A k \in Channels : Shortens(k),
           status' = "running" => status = "running",
           \A k \in Channels : DrainAhead(k) /\ status' = "running" =>
              DrainAhead(k)' \/ chan'[k].pending = << >>,
           cur' = cur \/ cur'.op # "Publish", ~Now("park")'
    PROVE  OwnBacklog'
<1>1. ASSUME status' = "running", NEW k \in Channels, NEW q \in Peers(k)', FromPeer(k, q)'
      PROVE  Peers(k)' = {q} \/ DrainAhead(k)'
  <2>1. Peers(k)' \subseteq Peers(k) /\ Stored(k)' \subseteq Stored(k)
    BY FewerPeers, ShortensLess
  <2>2. FromPeer(k, q) /\ q \in Peers(k) /\ Stored(k)' # {}
    BY <1>1, <2>1 DEF FromPeer
  <2>3. chan'[k].pending # << >>
    BY <2>2 DEF Stored, Members
  <2>4. CASE Peers(k) = {q}
    BY <1>1, <2>1, <2>4
  <2>5. CASE DrainAhead(k)
    BY <1>1, <2>3, <2>5
  <2>6. QED
    BY <1>1, <2>2, <2>4, <2>5 DEF OwnBacklog
<1>2. QED
  BY <1>1, Zenon DEF OwnBacklog

LEMMA StepShortens ==
    ASSUME TypeOK, Step, ~ParkStep
    PROVE  \A k \in Channels : Shortens(k)
<1>1. ASSUME NEW w, Doing(w) PROVE cur.ch \in Channels /\ cur.id \in Clients
  BY <1>1, InServing
<1>2. CASE \A k \in Channels : chan'[k].pending = chan[k].pending
  BY <1>2, KeptPending
<1>3. ASSUME NEW k \in Channels, chan[k].pending # << >>,
             \A j \in Channels : chan'[j].pending = Pop(k)[j].pending
      PROVE  \A j \in Channels : Shortens(j)
  BY <1>3, PopShortens DEF Shortens
<1>4. CASE NotifyStep \/ PeerStep \/ ResumeStep \/ SigPipe
  BY <1>2, <1>4 DEF NotifyStep, PeerStep, ResumeStep, SigPipe, daemon
<1>5. CASE AnswerStep \/ CopyStep \/ QueueStep
  <2>1. chan' = chan \/ \E c \in Clients : CloseClient(c, chan)
    BY <1>1, <1>5 DEF AnswerStep, CopyStep, QueueStep, Attached, daemon
  <2>2. QED
    BY <1>2, <2>1, ClosedShortens
<1>6. CASE FlushStep \/ PushStep
  <2>1. /\ cur.ch \in Channels
        /\ chan' = chan \/ (chan[cur.ch].pending # << >> /\ chan' = Pop(cur.ch))
    BY <1>1, <1>6 DEF FlushStep, PushStep
  <2>2. QED
    BY <1>2, <1>3, <2>1
<1>7. CASE DrainStep
  <2>1. /\ cur.ch \in Channels /\ cur.id \in Clients
        /\ \/ chan' = chan
           \/ /\ chan[cur.ch].pending # << >>
              /\ chan' = Pop(cur.ch) \/ CloseClient(cur.id, Pop(cur.ch))
    BY <1>1, <1>7 DEF DrainStep, daemon
  <2>2. CASE chan[cur.ch].pending # << >> /\ CloseClient(cur.id, Pop(cur.ch))
    BY <1>3, <2>1, <2>2, ClosedBacklogs
  <2>3. QED
    BY <1>2, <1>3, <2>1, <2>2
<1>8. CASE AnnounceStep
  <2>1. chan \in [Channels -> ChannelStates] /\ chan' = [chan EXCEPT ![cur.ch].recv_ready = cur.id]
    BY <1>8 DEF TypeOK, DaemonTypes, AnnounceStep
  <2>2. \A k \in Channels : chan'[k].pending = chan[k].pending
    BY <2>1 DEF ChannelStates
  <2>3. QED
    BY <1>2, <2>2
<1>9. QED
  BY <1>4, <1>5, <1>6, <1>7, <1>8 DEF Step

LEMMA ParkBacklog ==
    ASSUME TypeOK, Handler, Lines, OwnBacklog, ParkStep
    PROVE  OwnBacklog'
<1>1. Doing("park") /\ status' = status
  BY DEF ParkStep
<1>2. PICK k \in Channels : k = cur.ch
  BY <1>1, InServing
<1>3. PICK p \in Payloads : p = cur.pay
  BY <1>1, InServing
<1>4. /\ Now("park") /\ cur.op = "Publish" /\ Brought(k) = {p}
      /\ Tail(todo) \in Seq(ItemsOf(cur.op))
  BY <1>1, <1>2, <1>3, InServing, ServedType DEF TypeOK
<1>5. chan' = chan \/ chan' = Push(k, p)
  BY <1>2, <1>3 DEF ParkStep
<1>6. ~Now("park")' /\ (cur' = cur \/ cur'.op # "Publish")
  <2>1. CASE Goto(Tail(todo))
    BY <1>4, <2>1, PlainAfter DEF Goto, NoFrame
  <2>2. CASE Goto(<<Answer("Error")>>)
    <3>1. todo' = <<Answer("Error")>> /\ cur' = cur
      BY <2>2, Tuples DEF Goto
    <3>2. QED
      BY <3>1, Tuples, ItemKinds DEF Now
  <2>3. CASE Goto(<<Todo("push")>> \o Tail(todo))
    <3>1. /\ <<Todo("push")>> \o Tail(todo) # << >>
          /\ Head(<<Todo("push")>> \o Tail(todo)) = Todo("push")
      BY <1>4
    <3>2. todo' # << >> /\ Head(todo') = Todo("push") /\ cur' = cur
      BY <2>3, <3>1, Zenon DEF Goto
    <3>3. QED
      BY <3>2, ItemKinds DEF Now
  <2>4. QED
    BY <2>1, <2>2, <2>3 DEF ParkStep
<1>7. ASSUME NEW j \in Channels
      PROVE  /\ Peers(j)' = Peers(j)
             /\ Stored(j)' \subseteq Stored(j) \union {q \in {p} : j = k}
  <2>1. CASE chan' = chan
    BY <2>1 DEF Peers, Attached, Stored
  <2>2. CASE chan' = Push(k, p)
    <3>1. chan \in [Channels -> ChannelStates]
      BY DEF TypeOK, DaemonTypes
    <3>2. chan'[j].list = chan[j].list
      BY <2>2, PushKeepsLists DEF TypeOK
    <3>3. CASE j = k
      <4>1. chan'[k].pending = Append(chan[k].pending, p) /\ chan[k].pending \in Seq(Payloads)
        BY <2>2, <3>1 DEF Push, ChannelStates
      <4>2. Sorted(chan[k].pending) /\ AllBefore(Members(chan[k].pending), {p})
        BY <1>4, LineUp DEF Lines, Line, Stored
      <4>3. Members(Append(chan[k].pending, p)) \subseteq Members(chan[k].pending) \union {p}
        BY <4>1, <4>2, BacklogAppend
      <4>4. QED
        BY <3>2, <3>3, <4>1, <4>3 DEF Peers, Attached, Stored
    <3>4. CASE j # k
      BY <2>2, <3>1, <3>2, <3>4 DEF Push, Peers, Attached, Stored
    <3>5. QED
      BY <3>3, <3>4
  <2>3. QED
    BY <1>5, <2>1, <2>2
<1>8. ASSUME status' = "running", NEW j \in Channels, NEW q \in Peers(j)', FromPeer(j, q)'
      PROVE  Peers(j)' = {q}
  <2>1. q \in Peers(j) /\ status = "running" /\ Peers(j)' = Peers(j)
    BY <1>1, <1>7, <1>8
  <2>2. PICK x \in Stored(j)' : x.from = q
    BY <1>8 DEF FromPeer
  <2>3. CASE x \in Stored(j)
    <3>1. ~DrainAhead(j)
      BY <1>4 DEF DrainAhead
    <3>2. QED
      BY <2>1, <2>2, <2>3, <3>1 DEF OwnBacklog, FromPeer
  <2>4. CASE j = k /\ x = p
    <3>1. cur.id = q
      BY <1>3, <1>4, <2>2, <2>4 DEF OwnBacklog
    <3>2. QED
      BY <1>2, <1>4, <2>1, <2>4, <3>1 DEF OwnBacklog
  <2>5. QED
    BY <1>7, <2>2, <2>3, <2>4
<1>9. cur'.op = "Publish" => cur'.pay.from = cur'.id
  BY <1>6 DEF OwnBacklog
<1>10. QED
  BY <1>6, <1>8, <1>9, Zenon DEF OwnBacklog

LEMMA StepBacklog ==
    ASSUME TypeOK, Handler, Lines, OwnBacklog, Roomy, Step
    PROVE  OwnBacklog'
<1>1. ListsShrink
  BY StepShrinks
<1>2. ~ParkStep => \A k \in Channels : Shortens(k)
  BY StepShortens
<1>3. status' = "running" => status = "running"
  BY DEF Step, AnswerStep, NotifyStep, FlushStep, CopyStep, QueueStep, DrainStep, AnnounceStep,
         PeerStep, ParkStep, PushStep, ResumeStep, SigPipe, Doing
<1>4. ASSUME NEW w, Now(w), w \notin {"answer", "drain"}, ~ParkStep,
             cur' = cur \/ cur'.op # "Publish", ~Now("park")'
      PROVE  OwnBacklog'
  <2>1. \A k \in Channels : ~DrainAhead(k)
    BY <1>4 DEF DrainAhead, Now
  <2>2. QED
    BY <1>1, <1>2, <1>3, <1>4, <2>1, BacklogGoes
<1>5. ASSUME NEW w, Now(w), Goto(Tail(todo))
      PROVE  (cur' = cur \/ cur'.op # "Publish") /\ ~Now("park")'
  BY <1>5, PlainAfter DEF Goto, NoFrame
<1>6. ASSUME NEW a, NEW t, a.do = "copies", Head(<<a>> \o t) = a, <<a>> \o t # << >>,
             Goto(<<a>> \o t)
      PROVE  cur' = cur /\ ~Now("park")'
  <2>1. todo' = <<a>> \o t /\ cur' = cur
    BY <1>6, Zenon DEF Goto
  <2>2. Head(todo').do = "copies"
    BY <1>6, <2>1
  <2>3. QED
    BY <2>1, <2>2 DEF Now
<1>7. CASE AnswerStep
  <2>1. Doing("answer") /\ status' = status
    BY <1>7 DEF AnswerStep
  <2>2. Now("answer")
    BY <2>1 DEF Doing, Now
  <2>3. Goto(Tail(todo)) /\ chan' = chan
    BY <1>7, <2>2, NoStall DEF AnswerStep, daemon
  <2>4. ASSUME NEW k \in Channels, DrainAhead(k) PROVE DrainAhead(k)'
    <3>1. cur.op = "Attach" /\ cur.ch = k /\ LoopNext("drain", Tail(todo))
      BY <2>2, <2>4 DEF DrainAhead, Now
    <3>2. todo' = Tail(todo) /\ cur' = cur /\ todo' # << >> /\ Head(todo').do = "drain"
      BY <2>3, <3>1, ItemKinds DEF Goto, LoopNext
    <3>3. QED
      BY <3>1, <3>2 DEF DrainAhead, Now
  <2>5. ~ParkStep
    BY <2>2 DEF ParkStep, Doing, Now
  <2>6. QED
    BY <1>1, <1>2, <1>3, <1>5, <2>2, <2>3, <2>4, <2>5, BacklogGoes
<1>8. CASE DrainStep
  <2>1. Doing("drain") /\ status' = status
    BY <1>8 DEF DrainStep
  <2>2. Now("drain") /\ ~ParkStep
    BY <2>1 DEF Doing, Now, ParkStep
  <2>3. CASE chan[cur.ch].pending = << >> /\ Goto(Tail(todo)) /\ chan' = chan
    <3>1. \A k \in Channels : DrainAhead(k) => chan'[k].pending = << >>
      BY <2>3 DEF DrainAhead
    <3>2. QED
      BY <1>1, <1>2, <1>3, <1>5, <2>2, <2>3, <3>1, BacklogGoes
  <2>4. CASE UNCHANGED <<cur, todo>>
    <3>1. ~Now("park")' /\ \A k \in Channels : DrainAhead(k) => DrainAhead(k)'
      BY <2>2, <2>4 DEF DrainAhead, Now
    <3>2. QED
      BY <1>1, <1>2, <1>3, <2>2, <2>4, <3>1, BacklogGoes
  <2>5. QED
    BY <1>8, <2>2, <2>3, <2>4, NoStall DEF DrainStep, daemon
<1>9. CASE NotifyStep \/ AnnounceStep \/ ResumeStep \/ QueueStep
  <2>1. PICK w \in {"notify", "announce", "resume", "queue"} : Doing(w) /\ Goto(Tail(todo))
    BY <1>9 DEF NotifyStep, AnnounceStep, ResumeStep, QueueStep
  <2>2. Now(w) /\ ~ParkStep
    BY <2>1 DEF Doing, Now, ParkStep
  <2>3. QED
    BY <1>4, <1>5, <2>1, <2>2
<1>10. CASE FlushStep
  <2>1. Doing("flush")
    BY <1>10 DEF FlushStep
  <2>2. Now("flush") /\ ~ParkStep /\ todo \in Seq(ItemsOf(cur.op))
    BY <2>1, ServedType DEF Doing, Now, ParkStep, TypeOK
  <2>3. CASE Goto(Tail(todo))
    BY <1>4, <1>5, <2>2, <2>3
  <2>4. ASSUME NEW p, NEW l, Goto(<<Copies(p, l), Queue(p)>> \o todo) PROVE OwnBacklog'
    <3>1. /\ <<Copies(p, l), Queue(p)>> \o todo # << >>
          /\ Head(<<Copies(p, l), Queue(p)>> \o todo) = Copies(p, l)
      BY <2>2
    <3>2. todo' = <<Copies(p, l), Queue(p)>> \o todo /\ cur' = cur
      BY <2>4, <3>1, Zenon DEF Goto
    <3>3. Head(todo').do = "copies"
      BY <3>1, <3>2, ItemKinds
    <3>4. ~Now("park")'
      BY <3>3 DEF Now
    <3>5. QED
      BY <1>4, <2>2, <3>2, <3>4
  <2>5. QED
    BY <1>10, <2>3, <2>4 DEF FlushStep
<1>11. CASE CopyStep
  <2>1. Doing("copies")
    BY <1>11 DEF CopyStep
  <2>2. Now("copies") /\ ~ParkStep /\ Tail(todo) \in Seq(ItemsOf(cur.op))
    BY <2>1, ServedType DEF Doing, Now, ParkStep, TypeOK
  <2>3. Goto(Tail(todo)) \/ \E p, l : Goto(<<Copies(p, l)>> \o Tail(todo))
    BY <1>11, Zenon DEF CopyStep
  <2>4. ASSUME NEW p, NEW l, Goto(<<Copies(p, l)>> \o Tail(todo)) PROVE OwnBacklog'
    <3>1. /\ <<Copies(p, l)>> \o Tail(todo) # << >>
          /\ Head(<<Copies(p, l)>> \o Tail(todo)) = Copies(p, l)
      BY <2>2
    <3>2. Copies(p, l).do = "copies"
      BY ItemKinds
    <3>3. QED
      BY <1>4, <1>6, <2>2, <2>4, <3>1, <3>2
  <2>5. QED
    BY <1>4, <1>5, <2>2, <2>3, <2>4
<1>12. CASE PeerStep
  <2>1. Doing("peer")
    BY <1>12 DEF PeerStep
  <2>2. Now("peer") /\ ~ParkStep
    BY <2>1 DEF Doing, Now, ParkStep
  <2>3. Goto(Tail(todo))
    BY <1>12, <2>2, NoStall DEF PeerStep
  <2>4. QED
    BY <1>4, <1>5, <2>2, <2>3
<1>13. CASE PushStep
  <2>1. Doing("push") /\ (Goto(Tail(todo)) \/ UNCHANGED <<cur, todo>>)
    BY <1>13 DEF PushStep
  <2>2. Now("push") /\ ~ParkStep
    BY <2>1 DEF Doing, Now, ParkStep
  <2>3. CASE UNCHANGED <<cur, todo>>
    <3>1. ~Now("park")'
      BY <2>2, <2>3 DEF Now
    <3>2. QED
      BY <1>4, <2>2, <2>3, <3>1
  <2>4. QED
    BY <1>4, <1>5, <2>1, <2>2, <2>3
<1>14. CASE SigPipe
  <2>1. status' = "crashed" /\ todo' = << >> /\ cur' = NoFrame
    BY <1>14 DEF SigPipe, Goto
  <2>2. QED
    BY <2>1 DEF OwnBacklog, Now, NoFrame
<1>15. QED
  BY <1>7, <1>8, <1>9, <1>10, <1>11, <1>12, <1>13, <1>14, ParkBacklog DEF Step

(* The peer that joins is given the backlog.                               *)
LEMMA AttachBacklog ==
    ASSUME TypeOK, OnlyPeers, OwnBacklog, NEW c \in Clients, ServeAttach(c)
    PROVE  OwnBacklog'
<1>1. PICK k, m : k = Head(in[c]).ch /\ m = Head(in[c]).mode
  OBVIOUS
<1>2. Head(in[c]).op = "Attach" /\ k \in Channels /\ Idle /\ m = "ChannelPeer"
  <2>1. /\ in[c] \in Seq(Frames) /\ in[c] # << >> /\ Head(in[c]) \in Frames
        /\ Head(in[c]).op = "Attach" /\ Idle
    BY TakeType DEF TypeOK, ServeAttach, WireTypes, HasFrame
  <2>2. 1 \in DOMAIN in[c] /\ Head(in[c]) = in[c][1]
    BY <2>1
  <2>3. QED
    BY <1>1, <2>1, <2>2 DEF Frames, OnlyPeers
<1>3. status' = status /\ status = "running" /\ \A j \in Channels : ~DrainAhead(j)
  BY <1>2 DEF ServeAttach, Idle, DrainAhead, Now
<1>4. \A j \in Channels : Stored(j)' = Stored(j)
  BY OtherBacklogs, KeptPending
<1>5. ASSUME NEW a, NEW items, Start(c, items), items # << >>, Head(items) = Answer(a)
      PROVE  ~Now("park")' /\ cur'.op = "Attach" /\ cur'.ch = k /\ Now("answer")' /\ todo' = items
  <2>1. todo' = items /\ cur' = Serving(c, Head(in[c]))
    BY <1>5 DEF Start
  <2>2. Head(todo').do = "answer"
    BY <1>5, <2>1, ItemKinds
  <2>3. QED
    BY <1>1, <1>2, <1>5, <2>1, <2>2 DEF Serving, Now
<1>6. CASE chan' = chan /\ Start(c, <<Answer("Error"), Todo("resume")>>)
  <2>1. ~Now("park")' /\ cur'.op = "Attach"
    BY <1>5, <1>6, Tuples
  <2>2. \A j \in Channels : Peers(j)' = Peers(j)
    BY <1>6 DEF Peers, Attached
  <2>3. \A j \in Channels : \A q \in Peers(j)' : FromPeer(j, q)' => Peers(j)' = {q}
    BY <1>3, <1>4, <2>2 DEF OwnBacklog, FromPeer
  <2>4. QED
    BY <2>1, <2>3 DEF OwnBacklog
<1>7. CASE Start(c, <<Answer("Ack")>> \o Backlog(m) \o <<Todo("resume")>>)
  <2> DEFINE r == <<Todo("resume")>>
             s == <<Answer("Ack")>> \o Backlog(m) \o r
  <2>1. /\ Answer("Ack") \in ItemsOf("Attach") /\ r \in Seq(ItemsOf("Attach"))
        /\ Todo("drain") \in ItemsOf("Attach")
    BY ItemTypes
  <2>2. Backlog(m) = <<Todo("drain")>>
    BY <1>2 DEF Backlog
  <2>3. Backlog(m) \in Seq(ItemsOf("Attach"))
    BY <2>1, <2>2
  <2>4. s # << >> /\ Head(s) = Answer("Ack") /\ Tail(s) = Backlog(m) \o r
    BY <2>1, <2>3, Joined
  <2>5. LoopNext("drain", <<Todo("drain")>> \o r)
    BY <2>1, Prefixed DEF LoopNext
  <2>6. Start(c, s)
    BY <1>7
  <2> HIDE DEF s, r
  <2>7. ~Now("park")' /\ cur'.op = "Attach" /\ cur'.ch = k /\ Now("answer")' /\ todo' = s
    BY <1>5, <2>4, <2>6
  <2>8. DrainAhead(k)'
    BY <2>2, <2>4, <2>5, <2>7 DEF DrainAhead
  <2>9. ASSUME NEW j \in Channels, j # k PROVE Peers(j)' = Peers(j)
    <3>1. \A d \in Clients : chan'[j].list["ChannelPeer"][d] = chan[j].list["ChannelPeer"][d]
      BY <1>1, <2>9, AttachGrows DEF AllModes
    <3>2. QED
      BY <3>1 DEF Peers, Attached
  <2>10. \A j \in Channels : \A q \in Peers(j)' :
            FromPeer(j, q)' => Peers(j)' = {q} \/ DrainAhead(j)'
    BY <1>3, <1>4, <2>8, <2>9 DEF OwnBacklog, FromPeer
  <2>11. QED
    BY <2>7, <2>10 DEF OwnBacklog
<1>8. QED
  BY <1>1, <1>6, <1>7 DEF ServeAttach

LEMMA ServeBacklog ==
    ASSUME TypeOK, Lines, OwnBacklog, NEW c \in Clients, Serve(c) \/ HangUp(c), ~ServeAttach(c)
    PROVE  OwnBacklog'
<1>1. Idle /\ status' = status /\ \A k \in Channels : ~DrainAhead(k)
  BY DEF Serve, HangUp, ServeDetach, ServeBye, ServePublish, ServeOffer, ServeRecvReady, HasFrame,
         Idle, DrainAhead, Now
<1>2. ListsShrink
  BY ServeShrinks, CloseClientShrinks DEF HangUp, TypeOK, DaemonTypes
<1>3. CASE ServeBye(c) \/ HangUp(c)
  <2>1. UNCHANGED <<cur, todo>> /\ \A k \in Channels : Shortens(k)
    BY <1>3, ClosedShortens DEF ServeBye, HangUp
  <2>2. ~Now("park")'
    BY <1>1, <2>1 DEF Idle, Now
  <2>3. QED
    BY <1>1, <1>2, <2>1, <2>2, BacklogGoes
<1>4. CASE ServeDetach(c) \/ ServeOffer(c) \/ ServeRecvReady(c)
  <2>1. \A k \in Channels : Shortens(k)
    BY <1>4, OtherBacklogs, KeptPending
  <2>2. todo' # << >> => Head(todo').do \in Idlers /\ cur'.op # "Publish"
    BY <1>4, OtherItems
  <2>3. todo' = << >> => cur'.op # "Publish"
    <3>1. \E items : Start(c, items)
      BY <1>4, Zenon DEF ServeDetach, ServeOffer, ServeRecvReady
    <3>2. QED
      BY <3>1 DEF Start, NoFrame
  <2>4. cur'.op # "Publish" /\ ~Now("park")'
    BY <2>2, <2>3 DEF Now, Idlers
  <2>5. QED
    BY <1>1, <1>2, <2>1, <2>4, BacklogGoes
<1>5. CASE ServePublish(c)
  <2>1. Take(c) /\ HasFrame(c, "Publish") /\ UNCHANGED <<chan, req, sent>>
    BY <1>5 DEF ServePublish, daemon, client
  <2>2. PICK k \in Channels : k = Head(in[c]).ch /\ Head(in[c]).pay.from = c
    BY <2>1, NextComes
  <2>3. \A j \in Channels : Peers(j)' = Peers(j) /\ Stored(j)' = Stored(j)
    BY <2>1 DEF Peers, Attached, Stored
  <2>4. \A j \in Channels : \A q \in Peers(j)' : FromPeer(j, q)' => Peers(j)' = {q}
    BY <1>1, <2>3 DEF OwnBacklog, FromPeer, Idle
  <2>5. PICK left, p : left = chan[k].list["BroadcastIn"] /\ p = Head(in[c]).pay
    OBVIOUS
  <2>6. \/ /\ Start(c, <<Todo("park"), Answer("Ack")>>)
           /\ c \notin Peers(k) \/ Peers(k) = {c}
        \/ Start(c, <<Todo("peer"), Answer("Ack")>>)
        \/ Start(c, <<Copies(p, left), Queue(p), Answer("Ack")>>)
    BY <1>5, <2>2, <2>5 DEF ServePublish
  <2>7. ASSUME NEW a, NEW items, Start(c, items), items # << >>, Head(items) = a
        PROVE  /\ todo' # << >> /\ Head(todo') = a
               /\ cur'.id = c /\ cur'.ch = k /\ cur'.pay.from = c
    <3>1. todo' = items /\ cur' = Serving(c, Head(in[c]))
      BY <2>7 DEF Start
    <3>2. QED
      BY <2>2, <2>7, <3>1 DEF Serving
  <2>8. /\ cur'.id = c /\ cur'.ch = k /\ cur'.pay.from = c
        /\ Now("park")' => c \notin Peers(k) \/ Peers(k) = {c}
    <3>1. ASSUME NEW a, NEW x, NEW y
          PROVE  /\ <<a, x>> # << >> /\ Head(<<a, x>>) = a
                 /\ <<a, x, y>> # << >> /\ Head(<<a, x, y>>) = a
      OBVIOUS
    <3>2. CASE /\ Start(c, <<Todo("park"), Answer("Ack")>>)
               /\ c \notin Peers(k) \/ Peers(k) = {c}
      BY <2>7, <3>1, <3>2
    <3>3. CASE Start(c, <<Todo("peer"), Answer("Ack")>>)
      <4>1. Head(todo') = Todo("peer") /\ cur'.id = c /\ cur'.ch = k /\ cur'.pay.from = c
        BY <2>7, <3>1, <3>3
      <4>2. ~Now("park")'
        BY <4>1, ItemKinds DEF Now
      <4>3. QED
        BY <4>1, <4>2
    <3>4. CASE Start(c, <<Copies(p, left), Queue(p), Answer("Ack")>>)
      <4>1. Head(todo') = Copies(p, left) /\ cur'.id = c /\ cur'.ch = k /\ cur'.pay.from = c
        BY <2>7, <3>1, <3>4
      <4>2. ~Now("park")'
        BY <4>1, ItemKinds DEF Now
      <4>3. QED
        BY <4>1, <4>2
    <3>5. QED
      BY <2>6, <3>2, <3>3, <3>4
  <2>9. QED
    BY <2>3, <2>4, <2>8 DEF OwnBacklog
<1>6. QED
  BY <1>3, <1>4, <1>5 DEF Serve

LEMMA OwnBacklogNext ==
    ASSUME TypeOK, Handler, Lines, OnlyPeers, OwnBacklog, Roomy, [Next]_vars
    PROVE  OwnBacklog'
<1>1. ASSUME UNCHANGED <<todo, cur, chan>>, status' = "running" => status = "running"
      PROVE  OwnBacklog'
  <2>1. \A k \in Channels : Peers(k)' = Peers(k) /\ Stored(k)' = Stored(k)
    BY <1>1 DEF Peers, Attached, Stored
  <2>2. \A k \in Channels : DrainAhead(k)' <=> DrainAhead(k)
    BY <1>1 DEF DrainAhead, Now
  <2>3. Now("park") => cur.ch \in Channels
    BY DEF Now, TypeOK, ServingTypes, ServedFrames, NoFrame, ItemsOf, PartsOf
  <2>4. Now("park")' <=> Now("park")
    BY <1>1 DEF Now
  <2>5. QED
    BY <1>1, <2>1, <2>2, <2>3, <2>4 DEF OwnBacklog, FromPeer
<1>2. ASSUME NEW c \in Clients, ClientStep(c)
      PROVE  UNCHANGED <<todo, cur, chan>> /\ status' = status
  BY <1>2 DEF ClientStep, Connect, SendBye, Die, ReadEof, CloseEnd, ReadFrame, RetryOffer,
              SendPublish, SendOffer, SendRecvReady, SendAttach, SendDetach, daemon
<1>3. CASE \E c \in Clients : ClientStep(c)
  BY <1>1, <1>2, <1>3
<1>4. CASE Exit \/ UNCHANGED vars
  BY <1>1, <1>4 DEF Exit, vars, daemon
<1>5. QED
  BY <1>3, <1>4, StepBacklog, AttachBacklog, ServeBacklog DEF Next, Serve

(* The same for channel handles, while no write of the daemon meets a full *)
(* socket: the Publish handler leaves a message in a backlog, but none of  *)
(* a publisher that has another peer.  The hypothesis is needed: a message *)
(* that was parked because that peer's socket is full is overtaken by the  *)
(* next one, once there is room.                                           *)
THEOREM ChannelOrder ==
    ASSUME Modes \subseteq {"ChannelPeer"}
    PROVE  Spec /\ []Roomy => []PublisherOrder
<1> DEFINE Inv == TypeOK /\ Handler /\ Lines /\ OnlyPeers /\ OwnBacklog
<1>1. Init => Inv
  <2> SUFFICES ASSUME Init PROVE Handler /\ OnlyPeers /\ OwnBacklog
    BY InitType, InitLines
  <2>1. /\ todo = << >> /\ cur.op = "None" /\ \A c \in Clients : in[c] = << >>
        /\ \A k \in Channels, m \in AllModes, c \in Clients : chan[k].list[m][c] = 0
    BY DEF Init, EmptyChannel, NoHandles, NoFrame
  <2>2. \A k \in Channels : Peers(k) = {}
    BY <2>1 DEF Peers, Attached, AllModes
  <2>3. QED
    BY <2>1, <2>2 DEF Handler, Remains, OnlyPeers, OwnBacklog, Now
<1>2. Inv => NoneOvertaken
  <2> SUFFICES ASSUME Inv, NEW c \in Clients, HasFrame(c, "Publish"),
                      NEW k, k = Head(in[c]).ch, Ahead(c, k), NEW p \in Stored(k)
               PROVE  p.from # c
    BY Zenon DEF NoneOvertaken
  <2>1. k \in Channels /\ Idle
    <3>1. in[c] \in Seq(Frames) /\ in[c] # << >> /\ Head(in[c]).op = "Publish" /\ Idle
      BY DEF TypeOK, WireTypes, HasFrame
    <3>2. Head(in[c]) \in Frames
      BY <3>1
    <3>3. QED
      BY <3>1, <3>2 DEF Frames
  <2>2. ~HasReader(k)
    BY <2>1 DEF OnlyPeers, HasReader, Attached, AllModes
  <2>3. c \in Peers(k) /\ Peers(k) # {c}
    BY <2>2 DEF Ahead
  <2>4. status = "running" /\ ~DrainAhead(k)
    BY <2>1 DEF Idle, DrainAhead, Now
  <2>5. QED
    BY <2>1, <2>3, <2>4 DEF OwnBacklog, FromPeer
<1>3. Inv /\ Roomy /\ [Next]_vars => Inv'
  BY <1>2, NextType, HandlerNext, LinesNext, OnlyPeersNext, OwnBacklogNext
<1>4. Inv => PublisherOrder
  BY LinesOrder
<1>5. QED
  BY <1>1, <1>3, <1>4, PTL DEF Spec

-----------------------------------------------------------------------------
(* Without channel handles the daemon implements HubBroker: each of its    *)
(* steps is one of a line's, or changes nothing that the lines show.       *)

Handing == Now("copies") \/ Now("queue")

LEMMA WaitingIs ==
    \A k : /\ Handing /\ cur.ch = k => Waiting(k) = <<Head(todo).pay>> \o chan[k].pending
           /\ Now("park") /\ cur.ch = k => Waiting(k) = Append(chan[k].pending, cur.pay)
           /\ ~(Handing \/ Now("park")) \/ cur.ch # k => Waiting(k) = chan[k].pending
<1> TAKE k
<1> DEFINE next == IF todo # << >> /\ cur.ch = k THEN Head(todo).do ELSE "nothing"
<1>1. Waiting(k) = CASE next \in {"copies", "queue"} -> <<Head(todo).pay>> \o chan[k].pending
                     [] next = "park" -> Append(chan[k].pending, cur.pay)
                     [] OTHER -> chan[k].pending
  BY DEF Waiting
<1>2. /\ Handing /\ cur.ch = k => next \in {"copies", "queue"}
      /\ Now("park") /\ cur.ch = k => next = "park"
      /\ ~(Handing \/ Now("park")) \/ cur.ch # k => next \notin {"copies", "queue", "park"}
  BY DEF Handing, Now
<1> HIDE DEF next
<1>3. QED
  BY <1>1, <1>2

LEMMA WaitingNext ==
    \A k : /\ Handing' /\ cur'.ch = k =>
                 Waiting(k)' = <<Head(todo').pay>> \o chan'[k].pending
           /\ Now("park")' /\ cur'.ch = k => Waiting(k)' = Append(chan'[k].pending, cur'.pay)
           /\ ~(Handing \/ Now("park"))' \/ cur'.ch # k => Waiting(k)' = chan'[k].pending
<1>1. (\A k : /\ Handing /\ cur.ch = k => Waiting(k) = <<Head(todo).pay>> \o chan[k].pending
              /\ Now("park") /\ cur.ch = k => Waiting(k) = Append(chan[k].pending, cur.pay)
              /\ ~(Handing \/ Now("park")) \/ cur.ch # k => Waiting(k) = chan[k].pending)'
  BY WaitingIs, PTL
<1>2. QED
  BY <1>1

LEMMA FirstOf ==
    ASSUME NEW S, NEW s \in Seq(S), NEW p \in S
    PROVE  /\ <<p>> \o s # << >> /\ Head(<<p>> \o s) = p /\ Tail(<<p>> \o s) = s
           /\ Append(s, p) # << >> /\ Len(Append(s, p)) = Len(s) + 1
           /\ SubSeq(Append(s, p), 1, Len(Append(s, p)) - 1) = s
           /\ s = << >> => <<p>> \o s = Append(s, p)
           /\ s # << >> => s = <<Head(s)>> \o Tail(s)
<1>1. <<p>> \in Seq(S) /\ Len(<<p>>) = 1 /\ <<p>>[1] = p
  OBVIOUS
<1>2. /\ <<p>> \o s \in Seq(S) /\ Len(<<p>> \o s) = Len(s) + 1
      /\ (<<p>> \o s)[1] = p /\ \A i \in 1..Len(s) : (<<p>> \o s)[i + 1] = s[i]
  BY <1>1
<1>3. <<p>> \o s # << >> /\ Head(<<p>> \o s) = p /\ Tail(<<p>> \o s) = s
  <2>1. Tail(<<p>> \o s) \in Seq(S) /\ Len(Tail(<<p>> \o s)) = Len(s)
    BY <1>2
  <2>2. \A i \in 1..Len(s) : Tail(<<p>> \o s)[i] = s[i]
    BY <1>2
  <2>3. QED
    BY <1>2, <2>1, <2>2
<1>4. /\ Append(s, p) # << >> /\ Len(Append(s, p)) = Len(s) + 1
      /\ SubSeq(Append(s, p), 1, Len(Append(s, p)) - 1) = s
  OBVIOUS
<1>5. s = << >> => <<p>> \o s = Append(s, p)
  OBVIOUS
<1>6. s # << >> => s = <<Head(s)>> \o Tail(s)
  OBVIOUS
<1>7. QED
  BY <1>3, <1>4, <1>5, <1>6

(* The numbers that the daemon has not received are the places of OnePlace *)
(* before its hands.                                                       *)
LEMMA FreshIs ==
    ASSUME TypeOK
    PROVE  NotReceived = {n \in 1..MaxPublish : n > sent} \union Offered \union Framed
<1>1. ASSUME NEW n \in 1..MaxPublish
      PROVE  n \in Offered <=> \E c \in Clients : req[c].op \in {"Offer", "Backoff"} /\ req[c].pay.n = n
  <2>1. ASSUME NEW c \in Clients
        PROVE  (\E i \in DOMAIN OfferLane(req)[c] : OfferLane(req)[c][i] = n)
                  <=> req[c].op \in {"Offer", "Backoff"} /\ req[c].pay.n = n
    <3>1. CASE req[c].op \in {"Offer", "Backoff"}
      <4>1. OfferLane(req)[c] = <<req[c].pay.n>>
        BY <3>1 DEF OfferLane
      <4>2. QED
        BY <3>1, <4>1
    <3>2. CASE req[c].op \notin {"Offer", "Backoff"}
      <4>1. OfferLane(req)[c] = << >>
        BY <3>2 DEF OfferLane
      <4>2. QED
        BY <3>2, <4>1
    <3>3. QED
      BY <3>1, <3>2
  <2>2. QED
    BY <1>1, <2>1 DEF Offered, NumbersIn
<1>2. ASSUME NEW n \in 1..MaxPublish
      PROVE  n \in Framed <=> \E c \in Clients : \E i \in DOMAIN in[c] :
                                 in[c][i].op = "Publish" /\ in[c][i].pay.n = n
  <2>1. \A c \in Clients : DOMAIN in[c] = 1..Len(in[c])
    BY DEF TypeOK, WireTypes
  <2>2. ASSUME NEW c \in Clients
        PROVE  (\E i \in DOMAIN FrameLane(in)[c] : FrameLane(in)[c][i] = n)
                  <=> \E i \in DOMAIN in[c] : in[c][i].op = "Publish" /\ in[c][i].pay.n = n
    <3>1. /\ DOMAIN FrameLane(in)[c] = DOMAIN in[c]
          /\ \A i \in DOMAIN in[c] : FrameLane(in)[c][i] =
                IF in[c][i].op = "Publish" THEN in[c][i].pay.n ELSE 0
      BY <2>1 DEF FrameLane
    <3>2. n # 0
      BY <1>2
    <3>3. QED
      BY <3>1, <3>2
  <2>3. QED
    BY <1>2, <2>2 DEF Framed, NumbersIn
<1>3. Offered \subseteq 1..MaxPublish /\ Framed \subseteq 1..MaxPublish
  BY DEF Offered, Framed, NumbersIn
<1>4. ASSUME NEW n \in 1..MaxPublish
      PROVE  OnItsWay(n) <=> n \in Offered \union Framed
  BY <1>1, <1>2, <1>4, Zenon DEF OnItsWay
<1>5. QED
  BY <1>3, <1>4 DEF NotReceived

LEMMA FreshNext ==
    ASSUME TypeOK'
    PROVE  NotReceived' = {n \in 1..MaxPublish : n > sent'} \union Offered' \union Framed'
<1>1. (TypeOK => NotReceived = {n \in 1..MaxPublish : n > sent} \union Offered \union Framed)'
  BY FreshIs, PTL
<1>2. QED
  BY <1>1

LEMMA FreshShrinks ==
    ASSUME TypeOK, TypeOK', sent' = sent, Offered' \union Framed' \subseteq Offered \union Framed
    PROVE  NotReceived' \subseteq NotReceived
BY FreshIs, FreshNext

(* What all steps share: nothing is written, the lines stay as they are.   *)
SameLines == \A k \in Channels : Waiting(k)' = Waiting(k)

LEMMA GoingOn ==
    ASSUME status' = status, dlv' = dlv, SameLines, NotReceived' \subseteq NotReceived
    PROVE  Broker!Next
<1>1. [k \in Channels |-> Waiting(k)'] = [k \in Channels |-> Waiting(k)]
  BY DEF SameLines
<1>2. Broker!ComeAndGo
  BY <1>1 DEF Broker!ComeAndGo
<1>3. QED
  BY <1>2 DEF Broker!Next

LEMMA Stopping ==
    ASSUME status = "running", status' # "running", dlv' = dlv
    PROVE  Broker!Next
BY DEF Broker!Next, Broker!Stop

LEMMA Calm ==
    ASSUME \A k \in Channels : chan'[k].pending = chan[k].pending,
           ~(Handing \/ Now("park")), ~(Handing \/ Now("park"))'
    PROVE  SameLines
BY WaitingIs, WaitingNext DEF SameLines

LEMMA KeptLines ==
    ASSUME chan' = chan, todo' = todo, cur' = cur
    PROVE  SameLines
BY DEF SameLines, Waiting

(* The daemon reads frames, or drops those of a client that it closes.     *)
LEMMA FreshLeft ==
    ASSUME TypeOK, TypeOK', OnePlace, UNCHANGED <<req, sent>>,
           in' = in \/ (\E c \in Clients : \E channels : CloseClient(c, channels))
    PROVE  NotReceived' \subseteq NotReceived
<1>1. Framed' \subseteq Framed
  BY SameFrames, ClosedPending DEF TypeOK
<1>2. Offered' = Offered
  BY DEF Offered
<1>3. QED
  BY <1>1, <1>2, FreshShrinks

LEMMA FreshTaken ==
    ASSUME TypeOK, TypeOK', OnePlace, UNCHANGED <<req, sent>>,
           NEW c \in Clients, NEW op, HasFrame(c, op), Take(c)
    PROVE  /\ NotReceived' \subseteq NotReceived
           /\ op = "Publish" =>
                 Head(in[c]).pay.n \in NotReceived /\ Head(in[c]).pay.n \notin NotReceived'
<1>1. /\ Framed' \subseteq Framed
      /\ op = "Publish" => Head(in[c]).pay.n \in Framed \ Framed'
  BY FrameTaken DEF TypeOK, OnePlace
<1>2. Offered' = Offered
  BY DEF Offered
<1>3. NotReceived' \subseteq NotReceived
  BY <1>1, <1>2, FreshShrinks
<1>4. ASSUME op = "Publish"
      PROVE  Head(in[c]).pay.n \in NotReceived /\ Head(in[c]).pay.n \notin NotReceived'
  <2>1. PICK n : n = Head(in[c]).pay.n
    OBVIOUS
  <2>2. n \in Framed /\ n \notin Framed' /\ n \notin Offered' /\ n \in 1..sent /\ sent \in Nat
    BY <1>1, <1>2, <1>4, <2>1, BoundsAssumption DEF OnePlace, TypeOK, HistoryTypes
  <2>3. NotReceived' = {m \in 1..MaxPublish : m > sent'} \union Offered' \union Framed'
    BY FreshNext
  <2>4. ~(n > sent')
    BY <2>2
  <2>5. n \in NotReceived /\ n \notin NotReceived'
    BY <2>2, <2>3, <2>4, FreshIs
  <2>6. QED
    BY <2>1, <2>5
<1>5. QED
  BY <1>3, <1>4

LEMMA ClientBroker ==
    ASSUME TypeOK, TypeOK', OnePlace, NEW c \in Clients, ClientStep(c)
    PROVE  Broker!Next
<1>1. UNCHANGED <<todo, cur, chan, dlv>> /\ status' = status /\ sent' \in {sent, sent + 1}
  BY DEF ClientStep, Connect, SendBye, Die, ReadEof, CloseEnd, ReadFrame, RetryOffer,
         SendPublish, SendOffer, SendRecvReady, SendAttach, SendDetach, daemon, client
<1>2. NotReceived' \subseteq NotReceived
  <2>1. Offered' \union Framed' \subseteq Offered \union Framed \union (sent + 1)..sent'
    BY ClientStepPlaces DEF Arrivals
  <2>2. NotReceived' = {n \in 1..MaxPublish : n > sent'} \union Offered' \union Framed'
    BY FreshNext
  <2>3. /\ {n \in 1..MaxPublish : n > sent'} \subseteq {n \in 1..MaxPublish : n > sent}
        /\ (sent + 1)..sent' \subseteq {n \in 1..MaxPublish : n > sent}
    <3>1. sent \in Nat /\ sent' \in 0..MaxPublish /\ MaxPublish \in Nat
      BY BoundsAssumption DEF TypeOK, HistoryTypes
    <3>2. QED
      BY <1>1, <3>1
  <2>4. QED
    BY <2>1, <2>2, <2>3, FreshIs
<1>3. QED
  BY <1>1, <1>2, KeptLines, GoingOn

(* Without channel handles nothing drains a backlog onto a peer.           *)
Drains == {x \in Items : x.do = "drain"}
NoDrain == NoneOf(todo, Drains)

LEMMA NoDrainNow ==
    ASSUME TypeOK, NoDrain
    PROVE  ~Doing("drain")
<1> SUFFICES ASSUME Doing("drain") PROVE FALSE
  OBVIOUS
<1>1. /\ todo \in Seq(ItemsOf(cur.op)) /\ todo # << >>
      /\ Head(todo) \in Items /\ Head(todo).do = "drain"
  BY DoingType, ServedType DEF Doing, TypeOK
<1>2. Head(todo) \notin Drains
  BY <1>1, NoneInTail DEF NoDrain
<1>3. QED
  BY <1>1, <1>2 DEF Drains

LEMMA StepDrains ==
    ASSUME TypeOK, NoDrain, Flushing, Step
    PROVE  NoDrain'
<1>1. ASSUME NEW items, NoneOf(items, Drains), Goto(items) PROVE NoDrain'
  BY <1>1 DEF Goto, NoDrain
<1>2. ASSUME NEW w, Doing(w)
      PROVE  /\ NoneOf(Tail(todo), Drains) /\ NoneOf(todo, Drains)
             /\ Tail(todo) \in Seq(ItemsOf(cur.op)) /\ todo \in Seq(ItemsOf(cur.op))
  <2>1. todo \in Seq(ItemsOf(cur.op)) /\ Tail(todo) \in Seq(ItemsOf(cur.op)) /\ todo # << >>
    BY <1>2, ServedType DEF Doing, TypeOK
  <2>2. QED
    BY <2>1, NoneInTail DEF NoDrain
<1>3. ~DrainStep /\ ~PeerStep /\ ~PushStep
  BY NoDrainNow DEF DrainStep, PeerStep, PushStep, Doing, Now, Flushing
<1>4. ASSUME NEW w, Doing(w), Goto(Tail(todo)) PROVE NoDrain'
  BY <1>1, <1>2, <1>4
<1>5. ASSUME Goto(Returned) \/ Goto(<< >>) PROVE NoDrain'
  <2>1. Todo("resume") \notin Drains
    BY ItemKinds DEF Drains
  <2>2. NoneOf(Returned, Drains) /\ NoneOf(<< >>, Drains)
    BY <2>1, NoneInShort DEF Returned
  <2>3. QED
    BY <1>1, <1>5, <2>2
<1>6. ASSUME NEW w, Doing(w), NEW x, x.do # "drain", Goto(<<x>> \o Tail(todo)) PROVE NoDrain'
  <2>1. PICK U, t : t = Tail(todo) /\ t \in Seq(U) /\ x \in U
    <3>1. Tail(todo) \in Seq(ItemsOf(cur.op) \union {x})
      BY <1>2, <1>6
    <3>2. QED
      BY <3>1
  <2>2. x \notin Drains /\ NoneOf(t, Drains)
    BY <1>2, <1>6, <2>1 DEF Drains
  <2>3. NoneOf(<<x>> \o t, Drains)
    BY <2>1, <2>2, NoneInPrefixed
  <2>4. QED
    BY <1>1, <1>6, <2>1, <2>3
<1>7. CASE FlushStep
  <2>1. Doing("flush")
    BY <1>7 DEF FlushStep
  <2>2. ASSUME NEW p, NEW l, Goto(<<Copies(p, l), Queue(p)>> \o todo) PROVE NoDrain'
    <3>1. PICK a, b : a = Copies(p, l) /\ b = Queue(p)
      OBVIOUS
    <3>2. a \notin Drains /\ b \notin Drains
      BY <3>1, ItemKinds DEF Drains
    <3>3. PICK U : todo \in Seq(U) /\ a \in U /\ b \in U
      <4>1. todo \in Seq(ItemsOf(cur.op) \union {a, b})
        BY <1>2, <2>1
      <4>2. QED
        BY <4>1
    <3>4. PICK s : s = todo
      OBVIOUS
    <3>5. NoneOf(s, Drains) /\ s \in Seq(U)
      BY <1>2, <2>1, <3>3, <3>4
    <3>6. NoneOf(<<b>> \o s, Drains) /\ <<b>> \o s \in Seq(U)
      BY <3>2, <3>3, <3>5, NoneInPrefixed
    <3>7. NoneOf(<<a>> \o (<<b>> \o s), Drains)
      BY <3>2, <3>3, <3>6, NoneInPrefixed
    <3>8. NoneOf(<<a, b>> \o s, Drains)
      BY <3>3, <3>5, <3>7, TwoPrefixed
    <3>9. QED
      BY <1>1, <2>2, <3>1, <3>4, <3>8
  <2>3. QED
    BY <1>4, <1>7, <2>1, <2>2 DEF FlushStep
<1>8. CASE CopyStep
  <2>1. Doing("copies")
    BY <1>8 DEF CopyStep
  <2>2. ASSUME NEW l, Goto(<<Copies(Head(todo).pay, l)>> \o Tail(todo)) PROVE NoDrain'
    BY <1>6, <2>1, <2>2, ItemKinds
  <2>3. Goto(Tail(todo)) \/ \E l : Goto(<<Copies(Head(todo).pay, l)>> \o Tail(todo))
    BY <1>8, Zenon DEF CopyStep
  <2>4. QED
    BY <1>4, <2>1, <2>2, <2>3
<1>9. CASE ParkStep
  <2>1. Doing("park")
    BY <1>9 DEF ParkStep
  <2>2. Goto(<<Answer("Error")>>) \/ Goto(<<Todo("push")>> \o Tail(todo)) \/ Goto(Tail(todo))
    BY <1>9 DEF ParkStep
  <2>3. Goto(<<Answer("Error")>>) => NoDrain'
    <3>1. Answer("Error") \notin Drains
      BY ItemKinds DEF Drains
    <3>2. QED
      BY <1>1, <3>1, NoneInShort
  <2>4. Goto(<<Todo("push")>> \o Tail(todo)) => NoDrain'
    BY <1>6, <2>1, ItemKinds
  <2>5. QED
    BY <1>4, <2>1, <2>2, <2>3, <2>4
<1>10. CASE AnswerStep \/ NotifyStep \/ QueueStep \/ AnnounceStep \/ ResumeStep \/ SigPipe
  <2>1. \/ Goto(Returned) \/ Goto(<< >>)
        \/ Goto(Tail(todo)) /\ \E w : Doing(w)
    BY <1>10, Zenon DEF AnswerStep, NotifyStep, QueueStep, AnnounceStep, ResumeStep, SigPipe
  <2>2. QED
    BY <1>4, <1>5, <2>1
<1>11. QED
  BY <1>3, <1>7, <1>8, <1>9, <1>10 DEF Step

LEMMA NoneInJoined ==
    ASSUME NEW a, NEW b, NEW q, NEW r, b \in {<< >>, <<q>>},
           NEW S, a \notin S, q \notin S, r \notin S
    PROVE  NoneOf(<<a>> \o b \o <<r>>, S)
<1> DEFINE U == {a, q, r}
<1>1. a \in U /\ q \in U /\ r \in U
  OBVIOUS
<1> HIDE DEF U
<1>2. b \in Seq(U) /\ <<r>> \in Seq(U)
  <2>1. << >> \in Seq(U) /\ <<q>> \in Seq(U) /\ <<r>> \in Seq(U)
    BY <1>1
  <2>2. QED
    BY <2>1
<1>3. NoneOf(b \o <<r>>, S)
  <2>1. NoneOf(<<r>>, S)
    BY NoneInShort
  <2>2. CASE b = << >>
    <3>1. b \o <<r>> = <<r>>
      BY <1>1, <1>2, <2>2, Joined
    <3>2. QED
      BY <2>1, <3>1
  <2>3. CASE b = <<q>>
    BY <1>1, <1>2, <2>1, <2>3, NoneInPrefixed
  <2>4. QED
    BY <2>2, <2>3
<1>4. PICK t : t = <<a>> \o b \o <<r>>
  OBVIOUS
<1>5. t \in Seq(U) /\ t # << >> /\ Head(t) = a /\ Tail(t) = b \o <<r>>
  BY <1>1, <1>2, <1>4, Joined
<1>6. NoneOf(t, S)
  BY <1>3, <1>5, NoneByTail
<1>7. QED
  BY <1>4, <1>6

LEMMA ServeDrains ==
    ASSUME TypeOK, NoPeers, NoDrain, NEW c \in Clients, Serve(c) \/ HangUp(c)
    PROVE  NoDrain'
<1>1. \A x : x.do # "drain" => x \notin Drains
  BY DEF Drains
<1>2. ASSUME NEW items, NoneOf(items, Drains), Start(c, items) PROVE NoDrain'
  BY <1>2 DEF Start, NoDrain
<1>3. \A x, y : x.do # "drain" /\ y.do # "drain" =>
         NoneOf(<< >>, Drains) /\ NoneOf(<<x>>, Drains) /\ NoneOf(<<x, y>>, Drains)
  BY <1>1, NoneInShort
<1>4. \A x, y, z : x.do # "drain" /\ y.do # "drain" /\ z.do # "drain" =>
         NoneOf(<<x, y, z>>, Drains)
  BY <1>1, NoneInTriple
<1>5. CASE ServeBye(c) \/ HangUp(c)
  BY <1>5 DEF ServeBye, HangUp, NoDrain
<1>6. CASE ServeDetach(c)
  BY <1>2, <1>6, NoneInShort DEF ServeDetach
<1>7. CASE ServePublish(c)
  <2>1. \/ Start(c, <<Todo("park"), Answer("Ack")>>) \/ Start(c, <<Todo("peer"), Answer("Ack")>>)
        \/ \E p, l : Start(c, <<Copies(p, l), Queue(p), Answer("Ack")>>)
    BY <1>7 DEF ServePublish
  <2>2. /\ \A w \in {"park", "peer"} : NoneOf(<<Todo(w), Answer("Ack")>>, Drains)
        /\ \A p, l : NoneOf(<<Copies(p, l), Queue(p), Answer("Ack")>>, Drains)
    BY <1>3, <1>4, ItemKinds
  <2>3. QED
    BY <1>2, <2>1, <2>2
<1>8. CASE ServeOffer(c)
  <2>1. \/ Start(c, <<Answer("Error")>>) \/ Start(c, << >>)
        \/ \E d : Start(c, <<Notify(c, "Busy"), Notify(d, "Busy")>>)
        \/ Start(c, <<Notify(c, "Accept")>>)
    BY <1>8 DEF ServeOffer
  <2>2. /\ NoneOf(<<Answer("Error")>>, Drains) /\ NoneOf(<< >>, Drains)
        /\ NoneOf(<<Notify(c, "Accept")>>, Drains)
        /\ \A d : NoneOf(<<Notify(c, "Busy"), Notify(d, "Busy")>>, Drains)
    BY <1>3, ItemKinds
  <2>3. QED
    BY <1>2, <2>1, <2>2
<1>9. CASE ServeRecvReady(c)
  <2>1. Head(in[c]) \in Frames /\ Head(in[c]).op = "RecvReady"
    BY <1>9, TakeType DEF TypeOK, ServeRecvReady
  <2>2. c \notin Peers(Head(in[c]).ch)
    BY <2>1 DEF Frames, NoPeers, Peers, Attached
  <2>3. Start(c, <<Answer("Error")>>)
    BY <1>9, <2>2 DEF ServeRecvReady
  <2>4. QED
    BY <1>2, <1>3, <2>3, ItemKinds
<1>10. CASE ServeAttach(c)
  <2>1. PICK m : m = Head(in[c]).mode
    OBVIOUS
  <2>2. m # "ChannelPeer"
    <3>1. in[c] \in Seq(Frames) /\ in[c] # << >> /\ Head(in[c]).op = "Attach"
      BY <1>10 DEF ServeAttach, HasFrame, TypeOK, WireTypes
    <3>2. 1 \in DOMAIN in[c] /\ Head(in[c]) = in[c][1]
      BY <3>1, SequenceEnds
    <3>3. QED
      BY <2>1, <3>1, <3>2 DEF NoPeers
  <2>3. Backlog(m) \in {<< >>, <<Todo("flush")>>}
    BY <2>2 DEF Backlog
  <2>4. \/ Start(c, <<Answer("Error"), Todo("resume")>>)
        \/ Start(c, <<Answer("Ack")>> \o Backlog(m) \o <<Todo("resume")>>)
    BY <1>10, <2>1 DEF ServeAttach
  <2>5. NoneOf(<<Answer("Error"), Todo("resume")>>, Drains)
    <3>1. PICK a, r : a = Answer("Error") /\ r = Todo("resume")
      OBVIOUS
    <3>2. a \notin Drains /\ r \notin Drains
      BY <1>1, <3>1, ItemKinds
    <3>3. QED
      BY <3>1, <3>2, NoneInShort
  <2>6. NoneOf(<<Answer("Ack")>> \o Backlog(m) \o <<Todo("resume")>>, Drains)
    <3>1. PICK a, q, r : a = Answer("Ack") /\ q = Todo("flush") /\ r = Todo("resume")
      OBVIOUS
    <3>2. a \notin Drains /\ q \notin Drains /\ r \notin Drains
      BY <1>1, <3>1, ItemKinds
    <3>3. PICK b : b = Backlog(m)
      OBVIOUS
    <3>4. NoneOf(<<a>> \o b \o <<r>>, Drains)
      BY <2>3, <3>1, <3>2, <3>3, NoneInJoined
    <3>5. QED
      BY <3>1, <3>3, <3>4
  <2>7. QED
    BY <1>2, <2>4, <2>5, <2>6
<1>11. QED
  BY <1>5, <1>6, <1>7, <1>8, <1>9, <1>10 DEF Serve

LEMMA NoDrainNext ==
    ASSUME TypeOK, NoPeers, Flushing, NoDrain, [Next]_vars
    PROVE  NoDrain'
<1>1. ASSUME NEW c \in Clients, ClientStep(c) PROVE todo' = todo
  BY <1>1 DEF ClientStep, Connect, SendBye, Die, ReadEof, CloseEnd, ReadFrame, RetryOffer,
              SendPublish, SendOffer, SendRecvReady, SendAttach, SendDetach
<1>2. CASE Exit \/ UNCHANGED vars
  BY <1>2 DEF Exit, vars, NoDrain
<1>3. CASE \E c \in Clients : ClientStep(c)
  BY <1>1, <1>3 DEF NoDrain
<1>4. QED
  BY <1>2, <1>3, StepDrains, ServeDrains DEF Next

(* What a step leaves to do next, and the lines that the rest shows.       *)
LEMMA CopiesThenQueue ==
    ASSUME Handler, Now("copies")
    PROVE  Tail(todo) # << >> /\ Head(Tail(todo)).do = "queue" /\ Head(Tail(todo)).pay = Head(todo).pay
<1>1. PICK x, t : x = Head(todo) /\ t = Tail(todo)
  OBVIOUS
<1>2. x.do = "copies" /\ todo # << >>
  BY <1>1 DEF Now
<1>3. AttachHandler(x, t) => t # << >>
  BY <1>2 DEF AttachHandler
<1>4. PublishHandler(cur.pay, x, t) => t # << >>
  BY <1>2, ItemKinds DEF PublishHandler
<1>5. ~OfferHandler(x, t) /\ ~RecvReadyHandler(x, t)
  BY <1>2, ItemKinds DEF OfferHandler, RecvReadyHandler
<1>6. t # << >>
  BY <1>1, <1>2, <1>3, <1>4, <1>5 DEF Handler, Remains
<1>7. QED
  BY <1>1, <1>6, NextItem

LEMMA TailCalm ==
    ASSUME Handler, NEW w, Now(w), w # "copies", Goto(Tail(todo))
    PROVE  ~(Handing \/ Now("park"))'
<1>1. CASE Tail(todo) = << >>
  BY <1>1 DEF Goto, Handing, Now
<1>2. CASE Tail(todo) # << >>
  <2>1. /\ Head(Tail(todo)).do \in {"resume", "flush", "drain", "announce", "answer", "notify", "queue"}
        /\ Head(Tail(todo)).do # "queue"
    BY <1>2, NextItem
  <2>2. todo' = Tail(todo)
    BY DEF Goto
  <2>3. QED
    BY <2>1, <2>2 DEF Handing, Now
<1>3. QED
  BY <1>1, <1>2

LEMMA OverCalm ==
    ASSUME Goto(Returned) \/ Goto(<< >>)
    PROVE  ~(Handing \/ Now("park"))'
<1>1. todo' # << >> => Head(todo').do = "resume"
  BY Tuples, ItemKinds DEF Goto, Returned
<1>2. QED
  BY <1>1 DEF Handing, Now

LEMMA NowOnly ==
    ASSUME NEW w, Doing(w)
    PROVE  /\ Now(w) /\ status = "running"
           /\ w \notin {"copies", "queue", "park"} => ~(Handing \/ Now("park"))
           /\ w \in {"copies", "queue"} => Handing
           /\ w = "park" => ~Handing
BY DEF Doing, Now, Handing

LEMMA MarkBroker ==
    ASSUME TypeOK, TypeOK', OnePlace, Handler,
           AnswerStep \/ NotifyStep \/ AnnounceStep \/ ResumeStep
    PROVE  Broker!Next
<1>1. UNCHANGED <<req, sent, dlv>>
  BY DEF AnswerStep, NotifyStep, AnnounceStep, ResumeStep, client
<1>2. PICK w \in {"answer", "notify", "announce", "resume"} :
         Doing(w) /\ (Goto(Tail(todo)) \/ Goto(Returned))
  BY Zenon DEF AnswerStep, NotifyStep, AnnounceStep, ResumeStep
<1>3. ~(Handing \/ Now("park")) /\ ~(Handing \/ Now("park"))' /\ status = "running"
  <2>1. Now(w) /\ w # "copies" /\ ~(Handing \/ Now("park")) /\ status = "running"
    BY <1>2, NowOnly
  <2>2. QED
    BY <1>2, <2>1, TailCalm, OverCalm
<1>4. in' = in \/ \E c \in Clients : \E channels : CloseClient(c, channels)
  <2>1. AnswerStep => cur.id \in Clients
    BY InServing DEF AnswerStep
  <2>2. QED
    BY <2>1, Zenon DEF AnswerStep, NotifyStep, AnnounceStep, ResumeStep
<1>5. NotReceived' \subseteq NotReceived
  BY <1>1, <1>4, FreshLeft
<1>6. \A k \in Channels : chan'[k].pending = chan[k].pending
  <2>1. CASE chan' = chan
    BY <2>1
  <2>2. CASE AnswerStep
    <3>1. chan' = chan \/ CloseClient(cur.id, chan)
      BY <2>2 DEF AnswerStep, daemon
    <3>2. cur.id \in Clients
      BY <2>2, InServing DEF AnswerStep
    <3>3. QED
      BY <2>1, <3>1, <3>2, ClosedBacklogs
  <2>3. CASE AnnounceStep
    <3>1. chan \in [Channels -> ChannelStates]
      BY DEF TypeOK, DaemonTypes
    <3>2. chan' = [chan EXCEPT ![cur.ch].recv_ready = cur.id]
      BY <2>3 DEF AnnounceStep
    <3>3. QED
      BY <3>1, <3>2 DEF ChannelStates
  <2>4. QED
    BY <2>1, <2>2, <2>3 DEF NotifyStep, ResumeStep, daemon
<1>7. SameLines
  BY <1>3, <1>6, Calm
<1>8. status' = status \/ status' # "running"
  BY <1>3
<1>9. QED
  BY <1>1, <1>3, <1>5, <1>7, <1>8, GoingOn, Stopping

(* A message that leaves the backlog for the hand stays in its line.       *)
LEMMA FlushBroker ==
    ASSUME TypeOK, TypeOK', OnePlace, Handler, FlushStep
    PROVE  Broker!Next
<1>1. /\ UNCHANGED <<status, req, sent, dlv, in>> /\ Doing("flush")
  BY DEF FlushStep, client
<1>2. ~(Handing \/ Now("park")) /\ Now("flush")
  BY <1>1, NowOnly
<1>3. NotReceived' \subseteq NotReceived
  BY <1>1, FreshLeft
<1>k. PICK k \in Channels : k = cur.ch
  BY <1>1, InServing
<1>p. PICK p, left : p = Head(chan[k].pending) /\ left = chan[k].list["BroadcastIn"]
  OBVIOUS
<1>4. CASE Goto(Tail(todo)) /\ chan' = chan
  <2>1. ~(Handing \/ Now("park"))'
    BY <1>2, <1>4, TailCalm
  <2>2. QED
    BY <1>1, <1>2, <1>3, <1>4, <2>1, Calm, GoingOn
<1>5. CASE chan[k].pending # << >> /\ chan' = Pop(k) /\ Goto(<<Copies(p, left), Queue(p)>> \o todo)
  <2>1. p \in Payloads /\ todo \in Seq(ItemsOf(cur.op)) /\ chan[k].pending \in Seq(Payloads)
    BY <1>1, <1>p, <1>5, PopType, ServedType DEF TypeOK, DaemonTypes, ChannelStates
  <2>2. todo' = <<Copies(p, left), Queue(p)>> \o todo /\ cur' = cur
    <3>1. <<Copies(p, left), Queue(p)>> \o todo # << >>
      BY <2>1
    <3>2. QED
      BY <1>5, <3>1, Zenon DEF Goto
  <2>3. todo' # << >> /\ Head(todo') = Copies(p, left)
    BY <2>1, <2>2
  <2>4. Head(todo').do = "copies" /\ Head(todo').pay = p
    BY <2>3, ItemKinds
  <2>5. Handing'
    BY <2>3, <2>4 DEF Handing, Now
  <2>6. /\ chan'[k].pending = Tail(chan[k].pending)
        /\ \A j \in Channels : j # k => chan'[j].pending = chan[j].pending
    BY <1>5, PopShortens
  <2>7. <<p>> \o Tail(chan[k].pending) = chan[k].pending
    BY <1>p, <1>5, <2>1, FirstOf
  <2>8. ASSUME NEW j \in Channels PROVE Waiting(j)' = Waiting(j)
    <3>1. Waiting(j) = chan[j].pending
      BY <1>2, WaitingIs
    <3>2. CASE j = k
      <4>1. Waiting(j)' = <<p>> \o chan'[k].pending
        BY <1>k, <2>2, <2>4, <2>5, <3>2, WaitingNext
      <4>2. QED
        BY <2>6, <2>7, <3>1, <3>2, <4>1
    <3>3. CASE j # k
      <4>1. Waiting(j)' = chan'[j].pending
        BY <1>k, <2>2, <3>3, WaitingNext
      <4>2. QED
        BY <2>6, <3>1, <3>3, <4>1
    <3>4. QED
      BY <3>2, <3>3
  <2>9. QED
    BY <1>1, <1>3, <2>8, GoingOn DEF SameLines
<1>6. QED
  BY <1>k, <1>p, <1>4, <1>5 DEF FlushStep

(* The message in hand is still the first of its line.                     *)
LEMMA StillInHand ==
    ASSUME Now("copies"), Handing', cur' = cur, Head(todo').pay = Head(todo).pay,
           \A k \in Channels : chan'[k].pending = chan[k].pending
    PROVE  SameLines
<1>1. Handing
  BY DEF Handing
<1>2. ASSUME NEW k \in Channels PROVE Waiting(k)' = Waiting(k)
  <2>1. CASE cur.ch = k
    <3>1. Waiting(k) = <<Head(todo).pay>> \o chan[k].pending
      BY <1>1, <2>1, WaitingIs
    <3>2. Waiting(k)' = <<Head(todo').pay>> \o chan'[k].pending
      BY <2>1, WaitingNext
    <3>3. QED
      BY <3>1, <3>2
  <2>2. CASE cur.ch # k
    <3>1. Waiting(k) = chan[k].pending /\ Waiting(k)' = chan'[k].pending
      BY <2>2, WaitingIs, WaitingNext
    <3>2. QED
      BY <3>1
  <2>3. QED
    BY <2>1, <2>2
<1>3. QED
  BY <1>2 DEF SameLines

LEMMA SameFresh ==
    ASSUME UNCHANGED <<req, in, sent>>
    PROVE  NotReceived' = NotReceived
BY DEF NotReceived, OnItsWay

LEMMA SameReaders ==
    ASSUME chan' = chan
    PROVE  [k \in Channels |-> QueueReaders(k)]' = [k \in Channels |-> QueueReaders(k)]
BY DEF QueueReaders, Attached

LEMMA GiftLogged ==
    ASSUME NEW k \in Channels, k = cur.ch, NEW c \in Clients, NEW m, NEW p, Log(c, m, p),
           Head(Waiting(k)) = p
    PROVE  Broker!GivenTo(c, k, m)
<1>1. [j \in Channels |-> Waiting(j)][k] = Waiting(k)
  OBVIOUS
<1>2. QED
  BY <1>1 DEF Log, Broker!GivenTo, Broker!Gift

LEMMA HeadGone ==
    ASSUME NEW k \in Channels, Waiting(k)' = Tail(Waiting(k)),
           \A j \in Channels : j # k => Waiting(j)' = Waiting(j)
    PROVE  Broker!HeadLeaves(k)
<1>1. [j \in Channels |-> Waiting(j)'] =
         [[j \in Channels |-> Waiting(j)] EXCEPT ![k] = Tail(@)]
  OBVIOUS
<1>2. QED
  BY <1>1 DEF Broker!HeadLeaves

LEMMA InLine ==
    ASSUME TypeOK, NEW w \in {"copies", "queue"}, Doing(w), NEW k \in Channels, k = cur.ch
    PROVE  /\ Waiting(k) # << >> /\ Head(Waiting(k)) = Head(todo).pay
           /\ Tail(Waiting(k)) = chan[k].pending
           /\ \A j \in Channels : j # k => Waiting(j) = chan[j].pending
<1>1. Handing /\ Head(todo).pay \in Payloads /\ chan[k].pending \in Seq(Payloads)
  BY NowOnly, InServing DEF TypeOK, DaemonTypes, ChannelStates
<1>2. Waiting(k) = <<Head(todo).pay>> \o chan[k].pending
  BY <1>1, WaitingIs
<1>3. \A j \in Channels : j # k => Waiting(j) = chan[j].pending
  BY WaitingIs
<1>4. QED
  BY <1>1, <1>2, <1>3, FirstOf

LEMMA CopyBroker ==
    ASSUME TypeOK, TypeOK', OnePlace, Handler, CopyStep
    PROVE  Broker!Next
<1>1. UNCHANGED <<req, sent>> /\ Doing("copies") /\ Now("copies") /\ status = "running"
  BY DEF CopyStep, client, Doing, Now
<1>k. PICK k \in Channels : k = cur.ch
  BY <1>1, InServing
<1>p. PICK p \in Payloads : p = Head(todo).pay
  BY <1>1, InServing
<1>2. Tail(todo) \in Seq(ItemsOf(cur.op))
  BY <1>1, ServedType DEF TypeOK
<1>3. CASE Goto(Tail(todo)) /\ UNCHANGED <<status, chan, in, dlv>>
  <2>1. /\ Tail(todo) # << >> /\ Head(Tail(todo)).do = "queue"
        /\ Head(Tail(todo)).pay = Head(todo).pay
    BY <1>1, CopiesThenQueue
  <2>2. Handing' /\ cur' = cur /\ Head(todo').pay = Head(todo).pay
    BY <1>3, <2>1 DEF Goto, Handing, Now
  <2>3. SameLines
    BY <1>1, <1>3, <2>2, StillInHand
  <2>4. NotReceived' \subseteq NotReceived
    BY <1>1, <1>3, SameFresh
  <2>5. QED
    BY <1>3, <2>3, <2>4, GoingOn
<1>4. ASSUME NEW l, Goto(<<Copies(p, l)>> \o Tail(todo))
      PROVE  Handing' /\ cur' = cur /\ Head(todo').pay = Head(todo).pay
  <2>1. /\ <<Copies(p, l)>> \o Tail(todo) # << >>
        /\ Head(<<Copies(p, l)>> \o Tail(todo)) = Copies(p, l)
    BY <1>2
  <2>2. todo' # << >> /\ Head(todo') = Copies(p, l) /\ cur' = cur
    BY <1>4, <2>1, Zenon DEF Goto
  <2>3. Head(todo').do = "copies" /\ Head(todo').pay = p
    BY <2>2, ItemKinds
  <2>4. QED
    BY <1>p, <2>2, <2>3 DEF Handing, Now
<1>5. ASSUME NEW c \in Clients, NEW l, Log(c, "BroadcastIn", p), UNCHANGED <<status, chan, in>>,
             Goto(<<Copies(p, l)>> \o Tail(todo))
      PROVE  Broker!Next
  <2>1. SameLines
    BY <1>1, <1>4, <1>5, StillInHand
  <2>2. [j \in Channels |-> Waiting(j)'] = [j \in Channels |-> Waiting(j)]
    BY <2>1 DEF SameLines
  <2>3. Waiting(k) # << >> /\ Head(Waiting(k)) = p
    BY <1>1, <1>k, <1>p, InLine
  <2>4. Broker!GivenTo(c, k, "BroadcastIn")
    BY <1>k, <1>5, <2>3, GiftLogged
  <2>5. NotReceived' = NotReceived
    BY <1>1, <1>5, SameFresh
  <2>6. [j \in Channels |-> QueueReaders(j)]' = [j \in Channels |-> QueueReaders(j)]
    BY <1>5, SameReaders
  <2>7. Broker!Copy(k, c)
    BY <1>1, <1>5, <2>2, <2>3, <2>4, <2>5, <2>6 DEF Broker!Copy
  <2>8. QED
    BY <2>7 DEF Broker!Next
<1>6. ASSUME NEW c \in Clients, NEW l, CloseClient(c, chan), UNCHANGED dlv,
             Goto(<<Copies(p, l)>> \o Tail(todo))
      PROVE  Broker!Next
  <2>1. \A j \in Channels : chan'[j].pending = chan[j].pending
    BY <1>6, ClosedBacklogs
  <2>2. SameLines
    BY <1>1, <1>4, <1>6, <2>1, StillInHand
  <2>3. NotReceived' \subseteq NotReceived
    BY <1>1, <1>6, FreshLeft
  <2>4. QED
    BY <1>1, <1>6, <2>2, <2>3, GoingOn, Stopping
<1>7. \/ Goto(Tail(todo)) /\ UNCHANGED <<status, chan, in, dlv>>
      \/ \E c \in Clients :
            /\ Log(c, "BroadcastIn", p) /\ UNCHANGED <<status, chan, in>>
            /\ \E l : Goto(<<Copies(p, l)>> \o Tail(todo))
      \/ \E c \in Clients : \E l :
            /\ CloseClient(c, chan) /\ UNCHANGED dlv
            /\ Goto(<<Copies(p, l)>> \o Tail(todo))
  BY <1>p, Zenon DEF CopyStep, daemon
<1>8. QED
  BY <1>3, <1>5, <1>6, <1>7

LEMMA ReadersLess ==
    ASSUME TypeOK, NoGhosts, NEW c \in Clients, CloseClient(c, chan)
    PROVE  \A j \in Channels : QueueReaders(j)' = QueueReaders(j) \ {c}
<1> TAKE j \in Channels
<1>1. c \notin Attached(j, "QueueIn")'
  BY ClosedReader DEF Readers
<1>2. ASSUME NEW d \in Clients, d # c
      PROVE  chan'[j].list["QueueIn"][d] = chan[j].list["QueueIn"][d]
  <2>1. chan[j].list["QueueIn"] \in [Clients -> Nat] /\ "QueueIn" \in AllModes
    BY ListType DEF TypeOK, AllModes
  <2>2. chan'[j] = chan[j] \/ chan'[j] = WithoutClient(chan[j], c)
    BY DEF CloseClient
  <2>3. WithoutClient(chan[j], c).list["QueueIn"] = [chan[j].list["QueueIn"] EXCEPT ![c] = 0]
    BY <2>1 DEF WithoutClient
  <2>4. WithoutClient(chan[j], c).list["QueueIn"][d] = chan[j].list["QueueIn"][d]
    BY <1>2, <2>1, <2>3
  <2>5. QED
    BY <2>2, <2>4
<1>3. QED
  BY <1>1, <1>2 DEF QueueReaders, Attached

LEMMA QueueBroker ==
    ASSUME TypeOK, TypeOK', NoGhosts, OnePlace, Handler, QueueStep
    PROVE  Broker!Next
<1>1. /\ UNCHANGED <<req, sent>> /\ Doing("queue") /\ Now("queue") /\ Goto(Tail(todo))
      /\ status = "running"
  BY DEF QueueStep, client, Doing, Now
<1>k. PICK k \in Channels : k = cur.ch
  BY <1>1, InServing
<1>p. PICK p \in Payloads : p = Head(todo).pay
  BY <1>1, InServing
<1>2. /\ Waiting(k) # << >> /\ Head(Waiting(k)) = p /\ Tail(Waiting(k)) = chan[k].pending
      /\ \A j \in Channels : j # k => Waiting(j) = chan[j].pending
  BY <1>1, <1>k, <1>p, InLine
<1>3. \A j \in Channels : Waiting(j)' = chan'[j].pending
  <2>1. ~(Handing \/ Now("park"))'
    BY <1>1, TailCalm
  <2>2. QED
    BY <2>1, WaitingNext
<1>4. ASSUME \A j \in Channels : chan'[j].pending = chan[j].pending
      PROVE  Broker!HeadLeaves(k)
  <2>1. Waiting(k)' = Tail(Waiting(k)) /\ \A j \in Channels : j # k => Waiting(j)' = Waiting(j)
    BY <1>2, <1>3, <1>4
  <2>2. QED
    BY <2>1, HeadGone
<1>5. ASSUME UNCHANGED <<status, chan, in>>
      PROVE  /\ Broker!HeadLeaves(k) /\ NotReceived' = NotReceived
             /\ [j \in Channels |-> QueueReaders(j)]' = [j \in Channels |-> QueueReaders(j)]
  BY <1>1, <1>4, <1>5, SameFresh, SameReaders
<1>6. CASE Attached(k, "QueueIn") = {} /\ UNCHANGED <<status, chan, in, dlv>>
  <2>1. Broker!Spend(k)
    BY <1>1, <1>2, <1>5, <1>6 DEF Broker!Spend, QueueReaders
  <2>2. QED
    BY <2>1 DEF Broker!Next
<1>7. ASSUME NEW c \in Attached(k, "QueueIn"), Log(c, "QueueIn", p), UNCHANGED <<status, chan, in>>
      PROVE  Broker!Next
  <2>1. c \in Clients
    BY DEF Attached
  <2>2. Broker!GivenTo(c, k, "QueueIn")
    BY <1>k, <1>2, <1>7, <2>1, GiftLogged
  <2>3. Broker!Give(k, c)
    BY <1>1, <1>2, <1>5, <1>7, <2>2 DEF Broker!Give, QueueReaders
  <2>4. QED
    BY <2>1, <2>3 DEF Broker!Next
<1>8. ASSUME NEW c \in Attached(k, "QueueIn"), CloseClient(c, chan), UNCHANGED dlv
      PROVE  Broker!Next
  <2>1. c \in Clients
    BY DEF Attached
  <2>2. CASE status' # "running"
    BY <1>1, <1>8, <2>2, Stopping
  <2>3. CASE status' = "running"
    <3>1. Broker!HeadLeaves(k)
      BY <1>4, <1>8, <2>1, ClosedBacklogs
    <3>2. NotReceived' \subseteq NotReceived
      BY <1>1, <1>8, <2>1, FreshLeft
    <3>3. \A j \in Channels : QueueReaders(j)' = QueueReaders(j) \ {c}
      BY <1>8, <2>1, ReadersLess
    <3>4. Broker!Lose(k)
      <4>1. c \in [j \in Channels |-> QueueReaders(j)][k]
        BY DEF QueueReaders
      <4>2. \A j \in Channels : [i \in Channels |-> QueueReaders(i)]'[j]
                                   = [i \in Channels |-> QueueReaders(i)][j] \ {c}
        BY <3>3
      <4>3. QED
        BY <1>1, <1>2, <1>8, <2>3, <3>1, <3>2, <4>1, <4>2 DEF Broker!Lose
    <3>5. QED
      BY <3>4 DEF Broker!Next
  <2>4. QED
    BY <2>2, <2>3
<1>9. QED
  BY <1>k, <1>p, <1>6, <1>7, <1>8 DEF QueueStep, daemon

LEMMA ParkBroker ==
    ASSUME TypeOK, TypeOK', OnePlace, Handler, Flushing, ParkStep
    PROVE  Broker!Next
<1>1. UNCHANGED <<status, req, sent, in, dlv>> /\ Doing("park") /\ Now("park") /\ status = "running"
  BY DEF ParkStep, client, Doing, Now
<1>k. PICK k \in Channels : k = cur.ch
  BY <1>1, InServing
<1>p. PICK p \in Payloads : p = cur.pay
  BY <1>1, InServing
<1>2. chan[k].pending \in Seq(Payloads) /\ Tail(todo) \in Seq(ItemsOf(cur.op)) /\ MaxPending \in Nat
  BY <1>1, ServedType, BoundsAssumption DEF TypeOK, DaemonTypes, ChannelStates
<1>3. /\ Waiting(k) = Append(chan[k].pending, p)
      /\ \A j \in Channels : j # k => Waiting(j) = chan[j].pending
  BY <1>1, <1>k, <1>p, NowOnly, WaitingIs
<1>4. CASE /\ Len(chan[k].pending) >= MaxPending
           /\ Goto(<<Answer("Error")>>) /\ chan' = chan
  <2>1. todo' = <<Answer("Error")>> /\ Head(todo').do = "answer"
    BY <1>4, Tuples, ItemKinds DEF Goto
  <2>2. ~(Handing \/ Now("park"))'
    BY <2>1 DEF Handing, Now
  <2>3. \A j \in Channels : Waiting(j)' = chan[j].pending
    BY <1>4, <2>2, WaitingNext
  <2>4. /\ Len(Waiting(k)) > MaxPending
        /\ chan[k].pending = SubSeq(Waiting(k), 1, Len(Waiting(k)) - 1)
    <3>1. PICK s \in Seq(Payloads) : s = chan[k].pending
      BY <1>2
    <3>2. /\ Len(Append(s, p)) = Len(s) + 1 /\ SubSeq(Append(s, p), 1, Len(Append(s, p)) - 1) = s
          /\ Len(s) >= MaxPending /\ Len(s) \in Nat
      BY <1>4, <3>1, FirstOf
    <3>3. Len(Append(s, p)) > MaxPending
      BY <1>2, <3>2
    <3>4. QED
      BY <1>3, <3>1, <3>2, <3>3
  <2>5. [j \in Channels |-> Waiting(j)'] =
           [[j \in Channels |-> Waiting(j)] EXCEPT ![k] = SubSeq(@, 1, Len(@) - 1)]
    <3>1. PICK t : t = SubSeq(Waiting(k), 1, Len(Waiting(k)) - 1)
      OBVIOUS
    <3>2. Waiting(k)' = t /\ \A j \in Channels : j # k => Waiting(j)' = Waiting(j)
      BY <1>3, <2>3, <2>4, <3>1
    <3>3. [j \in Channels |-> Waiting(j)'] = [[j \in Channels |-> Waiting(j)] EXCEPT ![k] = t]
      BY <3>2
    <3>4. [j \in Channels |-> Waiting(j)][k] = Waiting(k)
      OBVIOUS
    <3>5. QED
      BY <3>1, <3>3, <3>4
  <2>6. QueueReaders(k) = {}
    BY <1>1, <1>k DEF Flushing, Readers, QueueReaders
  <2>7. NotReceived' = NotReceived
    BY <1>1, SameFresh
  <2>8. [j \in Channels |-> QueueReaders(j)]' = [j \in Channels |-> QueueReaders(j)]
    BY <1>4, SameReaders
  <2>9. Broker!Refuse(k)
    BY <1>1, <2>4, <2>5, <2>6, <2>7, <2>8 DEF Broker!Refuse
  <2>10. QED
    BY <2>9 DEF Broker!Next
<1>5. CASE /\ chan' = Push(k, p)
           /\ Goto(<<Todo("push")>> \o Tail(todo)) \/ Goto(Tail(todo))
  <2>1. ~(Handing \/ Now("park"))'
    <3>1. CASE Goto(Tail(todo))
      BY <1>1, <3>1, TailCalm
    <3>2. CASE Goto(<<Todo("push")>> \o Tail(todo))
      <4>1. /\ <<Todo("push")>> \o Tail(todo) # << >>
            /\ Head(<<Todo("push")>> \o Tail(todo)) = Todo("push")
        BY <1>2
      <4>2. todo' # << >> /\ Head(todo') = Todo("push")
        BY <3>2, <4>1, Zenon DEF Goto
      <4>3. Head(todo').do = "push"
        BY <4>2, ItemKinds
      <4>4. QED
        BY <4>3 DEF Handing, Now
    <3>3. QED
      BY <1>5, <3>1, <3>2
  <2>2. /\ chan'[k].pending = Append(chan[k].pending, p)
        /\ \A j \in Channels : j # k => chan'[j].pending = chan[j].pending
    BY <1>5 DEF Push, TypeOK, DaemonTypes, ChannelStates
  <2>3. SameLines
    BY <1>3, <2>1, <2>2, WaitingNext DEF SameLines
  <2>4. QED
    BY <1>1, <2>3, SameFresh, GoingOn
<1>6. QED
  BY <1>k, <1>p, <1>4, <1>5 DEF ParkStep

LEMMA StepBroker ==
    ASSUME TypeOK, TypeOK', NoGhosts, OnePlace, Handler, Flushing, NoDrain, Step
    PROVE  Broker!Next
<1>1. ~DrainStep /\ ~PeerStep /\ ~PushStep
  BY NoDrainNow DEF DrainStep, PeerStep, PushStep, Doing, Now, Flushing
<1>2. CASE SigPipe
  <2>1. status = "running" /\ status' # "running" /\ dlv' = dlv
    BY <1>2 DEF SigPipe
  <2>2. QED
    BY <2>1, Stopping
<1>3. QED
  BY <1>1, <1>2, MarkBroker, FlushBroker, CopyBroker, QueueBroker, ParkBroker DEF Step

(* A message that is served joins its line: behind the backlog, or as the  *)
(* first one when the pipe has readers and so no backlog.                  *)
LEMMA PublishBroker ==
    ASSUME TypeOK, TypeOK', OnePlace, NoPeers, Flushing, NEW c \in Clients, ServePublish(c)
    PROVE  Broker!Next
<1>1. /\ UNCHANGED <<status, req, dlv, sent, chan>> /\ Take(c) /\ HasFrame(c, "Publish")
      /\ Idle /\ todo = << >> /\ status = "running"
  BY DEF ServePublish, client, daemon, HasFrame, Idle
<1>2. Head(in[c]) \in Frames /\ Head(in[c]).op = "Publish"
  BY TakeType DEF TypeOK, ServePublish
<1>3. PICK k \in Channels, p \in Payloads : k = Head(in[c]).ch /\ p = Head(in[c]).pay
  BY <1>2 DEF Frames
<1>4. PICK left : left = chan[k].list["BroadcastIn"]
  OBVIOUS
<1>5. \/ Start(c, <<Todo("park"), Answer("Ack")>>)
      \/ HasReader(k) /\ Start(c, <<Copies(p, left), Queue(p), Answer("Ack")>>)
  <2>1. c \notin Peers(k)
    BY DEF NoPeers, Peers, Attached
  <2>2. QED
    BY <1>3, <1>4, <2>1 DEF ServePublish
<1>6. ASSUME NEW items, NEW a, Start(c, items), items # << >>, Head(items) = a
      PROVE  /\ todo' # << >> /\ Head(todo') = a /\ cur'.ch = k /\ cur'.pay = p
  BY <1>3, <1>6 DEF Start, Serving
<1>7. \A j \in Channels : Waiting(j) = chan[j].pending
  BY <1>1, WaitingIs DEF Handing, Now
<1>8. chan[k].pending \in Seq(Payloads)
  BY DEF TypeOK, DaemonTypes, ChannelStates
<1>9. /\ Waiting(k)' = Append(Waiting(k), p)
      /\ \A j \in Channels : j # k => Waiting(j)' = Waiting(j)
  <2>1. CASE Start(c, <<Todo("park"), Answer("Ack")>>)
    <3>1. todo' # << >> /\ Head(todo') = Todo("park") /\ cur'.ch = k /\ cur'.pay = p
      BY <1>6, <2>1, Tuples
    <3>2. Now("park")' /\ ~Handing'
      BY <3>1, ItemKinds DEF Now, Handing
    <3>3. Waiting(k)' = Append(chan'[k].pending, p)
      BY <3>1, <3>2, WaitingNext
    <3>4. \A j \in Channels : j # k => Waiting(j)' = chan'[j].pending
      BY <3>1, WaitingNext
    <3>5. QED
      BY <1>1, <1>7, <3>3, <3>4
  <2>2. CASE HasReader(k) /\ Start(c, <<Copies(p, left), Queue(p), Answer("Ack")>>)
    <3>1. todo' # << >> /\ Head(todo') = Copies(p, left) /\ cur'.ch = k
      BY <1>6, <2>2, Tuples
    <3>2. Head(todo').do = "copies" /\ Head(todo').pay = p
      BY <3>1, ItemKinds
    <3>3. Handing'
      BY <3>1, <3>2 DEF Now, Handing
    <3>4. Waiting(k)' = <<p>> \o chan'[k].pending
      BY <3>1, <3>2, <3>3, WaitingNext
    <3>5. \A j \in Channels : j # k => Waiting(j)' = chan'[j].pending
      BY <3>1, WaitingNext
    <3>6. chan[k].pending = << >>
      <4>1. Readers(k) # {}
        BY <2>2 DEF HasReader, Readers
      <4>2. QED
        BY <1>1, <4>1, IdleReaders
    <3>7. <<p>> \o chan[k].pending = Append(chan[k].pending, p)
      BY <1>8, <3>6, FirstOf
    <3>8. QED
      BY <1>1, <1>7, <3>4, <3>5, <3>7
  <2>3. QED
    BY <1>5, <2>1, <2>2
<1>10. [j \in Channels |-> Waiting(j)'] =
          [[j \in Channels |-> Waiting(j)] EXCEPT ![k] = Append(@, p)]
  <2>1. PICK t : t = Append(Waiting(k), p)
    OBVIOUS
  <2>2. [j \in Channels |-> Waiting(j)'] = [[j \in Channels |-> Waiting(j)] EXCEPT ![k] = t]
    BY <1>9, <2>1
  <2>3. [j \in Channels |-> Waiting(j)][k] = Waiting(k)
    OBVIOUS
  <2>4. QED
    BY <2>1, <2>2, <2>3
<1>11. p.n \in NotReceived /\ NotReceived' \subseteq NotReceived \ {p.n}
  BY <1>1, <1>3, FreshTaken
<1>12. [j \in Channels |-> QueueReaders(j)]' = [j \in Channels |-> QueueReaders(j)]
  BY <1>1, SameReaders
<1>13. Broker!Accept(k, p)
  BY <1>1, <1>10, <1>11, <1>12 DEF Broker!Accept
<1>14. QED
  BY <1>13 DEF Broker!Next, Payloads

LEMMA ServeBroker ==
    ASSUME TypeOK, TypeOK', OnePlace, NoPeers, Flushing, NEW c \in Clients, Serve(c) \/ HangUp(c)
    PROVE  Broker!Next
<1>1. CASE ServeAttach(c) \/ ServeDetach(c) \/ ServeOffer(c) \/ ServeRecvReady(c)
  <2>1. UNCHANGED <<status, req, sent, dlv>> /\ todo = << >>
    BY <1>1 DEF ServeAttach, ServeDetach, ServeOffer, ServeRecvReady, client, HasFrame, Idle
  <2>2. PICK op : HasFrame(c, op) /\ Take(c)
    BY <1>1 DEF ServeAttach, ServeDetach, ServeOffer, ServeRecvReady
  <2>3. NotReceived' \subseteq NotReceived
    BY <2>1, <2>2, FreshTaken
  <2>4. \A k \in Channels : chan'[k].pending = chan[k].pending
    BY <1>1, OtherBacklogs
  <2>5. ~(Handing \/ Now("park")) /\ ~(Handing \/ Now("park"))'
    <3>1. todo' # << >> => Head(todo').do \in Idlers
      BY <1>1, OtherItems
    <3>2. QED
      BY <2>1, <3>1 DEF Handing, Now, Idlers
  <2>6. QED
    BY <2>1, <2>3, <2>4, <2>5, Calm, GoingOn
<1>2. CASE ServeBye(c) \/ HangUp(c)
  <2>1. UNCHANGED <<status, req, sent, dlv, cur, todo>> /\ CloseClient(c, chan) /\ todo = << >>
    BY <1>2 DEF ServeBye, HangUp, client, HasFrame, Idle
  <2>2. NotReceived' \subseteq NotReceived
    BY <2>1, FreshLeft
  <2>3. \A k \in Channels : chan'[k].pending = chan[k].pending
    BY <2>1, ClosedBacklogs
  <2>4. ~(Handing \/ Now("park")) /\ ~(Handing \/ Now("park"))'
    BY <2>1 DEF Handing, Now
  <2>5. QED
    BY <2>1, <2>2, <2>3, <2>4, Calm, GoingOn
<1>3. QED
  BY <1>1, <1>2, PublishBroker DEF Serve

LEMMA BrokerNext ==
    ASSUME TypeOK, TypeOK', NoGhosts, OnePlace, Handler, NoPeers, Flushing, NoDrain, [Next]_vars
    PROVE  [Broker!Next]_(Broker!vars)
<1>1. CASE Exit
  <2>1. status = "running" /\ status' # "running" /\ dlv' = dlv
    BY <1>1 DEF Exit, Idle
  <2>2. QED
    BY <2>1, Stopping
<1>2. CASE UNCHANGED vars
  <2>1. UNCHANGED <<status, dlv, chan, todo, cur, req, in, sent>>
    BY <1>2 DEF vars
  <2>2. [j \in Channels |-> Waiting(j)]' = [j \in Channels |-> Waiting(j)]
    BY <2>1 DEF Waiting
  <2>3. QED
    BY <2>1, <2>2, SameFresh, SameReaders DEF Broker!vars
<1>3. QED
  BY <1>1, <1>2, StepBroker, ServeBroker, ClientBroker DEF Next

(* Without channel handles the daemon implements the lines of HubBroker:   *)
(* whatever sockets stall, readers come, go or are closed inside a         *)
(* delivery, each pipe is one queue, whose head goes to one of the queue   *)
(* readers attached, or to no one only when there is none or the one       *)
(* chosen does not take it; nothing overtakes and nothing is given twice.  *)
THEOREM PipesRefine ==
    ASSUME "ChannelPeer" \notin Modes
    PROVE  Spec => PipesAreLines
<1>1. Init => Broker!Init /\ NoDrain
  <2> SUFFICES ASSUME Init PROVE Broker!Init /\ NoDrain
    OBVIOUS
  <2>1. /\ status = "running" /\ todo = << >> /\ sent = 0 /\ dlv = [c \in Clients |-> << >>]
        /\ \A k \in Channels : chan[k].pending = << >> /\ chan[k].list = [m \in AllModes |-> NoHandles]
    BY DEF Init, EmptyChannel
  <2>2. NotReceived = 1..MaxPublish
    BY <2>1, BoundsAssumption DEF NotReceived
  <2>3. \A k \in Channels : QueueReaders(k) = {}
    BY <2>1 DEF QueueReaders, Attached, NoHandles, AllModes
  <2>4. \A k \in Channels : Waiting(k) = << >>
    BY <2>1, WaitingIs DEF Handing, Now
  <2>5. NoDrain
    BY <2>1, NoneInShort DEF NoDrain
  <2>6. QED
    BY <2>1, <2>2, <2>3, <2>4, <2>5 DEF Broker!Init
<1>2. TypeOK /\ NoPeers /\ Flushing /\ NoDrain /\ [Next]_vars => NoDrain'
  BY NoDrainNext
<1>3. /\ TypeOK /\ TypeOK' /\ NoGhosts /\ OnePlace /\ Handler /\ NoPeers /\ Flushing /\ NoDrain
      /\ [Next]_vars
      => [Broker!Next]_(Broker!vars)
  BY BrokerNext
<1>4. QED
  BY <1>1, <1>2, <1>3, FlushingHolds, PlacesHold, NothingLeftBehind, PTL
     DEF Spec, PipesAreLines, Broker!Spec
=============================================================================
