--------------------------- MODULE HubDaemonSafety ---------------------------
(***************************************************************************)
(* TLAPS proofs of four safety invariants of the pipe hub daemon:          *)
(* NoGhosts, AnnouncesPeer, TwoPeers and ConsumedOnce.  TypeOK is used     *)
(* throughout.                                                             *)
(*                                                                         *)
(* NoGhosts is inductive only together with AnnouncesPeer: recv_ready is   *)
(* set at the end of the handler of RecvReady, after writes that may have  *)
(* closed the client.                                                      *)
(*                                                                         *)
(* For ConsumedOnce, the number of a message is in one place: in an offer, *)
(* in a Publish frame, in the hands of the handler that serves it, in a    *)
(* backlog, or delivered.                                                  *)
(***************************************************************************)
EXTENDS HubDaemonProofs

(* Channel state s of channel k names only clients that are live in lv and *)
(* attached in at; the marks name peers.                                   *)
GhostFree(s, k, lv, at) ==
    /\ \A m \in AllModes, c \in Clients :
          s.list[m][c] > 0 => lv[c] /\ <<k, m>> \in at[c]
    /\ \A c \in Clients :
          c \in {s.offer_from, s.recv_ready} => s.list["ChannelPeer"][c] > 0

(* NoGhosts, before and after a step, channel by channel.                  *)
LEMMA NoGhostsByChannel ==
    ASSUME DaemonTypes
    PROVE  NoGhosts <=> \A k \in Channels : GhostFree(chan[k], k, live, att)
<1>1. \A k \in Channels : /\ chan[k].offer_from \in Clients \union {None}
                          /\ chan[k].recv_ready \in Clients \union {None}
  BY DEF DaemonTypes, ChannelStates
<1>2. QED
  BY <1>1, NoneAssumption DEF NoGhosts, GhostFree, Peers, Attached

LEMMA NoGhostsByChannelNext ==
    ASSUME DaemonTypes'
    PROVE  NoGhosts' <=> \A k \in Channels : GhostFree(chan'[k], k, live', att')
<1>1. \A k \in Channels : /\ chan'[k].offer_from \in Clients \union {None}
                          /\ chan'[k].recv_ready \in Clients \union {None}
  BY DEF DaemonTypes, ChannelStates
<1>2. QED
  BY <1>1, NoneAssumption DEF NoGhosts, GhostFree, Peers, Attached

(* A client without lists and marks is no ghost: erasing it, and closing   *)
(* it where it was not attached, leave the channel free of ghosts.         *)
LEMMA WithoutClientGhostFree ==
    ASSUME NEW s \in ChannelStates, NEW k \in Channels, NEW c \in Clients,
           NEW lv \in [Clients -> BOOLEAN],
           NEW at \in [Clients -> SUBSET (Channels \X AllModes)],
           NEW lw \in [Clients -> BOOLEAN],
           NEW aw \in [Clients -> SUBSET (Channels \X AllModes)],
           GhostFree(s, k, lv, at),
           \A d \in Clients : d # c => lw[d] = lv[d] /\ aw[d] = at[d]
    PROVE  GhostFree(WithoutClient(s, c), k, lw, aw)
<1> DEFINE t == WithoutClient(s, c)
<1>1. s.list \in [AllModes -> [Clients -> Nat]]
  BY DEF ChannelStates
<1>2. \A m \in AllModes, d \in Clients : t.list[m][d] = IF d = c THEN 0 ELSE s.list[m][d]
  BY <1>1 DEF WithoutClient
<1>3. /\ t.offer_from = IF s.offer_from = c THEN None ELSE s.offer_from
      /\ t.recv_ready = IF s.recv_ready = c THEN None ELSE s.recv_ready
  BY DEF WithoutClient
<1>4. ASSUME NEW m \in AllModes, NEW d \in Clients, t.list[m][d] > 0
      PROVE  lw[d] /\ <<k, m>> \in aw[d]
  BY <1>2, <1>4 DEF GhostFree
<1>5. ASSUME NEW d \in Clients, d \in {t.offer_from, t.recv_ready}
      PROVE  t.list["ChannelPeer"][d] > 0
  <2>1. d # c /\ d \in {s.offer_from, s.recv_ready} /\ "ChannelPeer" \in AllModes
    BY <1>3, <1>5, NoneAssumption DEF AllModes
  <2>2. QED
    BY <1>2, <2>1 DEF GhostFree
<1>6. QED
  BY <1>4, <1>5 DEF GhostFree

LEMMA CloseClientGhosts ==
    ASSUME DaemonTypes, DaemonTypes', NoGhosts, NEW c \in Clients,
           NEW channels \in [Channels -> ChannelStates],
           \A k \in Channels : /\ channels[k].list = chan[k].list
                               /\ channels[k].offer_from = chan[k].offer_from
                               /\ channels[k].recv_ready = chan[k].recv_ready,
           CloseClient(c, channels)
    PROVE  NoGhosts'
<1>1. \A k \in Channels : GhostFree(channels[k], k, live, att)
  BY NoGhostsByChannel DEF GhostFree
<1>2. \A d \in Clients : d # c => live'[d] = live[d] /\ att'[d] = att[d]
  BY DEF CloseClient, DaemonTypes
<1>3. ASSUME NEW k \in Channels
      PROVE  GhostFree(chan'[k], k, live', att')
  <2>1. CASE \E m \in AllModes : <<k, m>> \in att[c]
    <3>1. chan'[k] = WithoutClient(channels[k], c)
      BY <2>1 DEF CloseClient
    <3>2. channels[k] \in ChannelStates /\ GhostFree(channels[k], k, live, att)
      BY <1>1
    <3>3. /\ live \in [Clients -> BOOLEAN] /\ live' \in [Clients -> BOOLEAN]
          /\ att \in [Clients -> SUBSET (Channels \X AllModes)]
          /\ att' \in [Clients -> SUBSET (Channels \X AllModes)]
      BY DEF DaemonTypes
    <3>4. GhostFree(WithoutClient(channels[k], c), k, live', att')
      BY <1>2, <3>2, <3>3, WithoutClientGhostFree
    <3>5. QED
      BY <3>1, <3>4
  <2>2. CASE ~ \E m \in AllModes : <<k, m>> \in att[c]
    <3>1. chan'[k] = channels[k]
      BY <2>2 DEF CloseClient
    <3>2. ASSUME NEW m \in AllModes, NEW d \in Clients, channels[k].list[m][d] > 0
          PROVE  live'[d] /\ <<k, m>> \in att'[d]
      <4>1. live[d] /\ <<k, m>> \in att[d]
        BY <1>1, <3>2 DEF GhostFree
      <4>2. d # c
        BY <2>2, <4>1
      <4>3. QED
        BY <1>2, <4>1, <4>2
    <3>3. \A d \in Clients : d \in {channels[k].offer_from, channels[k].recv_ready}
                               => channels[k].list["ChannelPeer"][d] > 0
      BY <1>1 DEF GhostFree
    <3>4. QED
      BY <3>1, <3>2, <3>3 DEF GhostFree
  <2>3. QED
    BY <2>1, <2>2
<1>4. QED
  BY <1>3, NoGhostsByChannelNext

(* Steps that change neither tables nor lists nor marks.                   *)
LEMMA SameListsGhosts ==
    ASSUME DaemonTypes, DaemonTypes', NoGhosts, UNCHANGED <<live, att>>,
           \A k \in Channels : /\ chan'[k].list = chan[k].list
                               /\ chan'[k].offer_from = chan[k].offer_from
                               /\ chan'[k].recv_ready = chan[k].recv_ready
    PROVE  NoGhosts'
<1>1. \A k \in Channels : GhostFree(chan'[k], k, live', att')
  BY NoGhostsByChannel DEF GhostFree
<1>2. QED
  BY <1>1, NoGhostsByChannelNext

(* Pop and Push change the backlog alone.                                  *)
LEMMA PopKeepsLists ==
    ASSUME DaemonTypes, NEW j \in Channels, NEW k \in Channels
    PROVE  /\ Pop(j)[k].list = chan[k].list
           /\ Pop(j)[k].offer_from = chan[k].offer_from
           /\ Pop(j)[k].recv_ready = chan[k].recv_ready
<1>1. chan[k] \in ChannelStates /\ chan \in [Channels -> ChannelStates]
  BY DEF DaemonTypes
<1>2. QED
  BY <1>1 DEF Pop, ChannelStates

LEMMA PushKeepsLists ==
    ASSUME DaemonTypes, NEW j \in Channels, NEW p, NEW k \in Channels
    PROVE  /\ Push(j, p)[k].list = chan[k].list
           /\ Push(j, p)[k].offer_from = chan[k].offer_from
           /\ Push(j, p)[k].recv_ready = chan[k].recv_ready
<1>1. chan[k] \in ChannelStates /\ chan \in [Channels -> ChannelStates]
  BY DEF DaemonTypes
<1>2. QED
  BY <1>1 DEF Push, ChannelStates

(* Steps that set the marks of one channel to peers of it, or to None.     *)
LEMMA MarksGhosts ==
    ASSUME DaemonTypes, DaemonTypes', NoGhosts, UNCHANGED <<live, att>>,
           NEW j \in Channels, \A k \in Channels : k # j => chan'[k] = chan[k],
           chan'[j].list = chan[j].list,
           chan'[j].offer_from \in {chan[j].offer_from, None} \union Peers(j),
           chan'[j].recv_ready \in {chan[j].recv_ready, None} \union Peers(j)
    PROVE  NoGhosts'
<1>1. \A k \in Channels : GhostFree(chan[k], k, live, att)
  BY NoGhostsByChannel
<1>2. ASSUME NEW d \in Clients, d \in {chan'[j].offer_from, chan'[j].recv_ready}
      PROVE  chan'[j].list["ChannelPeer"][d] > 0
  BY <1>1, <1>2, NoneAssumption DEF GhostFree, Peers, Attached
<1>3. GhostFree(chan'[j], j, live', att')
  BY <1>1, <1>2 DEF GhostFree
<1>4. \A k \in Channels : k # j => GhostFree(chan'[k], k, live', att')
  BY <1>1
<1>5. QED
  BY <1>3, <1>4, NoGhostsByChannelNext

-----------------------------------------------------------------------------
(* NoGhosts is kept by every step.                                         *)

LEMMA UnchangedGhosts ==
    ASSUME DaemonTypes, DaemonTypes', NoGhosts, UNCHANGED daemon
    PROVE  NoGhosts'
BY SameListsGhosts DEF daemon

LEMMA ConnectGhosts ==
    ASSUME TypeOK, TypeOK', NoGhosts, NEW c \in Clients, Connect(c)
    PROVE  NoGhosts'
<1>1. \A d \in Clients : live[d] => live'[d]
  BY DEF TypeOK, DaemonTypes, Connect
<1>2. \A k \in Channels : GhostFree(chan[k], k, live, att)
  BY NoGhostsByChannel DEF TypeOK
<1>3. \A k \in Channels : GhostFree(chan'[k], k, live', att')
  BY <1>1, <1>2 DEF GhostFree, Connect
<1>4. QED
  BY <1>3, NoGhostsByChannelNext DEF TypeOK

LEMMA ClientStepGhosts ==
    ASSUME TypeOK, TypeOK', NoGhosts, NEW c \in Clients, ClientStep(c)
    PROVE  NoGhosts'
<1>1. CASE Connect(c)
  BY <1>1, ConnectGhosts
<1>2. CASE ~Connect(c)
  <2>1. UNCHANGED daemon
    BY <1>2 DEF ClientStep, SendBye, Die, ReadEof, CloseEnd, ReadFrame, RetryOffer, SendPublish,
                SendOffer, SendRecvReady, SendAttach, SendDetach, daemon
  <2>2. QED
    BY <2>1, UnchangedGhosts DEF TypeOK
<1>3. QED
  BY <1>1, <1>2

LEMMA ServeAttachGhosts ==
    ASSUME TypeOK, TypeOK', NoGhosts, NEW c \in Clients, ServeAttach(c)
    PROVE  NoGhosts'
<1> DEFINE j == Head(in[c]).ch
           m == Head(in[c]).mode
<1>1. j \in Channels /\ m \in AllModes
  <2>1. Head(in[c]) \in Frames /\ Head(in[c]).op = "Attach"
    BY TakeType DEF TypeOK, ServeAttach
  <2>2. QED
    BY <2>1 DEF Frames
<1>2. CASE UNCHANGED <<att, chan>>
  BY <1>2, UnchangedGhosts DEF TypeOK, ServeAttach, daemon
<1>3. CASE /\ att' = [att EXCEPT ![c] = @ \union {<<j, m>>}]
           /\ chan' = [chan EXCEPT ![j].list[m][c] = @ + 1]
  <2>1. live[c] /\ live' = live
    BY DEF ServeAttach, HasFrame
  <2>2. \A k \in Channels : GhostFree(chan[k], k, live, att)
    BY NoGhostsByChannel DEF TypeOK
  <2>3. <<j, m>> \in att'[c] /\ \A d \in Clients : att[d] \subseteq att'[d]
    BY <1>3 DEF TypeOK, DaemonTypes
  <2>4. chan \in [Channels -> ChannelStates] /\ chan[j] \in ChannelStates
    BY <1>1 DEF TypeOK, DaemonTypes
  <2>5. chan[j].list \in [AllModes -> [Clients -> Nat]]
    BY <2>4 DEF ChannelStates
  <2>6. /\ chan'[j].offer_from = chan[j].offer_from /\ chan'[j].recv_ready = chan[j].recv_ready
        /\ chan'[j].list = [chan[j].list EXCEPT ![m][c] = @ + 1]
    BY <1>1, <1>3, <2>4 DEF ChannelStates
  <2>7. \A n \in AllModes, d \in Clients :
           chan'[j].list[n][d] = IF n = m /\ d = c THEN chan[j].list[n][d] + 1
                                                   ELSE chan[j].list[n][d]
    <3>1. chan'[j].list[m] = [chan[j].list[m] EXCEPT ![c] = @ + 1]
      BY <1>1, <2>5, <2>6
    <3>2. \A n \in AllModes : n # m => chan'[j].list[n] = chan[j].list[n]
      BY <1>1, <2>5, <2>6
    <3>3. chan[j].list[m] \in [Clients -> Nat]
      BY <1>1, <2>5
    <3>4. QED
      BY <3>1, <3>2, <3>3
  <2>8. GhostFree(chan'[j], j, live', att')
    <3>1. ASSUME NEW n \in AllModes, NEW d \in Clients, chan'[j].list[n][d] > 0
          PROVE  live'[d] /\ <<j, n>> \in att'[d]
      <4>1. CASE n = m /\ d = c
        BY <2>1, <2>3, <4>1
      <4>2. CASE ~(n = m /\ d = c)
        BY <1>1, <2>1, <2>2, <2>3, <2>7, <3>1, <4>2 DEF GhostFree
      <4>3. QED
        BY <4>1, <4>2
    <3>2. ASSUME NEW d \in Clients, d \in {chan'[j].offer_from, chan'[j].recv_ready}
          PROVE  chan'[j].list["ChannelPeer"][d] > 0
      <4>1. chan[j].list["ChannelPeer"][d] > 0 /\ "ChannelPeer" \in AllModes
        BY <1>1, <2>2, <2>6, <3>2 DEF GhostFree, AllModes
      <4>2. chan[j].list["ChannelPeer"][d] \in Nat
        BY <2>5, <4>1
      <4>3. QED
        BY <2>7, <4>1, <4>2, SMTT(30)
    <3>3. QED
      BY <3>1, <3>2 DEF GhostFree
  <2>9. \A k \in Channels : k # j => GhostFree(chan'[k], k, live', att')
    <3>1. \A k \in Channels : k # j => chan'[k] = chan[k]
      BY <1>3, <2>4
    <3>2. QED
      BY <2>1, <2>2, <2>3, <3>1 DEF GhostFree
  <2>10. QED
    BY <2>8, <2>9, NoGhostsByChannelNext DEF TypeOK
<1>4. QED
  BY <1>2, <1>3 DEF ServeAttach

LEMMA ServeDetachGhosts ==
    ASSUME TypeOK, TypeOK', NoGhosts, NEW c \in Clients, ServeDetach(c)
    PROVE  NoGhosts'
<1> DEFINE j == Head(in[c]).ch
           m == Head(in[c]).mode
<1>1. j \in Channels
  <2>1. Head(in[c]) \in Frames /\ Head(in[c]).op = "Detach"
    BY TakeType DEF TypeOK, ServeDetach
  <2>2. QED
    BY <2>1 DEF Frames
<1>2. /\ att' = [att EXCEPT ![c] = att[c] \ {<<j, m>>}]
      /\ chan' = [chan EXCEPT ![j] = WithoutClient(chan[j], c)]
      /\ live' = live
  BY DEF ServeDetach
<1> HIDE DEF j, m
<1>3. \A k \in Channels : GhostFree(chan[k], k, live, att)
  BY NoGhostsByChannel DEF TypeOK
<1>4. /\ \A d \in Clients : d # c => live'[d] = live[d] /\ att'[d] = att[d]
      /\ live \in [Clients -> BOOLEAN] /\ live' \in [Clients -> BOOLEAN]
      /\ att \in [Clients -> SUBSET (Channels \X AllModes)]
      /\ att' \in [Clients -> SUBSET (Channels \X AllModes)]
      /\ chan \in [Channels -> ChannelStates]
  BY <1>2 DEF TypeOK, DaemonTypes
<1>5. GhostFree(chan'[j], j, live', att')
  <2>1. chan[j] \in ChannelStates /\ chan'[j] = WithoutClient(chan[j], c)
    BY <1>1, <1>2, <1>4
  <2>2. GhostFree(chan[j], j, live, att)
    BY <1>1, <1>3
  <2>3. GhostFree(WithoutClient(chan[j], c), j, live', att')
    BY <1>1, <1>4, <2>1, <2>2, WithoutClientGhostFree, SMTT(30)
  <2>4. QED
    BY <2>1, <2>3
<1>6. ASSUME NEW k \in Channels, k # j
      PROVE  GhostFree(chan'[k], k, live', att')
  <2>1. chan'[k] = chan[k]
    BY <1>2, <1>4, <1>6
  <2>2. \A n \in AllModes, d \in Clients : <<k, n>> \in att[d] => <<k, n>> \in att'[d]
    BY <1>2, <1>4, <1>6
  <2>3. QED
    BY <1>2, <1>3, <2>1, <2>2 DEF GhostFree
<1>7. QED
  BY <1>5, <1>6, NoGhostsByChannelNext DEF TypeOK

LEMMA ServeMarksGhosts ==
    ASSUME TypeOK, TypeOK', NoGhosts, NEW c \in Clients, ServeOffer(c) \/ ServeRecvReady(c)
    PROVE  NoGhosts'
<1> DEFINE j == Head(in[c]).ch
<1>1. j \in Channels
  <2>1. Head(in[c]) \in Frames /\ Head(in[c]).op \in {"Offer", "RecvReady"}
    BY TakeType DEF TypeOK, ServeOffer, ServeRecvReady
  <2>2. QED
    BY <2>1 DEF Frames
<1>2. \/ chan' = chan
      \/ chan' = [chan EXCEPT ![j].offer_from = None]
      \/ chan' = [chan EXCEPT ![j].offer_from = None, ![j].recv_ready = None]
      \/ c \in Peers(j) /\ chan' = [chan EXCEPT ![j].offer_from = c]
  BY Zenon DEF ServeOffer, ServeRecvReady
<1> HIDE DEF j
<1>3. chan \in [Channels -> ChannelStates] /\ chan[j] \in ChannelStates
  BY <1>1 DEF TypeOK, DaemonTypes
<1>4. /\ \A k \in Channels : k # j => chan'[k] = chan[k]
      /\ chan'[j].list = chan[j].list
      /\ chan'[j].offer_from \in {chan[j].offer_from, None} \union Peers(j)
      /\ chan'[j].recv_ready \in {chan[j].recv_ready, None} \union Peers(j)
  BY <1>1, <1>2, <1>3 DEF ChannelStates
<1>5. UNCHANGED <<live, att>>
  BY DEF ServeOffer, ServeRecvReady
<1>6. QED
  BY <1>1, <1>4, <1>5, MarksGhosts DEF TypeOK

LEMMA StepGhosts ==
    ASSUME TypeOK, TypeOK', NoGhosts, AnnouncesPeer, Step
    PROVE  NoGhosts'
<1> USE DEF TypeOK
<1>1. CASE UNCHANGED daemon
  BY <1>1, UnchangedGhosts
<1>2. ASSUME NEW c \in Clients, CloseClient(c, chan) PROVE NoGhosts'
  <2>1. chan \in [Channels -> ChannelStates]
    BY DEF DaemonTypes
  <2>2. QED
    BY <1>2, <2>1, CloseClientGhosts
<1>3. ASSUME NEW k \in Channels, chan' = Pop(k), UNCHANGED <<live, att>> PROVE NoGhosts'
  BY <1>3, PopKeepsLists, SameListsGhosts
<1>4. CASE AnswerStep
  <2>1. cur.id \in Clients
    BY <1>4, ServedType DEF AnswerStep
  <2>2. QED
    BY <1>1, <1>2, <1>4, <2>1 DEF AnswerStep
<1>5. CASE NotifyStep
  BY <1>1, <1>5 DEF NotifyStep
<1>6. CASE FlushStep
  <2>1. cur.ch \in Channels
    BY <1>6, ServedType DEF FlushStep
  <2>2. QED
    BY <1>1, <1>3, <1>6, <2>1 DEF FlushStep, daemon
<1>7. CASE CopyStep
  BY <1>1, <1>2, <1>7 DEF CopyStep
<1>8. CASE QueueStep
  BY <1>1, <1>2, <1>8 DEF QueueStep, Attached
<1>9. CASE DrainStep
  <2>1. cur.id \in Clients /\ cur.ch \in Channels
    BY <1>9, ServedType DEF DrainStep
  <2>2. CASE UNCHANGED daemon
    BY <2>2, <1>1
  <2>3. CASE chan' = Pop(cur.ch) /\ UNCHANGED <<live, att>>
    BY <2>1, <2>3, <1>3
  <2>4. CASE chan[cur.ch].pending # << >> /\ CloseClient(cur.id, Pop(cur.ch))
    <3>1. Pop(cur.ch) \in [Channels -> ChannelStates]
      BY <2>1, <2>4, PopType
    <3>2. QED
      BY <2>1, <2>4, <3>1, PopKeepsLists, CloseClientGhosts
  <2>5. QED
    BY <1>9, <2>2, <2>3, <2>4 DEF DrainStep
<1>10. CASE AnnounceStep
  <2>1. cur.ch \in Channels
    BY <1>10, ServedType DEF AnnounceStep
  <2>2. cur.id \in Peers(cur.ch)
    BY <1>10 DEF AnnounceStep, Doing, AnnouncesPeer, ServingTypes
  <2>3. chan' = [chan EXCEPT ![cur.ch].recv_ready = cur.id] /\ UNCHANGED <<live, att>>
    BY <1>10 DEF AnnounceStep
  <2>4. chan \in [Channels -> ChannelStates] /\ chan[cur.ch] \in ChannelStates
    BY <2>1 DEF DaemonTypes
  <2>5. /\ \A k \in Channels : k # cur.ch => chan'[k] = chan[k]
        /\ chan'[cur.ch].list = chan[cur.ch].list
        /\ chan'[cur.ch].offer_from \in {chan[cur.ch].offer_from, None} \union Peers(cur.ch)
        /\ chan'[cur.ch].recv_ready \in {chan[cur.ch].recv_ready, None} \union Peers(cur.ch)
    BY <2>1, <2>2, <2>3, <2>4 DEF ChannelStates
  <2>6. QED
    BY <2>1, <2>3, <2>5, MarksGhosts
<1>11. CASE PeerStep
  BY <1>1, <1>11 DEF PeerStep
<1>12. CASE ParkStep
  <2>1. cur.ch \in Channels
    BY <1>12, ServedType DEF ParkStep
  <2>2. CASE chan' = Push(cur.ch, cur.pay) /\ UNCHANGED <<live, att>>
    BY <2>1, <2>2, PushKeepsLists, SameListsGhosts
  <2>3. QED
    BY <1>1, <1>12, <2>2 DEF ParkStep, daemon
<1>13. CASE PushStep
  <2>1. cur.ch \in Channels
    BY <1>13, ServedType DEF PushStep
  <2>2. QED
    BY <1>1, <1>3, <1>13, <2>1 DEF PushStep, daemon
<1>14. CASE ResumeStep
  BY <1>1, <1>14 DEF ResumeStep
<1>15. CASE SigPipe
  BY <1>1, <1>15 DEF SigPipe
<1>16. QED
  BY <1>4, <1>5, <1>6, <1>7, <1>8, <1>9, <1>10, <1>11, <1>12, <1>13, <1>14, <1>15 DEF Step

-----------------------------------------------------------------------------
(* AnnouncesPeer is kept by every step.                                    *)

(* Only the handler of RecvReady announces.                                *)
LEMMA OthersDoNotAnnounce ==
    ASSUME ServingTypes', cur'.op # "RecvReady"
    PROVE  AnnouncesPeer'
<1>1. \A i \in DOMAIN todo' : todo'[i] \in ItemsOf(cur'.op)
  BY DEF ServingTypes
<1>2. "announce" \notin PartsOf(cur'.op)
  BY DEF PartsOf
<1>3. QED
  BY <1>1, <1>2 DEF AnnouncesPeer, ItemsOf

(* The handler goes on with what is left, the lists staying as they are.   *)
LEMMA TailAnnounces ==
    ASSUME ServingTypes, AnnouncesPeer, NEW what, Doing(what), Goto(Tail(todo)),
           \A k \in Channels : chan'[k].list = chan[k].list
    PROVE  AnnouncesPeer'
<1>1. CASE Tail(todo) = << >>
  BY <1>1 DEF Goto, AnnouncesPeer
<1>2. CASE Tail(todo) # << >>
  <2>1. todo' = Tail(todo) /\ cur' = cur /\ cur.ch \in Channels
    BY <1>2, ServedType DEF Goto
  <2>2. todo \in Seq(ItemsOf(cur.op)) /\ todo # << >>
    BY DEF ServingTypes, Doing
  <2>3. \A i \in DOMAIN Tail(todo) : i + 1 \in DOMAIN todo /\ Tail(todo)[i] = todo[i + 1]
    BY <2>2
  <2>4. QED
    BY <2>1, <2>3 DEF AnnouncesPeer, Peers, Attached
<1>3. QED
  BY <1>1, <1>2

LEMMA ServeAnnounces ==
    ASSUME TypeOK, TypeOK', NEW c \in Clients, Serve(c)
    PROVE  AnnouncesPeer'
<1>1. CASE ServeRecvReady(c)
  <2> DEFINE k == Head(in[c]).ch
  <2>1. k \in Channels
    <3>1. Head(in[c]) \in Frames /\ Head(in[c]).op = "RecvReady"
      BY <1>1, TakeType DEF TypeOK, ServeRecvReady
    <3>2. QED
      BY <3>1 DEF Frames
  <2>2. CASE c \notin Peers(k)
    <3>1. Start(c, <<Answer("Error")>>)
      BY <1>1, <2>2 DEF ServeRecvReady
    <3>2. QED
      BY <3>1 DEF Start, AnnouncesPeer, Answer
  <2>3. CASE c \in Peers(k)
    <3>1. cur'.op = "None" \/ (cur'.id = c /\ cur'.ch = k)
      BY <1>1 DEF ServeRecvReady, Start, Serving, NoFrame
    <3>2. chan' = chan \/ chan' = [chan EXCEPT ![k].offer_from = None]
      BY <1>1, Zenon DEF ServeRecvReady
    <3>3. chan \in [Channels -> ChannelStates] /\ chan[k] \in ChannelStates
      BY <2>1 DEF TypeOK, DaemonTypes
    <3>4. chan'[k].list = chan[k].list
      BY <2>1, <3>2, <3>3 DEF ChannelStates
    <3>5. chan'[k].list["ChannelPeer"][c] > 0
      BY <2>3, <3>4 DEF Peers, Attached
    <3>6. CASE cur'.op = "None"
      BY <3>6, OthersDoNotAnnounce DEF TypeOK
    <3>7. CASE cur'.id = c /\ cur'.ch = k
      BY <3>5, <3>7 DEF AnnouncesPeer, Peers, Attached
    <3>8. QED
      BY <3>1, <3>6, <3>7
  <2>4. QED
    BY <2>2, <2>3
<1>2. CASE ServeBye(c)
  <2>1. todo' = << >>
    BY <1>2 DEF ServeBye, HasFrame, Idle
  <2>2. QED
    BY <2>1 DEF AnnouncesPeer
<1>3. ASSUME NEW op, op # "RecvReady", Head(in[c]).op = op, NEW items, Start(c, items)
      PROVE  AnnouncesPeer'
  <2>1. cur'.op # "RecvReady"
    BY <1>3 DEF Start, Serving, NoFrame
  <2>2. QED
    BY <2>1, OthersDoNotAnnounce DEF TypeOK
<1>4. QED
  BY <1>1, <1>2, <1>3, Zenon
     DEF Serve, ServeAttach, ServeDetach, ServePublish, ServeOffer, HasFrame

LEMMA StepAnnounces ==
    ASSUME TypeOK, TypeOK', AnnouncesPeer, Step
    PROVE  AnnouncesPeer'
<1> USE DEF TypeOK
<1>1. cur' = cur \/ cur' = NoFrame
  BY DEF Step, AnswerStep, NotifyStep, FlushStep, CopyStep, QueueStep, DrainStep, AnnounceStep,
         PeerStep, ParkStep, PushStep, ResumeStep, SigPipe, Goto
<1>2. CASE cur.op # "RecvReady"
  BY <1>1, <1>2, OthersDoNotAnnounce DEF NoFrame
<1>3. CASE cur.op = "RecvReady"
  <2>1. ASSUME NEW what, Doing(what) PROVE what \in {"answer", "notify", "drain", "announce"}
    BY <1>3, <2>1, DoingType DEF PartsOf
  <2>2. CASE AnswerStep
    <3>1. \/ Goto(Tail(todo)) /\ UNCHANGED chan
          \/ Goto(<< >>)
      BY <1>3, <2>2 DEF AnswerStep, Returned, daemon
    <3>2. QED
      BY <2>2, <3>1, TailAnnounces DEF AnswerStep, Goto, AnnouncesPeer
  <2>3. CASE NotifyStep
    BY <2>3, TailAnnounces DEF NotifyStep, daemon
  <2>4. CASE DrainStep
    <3>1. \/ Goto(Tail(todo)) /\ UNCHANGED chan
          \/ UNCHANGED <<todo, cur>> /\ chan' = Pop(cur.ch)
          \/ Goto(<< >>)
      BY <1>3, <2>4 DEF DrainStep, Returned, daemon
    <3>2. CASE Goto(Tail(todo)) /\ UNCHANGED chan
      BY <2>4, <3>2, TailAnnounces DEF DrainStep
    <3>3. CASE UNCHANGED <<todo, cur>> /\ chan' = Pop(cur.ch)
      <4>1. cur.ch \in Channels
        BY <2>4, ServedType DEF DrainStep
      <4>2. chan'[cur.ch].list = chan[cur.ch].list
        BY <3>3, <4>1, PopKeepsLists
      <4>3. QED
        BY <3>3, <4>2 DEF AnnouncesPeer, Peers, Attached
    <3>4. CASE Goto(<< >>)
      BY <3>4 DEF Goto, AnnouncesPeer
    <3>5. QED
      BY <3>1, <3>2, <3>3, <3>4
  <2>5. CASE AnnounceStep
    <3>1. cur.ch \in Channels
      BY <2>5, ServedType DEF AnnounceStep
    <3>2. chan \in [Channels -> ChannelStates] /\ chan[cur.ch] \in ChannelStates
      BY <3>1 DEF DaemonTypes
    <3>3. chan' = [chan EXCEPT ![cur.ch].recv_ready = cur.id]
      BY <2>5 DEF AnnounceStep
    <3>4. \A k \in Channels : chan'[k].list = chan[k].list
      BY <3>1, <3>2, <3>3 DEF ChannelStates
    <3>5. QED
      BY <2>5, <3>4, TailAnnounces DEF AnnounceStep
  <2>6. CASE SigPipe
    BY <2>6 DEF SigPipe, Goto, AnnouncesPeer
  <2>7. ~FlushStep /\ ~CopyStep /\ ~QueueStep /\ ~PeerStep /\ ~ParkStep /\ ~PushStep /\ ~ResumeStep
    BY <2>1 DEF FlushStep, CopyStep, QueueStep, PeerStep, ParkStep, PushStep, ResumeStep
  <2>8. QED
    BY <2>2, <2>3, <2>4, <2>5, <2>6, <2>7 DEF Step
<1>4. QED
  BY <1>2, <1>3

LEMMA OtherAnnounces ==
    ASSUME TypeOK, AnnouncesPeer, NEW c \in Clients, HangUp(c) \/ Exit \/ ClientStep(c)
    PROVE  AnnouncesPeer'
<1>1. CASE HangUp(c) \/ Exit
  <2>1. todo' = << >>
    BY <1>1 DEF HangUp, Exit, Idle
  <2>2. QED
    BY <2>1 DEF AnnouncesPeer
<1>2. CASE ClientStep(c)
  <2>1. UNCHANGED <<todo, cur, chan>>
    BY <1>2 DEF ClientStep, Connect, SendBye, Die, ReadEof, CloseEnd, ReadFrame, RetryOffer,
                SendPublish, SendOffer, SendRecvReady, SendAttach, SendDetach, daemon
  <2>2. QED
    BY <2>1 DEF AnnouncesPeer, Peers, Attached
<1>3. QED
  BY <1>1, <1>2

-----------------------------------------------------------------------------
(* The invariant by which NoGhosts is proved.                              *)
SafetyInvariant == TypeOK /\ NoGhosts /\ AnnouncesPeer

LEMMA InvariantHolds == Spec => []SafetyInvariant
<1> USE DEF SafetyInvariant
<1>1. Init => SafetyInvariant
  <2> SUFFICES ASSUME Init PROVE SafetyInvariant
    OBVIOUS
  <2>1. TypeOK
    BY InitType
  <2>2. \A k \in Channels : GhostFree(chan[k], k, live, att)
    BY NoneAssumption DEF Init, GhostFree, EmptyChannel, NoHandles
  <2>3. NoGhosts
    BY <2>1, <2>2, NoGhostsByChannel DEF TypeOK
  <2>4. AnnouncesPeer
    BY DEF Init, AnnouncesPeer
  <2>5. QED
    BY <2>1, <2>3, <2>4
<1>2. SafetyInvariant /\ [Next]_vars => SafetyInvariant'
  <2> SUFFICES ASSUME SafetyInvariant, [Next]_vars PROVE SafetyInvariant'
    OBVIOUS
  <2>1. TypeOK'
    BY NextType
  <2>2. CASE Step
    BY <2>1, <2>2, StepGhosts, StepAnnounces
  <2>3. CASE Exit
    <3>1. UNCHANGED daemon /\ todo' = << >>
      BY <2>3 DEF Exit, Idle
    <3>2. QED
      BY <2>1, <3>1, UnchangedGhosts DEF TypeOK, AnnouncesPeer
  <2>4. ASSUME NEW c \in Clients, Serve(c) PROVE SafetyInvariant'
    <3>1. NoGhosts'
      <4>1. CASE ServeBye(c)
        <5>1. chan \in [Channels -> ChannelStates] /\ CloseClient(c, chan)
          BY <4>1 DEF ServeBye, TypeOK, DaemonTypes
        <5>2. QED
          BY <2>1, <5>1, CloseClientGhosts DEF TypeOK
      <4>2. CASE ServePublish(c)
        BY <2>1, <4>2, UnchangedGhosts DEF ServePublish, TypeOK
      <4>3. QED
        BY <2>1, <2>4, <4>1, <4>2, ServeAttachGhosts, ServeDetachGhosts, ServeMarksGhosts DEF Serve
    <3>2. QED
      BY <2>1, <2>4, <3>1, ServeAnnounces
  <2>5. ASSUME NEW c \in Clients, HangUp(c) PROVE SafetyInvariant'
    <3>1. chan \in [Channels -> ChannelStates] /\ CloseClient(c, chan)
      BY <2>5 DEF HangUp, TypeOK, DaemonTypes
    <3>2. QED
      BY <2>1, <2>5, <3>1, CloseClientGhosts, OtherAnnounces DEF TypeOK
  <2>6. ASSUME NEW c \in Clients, ClientStep(c) PROVE SafetyInvariant'
    BY <2>1, <2>6, ClientStepGhosts, OtherAnnounces
  <2>7. CASE UNCHANGED vars
    <3>1. UNCHANGED daemon /\ UNCHANGED <<todo, cur, chan>>
      BY <2>7 DEF vars, daemon
    <3>2. QED
      BY <2>1, <3>1, UnchangedGhosts DEF TypeOK, AnnouncesPeer, Peers, Attached
  <2>8. QED
    BY <2>2, <2>3, <2>4, <2>5, <2>6, <2>7 DEF Next
<1>3. QED
  BY <1>1, <1>2, PTL DEF Spec

(* For any number of clients and channels, whatever the clients do, stall  *)
(* or die: no list, parked offer or RecvReady mark of a channel names a    *)
(* client that is gone or that is not attached to the channel in that      *)
(* mode, so the next process to be given the descriptor inherits nothing.  *)
THEOREM NothingLeftBehind == Spec => []NoGhosts
<1>1. SafetyInvariant => NoGhosts
  BY DEF SafetyInvariant
<1>2. QED
  BY <1>1, InvariantHolds, PTL

(* A client that announces itself is a peer until its mark is set: what    *)
(* ends it or detaches it in between also drops the rest of its handler.   *)
THEOREM AnnouncedIsPeer == Spec => []AnnouncesPeer
<1>1. SafetyInvariant => AnnouncesPeer
  BY DEF SafetyInvariant
<1>2. QED
  BY <1>1, InvariantHolds, PTL

-----------------------------------------------------------------------------
(* A channel has at most two peers.                                        *)

(* Entries are only removed from the lists, all those of a client at once. *)
ListsShrink ==
    \A k \in Channels, m \in AllModes, c \in Clients :
       chan'[k].list[m][c] \in {0, chan[k].list[m][c]}

LEMMA ShrinkingPeers ==
    ASSUME DaemonTypes, TwoPeers, ListsShrink
    PROVE  TwoPeers'
<1>1. ASSUME NEW k \in Channels PROVE chan[k].list["ChannelPeer"] \in [Clients -> Nat]
  BY ListType DEF AllModes
<1>2. \A k \in Channels, c \in Clients :
         chan'[k].list["ChannelPeer"][c] \in {0, chan[k].list["ChannelPeer"][c]}
  BY DEF ListsShrink, AllModes
<1>3. QED
  BY <1>1, <1>2 DEF TwoPeers

LEMMA CloseClientShrinks ==
    ASSUME DaemonTypes, NEW c \in Clients, NEW channels \in [Channels -> ChannelStates],
           \A k \in Channels : channels[k].list = chan[k].list,
           CloseClient(c, channels)
    PROVE  ListsShrink
<1>1. ASSUME NEW k \in Channels, NEW m \in AllModes, NEW d \in Clients
      PROVE  chan'[k].list[m][d] \in {0, chan[k].list[m][d]}
  <2>1. chan'[k] = channels[k] \/ chan'[k] = WithoutClient(channels[k], c)
    BY DEF CloseClient
  <2>2. channels[k].list[m] \in [Clients -> Nat]
    BY ListType
  <2>3. QED
    BY <2>1, <2>2 DEF WithoutClient
<1>2. QED
  BY <1>1 DEF ListsShrink

(* Only ServeAttach adds an entry.                                         *)
LEMMA StepShrinks ==
    ASSUME TypeOK, Step
    PROVE  ListsShrink
<1> USE DEF TypeOK
<1>1. CASE \A k \in Channels : chan'[k].list = chan[k].list
  BY <1>1 DEF ListsShrink
<1>2. ASSUME NEW c \in Clients, CloseClient(c, chan) PROVE ListsShrink
  BY <1>2, CloseClientShrinks DEF DaemonTypes
<1>3. ASSUME NEW what, Doing(what) PROVE cur.id \in Clients /\ cur.ch \in Channels
  BY <1>3, ServedType
<1>4. CASE NotifyStep \/ PeerStep \/ ResumeStep \/ SigPipe
  BY <1>1, <1>4 DEF NotifyStep, PeerStep, ResumeStep, SigPipe, daemon
<1>5. CASE AnswerStep \/ CopyStep \/ QueueStep
  BY <1>1, <1>2, <1>3, <1>5 DEF AnswerStep, CopyStep, QueueStep, Attached, daemon
<1>6. CASE FlushStep \/ PushStep
  BY <1>1, <1>3, <1>6, PopKeepsLists DEF FlushStep, PushStep
<1>7. CASE ParkStep
  BY <1>1, <1>3, <1>7, PushKeepsLists DEF ParkStep
<1>8. CASE AnnounceStep
  <2>1. cur.ch \in Channels
    BY <1>3, <1>8 DEF AnnounceStep
  <2>2. chan \in [Channels -> ChannelStates] /\ chan[cur.ch] \in ChannelStates
    BY <2>1 DEF DaemonTypes
  <2>3. chan' = [chan EXCEPT ![cur.ch].recv_ready = cur.id]
    BY <1>8 DEF AnnounceStep
  <2>4. \A k \in Channels : chan'[k].list = chan[k].list
    BY <2>1, <2>2, <2>3 DEF ChannelStates
  <2>5. QED
    BY <1>1, <2>4
<1>9. CASE DrainStep
  <2>1. cur.id \in Clients /\ cur.ch \in Channels
    BY <1>3, <1>9 DEF DrainStep
  <2>2. CASE chan' = chan
    BY <1>1, <2>2
  <2>3. CASE chan' = Pop(cur.ch)
    BY <1>1, <2>1, <2>3, PopKeepsLists
  <2>4. CASE chan[cur.ch].pending # << >> /\ CloseClient(cur.id, Pop(cur.ch))
    BY <2>1, <2>4, PopType, PopKeepsLists, CloseClientShrinks
  <2>5. QED
    BY <1>9, <2>2, <2>3, <2>4 DEF DrainStep, daemon
<1>10. QED
  BY <1>4, <1>5, <1>6, <1>7, <1>8, <1>9 DEF Step

LEMMA ServeShrinks ==
    ASSUME TypeOK, NEW c \in Clients, Serve(c), ~ServeAttach(c)
    PROVE  ListsShrink
<1> DEFINE j == Head(in[c]).ch
<1>1. CASE ServeBye(c)
  BY <1>1, CloseClientShrinks DEF ServeBye, TypeOK, DaemonTypes
<1>2. CASE ServePublish(c)
  BY <1>2 DEF ServePublish, daemon, ListsShrink
<1>3. CASE ServeDetach(c) \/ ServeOffer(c) \/ ServeRecvReady(c)
  <2>1. j \in Channels
    <3>1. /\ Head(in[c]) \in Frames
          /\ Head(in[c]).op \in {"Detach", "Offer", "RecvReady"}
      BY <1>3, TakeType DEF TypeOK, ServeDetach, ServeOffer, ServeRecvReady
    <3>2. QED
      BY <3>1 DEF Frames
  <2>2. \/ chan' = chan
        \/ chan' = [chan EXCEPT ![j] = WithoutClient(chan[j], c)]
        \/ chan' = [chan EXCEPT ![j].offer_from = None]
        \/ chan' = [chan EXCEPT ![j].offer_from = None, ![j].recv_ready = None]
        \/ chan' = [chan EXCEPT ![j].offer_from = c]
    BY <1>3, Zenon DEF ServeDetach, ServeOffer, ServeRecvReady
  <2> HIDE DEF j
  <2>3. chan \in [Channels -> ChannelStates] /\ chan[j] \in ChannelStates
    BY <2>1 DEF TypeOK, DaemonTypes
  <2>4. \A m \in AllModes : chan[j].list[m] \in [Clients -> Nat]
    BY <2>1, ListType DEF TypeOK
  <2>5. CASE chan' = [chan EXCEPT ![j] = WithoutClient(chan[j], c)]
    <3>1. \A k \in Channels : k # j => chan'[k] = chan[k]
      BY <2>3, <2>5
    <3>2. chan'[j] = WithoutClient(chan[j], c)
      BY <2>1, <2>3, <2>5
    <3>3. \A m \in AllModes, d \in Clients : chan'[j].list[m][d] \in {0, chan[j].list[m][d]}
      BY <2>4, <3>2 DEF WithoutClient
    <3>4. QED
      BY <3>1, <3>3 DEF ListsShrink
  <2>6. CASE chan' # [chan EXCEPT ![j] = WithoutClient(chan[j], c)]
    <3>1. \A k \in Channels : chan'[k].list = chan[k].list
      <4>1. chan'[j].list = chan[j].list
        BY <2>1, <2>2, <2>3, <2>6 DEF ChannelStates
      <4>2. \A k \in Channels : k # j => chan'[k] = chan[k]
        BY <2>2, <2>3, <2>6
      <4>3. QED
        BY <4>1, <4>2
    <3>2. QED
      BY <3>1 DEF ListsShrink
  <2>7. QED
    BY <2>5, <2>6
<1>4. QED
  BY <1>1, <1>2, <1>3 DEF Serve

LEMMA ServeAttachTwoPeers ==
    ASSUME TypeOK, TwoPeers, NEW c \in Clients, ServeAttach(c)
    PROVE  TwoPeers'
<1> DEFINE j == Head(in[c]).ch
           m == Head(in[c]).mode
<1>1. j \in Channels /\ m \in AllModes
  <2>1. Head(in[c]) \in Frames /\ Head(in[c]).op = "Attach"
    BY TakeType DEF TypeOK, ServeAttach
  <2>2. QED
    BY <2>1 DEF Frames
<1>2. chan' = chan \/ (~Refused(j, m) /\ chan' = [chan EXCEPT ![j].list[m][c] = @ + 1])
  BY DEF ServeAttach
<1> HIDE DEF j, m
<1>3. CASE chan' = chan
  BY <1>3 DEF TwoPeers
<1>4. CASE ~Refused(j, m) /\ chan' = [chan EXCEPT ![j].list[m][c] = @ + 1]
  <2>1. chan \in [Channels -> ChannelStates] /\ chan[j] \in ChannelStates
    BY <1>1 DEF TypeOK, DaemonTypes
  <2>2. \A k \in Channels : k # j => chan'[k] = chan[k]
    BY <1>4, <2>1
  <2>3. /\ chan[j].list \in [AllModes -> [Clients -> Nat]]
        /\ chan'[j].list = [chan[j].list EXCEPT ![m][c] = @ + 1]
    BY <1>1, <1>4, <2>1 DEF ChannelStates
  <2> DEFINE n == chan[j].list["ChannelPeer"]
             o == chan'[j].list["ChannelPeer"]
  <2>4. n \in [Clients -> Nat]
    BY <1>1, ListType DEF TypeOK, AllModes
  <2>5. CASE m # "ChannelPeer"
    <3>1. o = n
      BY <1>1, <2>3, <2>5 DEF AllModes
    <3>2. QED
      BY <2>2, <3>1 DEF TwoPeers
  <2>6. CASE m = "ChannelPeer"
    <3>1. o = [n EXCEPT ![c] = n[c] + 1]
      BY <1>1, <2>3, <2>6
    <3>2. ~PeersFull(j)
      BY <1>4, <2>6 DEF Refused
    <3>3. \A d, e \in Clients : n[d] <= 1 /\ (d # e => n[d] = 0 \/ n[e] = 0)
      BY <2>4, <3>2 DEF PeersFull
    <3>4. \A d \in Clients : o[d] = IF d = c THEN n[d] + 1 ELSE n[d]
      BY <2>4, <3>1
    <3> HIDE DEF n, o
    <3>5. \A d, e, f \in Clients :
             /\ o[d] <= 2
             /\ d # e /\ o[d] > 1 => o[e] = 0
             /\ d # e /\ d # f /\ e # f => 0 \in {o[d], o[e], o[f]}
      BY <2>4, <3>3, <3>4
    <3>6. QED
      BY <2>2, <3>5 DEF TwoPeers, o
  <2>7. QED
    BY <2>5, <2>6
<1>5. QED
  BY <1>2, <1>3, <1>4

(* For any number of clients and channels the list of channel peers never  *)
(* holds three entries, whether of three processes or of handles of one.   *)
THEOREM AtMostTwoPeers == Spec => []TwoPeers
<1>1. Init => TwoPeers
  BY DEF Init, TwoPeers, EmptyChannel, NoHandles, AllModes
<1>2. TypeOK /\ TwoPeers /\ [Next]_vars => TwoPeers'
  <2> SUFFICES ASSUME TypeOK, TwoPeers, [Next]_vars PROVE TwoPeers'
    OBVIOUS
  <2>1. CASE Step
    BY <2>1, StepShrinks, ShrinkingPeers DEF TypeOK
  <2>2. CASE Exit
    BY <2>2 DEF Exit, daemon, TwoPeers
  <2>3. ASSUME NEW c \in Clients, Serve(c) PROVE TwoPeers'
    BY <2>3, ServeAttachTwoPeers, ServeShrinks, ShrinkingPeers DEF TypeOK
  <2>4. ASSUME NEW c \in Clients, HangUp(c) PROVE TwoPeers'
    BY <2>4, CloseClientShrinks, ShrinkingPeers DEF HangUp, TypeOK, DaemonTypes
  <2>5. ASSUME NEW c \in Clients, ClientStep(c) PROVE TwoPeers'
    <3>1. UNCHANGED chan
      BY <2>5 DEF ClientStep, Connect, SendBye, Die, ReadEof, CloseEnd, ReadFrame, RetryOffer,
                  SendPublish, SendOffer, SendRecvReady, SendAttach, SendDetach, daemon
    <3>2. QED
      BY <3>1 DEF TwoPeers
  <2>6. CASE UNCHANGED vars
    BY <2>6 DEF vars, TwoPeers
  <2>7. QED
    BY <2>1, <2>2, <2>3, <2>4, <2>5, <2>6 DEF Next
<1>3. QED
  BY <1>1, <1>2, TypeCorrect, PTL DEF Spec

-----------------------------------------------------------------------------
(* Lanes: a sequence of numbers for each client or channel.  0 stands for  *)
(* an entry that is not a message.                                         *)

NumbersIn(X, f) == {n \in 1..MaxPublish : \E x \in X : \E i \in DOMAIN f[x] : f[x][i] = n}
Distinct(X, f) ==
    \A x, y \in X : \A i \in DOMAIN f[x], j \in DOMAIN f[y] :
       f[x][i] = f[y][j] /\ f[x][i] # 0 => x = y /\ i = j

OfferLane(r) ==
    [c \in Clients |-> IF r[c].op \in {"Offer", "Backoff"} THEN <<r[c].pay.n>> ELSE << >>]
FrameLane(f) ==
    [c \in Clients |-> [i \in 1..Len(f[c]) |-> IF f[c][i].op = "Publish" THEN f[c][i].pay.n ELSE 0]]
BacklogLane(s) ==
    [k \in Channels |-> [i \in 1..Len(s[k].pending) |-> s[k].pending[i].n]]
ConsumedLane(d) ==
    [c \in Clients |-> [i \in 1..Len(d[c]) |->
        IF d[c][i].mode \in {"QueueIn", "ChannelPeer"} THEN d[c][i].pay.n ELSE 0]]
CopyLane(d) ==
    [c \in Clients |-> [i \in 1..Len(d[c]) |->
        IF d[c][i].mode \notin {"QueueIn", "ChannelPeer"} THEN d[c][i].pay.n ELSE 0]]

Offered == NumbersIn(Clients, OfferLane(req))
Framed == NumbersIn(Clients, FrameLane(in))
Parked == NumbersIn(Channels, BacklogLane(chan))
Taken == NumbersIn(Clients, ConsumedLane(dlv))
Copied == NumbersIn(Clients, CopyLane(dlv))

(* In the hands of the handler: not published yet, and being published.    *)
Held ==
    {n \in 1..MaxPublish : todo # << >> /\ Head(todo).do \in {"peer", "park"} /\ cur.pay.n = n}
Spread ==
    {n \in 1..MaxPublish :
       todo # << >> /\ Head(todo).do \in {"copies", "queue"} /\ Head(todo).pay.n = n}

(* A payload in hand is the business of the next step; the copies are made *)
(* before the queue is served.                                             *)
InTurn(items) ==
    /\ \A i \in DOMAIN items : items[i].do \in {"peer", "park", "copies"} => i = 1
    /\ \A i \in DOMAIN items : items[i].do = "queue" =>
          i = 1 \/ (i = 2 /\ items[1].do = "copies" /\ items[1].pay = items[2].pay)

(* The places are apart and none holds a number twice; only the copies for *)
(* the subscribers may be made while the message is still being spread.    *)
OnePlace ==
    /\ InTurn(todo)
    /\ Distinct(Clients, OfferLane(req)) /\ Distinct(Clients, FrameLane(in))
    /\ Distinct(Channels, BacklogLane(chan)) /\ Distinct(Clients, ConsumedLane(dlv))
    /\ Offered \intersect (Framed \union Held \union Spread \union Parked \union Taken \union Copied) = {}
    /\ Framed \intersect (Held \union Spread \union Parked \union Taken \union Copied) = {}
    /\ Held \intersect (Spread \union Parked \union Taken \union Copied) = {}
    /\ Parked \intersect (Spread \union Taken \union Copied) = {}
    /\ Spread \intersect Taken = {}
    /\ Offered \union Framed \union Held \union Spread \union Parked \union Taken \union Copied
         \subseteq 1..sent

LEMMA TailOf ==
    ASSUME NEW S, NEW s \in Seq(S), s # << >>
    PROVE  /\ Len(s) \in Nat /\ Len(s) > 0 /\ Head(s) = s[1]
           /\ Len(Tail(s)) = Len(s) - 1 /\ DOMAIN Tail(s) = 1..(Len(s) - 1)
           /\ \A i \in 1..(Len(s) - 1) : Tail(s)[i] = s[i + 1]
OBVIOUS

LEMMA AppendOf ==
    ASSUME NEW S, NEW s \in Seq(S), NEW e \in S
    PROVE  /\ Len(s) \in Nat
           /\ Len(Append(s, e)) = Len(s) + 1 /\ DOMAIN Append(s, e) = 1..(Len(s) + 1)
           /\ \A i \in 1..Len(s) : Append(s, e)[i] = s[i]
           /\ Append(s, e)[Len(s) + 1] = e
OBVIOUS

Popped(X, f, g, x) ==
    /\ \A y \in X : Len(f[y]) \in Nat /\ DOMAIN f[y] = 1..Len(f[y])
    /\ \A y \in X : y # x => g[y] = f[y]
    /\ Len(f[x]) > 0 /\ DOMAIN g[x] = 1..(Len(f[x]) - 1)
    /\ \A i \in DOMAIN g[x] : g[x][i] = f[x][i + 1]
Pushed(X, f, g, x, n) ==
    /\ \A y \in X : Len(f[y]) \in Nat /\ DOMAIN f[y] = 1..Len(f[y])
    /\ \A y \in X : y # x => g[y] = f[y]
    /\ DOMAIN g[x] = 1..(Len(f[x]) + 1) /\ g[x][Len(f[x]) + 1] = n
    /\ \A i \in DOMAIN f[x] : g[x][i] = f[x][i]

(* A lane loses entries of one sequence at the front, is emptied in part,  *)
(* or gets one number more at the end of a sequence.                       *)
LEMMA LaneTail ==
    ASSUME NEW X, NEW f, NEW g, NEW x \in X,
           Popped(X, f, g, x),
           Distinct(X, f)
    PROVE  /\ Distinct(X, g)
           /\ NumbersIn(X, g) \subseteq NumbersIn(X, f)
           /\ f[x][1] # 0 => f[x][1] \notin NumbersIn(X, g)
           /\ f[x][1] \in 1..MaxPublish => f[x][1] \in NumbersIn(X, f)
<1> DEFINE back(y, i) == IF y = x THEN i + 1 ELSE i
<1>1. ASSUME NEW y \in X, NEW i \in DOMAIN g[y]
      PROVE  back(y, i) \in DOMAIN f[y] /\ f[y][back(y, i)] = g[y][i] /\ i \in Nat
  BY <1>1 DEF Popped
<1>2. Distinct(X, g)
  <2> SUFFICES ASSUME NEW y \in X, NEW z \in X, NEW i \in DOMAIN g[y], NEW j \in DOMAIN g[z],
                      g[y][i] = g[z][j], g[y][i] # 0
               PROVE  y = z /\ i = j
    BY DEF Distinct
  <2>1. y = z /\ back(y, i) = back(z, j)
    BY <1>1 DEF Distinct
  <2>2. QED
    BY <1>1, <2>1
<1>3. NumbersIn(X, g) \subseteq NumbersIn(X, f)
  BY <1>1 DEF NumbersIn
<1>4. 1 \in DOMAIN f[x]
  BY DEF Popped
<1>5. ASSUME f[x][1] # 0, f[x][1] \in NumbersIn(X, g) PROVE FALSE
  <2>1. PICK y \in X : \E i \in DOMAIN g[y] : g[y][i] = f[x][1]
    BY <1>5 DEF NumbersIn
  <2>3. PICK i \in DOMAIN g[y] : g[y][i] = f[x][1]
    BY <2>1
  <2>2. x = y /\ 1 = back(y, i)
    BY <1>1, <1>4, <1>5, <2>3 DEF Distinct
  <2>4. QED
    BY <2>2, <2>3 DEF Popped
<1>6. QED
  BY <1>2, <1>3, <1>4, <1>5 DEF NumbersIn

LEMMA LaneLess ==
    ASSUME NEW X, NEW f, NEW g,
           \A y \in X : g[y] \in {f[y], << >>},
           Distinct(X, f)
    PROVE  Distinct(X, g) /\ NumbersIn(X, g) \subseteq NumbersIn(X, f)
<1>1. ASSUME NEW y \in X, NEW i \in DOMAIN g[y] PROVE g[y] = f[y]
  BY <1>1
<1>2. QED
  BY <1>1 DEF Distinct, NumbersIn

LEMMA LaneAdd ==
    ASSUME NEW X, NEW f, NEW g, NEW x \in X, NEW n \in Nat,
           Pushed(X, f, g, x, n),
           n # 0 => n \in (1..MaxPublish) \ NumbersIn(X, f),
           Distinct(X, f)
    PROVE  /\ Distinct(X, g)
           /\ NumbersIn(X, g) \subseteq NumbersIn(X, f) \union {n}
           /\ n = 0 => NumbersIn(X, g) \subseteq NumbersIn(X, f)
<1>1. ASSUME NEW y \in X, NEW i \in DOMAIN g[y]
      PROVE  \/ i \in DOMAIN f[y] /\ g[y][i] = f[y][i]
             \/ y = x /\ i = Len(f[x]) + 1 /\ g[y][i] = n
  BY <1>1 DEF Pushed
<1>2. ASSUME NEW y \in X, NEW i \in DOMAIN f[y], n # 0 PROVE f[y][i] # n
  BY <1>2 DEF NumbersIn
<1>3. Distinct(X, g)
  <2> SUFFICES ASSUME NEW y \in X, NEW z \in X, NEW i \in DOMAIN g[y], NEW j \in DOMAIN g[z],
                      g[y][i] = g[z][j], g[y][i] # 0
               PROVE  y = z /\ i = j
    BY DEF Distinct
  <2>1. CASE g[y][i] = n
    <3>1. y = x /\ i = Len(f[x]) + 1
      BY <1>1, <1>2, <2>1
    <3>2. z = x /\ j = Len(f[x]) + 1
      BY <1>1, <1>2, <2>1
    <3>3. QED
      BY <3>1, <3>2
  <2>2. CASE g[y][i] # n
    BY <1>1, <2>2 DEF Distinct
  <2>3. QED
    BY <2>1, <2>2
<1>4. QED
  BY <1>1, <1>3 DEF NumbersIn

-----------------------------------------------------------------------------
(* What the steps do to the lanes.                                         *)

LEMMA FramesDropped ==
    ASSUME \A c \in Clients : in'[c] \in {in[c], << >>},
           Distinct(Clients, FrameLane(in))
    PROVE  Distinct(Clients, FrameLane(in')) /\ Framed' \subseteq Framed
<1>1. \A c \in Clients : FrameLane(in')[c] \in {FrameLane(in)[c], << >>}
  BY DEF FrameLane
<1>2. QED
  BY <1>1, LaneLess DEF Framed

LEMMA FrameSent ==
    ASSUME WireTypes, NEW c \in Clients, NEW f \in Frames, Send(c, f),
           f.op = "Publish" => f.pay.n \notin Framed,
           Distinct(Clients, FrameLane(in))
    PROVE  /\ Distinct(Clients, FrameLane(in'))
           /\ f.op = "Publish" => Framed' \subseteq Framed \union {f.pay.n}
           /\ f.op # "Publish" => Framed' \subseteq Framed
<1>1. CASE ~live[c]
  <2>1. in' = in
    BY <1>1 DEF Send, WireTypes
  <2>2. QED
    BY <2>1, FramesDropped
<1>2. CASE live[c]
  <2> DEFINE F == FrameLane(in)
             G == FrameLane(in')
             n == IF f.op = "Publish" THEN f.pay.n ELSE 0
  <2>1. n \in Nat /\ (n # 0 => n \in (1..MaxPublish) \ NumbersIn(Clients, F))
    <3>1. f.op = "Publish" => f.pay.n \in 1..MaxPublish
      BY DEF Frames, Payloads
    <3>2. QED
      BY <3>1 DEF Framed
  <2>2. /\ in'[c] = Append(in[c], f) /\ in[c] \in Seq(Frames)
        /\ \A d \in Clients : d # c => in'[d] = in[d]
        /\ \A d \in Clients : in[d] \in Seq(Frames)
    BY <1>2 DEF Send, WireTypes
  <2>3. \A d \in Clients : /\ Len(F[d]) = Len(in[d]) /\ Len(in[d]) \in Nat
                           /\ DOMAIN F[d] = 1..Len(in[d])
    BY <2>2 DEF FrameLane
  <2>4. \A d \in Clients : d # c => G[d] = F[d]
    BY <2>2 DEF FrameLane
  <2>5. /\ DOMAIN G[c] = 1..(Len(F[c]) + 1) /\ G[c][Len(F[c]) + 1] = n
        /\ \A i \in DOMAIN F[c] : G[c][i] = F[c][i]
    BY <2>2, <2>3 DEF FrameLane
  <2> HIDE DEF F, G, n
  <2>6. /\ Distinct(Clients, G)
        /\ NumbersIn(Clients, G) \subseteq NumbersIn(Clients, F) \union {n}
        /\ n = 0 => NumbersIn(Clients, G) \subseteq NumbersIn(Clients, F)
    <3>1. Distinct(Clients, F)
      BY DEF F
    <3>2. Pushed(Clients, F, G, c, n)
      BY <2>3, <2>4, <2>5 DEF Pushed
    <3>3. QED
      BY <2>1, <3>1, <3>2, LaneAdd
  <2>7. QED
    BY <2>6 DEF F, G, n, Framed
<1>3. QED
  BY <1>1, <1>2

LEMMA FrameTaken ==
    ASSUME WireTypes, NEW c \in Clients, NEW op, HasFrame(c, op), Take(c),
           Distinct(Clients, FrameLane(in))
    PROVE  /\ Distinct(Clients, FrameLane(in')) /\ Framed' \subseteq Framed
           /\ op = "Publish" => Head(in[c]).pay.n \in Framed \ Framed'
<1> DEFINE F == FrameLane(in)
           G == FrameLane(in')
<1>1. /\ in'[c] = Tail(in[c]) /\ in[c] \in Seq(Frames) /\ in[c] # << >>
      /\ \A d \in Clients : d # c => in'[d] = in[d]
      /\ \A d \in Clients : in[d] \in Seq(Frames)
      /\ Head(in[c]).op = op /\ Head(in[c]) \in Frames
  BY TakeType DEF Take, HasFrame, WireTypes
<1>2. \A d \in Clients : /\ Len(F[d]) = Len(in[d]) /\ Len(in[d]) \in Nat
                         /\ DOMAIN F[d] = 1..Len(in[d])
  BY <1>1 DEF FrameLane
<1>3. \A d \in Clients : d # c => G[d] = F[d]
  BY <1>1 DEF FrameLane
<1>4. /\ Len(F[c]) > 0 /\ DOMAIN G[c] = 1..(Len(F[c]) - 1)
      /\ \A i \in DOMAIN G[c] : G[c][i] = F[c][i + 1]
  <2>1. /\ Len(in[c]) \in Nat /\ Len(in[c]) > 0 /\ Len(in'[c]) = Len(in[c]) - 1
        /\ \A i \in 1..(Len(in[c]) - 1) : in'[c][i] = in[c][i + 1]
    BY <1>1, TailOf
  <2>2. G[c] = [i \in 1..(Len(in[c]) - 1) |->
                  IF in'[c][i].op = "Publish" THEN in'[c][i].pay.n ELSE 0]
    BY <2>1 DEF FrameLane
  <2>3. F[c] = [i \in 1..Len(in[c]) |-> IF in[c][i].op = "Publish" THEN in[c][i].pay.n ELSE 0]
    BY DEF FrameLane
  <2> HIDE DEF F, G
  <2>4. QED
    BY <1>2, <2>1, <2>2, <2>3
<1>5. op = "Publish" => F[c][1] = Head(in[c]).pay.n /\ F[c][1] \in 1..MaxPublish
  <2>1. Len(in[c]) > 0 /\ Head(in[c]) = in[c][1]
    BY <1>1
  <2>2. op = "Publish" => Head(in[c]).pay.n \in 1..MaxPublish
    BY <1>1 DEF Frames, Payloads
  <2>3. op = "Publish" => F[c][1] = in[c][1].pay.n
    BY <1>1, <2>1 DEF FrameLane
  <2>4. QED
    BY <2>1, <2>2, <2>3
<1> HIDE DEF F, G
<1>6. /\ Distinct(Clients, G)
      /\ NumbersIn(Clients, G) \subseteq NumbersIn(Clients, F)
      /\ F[c][1] # 0 => F[c][1] \notin NumbersIn(Clients, G)
      /\ F[c][1] \in 1..MaxPublish => F[c][1] \in NumbersIn(Clients, F)
  <2>1. Distinct(Clients, F)
    BY DEF F
  <2>2. Popped(Clients, F, G, c)
    BY <1>2, <1>3, <1>4 DEF Popped
  <2>3. QED
    BY <2>1, <2>2, LaneTail
<1>7. QED
  BY <1>5, <1>6 DEF F, G, Framed

LEMMA BacklogKept ==
    ASSUME \A k \in Channels : chan'[k].pending = chan[k].pending,
           Distinct(Channels, BacklogLane(chan))
    PROVE  Distinct(Channels, BacklogLane(chan')) /\ Parked' = Parked
<1>1. BacklogLane(chan') = BacklogLane(chan)
  BY DEF BacklogLane
<1>2. QED
  BY <1>1 DEF Parked

LEMMA BacklogPopped ==
    ASSUME DaemonTypes, NEW k \in Channels, chan[k].pending # << >>,
           \A j \in Channels : chan'[j].pending = Pop(k)[j].pending,
           Distinct(Channels, BacklogLane(chan))
    PROVE  /\ Distinct(Channels, BacklogLane(chan')) /\ Parked' \subseteq Parked
           /\ Head(chan[k].pending).n \in Parked \ Parked'
<1> DEFINE F == BacklogLane(chan)
           G == BacklogLane(chan')
<1>1. /\ chan \in [Channels -> ChannelStates]
      /\ \A j \in Channels : chan[j].pending \in Seq(Payloads)
  BY DEF DaemonTypes, ChannelStates
<1>2. /\ chan'[k].pending = Tail(chan[k].pending)
      /\ \A j \in Channels : j # k => chan'[j].pending = chan[j].pending
  BY <1>1 DEF Pop, ChannelStates
<1>3. \A j \in Channels : /\ Len(F[j]) = Len(chan[j].pending) /\ Len(chan[j].pending) \in Nat
                          /\ DOMAIN F[j] = 1..Len(chan[j].pending)
  BY <1>1 DEF BacklogLane
<1>4. \A j \in Channels : j # k => G[j] = F[j]
  BY <1>2 DEF BacklogLane
<1>5. /\ Len(F[k]) > 0 /\ DOMAIN G[k] = 1..(Len(F[k]) - 1)
      /\ \A i \in DOMAIN G[k] : G[k][i] = F[k][i + 1]
  <2> DEFINE s == chan[k].pending
  <2>1. /\ Len(s) \in Nat /\ Len(s) > 0 /\ Len(chan'[k].pending) = Len(s) - 1
        /\ \A i \in 1..(Len(s) - 1) : chan'[k].pending[i] = s[i + 1]
    BY <1>1, <1>2, TailOf
  <2>2. G[k] = [i \in 1..(Len(s) - 1) |-> chan'[k].pending[i].n]
    BY <2>1 DEF BacklogLane
  <2>3. F[k] = [i \in 1..Len(s) |-> s[i].n]
    BY DEF BacklogLane
  <2> HIDE DEF F, G
  <2>4. QED
    BY <1>3, <2>1, <2>2, <2>3
<1>6. F[k][1] = Head(chan[k].pending).n /\ F[k][1] \in 1..MaxPublish
  <2>1. Len(chan[k].pending) > 0 /\ Head(chan[k].pending) = chan[k].pending[1]
    BY <1>1
  <2>2. Head(chan[k].pending) \in Payloads
    BY PopType
  <2>3. QED
    BY <1>1, <2>1, <2>2 DEF BacklogLane, Payloads
<1> HIDE DEF F, G
<1>7. /\ Distinct(Channels, G)
      /\ NumbersIn(Channels, G) \subseteq NumbersIn(Channels, F)
      /\ F[k][1] # 0 => F[k][1] \notin NumbersIn(Channels, G)
      /\ F[k][1] \in 1..MaxPublish => F[k][1] \in NumbersIn(Channels, F)
  <2>1. Distinct(Channels, F)
    BY DEF F
  <2>2. Popped(Channels, F, G, k)
    BY <1>3, <1>4, <1>5 DEF Popped
  <2>3. QED
    BY <2>1, <2>2, LaneTail
<1>8. QED
  BY <1>6, <1>7 DEF F, G, Parked

LEMMA BacklogPushed ==
    ASSUME DaemonTypes, NEW k \in Channels, NEW p \in Payloads, chan' = Push(k, p),
           p.n \notin Parked, Distinct(Channels, BacklogLane(chan))
    PROVE  /\ Distinct(Channels, BacklogLane(chan'))
           /\ Parked' \subseteq Parked \union {p.n}
<1> DEFINE F == BacklogLane(chan)
           G == BacklogLane(chan')
<1>1. /\ chan \in [Channels -> ChannelStates]
      /\ \A j \in Channels : chan[j].pending \in Seq(Payloads)
  BY DEF DaemonTypes, ChannelStates
<1>2. /\ chan'[k].pending = Append(chan[k].pending, p)
      /\ \A j \in Channels : j # k => chan'[j].pending = chan[j].pending
  BY <1>1 DEF Push, ChannelStates
<1>3. \A j \in Channels : /\ Len(F[j]) = Len(chan[j].pending) /\ Len(chan[j].pending) \in Nat
                          /\ DOMAIN F[j] = 1..Len(chan[j].pending)
  BY <1>1 DEF BacklogLane
<1>4. \A j \in Channels : j # k => G[j] = F[j]
  BY <1>2 DEF BacklogLane
<1>5. /\ DOMAIN G[k] = 1..(Len(F[k]) + 1) /\ G[k][Len(F[k]) + 1] = p.n
      /\ \A i \in DOMAIN F[k] : G[k][i] = F[k][i]
  BY <1>1, <1>2, <1>3, SMTT(30) DEF BacklogLane
<1>6. p.n \in Nat /\ p.n \in (1..MaxPublish) \ NumbersIn(Channels, F)
  BY DEF Payloads, Parked
<1> HIDE DEF F, G
<1>7. /\ Distinct(Channels, G)
      /\ NumbersIn(Channels, G) \subseteq NumbersIn(Channels, F) \union {p.n}
  <2>1. Distinct(Channels, F)
    BY DEF F
  <2>2. Pushed(Channels, F, G, k, p.n)
    BY <1>3, <1>4, <1>5 DEF Pushed
  <2>3. QED
    BY <1>6, <2>1, <2>2, LaneAdd
<1>8. QED
  BY <1>7 DEF F, G, Parked

LEMMA OffersKept ==
    ASSUME \A c \in Clients : \/ req'[c] = req[c]
                              \/ req'[c].op \notin {"Offer", "Backoff"}
                              \/ /\ req[c].op \in {"Offer", "Backoff"}
                                 /\ req'[c].op \in {"Offer", "Backoff"}
                                 /\ req'[c].pay = req[c].pay,
           Distinct(Clients, OfferLane(req))
    PROVE  Distinct(Clients, OfferLane(req')) /\ Offered' \subseteq Offered
<1>1. \A c \in Clients : OfferLane(req')[c] \in {OfferLane(req)[c], << >>}
  BY DEF OfferLane
<1>2. QED
  BY <1>1, LaneLess DEF Offered

LEMMA DeliveriesKept ==
    ASSUME dlv' = dlv
    PROVE  ConsumedLane(dlv') = ConsumedLane(dlv) /\ Taken' = Taken /\ Copied' = Copied
BY DEF Taken, Copied

(* A new offer or message: its payload is in no other request.             *)
LEMMA OfferMade ==
    ASSUME ClientTypes, NEW c \in Clients, NEW r \in Requests,
           r.op \in {"Offer", "Backoff"}, req[c] = NoReq, req' = [req EXCEPT ![c] = r],
           r.pay.n \notin Offered, Distinct(Clients, OfferLane(req))
    PROVE  Distinct(Clients, OfferLane(req')) /\ Offered' \subseteq Offered \union {r.pay.n}
<1> DEFINE F == OfferLane(req)
           G == OfferLane(req')
<1>1. /\ req'[c] = r /\ \A d \in Clients : d # c => req'[d] = req[d]
      /\ req[c].op = "None"
  BY DEF ClientTypes, NoReq, Frame
<1>2. /\ F[c] = << >> /\ G[c] = <<r.pay.n>>
      /\ \A d \in Clients : d # c => G[d] = F[d]
  BY <1>1 DEF OfferLane
<1>3. \A d \in Clients : Len(F[d]) \in Nat /\ DOMAIN F[d] = 1..Len(F[d])
  <2>1. \A d \in Clients : F[d] = << >> \/ F[d] = <<req[d].pay.n>>
    BY DEF OfferLane
  <2> HIDE DEF F
  <2>2. QED
    BY <2>1
<1>4. r.pay.n \in Nat /\ r.pay.n \in (1..MaxPublish) \ NumbersIn(Clients, F)
  <2>1. r.pay \in Payloads
    BY DEF Requests
  <2>2. QED
    BY <2>1 DEF Payloads, Offered
<1>5. Distinct(Clients, F)
  OBVIOUS
<1> HIDE DEF F, G
<1>6. Pushed(Clients, F, G, c, r.pay.n)
  BY <1>2, <1>3 DEF Pushed
<1>7. /\ Distinct(Clients, G)
      /\ NumbersIn(Clients, G) \subseteq NumbersIn(Clients, F) \union {r.pay.n}
  BY <1>4, <1>5, <1>6, LaneAdd
<1>8. QED
  BY <1>7 DEF F, G, Offered

(* A delivery that consumes the message, and the copy for a subscriber.    *)
LEMMA DeliveryLogged ==
    ASSUME HistoryTypes, NEW c \in Clients, NEW m \in AllModes, NEW p \in Payloads,
           Log(c, m, p), cur.ch \in Channels, Distinct(Clients, ConsumedLane(dlv)),
           m \in {"QueueIn", "ChannelPeer"} => p.n \notin Taken
    PROVE  /\ Distinct(Clients, ConsumedLane(dlv'))
           /\ m \in {"QueueIn", "ChannelPeer"} =>
                 Taken' \subseteq Taken \union {p.n} /\ Copied' = Copied
           /\ m \notin {"QueueIn", "ChannelPeer"} =>
                 Taken' \subseteq Taken /\ Copied' \subseteq Copied \union {p.n}
<1> DEFINE F == ConsumedLane(dlv)
           G == ConsumedLane(dlv')
           e == [ch |-> cur.ch, mode |-> m, pay |-> p]
           n == IF m \in {"QueueIn", "ChannelPeer"} THEN p.n ELSE 0
<1>1. /\ dlv'[c] = Append(dlv[c], e) /\ e \in Deliveries
      /\ \A d \in Clients : d # c => dlv'[d] = dlv[d]
      /\ \A d \in Clients : dlv[d] \in Seq(Deliveries)
  BY DEF Log, HistoryTypes, Deliveries
<1>2. \A d \in Clients : /\ Len(dlv[d]) \in Nat /\ DOMAIN dlv[d] = 1..Len(dlv[d])
                         /\ DOMAIN F[d] = 1..Len(dlv[d]) /\ Len(F[d]) = Len(dlv[d])
  BY <1>1 DEF ConsumedLane
<1>3. /\ Len(dlv'[c]) = Len(dlv[c]) + 1 /\ dlv'[c][Len(dlv[c]) + 1] = e
      /\ \A i \in 1..Len(dlv[c]) : dlv'[c][i] = dlv[c][i]
  BY <1>1, AppendOf
<1>4. Pushed(Clients, F, G, c, n)
  <2>1. \A d \in Clients : d # c => G[d] = F[d]
    BY <1>1 DEF ConsumedLane
  <2>2. G[c] = [i \in 1..(Len(dlv[c]) + 1) |->
                  IF dlv'[c][i].mode \in {"QueueIn", "ChannelPeer"} THEN dlv'[c][i].pay.n ELSE 0]
    BY <1>3 DEF ConsumedLane
  <2>3. F[c] = [i \in 1..Len(dlv[c]) |->
                  IF dlv[c][i].mode \in {"QueueIn", "ChannelPeer"} THEN dlv[c][i].pay.n ELSE 0]
    BY DEF ConsumedLane
  <2> HIDE DEF F, G
  <2>4. G[c][Len(dlv[c]) + 1] = n
    BY <1>2, <1>3, <2>2
  <2>5. QED
    BY <1>2, <1>3, <2>1, <2>2, <2>3, <2>4 DEF Pushed
<1>5. n \in Nat /\ (n # 0 => n \in (1..MaxPublish) \ NumbersIn(Clients, F))
  <2>1. p.n \in 1..MaxPublish
    BY DEF Payloads
  <2>2. QED
    BY <2>1 DEF Taken
<1>6. Distinct(Clients, F)
  OBVIOUS
<1>7. /\ Distinct(Clients, G)
      /\ NumbersIn(Clients, G) \subseteq NumbersIn(Clients, F) \union {n}
      /\ n = 0 => NumbersIn(Clients, G) \subseteq NumbersIn(Clients, F)
  <2> HIDE DEF F, G, n
  <2>1. QED
    BY <1>4, <1>5, <1>6, LaneAdd
<1> DEFINE H == CopyLane(dlv)
           K == CopyLane(dlv')
           o == IF m \in {"QueueIn", "ChannelPeer"} THEN 0 ELSE p.n
<1>8. /\ \A d \in Clients : d # c => K[d] = H[d]
      /\ DOMAIN K[c] = 1..(Len(dlv[c]) + 1) /\ DOMAIN H[c] = 1..Len(dlv[c])
      /\ \A i \in 1..Len(dlv[c]) : K[c][i] = H[c][i]
      /\ K[c][Len(dlv[c]) + 1] = o
  <2>1. \A d \in Clients : d # c => K[d] = H[d]
    BY <1>1 DEF CopyLane
  <2>2. K[c] = [i \in 1..(Len(dlv[c]) + 1) |->
                  IF dlv'[c][i].mode \notin {"QueueIn", "ChannelPeer"} THEN dlv'[c][i].pay.n ELSE 0]
    BY <1>3 DEF CopyLane
  <2>3. H[c] = [i \in 1..Len(dlv[c]) |->
                  IF dlv[c][i].mode \notin {"QueueIn", "ChannelPeer"} THEN dlv[c][i].pay.n ELSE 0]
    BY DEF CopyLane
  <2> HIDE DEF H, K
  <2>4. K[c][Len(dlv[c]) + 1] = o
    BY <1>2, <1>3, <2>2
  <2> HIDE DEF e, o
  <2>5. \A i \in 1..Len(dlv[c]) : K[c][i] = H[c][i]
    BY <1>2, <1>3, <2>2, <2>3
  <2>6. QED
    BY <2>1, <2>2, <2>3, <2>4, <2>5
<1>9. /\ NumbersIn(Clients, K) \subseteq NumbersIn(Clients, H) \union {o}
      /\ NumbersIn(Clients, H) \subseteq NumbersIn(Clients, K)
  <2> HIDE DEF H, K, o
  <2>1. ASSUME NEW d \in Clients, NEW i \in DOMAIN K[d]
        PROVE  K[d][i] = o \/ (i \in DOMAIN H[d] /\ K[d][i] = H[d][i])
    BY <1>2, <1>8, SMTT(30)
  <2>2. ASSUME NEW d \in Clients, NEW i \in DOMAIN H[d]
        PROVE  i \in DOMAIN K[d] /\ K[d][i] = H[d][i]
    BY <1>2, <1>8
  <2>3. QED
    BY <2>1, <2>2 DEF NumbersIn
<1>10. 0 \notin NumbersIn(Clients, K)
  BY DEF NumbersIn
<1>11. QED
  BY <1>7, <1>9, <1>10 DEF F, G, H, K, Taken, Copied

LEMMA OfferTaken ==
    ASSUME ClientTypes, NEW c \in Clients, req[c].op = "Offer",
           req' = [req EXCEPT ![c] = [@ EXCEPT !.op = "Publish"]],
           Distinct(Clients, OfferLane(req))
    PROVE  /\ Distinct(Clients, OfferLane(req')) /\ Offered' \subseteq Offered
           /\ req[c].pay.n \in Offered \ Offered'
<1> DEFINE F == OfferLane(req)
           G == OfferLane(req')
<1>1. /\ req'[c].op = "Publish" /\ \A d \in Clients : d # c => req'[d] = req[d]
      /\ req[c].pay \in Payloads
  <2>1. req[c] \in Requests /\ req \in [Clients -> Requests]
    BY DEF ClientTypes
  <2>2. req'[c] = [req[c] EXCEPT !.op = "Publish"]
    BY <2>1
  <2>3. req'[c].op = "Publish"
    BY <2>1, <2>2 DEF Requests
  <2>4. req[c].pay \in Payloads
    BY <2>1 DEF Requests
  <2>5. QED
    BY <2>1, <2>3, <2>4
<1>2. /\ F[c] = <<req[c].pay.n>> /\ G[c] = << >>
      /\ \A d \in Clients : d # c => G[d] = F[d]
  BY <1>1 DEF OfferLane
<1>3. \A d \in Clients : Len(F[d]) \in Nat /\ DOMAIN F[d] = 1..Len(F[d])
  <2>1. \A d \in Clients : F[d] = << >> \/ F[d] = <<req[d].pay.n>>
    BY DEF OfferLane
  <2> HIDE DEF F
  <2>2. QED
    BY <2>1
<1>4. Distinct(Clients, F)
  OBVIOUS
<1> HIDE DEF F, G
<1>5. Popped(Clients, F, G, c)
  BY <1>2, <1>3 DEF Popped
<1>6. /\ Distinct(Clients, G)
      /\ NumbersIn(Clients, G) \subseteq NumbersIn(Clients, F)
      /\ F[c][1] # 0 => F[c][1] \notin NumbersIn(Clients, G)
      /\ F[c][1] \in 1..MaxPublish => F[c][1] \in NumbersIn(Clients, F)
  BY <1>4, <1>5, LaneTail
<1>7. F[c][1] = req[c].pay.n /\ req[c].pay.n \in 1..MaxPublish
  BY <1>1, <1>2 DEF Payloads
<1>8. /\ Distinct(Clients, G) /\ NumbersIn(Clients, G) \subseteq NumbersIn(Clients, F)
      /\ req[c].pay.n \in NumbersIn(Clients, F) \ NumbersIn(Clients, G)
  BY <1>6, <1>7
<1>9. QED
  BY <1>8 DEF F, G, Offered

-----------------------------------------------------------------------------
(* What is in hand.                                                        *)

LEMMA SameHand ==
    ASSUME UNCHANGED <<todo, cur>>
    PROVE  Held' = Held /\ Spread' = Spread /\ (InTurn(todo) => InTurn(todo'))
BY DEF Held, Spread

Idlers == {"flush", "drain", "announce", "push", "resume", "answer", "notify"}

(* What may stand behind item x.                                           *)
Behind(x, t) ==
    \A i \in DOMAIN t :
       /\ t[i].do \notin {"peer", "park", "copies"}
       /\ t[i].do = "queue" => i = 1 /\ x.do = "copies" /\ x.pay = t[1].pay

LEMMA TurnTail ==
    ASSUME NEW S, NEW items \in Seq(S), items # << >>, InTurn(items)
    PROVE  InTurn(Tail(items)) /\ Behind(Head(items), Tail(items))
<1> DEFINE t == Tail(items)
<1>1. /\ Len(items) \in Nat /\ DOMAIN items = 1..Len(items) /\ Head(items) = items[1]
      /\ DOMAIN t = 1..(Len(items) - 1) /\ \A i \in DOMAIN t : t[i] = items[i + 1]
  BY TailOf
<1> HIDE DEF t
<1>2. ASSUME NEW i \in DOMAIN t
      PROVE  /\ t[i].do \notin {"peer", "park", "copies"}
             /\ t[i].do = "queue" => i = 1 /\ items[1].do = "copies" /\ items[1].pay = t[1].pay
  <2>1. i \in Nat /\ i + 1 \in DOMAIN items /\ i + 1 # 1 /\ t[i] = items[i + 1]
    BY <1>1
  <2>2. t[i].do = "queue" =>
           i + 1 = 2 /\ items[1].do = "copies" /\ items[1].pay = items[2].pay
    BY <2>1 DEF InTurn
  <2>3. QED
    BY <2>1, <2>2 DEF InTurn
<1>3. QED
  BY <1>1, <1>2 DEF InTurn, Behind, t

LEMMA TurnCons ==
    ASSUME NEW S, NEW x \in S, NEW t \in Seq(S), x.do # "queue",
           Behind(x, t)
    PROVE  /\ InTurn(<<x>> \o t) /\ <<x>> \o t # << >> /\ Head(<<x>> \o t) = x
           /\ <<x>> \o t \in Seq(S)
<1> DEFINE u == <<x>> \o t
<1>1. /\ u \in Seq(S) /\ Len(u) = Len(t) + 1 /\ Len(t) \in Nat /\ u[1] = x
      /\ DOMAIN u = 1..(Len(t) + 1) /\ DOMAIN t = 1..Len(t)
      /\ \A i \in 1..Len(t) : u[i + 1] = t[i]
  OBVIOUS
<1> HIDE DEF u
<1>2. ASSUME NEW i \in DOMAIN u, i # 1
      PROVE  i - 1 \in DOMAIN t /\ u[i] = t[i - 1]
  BY <1>1, <1>2
<1>3. InTurn(u)
  BY <1>1, <1>2 DEF InTurn, Behind
<1>4. u # << >> /\ Head(u) = x
  BY <1>1
<1>5. QED
  BY <1>1, <1>3, <1>4 DEF u

(* The handler goes on: what it had in hand is disposed of, unless the     *)
(* copies are made and the queue is next.                                  *)
LEMMA NextHand ==
    ASSUME ServingTypes, InTurn(todo), NEW what, Doing(what), Goto(Tail(todo))
    PROVE  /\ InTurn(todo') /\ Held' = {} /\ Spread' \subseteq Spread
           /\ what # "copies" => Spread' = {}
<1> DEFINE t == Tail(todo)
<1>1. todo \in Seq(ItemsOf(cur.op)) /\ todo # << >> /\ todo' = t /\ Head(todo).do = what
  BY DEF ServingTypes, Doing, Goto
<1>2. /\ InTurn(t)
      /\ \A i \in DOMAIN t :
            /\ t[i].do \notin {"peer", "park", "copies"}
            /\ t[i].do = "queue" =>
                  i = 1 /\ Head(todo).do = "copies" /\ Head(todo).pay = t[1].pay
  BY <1>1, TurnTail DEF Behind
<1>3. t # << >> => Head(t) = t[1] /\ 1 \in DOMAIN t
  <2>1. t \in Seq(ItemsOf(cur.op))
    BY <1>1
  <2>2. QED
    BY <2>1, TailOf
<1> HIDE DEF t
<1>4. Held' = {}
  BY <1>1, <1>2, <1>3 DEF Held
<1>5. Spread' \subseteq Spread /\ (what # "copies" => Spread' = {})
  BY <1>1, <1>2, <1>3 DEF Spread
<1>6. QED
  BY <1>1, <1>2, <1>4, <1>5

(* The handler stops.                                                      *)
LEMMA NoHand ==
    ASSUME \A i \in DOMAIN todo' : todo'[i].do \in Idlers,
           todo' # << >> => Head(todo').do \in Idlers
    PROVE  InTurn(todo') /\ Held' = {} /\ Spread' = {}
BY DEF InTurn, Held, Spread, Idlers

-----------------------------------------------------------------------------
(* The steps of the clients.                                               *)

(* What is offered or in a frame was before, or has just been published.   *)
Arrivals ==
    Offered' \union Framed' \subseteq Offered \union Framed \union (sent + 1)..sent'

LEMMA ClientPlaces ==
    ASSUME OnePlace, UNCHANGED <<todo, cur, chan, dlv, sent>>,
           Distinct(Clients, OfferLane(req')), Distinct(Clients, FrameLane(in')),
           Offered' \subseteq Offered, Framed' \subseteq Framed
    PROVE  OnePlace' /\ Arrivals
<1>1. /\ Held' = Held /\ Spread' = Spread /\ InTurn(todo') /\ sent' = sent
      /\ Parked' = Parked /\ Taken' = Taken /\ Copied' = Copied
  BY SameHand DEF OnePlace, Parked, Taken, Copied
<1>2. Distinct(Channels, BacklogLane(chan')) /\ Distinct(Clients, ConsumedLane(dlv'))
  BY DEF OnePlace
<1>3. Arrivals
  BY DEF Arrivals
<1>4. QED
  BY <1>1, <1>2, <1>3 DEF OnePlace

(* A payload that enters the system is in no place yet.                    *)
LEMMA NewPlaces ==
    ASSUME TypeOK, OnePlace, UNCHANGED <<todo, cur, chan, dlv>>, sent' = sent + 1,
           Distinct(Clients, OfferLane(req')), Distinct(Clients, FrameLane(in')),
           \/ Offered' \subseteq Offered \union {sent + 1} /\ Framed' \subseteq Framed
           \/ Offered' \subseteq Offered /\ Framed' \subseteq Framed \union {sent + 1}
    PROVE  OnePlace' /\ Arrivals
<1>1. /\ Held' = Held /\ Spread' = Spread /\ InTurn(todo')
      /\ Parked' = Parked /\ Taken' = Taken /\ Copied' = Copied
  BY SameHand DEF OnePlace, Parked, Taken, Copied
<1>2. Distinct(Channels, BacklogLane(chan')) /\ Distinct(Clients, ConsumedLane(dlv'))
  BY DEF OnePlace
<1>3. /\ sent + 1 \notin Offered \union Framed \union Held \union Spread \union Parked
                            \union Taken \union Copied
      /\ 1..sent \subseteq 1..(sent + 1) /\ sent + 1 \in 1..(sent + 1)
  <2>1. sent \in Nat
    BY BoundsAssumption DEF TypeOK, HistoryTypes
  <2>2. sent + 1 \notin 1..sent /\ 1..sent \subseteq 1..(sent + 1) /\ sent + 1 \in 1..(sent + 1)
    BY <2>1
  <2>3. QED
    BY <2>2 DEF OnePlace
<1>4. Arrivals
  <2>1. sent + 1 \in (sent + 1)..sent'
    BY BoundsAssumption DEF TypeOK, HistoryTypes
  <2>2. QED
    BY <2>1 DEF Arrivals
<1>5. QED
  BY <1>1, <1>2, <1>3, <1>4 DEF OnePlace

(* Requests that carry no payload.                                         *)
LEMMA PlainRequest ==
    ASSUME TypeOK, OnePlace, UNCHANGED <<todo, cur, chan, dlv, sent>>, NEW c \in Clients,
           NEW f \in Frames, f.op # "Publish", Send(c, f),
           \A d \in Clients : req'[d] = req[d] \/ req'[d].op \notin {"Offer", "Backoff"}
    PROVE  OnePlace' /\ Arrivals
<1>1. Distinct(Clients, FrameLane(in')) /\ Framed' \subseteq Framed
  BY FrameSent DEF TypeOK, OnePlace
<1>2. Distinct(Clients, OfferLane(req')) /\ Offered' \subseteq Offered
  BY OffersKept DEF OnePlace
<1>3. QED
  BY <1>1, <1>2, ClientPlaces

LEMMA AskPlaces ==
    ASSUME TypeOK, OnePlace, NEW c \in Clients,
           \/ SendBye(c) \/ RetryOffer(c)
           \/ \E k \in Channels :
              \/ SendRecvReady(c, k)
              \/ \E m \in Modes : SendAttach(c, k, m) \/ SendDetach(c, k, m)
    PROVE  OnePlace' /\ Arrivals
<1>1. req \in [Clients -> Requests] /\ Modes \subseteq AllModes
  BY ModesAssumption DEF TypeOK, ClientTypes
<1>2. CASE SendBye(c)
  <2>1. Frame("Bye", None, None, None) \in Frames /\ Frame("Bye", None, None, None).op = "Bye"
    BY DEF Frame, Frames
  <2>2. \A d \in Clients : req'[d] = req[d] \/ req'[d].op = "Bye"
    BY <1>1, <1>2, <2>1 DEF SendBye
  <2>3. QED
    BY <1>2, <2>1, <2>2, PlainRequest DEF SendBye, daemon
<1>3. CASE RetryOffer(c)
  <2>1. req[c].ch \in Channels /\ req[c].op = "Backoff"
    BY <1>1, <1>3 DEF RetryOffer, Requests
  <2> DEFINE f == Frame("Offer", req[c].ch, None, None)
  <2>2. f \in Frames /\ f.op = "Offer" /\ Send(c, f)
    BY <1>3, <2>1 DEF Frame, Frames, RetryOffer
  <2> HIDE DEF f
  <2>3. Distinct(Clients, FrameLane(in')) /\ Framed' \subseteq Framed
    BY <2>2, FrameSent DEF TypeOK, OnePlace
  <2>4. req' = [req EXCEPT ![c] = [req[c] EXCEPT !.op = "Offer"]]
    BY <1>3 DEF RetryOffer
  <2>5. req'[c].op = "Offer" /\ req'[c].pay = req[c].pay
    <3>1. req[c] \in Requests /\ req'[c] = [req[c] EXCEPT !.op = "Offer"]
      BY <1>1, <2>4
    <3>2. QED
      BY <3>1 DEF Requests
  <2>6. \A d \in Clients : d # c => req'[d] = req[d]
    BY <1>1, <2>4
  <2>7. Distinct(Clients, OfferLane(req')) /\ Offered' \subseteq Offered
    BY <2>1, <2>5, <2>6, OffersKept DEF OnePlace
  <2>8. QED
    BY <1>3, <2>3, <2>7, ClientPlaces DEF RetryOffer, daemon
<1>4. ASSUME NEW k \in Channels, SendRecvReady(c, k) PROVE OnePlace' /\ Arrivals
  <2>1. Frame("RecvReady", k, None, None) \in Frames /\ Frame("RecvReady", k, None, None).op = "RecvReady"
    BY DEF Frame, Frames
  <2>2. req' = req
    BY <1>4 DEF SendRecvReady, client
  <2>3. QED
    BY <1>4, <2>1, <2>2, PlainRequest DEF SendRecvReady, daemon
<1>5. ASSUME NEW k \in Channels, NEW m \in AllModes, SendAttach(c, k, m) PROVE OnePlace' /\ Arrivals
  <2>1. Frame("Attach", k, m, None) \in Frames /\ Frame("Attach", k, m, None).op = "Attach"
    BY DEF Frame, Frames
  <2>2. \A d \in Clients : req'[d] = req[d] \/ req'[d].op = "Attach"
    BY <1>1, <1>5, <2>1 DEF SendAttach
  <2>3. QED
    BY <1>5, <2>1, <2>2, PlainRequest DEF SendAttach, daemon
<1>6. ASSUME NEW k \in Channels, NEW m \in AllModes, SendDetach(c, k, m) PROVE OnePlace' /\ Arrivals
  <2>1. Frame("Detach", k, m, None) \in Frames /\ Frame("Detach", k, m, None).op = "Detach"
    BY DEF Frame, Frames
  <2>2. req' = req
    BY <1>6 DEF SendDetach
  <2>3. QED
    BY <1>6, <2>1, <2>2, PlainRequest DEF SendDetach, daemon
<1>7. QED
  BY <1>1, <1>2, <1>3, <1>4, <1>5, <1>6

LEMMA SendPublishPlaces ==
    ASSUME TypeOK, OnePlace, NEW c \in Clients, NEW k \in Channels,
           SendPublish(c, k) \/ SendOffer(c, k)
    PROVE  OnePlace' /\ Arrivals
<1> DEFINE p == [from |-> c, n |-> sent + 1]
<1>1. sent' = sent + 1 /\ UNCHANGED <<todo, cur, chan, dlv>> /\ CanSend(c)
  BY DEF SendPublish, SendOffer, daemon
<1>2. /\ p \in Payloads /\ p.n = sent + 1
      /\ sent + 1 \notin Offered \union Framed
  <2>1. sent \in Nat /\ MaxPublish \in Nat /\ sent < MaxPublish
    BY BoundsAssumption DEF TypeOK, HistoryTypes, SendPublish, SendOffer
  <2>2. sent + 1 \in 1..MaxPublish /\ sent + 1 \notin 1..sent
    BY <2>1
  <2>3. QED
    BY <2>2 DEF Payloads, OnePlace
<1>3. req \in [Clients -> Requests] /\ req[c] = NoReq
  BY <1>1 DEF CanSend, TypeOK, ClientTypes
<1> HIDE DEF p
<1>4. CASE SendPublish(c, k)
  <2> DEFINE f == Frame("Publish", k, None, p)
  <2>1. /\ f \in Frames /\ f.op = "Publish" /\ f.pay = p
        /\ Send(c, f) /\ req' = [req EXCEPT ![c] = f]
    BY <1>2, <1>4, Zenon DEF Frame, Frames, SendPublish, p
  <2> HIDE DEF f
  <2>2. Distinct(Clients, FrameLane(in')) /\ Framed' \subseteq Framed \union {sent + 1}
    BY <1>2, <2>1, FrameSent DEF TypeOK, OnePlace
  <2>3. \A d \in Clients : req'[d] = req[d] \/ req'[d].op = "Publish"
    BY <1>3, <2>1
  <2>4. Distinct(Clients, OfferLane(req')) /\ Offered' \subseteq Offered
    BY <2>3, OffersKept DEF OnePlace
  <2>5. QED
    BY <1>1, <2>2, <2>4, NewPlaces
<1>5. CASE SendOffer(c, k)
  <2> DEFINE f == Frame("Offer", k, None, None)
             r == Frame("Offer", k, None, p)
  <2>1. Send(c, f) /\ req' = [req EXCEPT ![c] = r]
    BY <1>5 DEF SendOffer, p
  <2>2. f \in Frames /\ f.op = "Offer" /\ r \in Requests /\ r.op = "Offer" /\ r.pay = p
    BY <1>2 DEF Frame, Frames, Requests
  <2> HIDE DEF f, r
  <2>3. Distinct(Clients, FrameLane(in')) /\ Framed' \subseteq Framed
    BY <2>1, <2>2, FrameSent DEF TypeOK, OnePlace
  <2>4. Distinct(Clients, OfferLane(req')) /\ Offered' \subseteq Offered \union {sent + 1}
    BY <1>2, <1>3, <2>1, <2>2, OfferMade DEF TypeOK, OnePlace
  <2>5. QED
    BY <1>1, <2>3, <2>4, NewPlaces
<1>6. QED
  BY <1>4, <1>5

LEMMA ReadFramePlaces ==
    ASSUME TypeOK, OnePlace, NEW c \in Clients, ReadFrame(c)
    PROVE  OnePlace' /\ Arrivals
<1> DEFINE r == req[c]
<1>1. /\ UNCHANGED <<todo, cur, chan, dlv, sent>> /\ req \in [Clients -> Requests]
      /\ r \in Requests
  BY DEF ReadFrame, daemon, TypeOK, ClientTypes
<1>2. CASE /\ in' = in
           /\ \A d \in Clients : \/ req'[d] = req[d]
                                 \/ req'[d].op \notin {"Offer", "Backoff"}
                                 \/ /\ req[d].op \in {"Offer", "Backoff"}
                                    /\ req'[d].op \in {"Offer", "Backoff"}
                                    /\ req'[d].pay = req[d].pay
  <2>1. Distinct(Clients, FrameLane(in')) /\ Framed' = Framed
    BY <1>2 DEF OnePlace, Framed
  <2>2. Distinct(Clients, OfferLane(req')) /\ Offered' \subseteq Offered
    BY <1>2, OffersKept DEF OnePlace
  <2>3. QED
    BY <1>1, <2>1, <2>2, ClientPlaces
<1>3. CASE /\ req' = [req EXCEPT ![c] = NoReq]
           /\ \/ in' = in
              \/ r.op = "Attach" /\ Send(c, Frame("Detach", r.ch, r.mode, None))
  <2>1. \A d \in Clients : req'[d] = req[d] \/ req'[d].op = "None"
    BY <1>1, <1>3 DEF NoReq, Frame
  <2>2. CASE in' = in
    BY <1>2, <2>1, <2>2
  <2>3. CASE r.op = "Attach" /\ Send(c, Frame("Detach", r.ch, r.mode, None))
    <3>1. /\ Frame("Detach", r.ch, r.mode, None) \in Frames
          /\ Frame("Detach", r.ch, r.mode, None).op = "Detach"
      BY <1>1, <2>3 DEF Frame, Frames, Requests
    <3>2. QED
      BY <1>1, <2>1, <2>3, <3>1, PlainRequest
  <2>4. QED
    BY <1>3, <2>2, <2>3
<1>4. CASE r.op = "Offer" /\ in' = in /\ req' = [req EXCEPT ![c] = [@ EXCEPT !.op = "Backoff"]]
  <2>1. req'[c] = [r EXCEPT !.op = "Backoff"] /\ \A d \in Clients : d # c => req'[d] = req[d]
    BY <1>1, <1>4
  <2>2. req'[c].op = "Backoff" /\ req'[c].pay = r.pay
    BY <1>1, <2>1 DEF Requests
  <2>3. QED
    BY <1>2, <1>4, <2>1, <2>2
<1>5. CASE /\ r.op = "Offer" /\ Send(c, Frame("Publish", r.ch, None, r.pay))
           /\ req' = [req EXCEPT ![c] = [@ EXCEPT !.op = "Publish"]]
  <2> DEFINE f == Frame("Publish", r.ch, None, r.pay)
             n == r.pay.n
  <2>1. r.ch \in Channels /\ r.pay \in Payloads
    BY <1>1, <1>5 DEF Requests
  <2>2. f \in Frames /\ f.op = "Publish" /\ f.pay.n = n
    BY <2>1 DEF Frame, Frames
  <2>3. /\ Distinct(Clients, OfferLane(req')) /\ Offered' \subseteq Offered
        /\ n \in Offered \ Offered'
    BY <1>5, OfferTaken DEF TypeOK, OnePlace
  <2>4. n \notin Framed
    BY <2>3 DEF OnePlace
  <2>5. Send(c, f)
    BY <1>5
  <2> HIDE DEF f
  <2>6. Distinct(Clients, FrameLane(in')) /\ Framed' \subseteq Framed \union {n}
    BY <2>2, <2>4, <2>5, FrameSent DEF TypeOK, OnePlace
  <2> HIDE DEF n
  <2>7. /\ Held' = Held /\ Spread' = Spread /\ InTurn(todo') /\ sent' = sent
        /\ Parked' = Parked /\ Taken' = Taken /\ Copied' = Copied
    BY <1>1, SameHand DEF OnePlace, Parked, Taken, Copied
  <2>8. Distinct(Channels, BacklogLane(chan')) /\ Distinct(Clients, ConsumedLane(dlv'))
    BY <1>1 DEF OnePlace
  <2>9. Arrivals
    BY <2>3, <2>6 DEF Arrivals
  <2>10. QED
    BY <2>3, <2>6, <2>7, <2>8, <2>9 DEF OnePlace
<1>6. \/ UNCHANGED <<req, in>>
      \/ /\ req' = [req EXCEPT ![c] = NoReq]
         /\ \/ in' = in
            \/ r.op = "Attach" /\ Send(c, Frame("Detach", r.ch, r.mode, None))
      \/ r.op = "Offer" /\ in' = in /\ req' = [req EXCEPT ![c] = [@ EXCEPT !.op = "Backoff"]]
      \/ /\ r.op = "Offer" /\ Send(c, Frame("Publish", r.ch, None, r.pay))
         /\ req' = [req EXCEPT ![c] = [@ EXCEPT !.op = "Publish"]]
  BY Zenon DEF ReadFrame
<1>7. QED
  BY <1>2, <1>3, <1>4, <1>5, <1>6

LEMMA ClientStepPlaces ==
    ASSUME TypeOK, OnePlace, NEW c \in Clients, ClientStep(c)
    PROVE  OnePlace' /\ Arrivals
<1>1. CASE Connect(c)
  <2>1. UNCHANGED <<todo, cur, chan, dlv, sent, in, req>>
    BY <1>1 DEF Connect
  <2>2. /\ Distinct(Clients, OfferLane(req')) /\ Distinct(Clients, FrameLane(in'))
        /\ Offered' = Offered /\ Framed' = Framed
    BY <2>1 DEF OnePlace, Offered, Framed
  <2>3. QED
    BY <2>1, <2>2, ClientPlaces
<1>2. CASE CloseEnd(c)
  <2>1. UNCHANGED <<todo, cur, chan, dlv, sent, in>> /\ req' = [req EXCEPT ![c] = NoReq]
    BY <1>2 DEF CloseEnd, daemon
  <2>2. \A d \in Clients : req'[d] = req[d] \/ req'[d].op = "None"
    BY <2>1 DEF TypeOK, ClientTypes, NoReq, Frame
  <2>3. Distinct(Clients, OfferLane(req')) /\ Offered' \subseteq Offered
    BY <2>2, OffersKept DEF OnePlace
  <2>4. Distinct(Clients, FrameLane(in')) /\ Framed' = Framed
    BY <2>1 DEF OnePlace, Framed
  <2>5. QED
    BY <2>1, <2>3, <2>4, ClientPlaces
<1>3. QED
  BY <1>1, <1>2, ReadFramePlaces, AskPlaces, SendPublishPlaces DEF ClientStep, Die, ReadEof

-----------------------------------------------------------------------------
(* The steps of the daemon.                                                *)

(* A step that touches neither requests nor deliveries, and at most drops  *)
(* frames: what is in hand may be dropped as well.                         *)
LEMMA DroppingPlaces ==
    ASSUME OnePlace, UNCHANGED <<req, dlv, sent>>,
           \A k \in Channels : chan'[k].pending = chan[k].pending,
           Distinct(Clients, FrameLane(in')), Framed' \subseteq Framed,
           InTurn(todo'), Held' \subseteq Held, Spread' \subseteq Spread
    PROVE  OnePlace'
<1>1. Distinct(Channels, BacklogLane(chan')) /\ Parked' = Parked
  BY BacklogKept DEF OnePlace
<1>2. /\ Distinct(Clients, OfferLane(req')) /\ Offered' = Offered
      /\ Distinct(Clients, ConsumedLane(dlv')) /\ Taken' = Taken /\ Copied' = Copied
      /\ sent' = sent
  BY DEF OnePlace, Offered, Taken, Copied
<1>3. QED
  BY <1>1, <1>2 DEF OnePlace

LEMMA SameFrames ==
    ASSUME OnePlace, in' = in
    PROVE  Distinct(Clients, FrameLane(in')) /\ Framed' = Framed
BY DEF OnePlace, Framed

LEMMA ClosedPending ==
    ASSUME NEW c \in Clients, NEW channels, CloseClient(c, channels), WireTypes, OnePlace
    PROVE  /\ \A k \in Channels : chan'[k].pending = channels[k].pending
           /\ Distinct(Clients, FrameLane(in')) /\ Framed' \subseteq Framed
<1>1. \A k \in Channels : chan'[k] = channels[k] \/ chan'[k] = WithoutClient(channels[k], c)
  BY DEF CloseClient
<1>2. \A d \in Clients : in'[d] \in {in[d], << >>}
  BY DEF CloseClient, WireTypes
<1>3. \A k \in Channels : chan'[k].pending = channels[k].pending
  <2>1. \A k \in Channels : WithoutClient(channels[k], c).pending = channels[k].pending
    BY DEF WithoutClient
  <2>2. QED
    BY <1>1, <2>1
<1>4. Distinct(Clients, FrameLane(in)) => Distinct(Clients, FrameLane(in')) /\ Framed' \subseteq Framed
  BY <1>2, FramesDropped
<1>5. QED
  BY <1>3, <1>4 DEF OnePlace

(* A client that is closed with its handler going on or coming to its end. *)
LEMMA ClosingPlaces ==
    ASSUME TypeOK, OnePlace, NEW c \in Clients, CloseClient(c, chan),
           UNCHANGED <<req, dlv, sent>>,
           InTurn(todo'), Held' \subseteq Held, Spread' \subseteq Spread
    PROVE  OnePlace'
BY ClosedPending, DroppingPlaces DEF TypeOK

LEMMA Returning ==
    ASSUME Goto(Returned)
    PROVE  InTurn(todo') /\ Held' = {} /\ Spread' = {}
<1>1. todo' = << >> \/ todo' = <<Todo("resume")>>
  BY DEF Goto, Returned
<1>2. /\ \A i \in DOMAIN todo' : todo'[i].do \in Idlers
      /\ todo' # << >> => Head(todo').do \in Idlers
  BY <1>1 DEF Todo, Idlers
<1>3. QED
  BY <1>2, NoHand

LEMMA MarkStepPlaces ==
    ASSUME TypeOK, OnePlace, AnswerStep \/ NotifyStep \/ AnnounceStep \/ ResumeStep
    PROVE  OnePlace'
<1>1. /\ UNCHANGED <<req, dlv, sent>>
      /\ \E what \in {"answer", "notify", "announce", "resume"} : Doing(what)
  BY DEF AnswerStep, NotifyStep, AnnounceStep, ResumeStep, client
<1>2. cur.id \in Clients /\ cur.ch \in Channels
  BY <1>1, ServedType DEF TypeOK
<1>3. CASE /\ Goto(Tail(todo)) /\ in' = in
           /\ \A k \in Channels : chan'[k].pending = chan[k].pending
  <2>1. InTurn(todo') /\ Held' = {} /\ Spread' \subseteq Spread
    BY <1>1, <1>3, NextHand DEF TypeOK, OnePlace
  <2>2. QED
    BY <1>1, <1>3, <2>1, SameFrames, DroppingPlaces
<1>4. CASE CloseClient(cur.id, chan) /\ Goto(Returned)
  BY <1>1, <1>2, <1>4, Returning, ClosingPlaces
<1>5. CASE AnswerStep
  BY <1>3, <1>4, <1>5 DEF AnswerStep, daemon
<1>6. CASE AnnounceStep
  <2>1. chan' = [chan EXCEPT ![cur.ch].recv_ready = cur.id] /\ chan \in [Channels -> ChannelStates]
    BY <1>6 DEF AnnounceStep, TypeOK, DaemonTypes
  <2>2. \A k \in Channels : chan'[k].pending = chan[k].pending
    BY <1>2, <2>1 DEF ChannelStates
  <2>3. QED
    BY <1>3, <1>6, <2>2 DEF AnnounceStep
<1>7. CASE NotifyStep \/ ResumeStep
  BY <1>3, <1>7 DEF NotifyStep, ResumeStep, daemon
<1>8. QED
  BY <1>5, <1>6, <1>7

LEMMA FlushStepPlaces ==
    ASSUME TypeOK, OnePlace, FlushStep
    PROVE  OnePlace'
<1> DEFINE k == cur.ch
           p == Head(chan[k].pending)
           left == chan[k].list["BroadcastIn"]
<1>1. /\ UNCHANGED <<req, dlv, sent, in>> /\ Doing("flush")
      /\ k \in Channels /\ cur.op = "Attach" /\ todo \in Seq(ItemsOf(cur.op))
  BY ServedType, HeadType DEF FlushStep, client, TypeOK
<1>2. Distinct(Clients, FrameLane(in')) /\ Framed' = Framed
  BY <1>1, SameFrames
<1>3. CASE chan' = chan /\ Goto(Tail(todo))
  <2>1. InTurn(todo') /\ Held' = {} /\ Spread' \subseteq Spread
    BY <1>1, <1>3, NextHand DEF TypeOK, OnePlace
  <2>2. QED
    BY <1>1, <1>2, <1>3, <2>1, DroppingPlaces
<1>4. CASE /\ chan[k].pending # << >> /\ chan' = Pop(k)
           /\ Goto(<<Copies(p, left), Queue(p)>> \o todo)
  <2>1. /\ Distinct(Channels, BacklogLane(chan')) /\ Parked' \subseteq Parked
        /\ p.n \in Parked \ Parked' /\ p \in Payloads
    BY <1>1, <1>4, BacklogPopped, PopType DEF TypeOK, OnePlace
  <2>2. /\ Copies(p, left) \in ItemsOf(cur.op) /\ Queue(p) \in ItemsOf(cur.op)
        /\ Copies(p, left).do = "copies" /\ Copies(p, left).pay = p
        /\ Queue(p).do = "queue" /\ Queue(p).pay = p
    <3>1. left \in [Clients -> Nat]
      BY <1>1, ListType DEF TypeOK, AllModes
    <3>2. QED
      BY <1>1, <2>1, <3>1, ItemTypes DEF Copies, Queue
  <2> DEFINE u == <<Queue(p)>> \o todo
  <2>3. /\ u \in Seq(ItemsOf(cur.op)) /\ u[1] = Queue(p) /\ DOMAIN u = 1..(Len(todo) + 1)
        /\ Len(todo) \in Nat /\ DOMAIN todo = 1..Len(todo)
        /\ \A i \in 1..Len(todo) : u[i + 1] = todo[i]
        /\ <<Copies(p, left), Queue(p)>> \o todo = <<Copies(p, left)>> \o u
    BY <1>1, <2>2, SMTT(30)
  <2>4. \A i \in DOMAIN todo : todo[i].do \notin {"peer", "park", "copies", "queue"}
    <3>1. todo # << >> /\ Head(todo).do = "flush" /\ Head(todo) = todo[1] /\ InTurn(todo)
      BY <1>1, TailOf DEF Doing, OnePlace
    <3>2. ASSUME NEW i \in DOMAIN todo PROVE todo[i].do \notin {"peer", "park", "copies"}
      BY <3>1 DEF InTurn
    <3>3. ASSUME NEW i \in DOMAIN todo PROVE todo[i].do # "queue"
      BY <3>1 DEF InTurn
    <3>4. QED
      BY <3>2, <3>3
  <2> HIDE DEF u
  <2>5. Behind(Copies(p, left), u)
    <3>1. ASSUME NEW i \in DOMAIN u, i # 1 PROVE u[i].do \notin {"peer", "park", "copies", "queue"}
      <4>1. i - 1 \in 1..Len(todo) /\ u[(i - 1) + 1] = todo[i - 1] /\ (i - 1) + 1 = i
        BY <2>3, <3>1
      <4>2. QED
        BY <2>3, <2>4, <4>1
    <3>2. QED
      BY <2>2, <2>3, <3>1 DEF Behind
  <2>6. InTurn(todo') /\ todo' # << >> /\ Head(todo') = Copies(p, left)
    <3>1. todo' = <<Copies(p, left)>> \o u
      BY <1>4, <2>3 DEF Goto
    <3>2. Copies(p, left).do # "queue"
      BY <2>2
    <3>3. QED
      BY <2>2, <2>3, <2>5, <3>1, <3>2, TurnCons, SMTT(30)
  <2>7. Held' = {} /\ Spread' \subseteq {p.n}
    BY <2>2, <2>6 DEF Held, Spread
  <2>8. /\ Distinct(Clients, OfferLane(req')) /\ Offered' = Offered
        /\ Distinct(Clients, ConsumedLane(dlv')) /\ Taken' = Taken /\ Copied' = Copied
        /\ sent' = sent
    BY <1>1 DEF OnePlace, Offered, Taken, Copied
  <2> HIDE DEF p, left
  <2>9. QED
    BY <1>2, <2>1, <2>6, <2>7, <2>8 DEF OnePlace
<1>5. QED
  BY <1>1, <1>3, <1>4 DEF FlushStep

(* A payload that is in hand is not parked, and not taken already.         *)
LEMMA HandNow ==
    ASSUME TypeOK, OnePlace, NEW what, Doing(what)
    PROVE  /\ what \in {"peer", "park"} => cur.pay \in Payloads /\ cur.pay.n \in Held
           /\ what \in {"copies", "queue"} =>
                 Head(todo).pay \in Payloads /\ Head(todo).pay.n \in Spread
<1>1. /\ what \in {"peer", "park"} => cur.pay \in Payloads
      /\ what \in {"copies", "queue"} => Head(todo).pay \in Payloads
  BY ServedType, HeadType DEF TypeOK
<1>2. todo # << >> /\ Head(todo).do = what
  BY DEF Doing
<1>3. QED
  BY <1>1, <1>2 DEF Payloads, Held, Spread

(* A write that delivers the payload n to a client.                        *)
LEMMA DeliveringPlaces ==
    ASSUME TypeOK, OnePlace, UNCHANGED <<req, in, sent>>,
           NEW c \in Clients, NEW m \in {"QueueIn", "ChannelPeer"}, NEW p \in Payloads,
           Log(c, m, p), cur.ch \in Channels, InTurn(todo'),
           \/ /\ p.n \in Held /\ Held' = {} /\ Spread' = {}
              /\ \A k \in Channels : chan'[k].pending = chan[k].pending
           \/ /\ p.n \in Spread /\ Held' = {} /\ Spread' = {}
              /\ \A k \in Channels : chan'[k].pending = chan[k].pending
           \/ /\ Held' = {} /\ Spread' = {} /\ p.n \in Parked \ Parked'
              /\ Parked' \subseteq Parked /\ Distinct(Channels, BacklogLane(chan'))
    PROVE  OnePlace'
<1>1. p.n \notin Taken
  BY DEF OnePlace
<1>2. m \in AllModes
  BY DEF AllModes
<1>3. /\ Distinct(Clients, ConsumedLane(dlv'))
      /\ Taken' \subseteq Taken \union {p.n} /\ Copied' = Copied
  BY <1>1, <1>2, DeliveryLogged DEF OnePlace, TypeOK
<1>4. /\ Distinct(Clients, OfferLane(req')) /\ Offered' = Offered
      /\ Distinct(Clients, FrameLane(in')) /\ Framed' = Framed /\ sent' = sent
  BY DEF OnePlace, Offered, Framed
<1>5. CASE \A k \in Channels : chan'[k].pending = chan[k].pending
  <2>1. Distinct(Channels, BacklogLane(chan')) /\ Parked' = Parked
    BY <1>5, BacklogKept DEF OnePlace
  <2> DEFINE n == p.n
  <2>2. n \in Held \union Spread \union Parked
    OBVIOUS
  <2>3. n \notin Parked' \/ (n \in Held \union Spread)
    OBVIOUS
  <2> HIDE DEF n
  <2>4. QED
    BY <1>3, <1>4, <2>1, <2>2, <2>3 DEF OnePlace, n
<1>6. CASE p.n \in Parked \ Parked' /\ Parked' \subseteq Parked /\ Distinct(Channels, BacklogLane(chan'))
  BY <1>3, <1>4, <1>6 DEF OnePlace
<1>7. QED
  BY <1>5, <1>6

LEMMA CopyStepPlaces ==
    ASSUME TypeOK, OnePlace, CopyStep
    PROVE  OnePlace'
<1> DEFINE k == cur.ch
           p == Head(todo).pay
           left == Head(todo).left
<1>1. /\ UNCHANGED <<req, sent>> /\ Doing("copies")
      /\ k \in Channels /\ cur.op \in {"Attach", "Publish"}
      /\ todo \in Seq(ItemsOf(cur.op)) /\ Tail(todo) \in Seq(ItemsOf(cur.op))
      /\ p \in Payloads /\ left \in [Clients -> Nat] /\ p.n \in Spread
  BY ServedType, HeadType, HandNow DEF CopyStep, client, TypeOK
<1>2. CASE Goto(Tail(todo)) /\ UNCHANGED <<chan, in, dlv>>
  <2>1. InTurn(todo') /\ Held' = {} /\ Spread' \subseteq Spread
    BY <1>1, <1>2, NextHand DEF TypeOK, OnePlace
  <2>2. QED
    BY <1>1, <1>2, <2>1, SameFrames, DroppingPlaces
<1>3. ASSUME NEW l \in [Clients -> Nat], Goto(<<Copies(p, l)>> \o Tail(todo))
      PROVE  InTurn(todo') /\ Held' = {} /\ Spread' = Spread /\ Spread \subseteq {p.n}
  <2>1. /\ todo # << >> /\ Head(todo).do = "copies" /\ InTurn(todo)
        /\ Behind(Head(todo), Tail(todo))
    BY <1>1, TurnTail DEF Doing, OnePlace
  <2>2. /\ Copies(p, l) \in ItemsOf(cur.op) /\ Copies(p, l).do = "copies"
        /\ Copies(p, l).pay = p
    BY <1>1, ItemTypes DEF Copies
  <2>3. Behind(Copies(p, l), Tail(todo)) /\ Copies(p, l).do # "queue"
    BY <2>1, <2>2 DEF Behind
  <2>4. todo' = <<Copies(p, l)>> \o Tail(todo)
    BY <1>3 DEF Goto
  <2>5. InTurn(todo') /\ todo' # << >> /\ Head(todo') = Copies(p, l)
    BY <1>1, <2>2, <2>3, <2>4, TurnCons
  <2> HIDE DEF left
  <2>6. Held' = {} /\ Spread' = Spread /\ Spread \subseteq {p.n}
    BY <2>1, <2>2, <2>5 DEF Held, Spread
  <2>7. QED
    BY <2>5, <2>6
<1>4. ASSUME NEW c \in Clients, Log(c, "BroadcastIn", p), UNCHANGED <<chan, in>>,
             Goto(<<Copies(p, [left EXCEPT ![c] = @ - 1])>> \o Tail(todo)), left[c] > 0
      PROVE  OnePlace'
  <2>1. [left EXCEPT ![c] = @ - 1] \in [Clients -> Nat]
    BY <1>1, <1>4
  <2>2. InTurn(todo') /\ Held' = {} /\ Spread' = Spread
    BY <1>3, <1>4, <2>1
  <2>3. "BroadcastIn" \in AllModes /\ "BroadcastIn" \notin {"QueueIn", "ChannelPeer"}
    BY DEF AllModes
  <2>4. /\ Distinct(Clients, ConsumedLane(dlv'))
        /\ Taken' \subseteq Taken /\ Copied' \subseteq Copied \union {p.n}
    BY <1>1, <1>4, <2>3, DeliveryLogged DEF OnePlace, TypeOK
  <2>5. /\ Distinct(Clients, OfferLane(req')) /\ Offered' = Offered
        /\ Distinct(Clients, FrameLane(in')) /\ Framed' = Framed
        /\ Distinct(Channels, BacklogLane(chan')) /\ Parked' = Parked /\ sent' = sent
    BY <1>1, <1>4 DEF OnePlace, Offered, Framed, Parked
  <2> DEFINE n == p.n
  <2>6. n \in Spread
    BY <1>1
  <2> HIDE DEF n
  <2>7. QED
    BY <2>2, <2>4, <2>5, <2>6 DEF OnePlace, n
<1>5. ASSUME NEW c \in Clients, NEW l \in Shifted(left, c, chan[cur.ch].list["BroadcastIn"][c]), CloseClient(c, chan),
             Goto(<<Copies(p, l)>> \o Tail(todo)), UNCHANGED dlv
      PROVE  OnePlace'
  <2>1. l \in [Clients -> Nat]
    BY <1>1, ShiftedType
  <2>2. InTurn(todo') /\ Held' = {} /\ Spread' = Spread
    BY <1>3, <1>5, <2>1
  <2>3. QED
    BY <1>1, <1>5, <2>2, ClosingPlaces
<1>6. \/ Goto(Tail(todo)) /\ UNCHANGED <<chan, in, dlv>>
      \/ \E c \in Clients :
            /\ Log(c, "BroadcastIn", p) /\ UNCHANGED <<chan, in>> /\ left[c] > 0
            /\ Goto(<<Copies(p, [left EXCEPT ![c] = @ - 1])>> \o Tail(todo))
      \/ \E c \in Clients : \E l \in Shifted(left, c, chan[cur.ch].list["BroadcastIn"][c]) :
            /\ CloseClient(c, chan) /\ UNCHANGED dlv
            /\ Goto(<<Copies(p, l)>> \o Tail(todo))
  BY Zenon DEF CopyStep, daemon
<1>7. QED
  BY <1>2, <1>4, <1>5, <1>6

LEMMA QueueStepPlaces ==
    ASSUME TypeOK, OnePlace, QueueStep
    PROVE  OnePlace'
<1> DEFINE p == Head(todo).pay
<1>1. UNCHANGED <<req, sent>> /\ Doing("queue") /\ Goto(Tail(todo))
  BY DEF QueueStep, client
<1>2. p \in Payloads /\ p.n \in Spread /\ cur.ch \in Channels
  BY <1>1, HandNow, ServedType DEF TypeOK
<1>3. InTurn(todo') /\ Held' = {} /\ Spread' = {}
  BY <1>1, NextHand DEF TypeOK, OnePlace
<1> HIDE DEF p
<1>4. CASE UNCHANGED <<chan, in, dlv>>
  BY <1>1, <1>3, <1>4, SameFrames, DroppingPlaces
<1>5. ASSUME NEW c \in Clients, Log(c, "QueueIn", p), UNCHANGED <<chan, in>> PROVE OnePlace'
  BY <1>1, <1>2, <1>3, <1>5, DeliveringPlaces
<1>6. ASSUME NEW c \in Clients, CloseClient(c, chan), UNCHANGED dlv PROVE OnePlace'
  BY <1>1, <1>3, <1>6, ClosingPlaces
<1>7. QED
  BY <1>4, <1>5, <1>6 DEF QueueStep, daemon, Attached, p

LEMMA PoppedPlaces ==
    ASSUME TypeOK, OnePlace, UNCHANGED <<req, dlv, sent>>, NEW k \in Channels,
           chan[k].pending # << >>, \A j \in Channels : chan'[j].pending = Pop(k)[j].pending,
           Distinct(Clients, FrameLane(in')), Framed' \subseteq Framed,
           InTurn(todo'), Held' \subseteq Held, Spread' \subseteq Spread
    PROVE  OnePlace'
<1>1. Distinct(Channels, BacklogLane(chan')) /\ Parked' \subseteq Parked
  BY BacklogPopped DEF OnePlace, TypeOK
<1>2. /\ Distinct(Clients, OfferLane(req')) /\ Offered' = Offered
      /\ Distinct(Clients, ConsumedLane(dlv')) /\ Taken' = Taken /\ Copied' = Copied
      /\ sent' = sent
  BY DEF OnePlace, Offered, Taken, Copied
<1>3. QED
  BY <1>1, <1>2 DEF OnePlace

(* A turn of a loop over a backlog leaves nothing in hand.                 *)
LEMMA LoopingHand ==
    ASSUME UNCHANGED <<todo, cur>>, NEW what \in Idlers, Doing(what)
    PROVE  Held' = {} /\ Spread' = {}
<1>1. Head(todo).do = what /\ what \notin {"peer", "park", "copies", "queue"}
  BY DEF Doing, Idlers
<1>2. QED
  BY <1>1 DEF Held, Spread

LEMMA DrainPushPlaces ==
    ASSUME TypeOK, OnePlace, DrainStep \/ PushStep
    PROVE  OnePlace'
<1> DEFINE k == cur.ch
           p == Head(chan[k].pending)
<1>1. /\ UNCHANGED <<req, sent>> /\ k \in Channels /\ cur.id \in Clients
      /\ \E what \in {"drain", "push"} : Doing(what)
  BY ServedType DEF DrainStep, PushStep, client, TypeOK
<1>2. CASE Goto(Tail(todo)) /\ UNCHANGED <<in, dlv>> /\ (chan' = chan \/ (chan[k].pending # << >> /\ chan' = Pop(k)))
  <2>1. InTurn(todo') /\ Held' = {} /\ Spread' \subseteq Spread
    BY <1>1, <1>2, NextHand DEF TypeOK, OnePlace
  <2>2. QED
    BY <1>1, <1>2, <2>1, SameFrames, DroppingPlaces, PoppedPlaces
<1>3. ASSUME NEW c \in Clients, Log(c, "ChannelPeer", p), chan[k].pending # << >>,
             chan' = Pop(k), UNCHANGED <<in, cur, todo>>
      PROVE  OnePlace'
  <2>1. InTurn(todo') /\ Held' = {} /\ Spread' = {}
    BY <1>1, <1>3, LoopingHand DEF OnePlace, Idlers
  <2>2. /\ Distinct(Channels, BacklogLane(chan')) /\ Parked' \subseteq Parked
        /\ p.n \in Parked \ Parked' /\ p \in Payloads
    BY <1>1, <1>3, BacklogPopped, PopType DEF TypeOK, OnePlace
  <2>3. cur.ch \in Channels
    BY <1>1
  <2> HIDE DEF p, k
  <2>4. QED
    BY <1>1, <1>3, <2>1, <2>2, <2>3, DeliveringPlaces
<1>4. CASE chan[k].pending # << >> /\ CloseClient(cur.id, Pop(k)) /\ Goto(Returned) /\ UNCHANGED dlv
  <2>1. InTurn(todo') /\ Held' = {} /\ Spread' = {}
    BY <1>4, Returning
  <2>2. /\ \A j \in Channels : chan'[j].pending = Pop(k)[j].pending
        /\ Distinct(Clients, FrameLane(in')) /\ Framed' \subseteq Framed
    BY <1>1, <1>4, ClosedPending DEF TypeOK
  <2>3. QED
    BY <1>1, <1>4, <2>1, <2>2, PoppedPlaces
<1>5. CASE DrainStep
  BY <1>1, <1>2, <1>3, <1>4, <1>5 DEF DrainStep, daemon
<1>6. CASE PushStep
  <2>1. CASE Goto(Tail(todo)) /\ UNCHANGED <<in, dlv>> /\ (chan' = chan \/ (chan[k].pending # << >> /\ chan' = Pop(k)))
    BY <1>2, <2>1
  <2>2. CASE /\ CanWrite(chan[k].recv_ready) /\ Log(chan[k].recv_ready, "ChannelPeer", p)
             /\ chan[k].pending # << >> /\ chan' = Pop(k) /\ UNCHANGED <<in, cur, todo>>
    <3>1. CASE chan[k].recv_ready \in Clients
      BY <1>3, <2>2, <3>1
    <3>2. CASE chan[k].recv_ready \notin Clients
      <4>1. dlv' = dlv
        BY <2>2, <3>2 DEF Log, TypeOK, HistoryTypes
      <4>2. InTurn(todo') /\ Held' = {} /\ Spread' = {}
        BY <1>1, <2>2, LoopingHand DEF OnePlace, Idlers
      <4>3. QED
        BY <1>1, <2>2, <4>1, <4>2, SameFrames, PoppedPlaces
    <3>3. QED
      BY <3>1, <3>2
  <2>3. QED
    BY <1>6, <2>1, <2>2 DEF PushStep
<1>7. QED
  BY <1>5, <1>6

LEMMA PeerStepPlaces ==
    ASSUME TypeOK, OnePlace, PeerStep
    PROVE  OnePlace'
<1>1. /\ UNCHANGED <<req, sent, chan, in>> /\ Doing("peer")
      /\ cur.pay \in Payloads /\ cur.pay.n \in Held /\ cur.ch \in Channels
  BY HandNow, ServedType DEF PeerStep, client, daemon, TypeOK
<1>2. ASSUME NEW d \in Clients, Log(d, "ChannelPeer", cur.pay), Goto(Tail(todo)) PROVE OnePlace'
  <2>1. InTurn(todo') /\ Held' = {} /\ Spread' = {}
    BY <1>1, <1>2, NextHand DEF TypeOK, OnePlace
  <2>2. QED
    BY <1>1, <1>2, <2>1, DeliveringPlaces
<1>3. CASE Goto(<<Todo("park")>> \o Tail(todo)) /\ dlv' = dlv
  <2>1. /\ todo # << >> /\ Head(todo).do = "peer" /\ InTurn(todo) /\ cur.op = "Publish"
        /\ todo \in Seq(ItemsOf(cur.op)) /\ Tail(todo) \in Seq(ItemsOf(cur.op))
    BY <1>1, ServedType, HeadType DEF Doing, OnePlace, TypeOK
  <2>2. Behind(Head(todo), Tail(todo))
    BY <2>1, TurnTail
  <2>3. Todo("park") \in ItemsOf(cur.op) /\ Todo("park").do = "park"
    BY <2>1, ItemTypes DEF Todo
  <2>4. Behind(Todo("park"), Tail(todo)) /\ Todo("park").do # "queue"
    BY <2>1, <2>2, <2>3 DEF Behind
  <2>5. /\ InTurn(<<Todo("park")>> \o Tail(todo)) /\ Head(<<Todo("park")>> \o Tail(todo)) = Todo("park")
        /\ <<Todo("park")>> \o Tail(todo) # << >>
    BY <2>1, <2>3, <2>4, TurnCons
  <2>6. todo' = <<Todo("park")>> \o Tail(todo) /\ cur' = cur
    BY <1>3, <2>5 DEF Goto
  <2>7. InTurn(todo') /\ Held' = Held /\ Spread' = {}
    BY <2>1, <2>3, <2>5, <2>6 DEF Held, Spread
  <2>8. QED
    BY <1>1, <1>3, <2>7, SameFrames, DroppingPlaces
<1>4. QED
  BY <1>2, <1>3 DEF PeerStep, Peers, Attached

LEMMA ParkStepPlaces ==
    ASSUME TypeOK, OnePlace, ParkStep
    PROVE  OnePlace'
<1> DEFINE k == cur.ch
           p == cur.pay
<1>1. /\ UNCHANGED <<req, sent, in, dlv>> /\ Doing("park") /\ k \in Channels
      /\ p \in Payloads /\ p.n \in Held
  BY HandNow, ServedType DEF ParkStep, client, TypeOK
<1>2. CASE Goto(<<Answer("Error")>>) /\ chan' = chan
  <2>1. todo' = <<Answer("Error")>>
    BY <1>2 DEF Goto
  <2>2. /\ \A i \in DOMAIN todo' : todo'[i].do \in Idlers
        /\ todo' # << >> => Head(todo').do \in Idlers
    BY <2>1 DEF Answer, Idlers
  <2>3. InTurn(todo') /\ Held' = {} /\ Spread' = {}
    BY <2>2, NoHand
  <2>4. QED
    BY <1>1, <1>2, <2>3, SameFrames, DroppingPlaces
<1>3. CASE /\ chan' = Push(k, p)
           /\ Goto(<<Todo("push")>> \o Tail(todo)) \/ Goto(Tail(todo))
  <2>1. InTurn(todo') /\ Held' = {} /\ Spread' = {}
    <3>1. CASE Goto(Tail(todo))
      BY <1>1, <3>1, NextHand DEF TypeOK, OnePlace
    <3>2. CASE Goto(<<Todo("push")>> \o Tail(todo))
      <4>1. /\ todo # << >> /\ Head(todo).do = "park" /\ InTurn(todo) /\ cur.op = "Publish"
            /\ todo \in Seq(ItemsOf(cur.op)) /\ Tail(todo) \in Seq(ItemsOf(cur.op))
        BY <1>1, ServedType, HeadType DEF Doing, OnePlace, TypeOK
      <4>2. Behind(Head(todo), Tail(todo))
        BY <4>1, TurnTail
      <4>3. Todo("push") \in ItemsOf(cur.op) /\ Todo("push").do = "push"
        BY <4>1, ItemTypes DEF Todo
      <4>4. Behind(Todo("push"), Tail(todo)) /\ Todo("push").do # "queue"
        BY <4>1, <4>2, <4>3 DEF Behind
      <4>5. todo' = <<Todo("push")>> \o Tail(todo)
        BY <3>2 DEF Goto
      <4>6. InTurn(todo') /\ Head(todo') = Todo("push")
        BY <4>1, <4>3, <4>4, <4>5, TurnCons
      <4>7. QED
        BY <4>3, <4>6 DEF Held, Spread
    <3>3. QED
      BY <1>3, <3>1, <3>2
  <2>2. p.n \notin Parked
    BY <1>1 DEF OnePlace
  <2>3. /\ Distinct(Channels, BacklogLane(chan'))
        /\ Parked' \subseteq Parked \union {p.n}
    BY <1>1, <1>3, <2>2, BacklogPushed DEF TypeOK, OnePlace
  <2>4. /\ Distinct(Clients, OfferLane(req')) /\ Offered' = Offered
        /\ Distinct(Clients, FrameLane(in')) /\ Framed' = Framed
        /\ Distinct(Clients, ConsumedLane(dlv')) /\ Taken' = Taken /\ Copied' = Copied
        /\ sent' = sent
    BY <1>1 DEF OnePlace, Offered, Framed, Taken, Copied
  <2> DEFINE n == p.n
  <2>5. n \in Held
    BY <1>1
  <2> HIDE DEF n
  <2>6. QED
    BY <2>1, <2>3, <2>4, <2>5 DEF OnePlace, n
<1>4. QED
  BY <1>2, <1>3 DEF ParkStep

LEMMA StepPlaces ==
    ASSUME TypeOK, OnePlace, Step
    PROVE  OnePlace'
<1>1. CASE SigPipe
  <2>1. UNCHANGED <<req, dlv, sent, in, chan>> /\ todo' = << >>
    BY <1>1 DEF SigPipe, client, daemon, Goto
  <2>2. InTurn(todo') /\ Held' = {} /\ Spread' = {}
    BY <2>1, NoHand
  <2>3. QED
    BY <2>1, <2>2, SameFrames, DroppingPlaces
<1>2. QED
  BY <1>1, MarkStepPlaces, FlushStepPlaces, CopyStepPlaces, QueueStepPlaces, DrainPushPlaces,
     PeerStepPlaces, ParkStepPlaces DEF Step

(* The handler of a frame without a payload to publish has none in hand.   *)
LEMMA OtherItems ==
    ASSUME TypeOK, NEW c \in Clients,
           ServeAttach(c) \/ ServeDetach(c) \/ ServeOffer(c) \/ ServeRecvReady(c)
    PROVE  /\ TypeOK' /\ \A i \in DOMAIN todo' : todo'[i].do \in Idlers
           /\ todo' # << >> => Head(todo').do \in Idlers \ {"push"} /\ cur'.op # "Publish"
<1> DEFINE k == Head(in[c]).ch
           m == Head(in[c]).mode
<1>3. \A i \in DOMAIN todo' : todo'[i].do \in Idlers
  <2>1. CASE ServeDetach(c)
    BY <2>1 DEF ServeDetach, Start
  <2>2. CASE ServeAttach(c)
    <3>1. \/ todo' = <<Answer("Error"), Todo("resume")>>
          \/ todo' = <<Answer("Ack")>> \o Backlog(m) \o <<Todo("resume")>>
      BY <2>2 DEF ServeAttach, Start
    <3>2. \/ Backlog(m) = << >> \/ Backlog(m) = <<Todo("flush")>> \/ Backlog(m) = <<Todo("drain")>>
      BY DEF Backlog
    <3> DEFINE S == {x \in ItemsOf("Attach") : x.do \in Idlers}
    <3>3. /\ Answer("Ack") \in S /\ Answer("Error") \in S
          /\ \A w \in {"flush", "drain", "resume"} : Todo(w) \in S
      BY ItemTypes DEF Answer, Todo, Idlers
    <3> HIDE DEF S, m
    <3>4. Backlog(m) \in Seq(S)
      <4>1. <<Todo("flush")>> \in Seq(S)
        BY <3>3
      <4>2. <<Todo("drain")>> \in Seq(S)
        BY <3>3
      <4>3. << >> \in Seq(S)
        OBVIOUS
      <4>4. QED
        BY <3>2, <4>1, <4>2, <4>3, Zenon
    <3>5. <<Answer("Error"), Todo("resume")>> \in Seq(S)
      BY <3>3
    <3>6. <<Answer("Ack")>> \o Backlog(m) \o <<Todo("resume")>> \in Seq(S)
      BY <3>3, <3>4
    <3>7. todo' \in Seq(S)
      BY <3>1, <3>5, <3>6, Zenon
    <3>8. QED
      BY <3>7 DEF S
  <2>3. CASE ServeOffer(c) \/ ServeRecvReady(c)
    <3>1. TypeOK' /\ Start(c, todo') /\ Head(in[c]).op \in {"Offer", "RecvReady"}
      BY <2>3, ServeOfferType, ServeRecvReadyType
         DEF ServeOffer, ServeRecvReady, Start, HasFrame
    <3>2. todo' # << >> => cur'.op \in {"Offer", "RecvReady"}
      BY <3>1 DEF Start, Serving
    <3>3. todo' \in Seq(ItemsOf(cur'.op))
      BY <3>1 DEF TypeOK, ServingTypes
    <3>4. \A op \in {"Offer", "RecvReady"} : \A x \in ItemsOf(op) : x.do \in Idlers
      BY DEF ItemsOf, PartsOf, Idlers
    <3>5. QED
      BY <3>2, <3>3, <3>4
  <2>4. QED
    BY <2>1, <2>2, <2>3
<1>4. TypeOK'
  BY ServeAttachType, ServeDetachType, ServeOfferType, ServeRecvReadyType
<1>5. ASSUME todo' # << >>
      PROVE  Head(todo').do \in Idlers \ {"push"} /\ cur'.op # "Publish"
  <2>1. todo' \in Seq(ItemsOf(cur'.op))
    BY <1>4 DEF TypeOK, ServingTypes
  <2>2. Head(todo') = todo'[1] /\ 1 \in DOMAIN todo' /\ Head(todo') \in ItemsOf(cur'.op)
    BY <1>5, <2>1, TailOf
  <2>3. Head(in[c]).op \in {"Attach", "Detach", "Offer", "RecvReady"}
    BY DEF ServeAttach, ServeDetach, ServeOffer, ServeRecvReady, HasFrame
  <2>4. cur'.op = Head(in[c]).op
    <3>1. \E items : Start(c, items)
      BY Zenon DEF ServeAttach, ServeDetach, ServeOffer, ServeRecvReady
    <3>2. PICK items : Start(c, items)
      BY <3>1
    <3>3. QED
      BY <1>5, <3>2 DEF Start, Serving
  <2>5. Head(todo').do # "push"
    BY <2>2, <2>3, <2>4 DEF ItemsOf, PartsOf
  <2>6. QED
    BY <1>3, <2>2, <2>3, <2>4, <2>5
<1>6. QED
  BY <1>3, <1>4, <1>5

(* A frame without a payload to publish is taken.                          *)
LEMMA OtherBacklogs ==
    ASSUME TypeOK, NEW c \in Clients,
           ServeAttach(c) \/ ServeDetach(c) \/ ServeOffer(c) \/ ServeRecvReady(c)
    PROVE  \A j \in Channels : chan'[j].pending = chan[j].pending
<1> DEFINE k == Head(in[c]).ch
           m == Head(in[c]).mode
<1>1. k \in Channels /\ (Head(in[c]).op = "Attach" => m \in AllModes)
  <2>1. PICK op \in {"Attach", "Detach", "Offer", "RecvReady"} : HasFrame(c, op) /\ Take(c)
    BY DEF ServeAttach, ServeDetach, ServeOffer, ServeRecvReady
  <2>2. Head(in[c]) \in Frames /\ Head(in[c]).op = op
    BY <2>1, TakeType DEF TypeOK
  <2>3. QED
    BY <2>1, <2>2 DEF Frames
<1>2. /\ chan \in [Channels -> ChannelStates]
      /\ chan[k] = [list |-> chan[k].list, pending |-> chan[k].pending,
                    offer_from |-> chan[k].offer_from, recv_ready |-> chan[k].recv_ready]
  BY <1>1 DEF TypeOK, DaemonTypes, ChannelStates
<1>3. \/ chan' = chan
      \/ chan' = [chan EXCEPT ![k].list[m][c] = @ + 1]
      \/ chan' = [chan EXCEPT ![k] = WithoutClient(chan[k], c)]
      \/ chan' = [chan EXCEPT ![k].offer_from = None]
      \/ chan' = [chan EXCEPT ![k].offer_from = None, ![k].recv_ready = None]
      \/ chan' = [chan EXCEPT ![k].offer_from = c]
  BY Zenon DEF ServeAttach, ServeDetach, ServeOffer, ServeRecvReady
<1> HIDE DEF k, m
<1>4. WithoutClient(chan[k], c).pending = chan[k].pending
  BY DEF WithoutClient
<1>5. chan'[k].pending = chan[k].pending
  BY <1>1, <1>2, <1>3, <1>4
<1>6. \A j \in Channels : j # k => chan'[j] = chan[j]
  BY <1>1, <1>2, <1>3
<1>7. QED
  BY <1>5, <1>6

LEMMA ServeOtherPlaces ==
    ASSUME TypeOK, OnePlace, NEW c \in Clients,
           ServeAttach(c) \/ ServeDetach(c) \/ ServeOffer(c) \/ ServeRecvReady(c)
    PROVE  OnePlace'
<1>1. /\ UNCHANGED <<req, dlv, sent>> /\ Take(c)
      /\ \E op \in {"Attach", "Detach", "Offer", "RecvReady"} : HasFrame(c, op)
  BY DEF ServeAttach, ServeDetach, ServeOffer, ServeRecvReady, client
<1>2. /\ Distinct(Clients, FrameLane(in')) /\ Framed' \subseteq Framed
  BY <1>1, FrameTaken DEF TypeOK, OnePlace
<1>3. (\A i \in DOMAIN todo' : todo'[i].do \in Idlers) /\ (todo' # << >> => Head(todo').do \in Idlers)
  BY OtherItems
<1>4. InTurn(todo') /\ Held' = {} /\ Spread' = {}
  BY <1>3, NoHand
<1>5. \A j \in Channels : chan'[j].pending = chan[j].pending
  BY OtherBacklogs
<1>6. QED
  BY <1>1, <1>2, <1>4, <1>5, DroppingPlaces

LEMMA ServePublishPlaces ==
    ASSUME TypeOK, OnePlace, NEW c \in Clients, ServePublish(c)
    PROVE  OnePlace'
<1> DEFINE k == Head(in[c]).ch
           p == Head(in[c]).pay
           left == chan[k].list["BroadcastIn"]
<1>1. /\ UNCHANGED <<req, dlv, sent, chan>> /\ Take(c) /\ HasFrame(c, "Publish")
  BY DEF ServePublish, client, daemon
<1>2. /\ Distinct(Clients, FrameLane(in')) /\ Framed' \subseteq Framed
      /\ p.n \in Framed \ Framed'
  BY <1>1, FrameTaken DEF TypeOK, OnePlace
<1>3. Held' \union Spread' \subseteq {p.n} /\ InTurn(todo') /\ (Held' = {} \/ Spread' = {})
  <2>1. \/ Start(c, <<Todo("park"), Answer("Ack")>>)
        \/ Start(c, <<Todo("peer"), Answer("Ack")>>)
        \/ Start(c, <<Copies(p, left), Queue(p), Answer("Ack")>>)
    BY DEF ServePublish
  <2>2. ASSUME NEW w \in {"park", "peer"}, Start(c, <<Todo(w), Answer("Ack")>>)
        PROVE  Held' \subseteq {p.n} /\ Spread' = {} /\ InTurn(todo')
    <3>1. todo' = <<Todo(w), Answer("Ack")>> /\ cur'.pay = p
      BY <2>2 DEF Start, Serving
    <3>2. /\ Head(todo') = Todo(w) /\ DOMAIN todo' = 1..2
          /\ todo'[1] = Todo(w) /\ todo'[2] = Answer("Ack")
      BY <3>1
    <3>3. Todo(w).do = w /\ Answer("Ack").do = "answer"
      BY DEF Todo, Answer
    <3> HIDE DEF p
    <3>4. Held' \subseteq {p.n} /\ Spread' = {}
      BY <3>1, <3>2, <3>3 DEF Held, Spread
    <3>5. InTurn(todo')
      BY <3>2, <3>3 DEF InTurn
    <3>6. QED
      BY <3>4, <3>5
  <2>3. CASE Start(c, <<Copies(p, left), Queue(p), Answer("Ack")>>)
    <3>1. todo' = <<Copies(p, left), Queue(p), Answer("Ack")>>
      BY <2>3 DEF Start
    <3>2. /\ Head(todo') = Copies(p, left) /\ DOMAIN todo' = 1..3
          /\ todo'[1] = Copies(p, left) /\ todo'[2] = Queue(p) /\ todo'[3] = Answer("Ack")
      BY <3>1
    <3>3. /\ Copies(p, left).do = "copies" /\ Copies(p, left).pay = p
          /\ Queue(p).do = "queue" /\ Queue(p).pay = p /\ Answer("Ack").do = "answer"
      BY DEF Copies, Queue, Answer
    <3> HIDE DEF p, left
    <3>4. Spread' \subseteq {p.n} /\ Held' = {}
      BY <3>2, <3>3 DEF Held, Spread
    <3>5. InTurn(todo')
      BY <3>2, <3>3 DEF InTurn
    <3>6. QED
      BY <3>4, <3>5
  <2>4. QED
    BY <2>1, <2>2, <2>3
<1>4. /\ Distinct(Clients, OfferLane(req')) /\ Offered' = Offered
      /\ Distinct(Channels, BacklogLane(chan')) /\ Parked' = Parked
      /\ Distinct(Clients, ConsumedLane(dlv')) /\ Taken' = Taken /\ Copied' = Copied
      /\ sent' = sent
  BY <1>1 DEF OnePlace, Offered, Parked, Taken, Copied
<1> DEFINE n == p.n
<1>5. n \in Framed /\ n \notin Framed' /\ Held' \union Spread' \subseteq {n}
  BY <1>2, <1>3
<1> HIDE DEF n, p
<1>6. QED
  BY <1>2, <1>3, <1>4, <1>5 DEF OnePlace

LEMMA InitPlaces ==
    ASSUME Init
    PROVE  OnePlace
<1>1. \A c \in Clients : req[c].op = "None" /\ in[c] = << >> /\ dlv[c] = << >>
  BY DEF Init, NoReq, Frame
<1>2. \A k \in Channels : chan[k].pending = << >>
  BY DEF Init, EmptyChannel
<1>3. todo = << >>
  BY DEF Init
<1>4. /\ \A c \in Clients : /\ OfferLane(req)[c] = << >> /\ DOMAIN FrameLane(in)[c] = {}
                            /\ DOMAIN ConsumedLane(dlv)[c] = {} /\ DOMAIN CopyLane(dlv)[c] = {}
      /\ \A k \in Channels : DOMAIN BacklogLane(chan)[k] = {}
  BY <1>1, <1>2 DEF OfferLane, FrameLane, ConsumedLane, CopyLane, BacklogLane
<1>5. /\ Offered = {} /\ Framed = {} /\ Parked = {} /\ Taken = {} /\ Copied = {}
      /\ Distinct(Clients, OfferLane(req)) /\ Distinct(Clients, FrameLane(in))
      /\ Distinct(Channels, BacklogLane(chan)) /\ Distinct(Clients, ConsumedLane(dlv))
  BY <1>4 DEF Offered, Framed, Parked, Taken, Copied, NumbersIn, Distinct
<1>6. Held = {} /\ Spread = {} /\ InTurn(todo)
  BY <1>3 DEF Held, Spread, InTurn
<1>7. QED
  BY <1>5, <1>6 DEF OnePlace

LEMMA NextPlaces ==
    ASSUME TypeOK, OnePlace, [Next]_vars
    PROVE  OnePlace'
<1>1. ASSUME UNCHANGED <<todo, cur, chan, dlv, sent, in, req>> PROVE OnePlace'
  <2>1. /\ Distinct(Clients, OfferLane(req')) /\ Distinct(Clients, FrameLane(in'))
        /\ Offered' = Offered /\ Framed' = Framed
    BY <1>1 DEF OnePlace, Offered, Framed
  <2>2. QED
    BY <1>1, <2>1, ClientPlaces
<1>2. CASE Exit
  BY <1>1, <1>2 DEF Exit, daemon, client
<1>3. CASE UNCHANGED vars
  BY <1>1, <1>3 DEF vars
<1>4. ASSUME NEW c \in Clients, HangUp(c) \/ ServeBye(c) PROVE OnePlace'
  <2>1. CloseClient(c, chan) /\ UNCHANGED <<req, dlv, sent, todo, cur>>
    BY <1>4 DEF HangUp, ServeBye, client
  <2>2. InTurn(todo') /\ Held' = Held /\ Spread' = Spread
    BY <2>1, SameHand DEF OnePlace
  <2>3. QED
    BY <2>1, <2>2, ClosingPlaces
<1>5. ASSUME NEW c \in Clients, Serve(c) PROVE OnePlace'
  BY <1>4, <1>5, ServeOtherPlaces, ServePublishPlaces DEF Serve
<1>6. QED
  BY <1>2, <1>3, <1>4, <1>5, StepPlaces, ClientStepPlaces DEF Next

LEMMA PlacesHold == Spec => [](TypeOK /\ OnePlace)
<1>1. Init => TypeOK /\ OnePlace
  BY InitType, InitPlaces
<1>2. TypeOK /\ OnePlace /\ [Next]_vars => TypeOK' /\ OnePlace'
  BY NextType, NextPlaces
<1>3. QED
  BY <1>1, <1>2, PTL DEF Spec

LEMMA PlacesApart ==
    ASSUME TypeOK, OnePlace
    PROVE  ConsumedOnce
<1> DEFINE F == ConsumedLane(dlv)
<1>1. \A c \in Clients : DOMAIN dlv[c] = 1..Len(dlv[c]) /\ dlv[c] \in Seq(Deliveries)
  BY DEF TypeOK, HistoryTypes
<1>2. \A c \in Clients : \A i \in DOMAIN dlv[c] : dlv[c][i].pay.n \in 1..MaxPublish
  <2>1. \A c \in Clients : \A i \in DOMAIN dlv[c] : dlv[c][i] \in Deliveries
    BY <1>1
  <2>2. \A e \in Deliveries : e.pay.n \in 1..MaxPublish
    BY DEF Deliveries, Payloads
  <2>3. QED
    BY <2>1, <2>2
<1>3. ASSUME NEW c \in Clients, NEW i \in DOMAIN dlv[c], Consumed(c, i)
      PROVE  i \in DOMAIN F[c] /\ F[c][i] = dlv[c][i].pay.n /\ F[c][i] # 0
  BY <1>1, <1>2, <1>3 DEF ConsumedLane, Consumed
<1>4. ASSUME NEW c \in Clients, NEW i \in DOMAIN dlv[c]
      PROVE  dlv[c][i].pay.n \in Taken \union Copied
  <2>1. CASE Consumed(c, i)
    BY <1>2, <1>3, <2>1 DEF Taken, NumbersIn
  <2>2. CASE ~Consumed(c, i)
    <3>1. i \in DOMAIN CopyLane(dlv)[c] /\ CopyLane(dlv)[c][i] = dlv[c][i].pay.n
      BY <1>1, <2>2 DEF CopyLane, Consumed
    <3>2. QED
      BY <1>2, <3>1 DEF Copied, NumbersIn
  <2>3. QED
    BY <2>1, <2>2
<1>5. ASSUME NEW k \in Channels, NEW i \in DOMAIN chan[k].pending
      PROVE  chan[k].pending[i].n \in Parked
  <2>1. chan[k].pending \in Seq(Payloads)
    BY DEF TypeOK, DaemonTypes, ChannelStates
  <2>2. i \in DOMAIN BacklogLane(chan)[k] /\ BacklogLane(chan)[k][i] = chan[k].pending[i].n
    BY <2>1 DEF BacklogLane
  <2>3. chan[k].pending[i].n \in 1..MaxPublish
    <3>1. chan[k].pending[i] \in Payloads
      BY <2>1
    <3>2. QED
      BY <3>1 DEF Payloads
  <2>4. QED
    BY <2>2, <2>3 DEF Parked, NumbersIn
<1>6. Distinct(Clients, F) /\ Parked \intersect (Taken \union Copied) = {}
  BY DEF OnePlace
<1> HIDE DEF F
<1>7. ASSUME NEW c \in Clients, NEW d \in Clients,
             NEW i \in DOMAIN dlv[c], NEW j \in DOMAIN dlv[d],
             Consumed(c, i), Consumed(d, j), dlv[c][i].pay = dlv[d][j].pay
      PROVE  c = d /\ i = j
  BY <1>3, <1>6, <1>7 DEF Distinct
<1>8. ASSUME NEW k \in Channels, NEW c \in Clients,
             NEW i \in DOMAIN chan[k].pending, NEW j \in DOMAIN dlv[c]
      PROVE  chan[k].pending[i] # dlv[c][j].pay
  BY <1>4, <1>5, <1>6
<1>9. QED
  BY <1>7, <1>8 DEF ConsumedOnce

(* For any number of clients, channels and messages, whoever stalls, dies  *)
(* or reconnects in between: a message of a queue or of a channel is       *)
(* written to one reader, once, and a message that has been written is in  *)
(* no backlog.                                                             *)
THEOREM DeliveredOnce == Spec => []ConsumedOnce
BY PlacesHold, PlacesApart, PTL
=============================================================================
