--------------------------- MODULE LiveSyncProofs ---------------------------
(***************************************************************************)
(* Proofs about LiveSync, for any spokes, links, operations and bounds.     *)
(***************************************************************************)
EXTENDS LiveSync, TLAPS

USE HostAssumption, LinksAssumption, AuthorAssumption, TrustAssumption,
    BoundsAssumption, KeepersAssumption, WindowAssumption

-----------------------------------------------------------------------------
(* Ends and frames *)

\* The two ends of a link face each other, and each belongs to a peer.
LEMMA EndFacts ==
  ASSUME NEW e \in Ends
  PROVE  /\ Far(e) \in Ends /\ Far(Far(e)) = e /\ Far(e) # e /\ At(e) \in Peers
         /\ e[1] \in Links /\ Far(e)[1] = e[1]
         /\ e = SpokeEnd(e[1]) \/ e = HostEnd(e[1])
         /\ e = SpokeEnd(e[1]) => Far(e) = HostEnd(e[1]) /\ At(e) = PeerOf[e[1]] /\ At(Far(e)) = Host
         /\ e = HostEnd(e[1]) => Far(e) = SpokeEnd(e[1]) /\ At(e) = Host /\ At(Far(e)) = PeerOf[e[1]]
  BY DEF Ends, Far, At, Peers, SpokeEnd, HostEnd

\* The two ends of a link, each across from the other.
LEMMA LinkFacts ==
  ASSUME NEW l \in Links
  PROVE  /\ SpokeEnd(l) \in Ends /\ HostEnd(l) \in Ends /\ SpokeEnd(l) # HostEnd(l)
         /\ Far(SpokeEnd(l)) = HostEnd(l) /\ Far(HostEnd(l)) = SpokeEnd(l)
         /\ At(SpokeEnd(l)) = PeerOf[l] /\ At(HostEnd(l)) = Host
         /\ SpokeEnd(l)[1] = l /\ HostEnd(l)[1] = l
         /\ SpokeEnd(l)[2] = "spoke" /\ HostEnd(l)[2] = "host"
         /\ PeerOf[l] \in Spokes
  BY DEF Ends, Far, At, SpokeEnd, HostEnd

\* An end of a link is one of its two ends.
LEMMA EndsOfLink ==
  ASSUME NEW l \in Links, NEW e \in Ends, e[1] = l
  PROVE  \/ e = SpokeEnd(l) /\ Far(e) = HostEnd(l)
         \/ e = HostEnd(l) /\ Far(e) = SpokeEnd(l)
  BY EndFacts

\* What the sessions write are messages.
LEMMA FrameTypes ==
  ASSUME NEW S \in SUBSET Ops
  PROVE  Have(S) \in Msg /\ Updates(S) \in Msg /\ Refused \in Msg
  BY DEF Msg, Have, Updates, Refused

\* Appending a frame changes what a queue carries at its end only.
LEMMA CarriedAppend ==
  ASSUME NEW q \in Seq(Msg), NEW m \in Msg
  PROVE  /\ Append(q, m) \in Seq(Msg) /\ Len(Append(q, m)) = Len(q) + 1
         /\ \A k \in 1..Len(q) : Append(q, m)[k] = q[k] /\ Carried(Append(q, m), k) = Carried(q, k)
         /\ Append(q, m)[Len(q) + 1] = m
         /\ Carried(Append(q, m), Len(q) + 1)
              = Carried(q, Len(q)) \cup (IF m.type = "Updates" THEN m.ops ELSE {})
<1>1. Append(q, m) \in Seq(Msg) /\ Len(Append(q, m)) = Len(q) + 1
      /\ Append(q, m)[Len(q) + 1] = m
      /\ \A k \in 1..Len(q) : Append(q, m)[k] = q[k]
  OBVIOUS
<1>2. ASSUME NEW k \in 1..Len(q) PROVE Carried(Append(q, m), k) = Carried(q, k)
  BY <1>1 DEF Carried
<1>3. m.ops \subseteq Ops
  BY DEF Msg
<1>4. Carried(Append(q, m), Len(q) + 1)
        = Carried(q, Len(q)) \cup (IF m.type = "Updates" THEN m.ops ELSE {})
  <2>1. \A k \in 1..(Len(q) + 1) : k \in 1..Len(q) \/ k = Len(q) + 1
    OBVIOUS
  <2>2. \A k \in 1..Len(q) : k \in 1..(Len(q) + 1)
    OBVIOUS
  <2>3. Len(q) + 1 \in 1..(Len(q) + 1)
    OBVIOUS
  <2> QED BY <1>1, <1>3, <2>1, <2>2, <2>3 DEF Carried
<1> QED BY <1>1, <1>2, <1>4

\* Reading the first frame moves its operations out of the queue.
LEMMA CarriedTail ==
  ASSUME NEW q \in Seq(Msg), q # <<>>
  PROVE  /\ Tail(q) \in Seq(Msg) /\ Len(Tail(q)) = Len(q) - 1 /\ Head(q) \in Msg
         /\ Head(q) = q[1] /\ Len(q) \in Nat \ {0}
         /\ \A k \in 1..Len(Tail(q)) :
              /\ Tail(q)[k] = q[k + 1] /\ k + 1 \in 1..Len(q)
              /\ Carried(q, k + 1) \subseteq Carried(Tail(q), k)
                   \cup (IF Head(q).type = "Updates" THEN Head(q).ops ELSE {})
         /\ Carried(Tail(q), Len(Tail(q))) \subseteq Carried(q, Len(q))
         /\ Carried(q, Len(q)) \subseteq Carried(Tail(q), Len(Tail(q)))
              \cup (IF Head(q).type = "Updates" THEN Head(q).ops ELSE {})
<1>1. /\ Tail(q) \in Seq(Msg) /\ Len(Tail(q)) = Len(q) - 1 /\ Head(q) \in Msg
      /\ Head(q) = q[1] /\ Len(q) \in Nat \ {0}
      /\ \A k \in 1..Len(Tail(q)) : Tail(q)[k] = q[k + 1] /\ k + 1 \in 1..Len(q)
  OBVIOUS
<1>2. ASSUME NEW n \in 0..Len(Tail(q))
      PROVE  Carried(q, n + 1) \subseteq Carried(Tail(q), n)
               \cup (IF Head(q).type = "Updates" THEN Head(q).ops ELSE {})
  <2> SUFFICES ASSUME NEW o \in Ops, NEW k \in 1..(n + 1),
                      q[k].type = "Updates", o \in q[k].ops, k # 1
               PROVE  \E j \in 1..n : Tail(q)[j].type = "Updates" /\ o \in Tail(q)[j].ops
    BY <1>1 DEF Carried
  <2>1. k - 1 \in 1..n /\ k - 1 \in 1..Len(Tail(q)) /\ (k - 1) + 1 = k
    BY <1>1
  <2>2. Tail(q)[k - 1] = q[k]
    BY <1>1, <2>1
  <2> QED BY <2>1, <2>2
<1>3. Carried(Tail(q), Len(Tail(q))) \subseteq Carried(q, Len(q))
  BY <1>1 DEF Carried
<1>4. Len(Tail(q)) \in 0..Len(Tail(q)) /\ Len(Tail(q)) + 1 = Len(q)
  BY <1>1
<1> QED BY <1>1, <1>2, <1>3, <1>4

\* The same, frame type by frame type.
LEMMA CarriedTailHave ==
  ASSUME NEW q \in Seq(Msg), q # <<>>, Head(q).type # "Updates"
  PROVE  Carried(Tail(q), Len(Tail(q))) = Carried(q, Len(q))
<1>1. Carried(Tail(q), Len(Tail(q))) \subseteq Carried(q, Len(q))
  BY CarriedTail
<1>2. Carried(q, Len(q)) \subseteq Carried(Tail(q), Len(Tail(q)))
              \cup (IF Head(q).type = "Updates" THEN Head(q).ops ELSE {})
  BY CarriedTail
<1> QED BY <1>1, <1>2

\* An Updates frame adds its operations to what a queue carries.
LEMMA CarriedAppendUpdates ==
  ASSUME NEW q \in Seq(Msg), NEW m \in Msg, m.type = "Updates"
  PROVE  Carried(Append(q, m), Len(Append(q, m))) = Carried(q, Len(q)) \cup m.ops
<1>1. Len(Append(q, m)) = Len(q) + 1
  BY CarriedAppend
<1>2. Carried(Append(q, m), Len(q) + 1)
              = Carried(q, Len(q)) \cup (IF m.type = "Updates" THEN m.ops ELSE {})
  BY CarriedAppend
<1> QED BY <1>1, <1>2

\* Any other frame adds nothing.
LEMMA CarriedAppendOther ==
  ASSUME NEW q \in Seq(Msg), NEW m \in Msg, m.type # "Updates"
  PROVE  Carried(Append(q, m), Len(Append(q, m))) = Carried(q, Len(q))
<1>1. Len(Append(q, m)) = Len(q) + 1
  BY CarriedAppend
<1>2. Carried(Append(q, m), Len(q) + 1)
              = Carried(q, Len(q)) \cup (IF m.type = "Updates" THEN m.ops ELSE {})
  BY CarriedAppend
<1> QED BY <1>1, <1>2

\* A queue stays in causal order when the document it is read into grows.
LEMMA OrderedMono ==
  ASSUME NEW q \in Seq(Msg), NEW d, NEW d2, NEW D, Ordered(q, d, D), d \subseteq d2
  PROVE  Ordered(q, d2, D)
  BY DEF Ordered

\* It depends on what the carried operations depend on, and nothing else.
LEMMA OrderedDeps ==
  ASSUME NEW q \in Seq(Msg), NEW d, NEW D, NEW E, Ordered(q, d, D),
         \A u \in Carried(q, Len(q)) : E[u] = D[u]
  PROVE  Ordered(q, d, E)
<1> SUFFICES ASSUME NEW k \in 1..Len(q), q[k].type = "Updates", NEW u \in q[k].ops
             PROVE  E[u] \subseteq d \cup Carried(q, k)
  BY DEF Ordered
<1>1. q[k] \in Msg
  OBVIOUS
<1>2. u \in Carried(q, Len(q))
  BY <1>1 DEF Carried, Msg
<1> QED BY <1>2 DEF Ordered

\* A queue in causal order stays so when the new frame depends only on the
\* document and what is queued.
LEMMA OrderedAppend ==
  ASSUME NEW q \in Seq(Msg), NEW m \in Msg, NEW d, NEW D, Ordered(q, d, D),
         m.type = "Updates" =>
           \A u \in m.ops : D[u] \subseteq d \cup Carried(q, Len(q)) \cup m.ops
  PROVE  Ordered(Append(q, m), d, D)
<1> DEFINE r == Append(q, m)
<1> SUFFICES ASSUME NEW k \in 1..Len(r), r[k].type = "Updates", NEW u \in r[k].ops
             PROVE  D[u] \subseteq d \cup Carried(r, k)
  BY DEF Ordered
<1>1. CASE k \in 1..Len(q)
  BY <1>1, CarriedAppend DEF Ordered
<1>2. CASE k = Len(q) + 1
  <2>1. r[k] = m /\ Carried(r, k) = Carried(q, Len(q)) \cup m.ops
    BY <1>2, CarriedAppend
  <2> QED BY <2>1
<1>3. k \in 1..Len(q) \/ k = Len(q) + 1
  BY CarriedAppend
<1> QED BY <1>1, <1>2, <1>3

\* Importing the first frame leaves the rest in causal order.
LEMMA OrderedTail ==
  ASSUME NEW q \in Seq(Msg), q # <<>>, NEW d, NEW d2, NEW D, Ordered(q, d, D),
         d \subseteq d2, Head(q).type = "Updates" => Head(q).ops \subseteq d2
  PROVE  Ordered(Tail(q), d2, D)
<1> SUFFICES ASSUME NEW k \in 1..Len(Tail(q)), Tail(q)[k].type = "Updates",
                    NEW u \in Tail(q)[k].ops
             PROVE  D[u] \subseteq d2 \cup Carried(Tail(q), k)
  BY DEF Ordered
<1>1. Tail(q)[k] = q[k + 1] /\ k + 1 \in 1..Len(q)
  BY CarriedTail
<1>2. D[u] \subseteq d \cup Carried(q, k + 1)
  BY <1>1 DEF Ordered
<1> QED BY <1>2, CarriedTail

\* The frame a session reads next depends on its document and that frame.
LEMMA OrderedHead ==
  ASSUME NEW q \in Seq(Msg), q # <<>>, NEW d, NEW D, Ordered(q, d, D),
         Head(q).type = "Updates"
  PROVE  \A u \in Head(q).ops : D[u] \subseteq d \cup Head(q).ops
<1>1. Head(q) = q[1] /\ 1 \in 1..Len(q)
  BY CarriedTail
<1>2. Carried(q, 1) \subseteq Head(q).ops
  BY <1>1 DEF Carried
<1> QED BY <1>1, <1>2 DEF Ordered

\* A version a peer holds, it still holds when it grows.
LEMMA AnnouncedMono ==
  ASSUME NEW q \in Seq(Msg), NEW d, NEW d2, Announced(q, d), d \subseteq d2
  PROVE  Announced(q, d2)
  BY DEF Announced

\* Announcing the version one holds is sound.
LEMMA AnnouncedAppend ==
  ASSUME NEW q \in Seq(Msg), NEW m \in Msg, NEW d, Announced(q, d),
         m.type = "Have" => m.ops \subseteq d
  PROVE  Announced(Append(q, m), d)
<1> SUFFICES ASSUME NEW k \in 1..Len(Append(q, m)), Append(q, m)[k].type = "Have"
             PROVE  Append(q, m)[k].ops \subseteq d
  BY DEF Announced
<1>1. k \in 1..Len(q) \/ k = Len(q) + 1
  BY CarriedAppend
<1> QED BY <1>1, CarriedAppend DEF Announced

\* Reading a frame leaves the other announcements sound.
LEMMA AnnouncedTail ==
  ASSUME NEW q \in Seq(Msg), q # <<>>, NEW d, Announced(q, d)
  PROVE  Announced(Tail(q), d) /\ (Head(q).type = "Have" => Head(q).ops \subseteq d)
<1>1. Announced(Tail(q), d)
  BY CarriedTail DEF Announced
<1>2. Head(q) = q[1] /\ 1 \in 1..Len(q)
  BY CarriedTail
<1> QED BY <1>1, <1>2 DEF Announced

\* Nothing is wrong with an empty queue.
LEMMA EmptyQueue ==
  ASSUME NEW d, NEW D
  PROVE  /\ <<>> \in Seq(Msg) /\ Carried(<<>>, Len(<<>>)) = {}
         /\ Ordered(<<>>, d, D) /\ Announced(<<>>, d)
  BY DEF Carried, Ordered, Announced

\* The frames written whole are the first of the queue.
LEMMA WholeFacts ==
  ASSUME NEW q \in Seq(Msg)
  PROVE  /\ Whole(q) \in Seq(Msg)
         /\ q = <<>> => Whole(q) = <<>>
         /\ \A k \in 1..Len(Whole(q)) : k \in 1..Len(q) /\ Whole(q)[k] = q[k]
<1>1. CASE Len(q) > Window
  <2>1. Whole(q) = SubSeq(q, 1, Window)
    BY <1>1 DEF Whole
  <2>2. Len(SubSeq(q, 1, Window)) = Window
    BY <1>1
  <2>3. \A k \in 1..Window : k \in 1..Len(q) /\ SubSeq(q, 1, Window)[k] = q[k]
    BY <1>1
  <2>4. SubSeq(q, 1, Window) \in Seq(Msg) /\ q # <<>>
    BY <1>1
  <2> QED BY <2>1, <2>2, <2>3, <2>4
<1>2. CASE ~(Len(q) > Window)
  BY <1>2 DEF Whole
<1> QED BY <1>1, <1>2

\* Losing the frame in the middle of being written loses no other, and puts
\* none out of order.
LEMMA WholeKeeps ==
  ASSUME NEW q \in Seq(Msg)
  PROVE  /\ Carried(Whole(q), Len(Whole(q))) \subseteq Carried(q, Len(q))
         /\ \A d, D : Ordered(q, d, D) => Ordered(Whole(q), d, D)
<1> DEFINE w == Whole(q)
<1>1. \A k \in 1..Len(w) : k \in 1..Len(q) /\ w[k] = q[k]
  BY WholeFacts
<1>2. w \in Seq(Msg)
  BY WholeFacts
<1> HIDE DEF w
<1>3. \A k \in 1..Len(w) : \A j \in 1..k : j \in 1..Len(w)
  BY <1>2
<1>4. \A k \in 1..Len(w) : Carried(w, k) = Carried(q, k)
  BY <1>1, <1>3 DEF Carried
<1>5. Carried(w, Len(w)) \subseteq Carried(q, Len(q))
  BY <1>1 DEF Carried
<1>6. ASSUME NEW d, NEW D, Ordered(q, d, D) PROVE Ordered(w, d, D)
  BY <1>1, <1>4, <1>6 DEF Ordered
<1> QED BY <1>5, <1>6 DEF w

\* What writing a frame does to the channels.
LEMMA SentFacts ==
  ASSUME NEW ch \in [Ends -> Seq(Msg)], NEW e \in Ends, NEW m \in Msg,
         status \in [Ends -> Status]
  PROVE  /\ Sent(ch, e, m) \in [Ends -> Seq(Msg)]
         /\ \A f \in Ends : f # Far(e) => Sent(ch, e, m)[f] = ch[f]
         /\ status[Far(e)] = "down" => Sent(ch, e, m)[Far(e)] = ch[Far(e)]
         /\ status[Far(e)] # "down" => Sent(ch, e, m)[Far(e)] = Append(ch[Far(e)], m)
<1>1. Far(e) \in Ends
  BY EndFacts
<1>2. Append(ch[Far(e)], m) \in Seq(Msg)
  BY <1>1
<1> QED BY <1>1, <1>2 DEF Sent

-----------------------------------------------------------------------------
(* Type correctness *)

\* The initial state is well typed.
LEMMA InitType == Init => TypeOK
  BY EmptyQueue DEF Init, TypeOK, Ends, Perms, Status, Peers

\* Every step keeps the types.
LEMMA NextType == TypeOK /\ [Next]_vars => TypeOK'
<1> SUFFICES ASSUME TypeOK, [Next]_vars PROVE TypeOK'
  OBVIOUS
<1> USE DEF TypeOK, docVars, bounds
<1>1. ASSUME NEW p \in Peers, NEW o \in Ops, Commit(p, o) PROVE TypeOK'
  BY <1>1 DEF Commit, Nudge, Sessions, Peers
<1>2. ASSUME NEW p \in Peers, Persist(p) PROVE TypeOK'
  BY <1>2 DEF Persist, Stores
<1>3. ASSUME NEW D \in SUBSET Ends, Stopped(D) PROVE
        status' \in [Ends -> Status] /\ chan' \in [Ends -> Seq(Msg)] /\ nudged' \subseteq Ends
  <2>1. \A e \in Ends : Whole(chan[e]) \in Seq(Msg)
    BY WholeFacts
  <2> QED BY <1>3, <2>1, EmptyQueue DEF Stopped, Status
<1>4. ASSUME NEW p \in Peers, Restarts(p),
             edits' \in Nat, drops' \in Nat, crashes' \in Nat
      PROVE  TypeOK'
  BY <1>3, <1>4 DEF Restarts
<1>5. ASSUME NEW p \in Peers, Crash(p) PROVE TypeOK'
  BY <1>4, <1>5 DEF Crash
<1>6. ASSUME NEW l \in Links, Dial(l) PROVE TypeOK'
  BY <1>6, LinkFacts DEF Dial, Status
<1>22. ASSUME NEW e \in Ends, Announce(e) PROVE TypeOK'
  <2>1. At(e) \in Peers /\ Have(doc[At(e)]) \in Msg
    BY EndFacts, FrameTypes
  <2>2. Sent(chan, e, Have(doc[At(e)])) \in [Ends -> Seq(Msg)]
    BY <2>1, SentFacts
  <2> QED BY <1>22, <2>2 DEF Announce, Status
<1>7. ASSUME NEW l \in Links, Authorize(l) PROVE TypeOK'
  BY <1>7, LinkFacts DEF Authorize, Status
<1>8. ASSUME NEW l \in Links, Refuse(l) PROVE TypeOK'
  <2>1. Sent(chan, HostEnd(l), Refused) \in [Ends -> Seq(Msg)]
    BY SentFacts, FrameTypes, LinkFacts
  <2>2. /\ chan' \in {chan, [Sent(chan, HostEnd(l), Refused) EXCEPT ![HostEnd(l)] = <<>>]}
        /\ status' = [status EXCEPT ![HostEnd(l)] = "down"]
        /\ UNCHANGED <<docVars, trust, granted, acked, nudged, refused, bounds>>
    BY <1>8 DEF Refuse
  <2>3. [Sent(chan, HostEnd(l), Refused) EXCEPT ![HostEnd(l)] = <<>>] \in [Ends -> Seq(Msg)]
    BY <2>1, EmptyQueue
  <2>4. chan' \in [Ends -> Seq(Msg)]
    BY <2>2, <2>3
  <2> QED BY <2>2, <2>4, LinkFacts DEF Status
<1>9. ASSUME NEW l \in Links, Accept(l) PROVE TypeOK'
  BY <1>9, LinkFacts DEF Accept, Status
<1>10. ASSUME NEW l \in Links, AcceptFails(l) PROVE TypeOK'
  BY <1>4, <1>10 DEF AcceptFails, Peers
<1>11. ASSUME NEW e \in Ends, chan[e] # <<>>
       PROVE  /\ [chan EXCEPT ![e] = Tail(@)] \in [Ends -> Seq(Msg)]
              /\ Head(chan[e]).ops \subseteq Ops
  BY <1>11, CarriedTail DEF Msg
<1>12. ASSUME NEW e \in Ends, RecvHave(e) PROVE TypeOK'
  <2> DEFINE v == Head(chan[e]).ops
             rest == [chan EXCEPT ![e] = Tail(@)]
  <2>1. rest \in [Ends -> Seq(Msg)] /\ v \subseteq Ops
    BY <1>11, <1>12 DEF RecvHave, Reading
  <2>2. At(e) \in Peers /\ Updates(doc[At(e)] \ v) \in Msg
    BY EndFacts, FrameTypes
  <2>3. Sent(rest, e, Updates(doc[At(e)] \ v)) \in [Ends -> Seq(Msg)]
    BY <2>1, <2>2, SentFacts
  <2> HIDE DEF v, rest
  <2>4. \/ chan' = rest /\ acked' = [acked EXCEPT ![e] = v]
        \/ /\ chan' = Sent(rest, e, Updates(doc[At(e)] \ v))
           /\ acked' = [acked EXCEPT ![e] = doc[At(e)]]
    BY <1>12 DEF RecvHave, v, rest
  <2>5. chan' \in [Ends -> Seq(Msg)] /\ acked' \in [Ends -> SUBSET Ops]
    BY <2>1, <2>2, <2>3, <2>4
  <2> QED BY <1>12, <2>5 DEF RecvHave
<1>13. ASSUME NEW e \in Ends, RecvUpdates(e) PROVE TypeOK'
  <2>1. At(e) \in Peers /\ Head(chan[e]).ops \subseteq Ops
        /\ [chan EXCEPT ![e] = Tail(@)] \in [Ends -> Seq(Msg)]
    BY <1>11, <1>13, EndFacts DEF RecvUpdates, Reading
  <2>2. chan' \in [Ends -> Seq(Msg)] /\ status' \in [Ends -> Status]
    <3>1. [chan EXCEPT ![e] = <<>>] \in [Ends -> Seq(Msg)]
      BY EmptyQueue
    <3>2. [status EXCEPT ![e] = "down"] \in [Ends -> Status]
      BY DEF Status
    <3>3. \/ status' = [status EXCEPT ![e] = "down"] /\ chan' = [chan EXCEPT ![e] = <<>>]
          \/ status' = status /\ chan' = [chan EXCEPT ![e] = Tail(@)]
      BY <1>13 DEF RecvUpdates
    <3> QED BY <2>1, <3>1, <3>2, <3>3
  <2>3. nudged' \subseteq Ends /\ unsaved' \subseteq Peers
    BY <1>13, <2>1 DEF RecvUpdates, Nudge, Sessions, Peers
  <2>4. doc' \in [Peers -> SUBSET Ops]
    BY <1>13, <2>1 DEF RecvUpdates, Applicable
  <2> QED BY <1>13, <2>2, <2>3, <2>4 DEF RecvUpdates
<1>14. ASSUME NEW e \in Ends, RecvRefused(e) PROVE TypeOK'
  <2>1. At(e) \in Peers
    BY EndFacts
  <2> QED BY <1>3, <1>14, <2>1 DEF RecvRefused
<1>15. ASSUME NEW e \in Ends, RecvNudge(e) PROVE TypeOK'
  <2>1. At(e) \in Peers /\ Updates(doc[At(e)] \ acked[e]) \in Msg
    BY EndFacts, FrameTypes
  <2>2. Sent(chan, e, Updates(doc[At(e)] \ acked[e])) \in [Ends -> Seq(Msg)]
    BY <2>1, SentFacts
  <2>3. chan' \in [Ends -> Seq(Msg)]
    BY <1>15, <2>2 DEF RecvNudge
  <2>4. acked' \in [Ends -> SUBSET Ops]
    BY <1>15, <2>1 DEF RecvNudge
  <2> QED BY <1>15, <2>3, <2>4 DEF RecvNudge
<1>23. ASSUME NEW e \in Ends, NEW o \in Ops, NEW mark, NEW ch \in [Ends -> Seq(Msg)],
              PendingRacing(e, mark, ch, o)
       PROVE  TypeOK'
  <2> DEFINE U == (doc[At(e)] \cup {o}) \ mark
  <2>1. At(e) \in Peers /\ Updates(U) \in Msg
    BY EndFacts, FrameTypes
  <2>2. Sent(ch, e, Updates(U)) \in [Ends -> Seq(Msg)]
    BY <2>1, SentFacts
  <2>3. chan' = Sent(ch, e, Updates(U)) /\ acked' = [acked EXCEPT ![e] = doc[At(e)]]
    BY <1>23 DEF PendingRacing, MeasureThenExport
  <2>4. chan' \in [Ends -> Seq(Msg)] /\ acked' \in [Ends -> SUBSET Ops]
    BY <2>1, <2>2, <2>3
  <2> HIDE DEF U
  <2> QED BY <1>23, <2>1, <2>4 DEF PendingRacing, RacingCommit, Nudge, Sessions
<1>24. ASSUME NEW e \in Ends, NEW o \in Ops, RecvHaveRacing(e, o) PROVE TypeOK'
  BY <1>11, <1>23, <1>24 DEF RecvHaveRacing, Reading
<1>16. ASSUME NEW e \in Ends, NEW o \in Ops, RecvNudgeRacing(e, o) PROVE TypeOK'
  BY <1>16, <1>23 DEF RecvNudgeRacing
<1>17. ASSUME NEW e \in Ends, Drop(e) PROVE TypeOK'
  BY <1>3, <1>17 DEF Drop
<1>18. ASSUME NEW e \in Ends, Hangup(e) PROVE TypeOK'
  BY <1>3, <1>18 DEF Hangup
<1>19. ASSUME NEW s \in Spokes, NEW g \in SUBSET Perms, SetTrust(s, g) PROVE TypeOK'
  BY <1>19 DEF SetTrust
<1>20. ASSUME NEW s \in Spokes, Revoke(s) PROVE TypeOK'
  BY <1>3, <1>20 DEF Revoke
<1>21. CASE UNCHANGED vars
  BY <1>21 DEF vars
<1> QED
  BY <1>1, <1>2, <1>5, <1>6, <1>7, <1>8, <1>9, <1>10, <1>12, <1>13, <1>14,
     <1>15, <1>16, <1>17, <1>18, <1>19, <1>20, <1>21, <1>22, <1>24 DEF Next

\* Every variable keeps its type along every behaviour of live sync.
THEOREM TypeCorrect == Spec => []TypeOK
  BY InitType, NextType, PTL DEF Spec

-----------------------------------------------------------------------------
(* The inductive invariant *)

\* The invariant holds initially.
LEMMA InitInv == Init => IndInv
<1> SUFFICES ASSUME Init PROVE IndInv
  OBVIOUS
<1>1. TypeOK
  BY InitType
<1>2. \A e \in Ends : chan[e] = <<>> /\ status[e] = "idle" /\ acked[e] = {} /\ InFlight(e) = {}
  BY EmptyQueue DEF Init, InFlight
<1>3. LinkLife
  BY <1>2, LinkFacts DEF LinkLife, Init
<1>4. OnlyMade /\ Causal /\ PushGated /\ PullGated
  BY <1>2 DEF OnlyMade, Causal, PushGated, PullGated, Init, Peers
<1>5. InOrder /\ HaveSound /\ AckedSound /\ FlightGated
  BY <1>2, EmptyQueue, EndFacts DEF InOrder, HaveSound, AckedSound, FlightGated
<1> QED BY <1>1, <1>3, <1>4, <1>5 DEF IndInv

\* An end nobody disturbs keeps its part of the invariant while documents grow.
LEMMA StillOrdered ==
  ASSUME IndInv, TypeOK', NEW e \in Ends, Imports(e),
         doc[At(e)] \subseteq doc'[At(e)], \A o \in made : deps'[o] = deps[o]
  PROVE  Ordered(chan[e], doc'[At(e)], deps')
<1>1. chan[e] \in Seq(Msg) /\ Ordered(chan[e], doc[At(e)], deps)
  BY DEF IndInv, TypeOK, InOrder
<1>2. \A u \in Carried(chan[e], Len(chan[e])) : deps'[u] = deps[u]
  BY DEF IndInv, OnlyMade, InFlight
<1>3. Ordered(chan[e], doc[At(e)], deps')
  BY <1>1, <1>2, OrderedDeps
<1> QED BY <1>1, <1>3, OrderedMono

\* A queue nobody touched is sound while its sender only grows.
LEMMA StillAnnounced ==
  ASSUME IndInv, NEW e \in Ends, status[Far(e)] = "up", chan'[e] = chan[e],
         doc[At(Far(e))] \subseteq doc'[At(Far(e))]
  PROVE  Announced(chan'[e], doc'[At(Far(e))])
<1>1. chan[e] \in Seq(Msg) /\ Announced(chan[e], doc[At(Far(e))])
  BY DEF IndInv, TypeOK, HaveSound
<1> QED BY <1>1, AnnouncedMono

\* Sessions ending, with or without their process restarting from its
\* snapshot, keep the invariant: a peer falls back only when every session
\* that knew more about it is gone.
LEMMA StopKeeps ==
  ASSUME IndInv, TypeOK', NEW D \in SUBSET Ends, Stopped(D),
         \A e \in D : status[e] # "idle",
         \A p \in Peers : \/ doc'[p] = doc[p]
                          \/ /\ doc'[p] = saved[p]
                             /\ \A e \in Ends : At(e) = p => e \in D \/ status[e] = "idle",
         UNCHANGED <<saved, made, deps, granted, acked>>
  PROVE  IndInv'
<1> USE DEF IndInv
<1>1. \A e \in Ends :
        /\ e \in D => status'[e] = "down" /\ chan'[e] = <<>>
        /\ e \notin D => status'[e] = status[e] /\ chan'[e] \in {chan[e], Whole(chan[e])}
        /\ e \notin D /\ Far(e) \notin D => chan'[e] = chan[e]
        /\ chan[e] \in Seq(Msg)
        /\ chan[e] = <<>> => chan'[e] = <<>>
  BY WholeFacts DEF Stopped, TypeOK
<1>2. \A p \in Peers : doc'[p] \subseteq doc[p] \cup saved[p]
  OBVIOUS
<1>3. \A e \in Ends : /\ InFlight(e)' \subseteq InFlight(e)
                      /\ e \notin D /\ Far(e) \notin D => InFlight(e)' = InFlight(e)
  <2> TAKE e \in Ends
  <2>1. CASE e \in D
    BY <1>1, <2>1, EmptyQueue DEF InFlight
  <2>2. CASE e \notin D
    BY <1>1, <2>2, WholeKeeps DEF InFlight
  <2> QED BY <2>1, <2>2
<1>4. \A e \in Ends : e \notin D /\ status[e] # "idle" => doc'[At(e)] = doc[At(e)]
  BY EndFacts
<1>5. LinkLife'
  BY <1>1, LinkFacts DEF LinkLife
<1>6. OnlyMade'
  BY <1>2, <1>3 DEF OnlyMade
<1>7. Causal'
  BY DEF Causal
<1>8. InOrder'
  <2> SUFFICES ASSUME NEW e \in Ends, Imports(e)' PROVE Ordered(chan'[e], doc'[At(e)], deps')
    BY DEF InOrder
  <2>1. e \notin D /\ status'[e] = status[e]
    BY <1>1 DEF Imports
  <2>2. Imports(e)
    BY <2>1 DEF Imports, Grants
  <2>3. CASE status[e] = "idle"
    <3>1. chan[e] = <<>>
      BY <2>3, EndFacts, LinkFacts DEF LinkLife
    <3> QED BY <1>1, <3>1, EmptyQueue
  <2>4. CASE status[e] # "idle"
    <3>1. Ordered(chan[e], doc'[At(e)], deps')
      BY <1>4, <2>1, <2>2, <2>4, StillOrdered
    <3> QED BY <1>1, <2>1, <3>1, WholeKeeps
  <2> QED BY <2>3, <2>4
<1>9. HaveSound'
  <2> SUFFICES ASSUME NEW e \in Ends, status'[Far(e)] = "up"
               PROVE  Announced(chan'[e], doc'[At(Far(e))])
    BY DEF HaveSound
  <2>1. Far(e) \in Ends /\ Far(e) \notin D /\ status[Far(e)] = "up"
    BY <1>1, EndFacts
  <2>2. doc'[At(Far(e))] = doc[At(Far(e))]
    BY <1>4, <2>1
  <2>3. CASE e \in D
    BY <1>1, <2>3, EmptyQueue
  <2>4. CASE e \notin D
    BY <1>1, <2>1, <2>2, <2>4, StillAnnounced
  <2> QED BY <2>3, <2>4
<1>10. AckedSound'
  <2> SUFFICES ASSUME NEW e \in Ends, status'[e] = "up", Imports(Far(e))'
               PROVE  acked[e] \subseteq doc'[At(Far(e))] \cup InFlight(Far(e))'
    BY DEF AckedSound
  <2>1. Far(e) \in Ends /\ Far(e) \notin D /\ status[e] = "up"
        /\ status'[Far(e)] = status[Far(e)] /\ Far(Far(e)) = e /\ e \notin D
    BY <1>1, EndFacts DEF Imports
  <2>2. Imports(Far(e))
    BY <2>1 DEF Imports, Grants
  <2>3. status[Far(e)] # "idle"
    BY <2>1, EndFacts, LinkFacts DEF LinkLife
  <2>4. doc'[At(Far(e))] = doc[At(Far(e))] /\ InFlight(Far(e))' = InFlight(Far(e))
    BY <1>3, <1>4, <2>1, <2>3
  <2> QED BY <2>1, <2>2, <2>4 DEF AckedSound
<1>11. PushGated' /\ PullGated' /\ FlightGated'
  <2>1. Pushers' = Pushers /\ Pullers' = Pullers
    BY DEF Pushers, Pullers
  <2>2. PushGated'
    BY <1>2, <2>1 DEF PushGated
  <2>3. PullGated'
    BY <1>2, <2>1 DEF PullGated, Peers
  <2>4. FlightGated'
    BY <1>3, <2>1 DEF FlightGated
  <2> QED BY <2>2, <2>3, <2>4
<1> QED BY <1>5, <1>6, <1>7, <1>8, <1>9, <1>10, <1>11

\* The channels ch carry what chan carries, in the same causal order: chan
\* itself, or chan less a version somebody has read.
SameFlight(ch) ==
  /\ ch \in [Ends -> Seq(Msg)]
  /\ \A f \in Ends :
       /\ Carried(ch[f], Len(ch[f])) = InFlight(f)
       /\ Imports(f) => Ordered(ch[f], doc[At(f)], deps)
       /\ status[Far(f)] = "up" => Announced(ch[f], doc[At(Far(f))])
       /\ chan[f] = <<>> => ch[f] = <<>>

\* The channels carry what they carry.
LEMMA SameFlightChan == IndInv => SameFlight(chan)
  BY DEF IndInv, SameFlight, TypeOK, InFlight, InOrder, HaveSound

\* Taking a version off a queue changes nothing in flight.
LEMMA SameFlightHave ==
  ASSUME IndInv, NEW e \in Ends, chan[e] # <<>>, Head(chan[e]).type = "Have"
  PROVE  SameFlight([chan EXCEPT ![e] = Tail(@)])
<1> DEFINE ch == [chan EXCEPT ![e] = Tail(@)]
<1>1. chan \in [Ends -> Seq(Msg)] /\ chan[e] \in Seq(Msg)
  BY DEF IndInv, TypeOK
<1>2. ch \in [Ends -> Seq(Msg)]
  BY <1>1, CarriedTail
<1> SUFFICES ASSUME NEW f \in Ends
             PROVE  /\ Carried(ch[f], Len(ch[f])) = InFlight(f)
                    /\ Imports(f) => Ordered(ch[f], doc[At(f)], deps)
                    /\ status[Far(f)] = "up" => Announced(ch[f], doc[At(Far(f))])
                    /\ chan[f] = <<>> => ch[f] = <<>>
  BY <1>2 DEF SameFlight
<1>3. CASE f # e
  BY <1>1, <1>3, SameFlightChan DEF SameFlight
<1>4. CASE f = e
  <2>1. ch[f] = Tail(chan[e])
    BY <1>1, <1>4
  <2>2. Carried(Tail(chan[e]), Len(Tail(chan[e]))) = InFlight(e)
    <3> DEFINE q == chan[e]
    <3> HIDE DEF q
    <3>1. q \in Seq(Msg) /\ q # <<>> /\ Head(q).type = "Have"
      BY <1>1 DEF q
    <3>2. Carried(Tail(q), Len(Tail(q))) = Carried(q, Len(q))
      BY <3>1, CarriedTailHave
    <3> QED BY <3>2 DEF q, InFlight
  <2>3. Imports(e) => Ordered(Tail(chan[e]), doc[At(e)], deps)
    BY <1>1, OrderedTail DEF IndInv, InOrder
  <2>4. status[Far(e)] = "up" => Announced(Tail(chan[e]), doc[At(Far(e))])
    BY <1>1, AnnouncedTail DEF IndInv, HaveSound
  <2> QED BY <1>4, <2>1, <2>2, <2>3, <2>4
<1> QED BY <1>3, <1>4

\* A document that gains a new operation of its owner, or nothing.
Grows(p, W) ==
  /\ doc' = [doc EXCEPT ![p] = W] /\ doc[p] \subseteq W
  /\ made \subseteq made' /\ W \subseteq made' /\ UNCHANGED saved
  /\ \A o \in made : deps'[o] = deps[o]
  /\ \A o \in W : deps'[o] \subseteq W
  /\ \A o \in W : o \in doc[p] \/ Author[o] = p

\* A local commit grows one document by an operation that depends on it.
LEMMA CommitGrows ==
  ASSUME IndInv, NEW p \in Peers, NEW o \in Ops, o \notin made, Author[o] = p,
         made' = made \cup {o}, deps' = [deps EXCEPT ![o] = doc[p]],
         doc' = [doc EXCEPT ![p] = @ \cup {o}], UNCHANGED saved
  PROVE  Grows(p, doc[p] \cup {o})
<1>1. doc[p] \subseteq made /\ \A u \in doc[p] : deps[u] \subseteq doc[p]
  BY DEF IndInv, OnlyMade, Causal
<1>2. deps \in [Ops -> SUBSET Ops] /\ made \subseteq Ops /\ doc \in [Peers -> SUBSET Ops]
  BY DEF IndInv, TypeOK
<1> QED BY <1>1, <1>2 DEF Grows

\* Growing one document keeps the documents closed and the gates.
LEMMA GrowsKeeps ==
  ASSUME IndInv, TypeOK', NEW p \in Peers, NEW W \in SUBSET Ops, Grows(p, W),
         UNCHANGED granted
  PROVE  /\ Causal' /\ PushGated' /\ PullGated'
         /\ \A q \in Peers : doc[q] \subseteq doc'[q] /\ doc'[q] \subseteq made' /\ saved'[q] \subseteq made'
         /\ \A q \in Peers : q # p => doc'[q] = doc[q]
         /\ doc'[p] = W
<1> USE DEF IndInv
<1>1. doc \in [Peers -> SUBSET Ops] /\ Pushers' = Pushers /\ Pullers' = Pullers
  BY DEF TypeOK, Pushers, Pullers, Grows
<1>2. doc'[p] = W /\ \A q \in Peers : q # p => doc'[q] = doc[q]
  BY <1>1 DEF Grows
<1>3. \A q \in Peers : doc[q] \subseteq doc'[q] /\ doc'[q] \subseteq made' /\ saved'[q] \subseteq made'
  BY <1>2 DEF Grows, OnlyMade
<1>4. Causal'
  <2>1. ASSUME NEW q \in Peers, NEW o \in saved[q] PROVE deps'[o] \subseteq saved[q]
    BY <2>1 DEF Grows, OnlyMade, Causal
  <2>2. ASSUME NEW q \in Peers, NEW o \in doc'[q] PROVE deps'[o] \subseteq doc'[q]
    BY <1>2, <2>2 DEF Grows, OnlyMade, Causal
  <2> QED BY <2>1, <2>2 DEF Causal, Grows
<1>5. PushGated'
  BY <1>1, <1>2 DEF PushGated, Grows
<1>6. PullGated'
  BY <1>1, <1>2 DEF PullGated, Grows, Peers
<1> QED BY <1>2, <1>3, <1>4, <1>5, <1>6

\* Sending the gap between what the peer is known to hold and one's own
\* document, and marking no more than what was sent, keeps the invariant.
LEMMA PushKeeps ==
  ASSUME IndInv, TypeOK', NEW e \in Ends, status[e] = "up", "pull" \in Grants(e),
         NEW v \in SUBSET Ops, NEW W \in SUBSET Ops, NEW ch, SameFlight(ch),
         Imports(Far(e)) => v \subseteq doc[At(Far(e))] \cup InFlight(Far(e)),
         Grows(At(e), W),
         chan' = Sent(ch, e, Updates(W \ v)),
         acked' = [acked EXCEPT ![e] = doc[At(e)]],
         UNCHANGED <<status, granted>>
  PROVE  IndInv'
<1> USE DEF IndInv
<1> DEFINE p == At(e)
           f == Far(e)
           m == Updates(W \ v)
<1>1. /\ p \in Peers /\ f \in Ends /\ f # e /\ Far(f) = e /\ At(f) \in Peers /\ At(f) # p
      /\ m \in Msg /\ m.type = "Updates" /\ m.ops = W \ v
  BY EndFacts, FrameTypes DEF Updates
<1> HIDE DEF m
<1>2. /\ \A g \in Ends : g # f => chan'[g] = ch[g]
      /\ status[f] = "down" => chan'[f] = ch[f]
      /\ status[f] # "down" => chan'[f] = Append(ch[f], m)
  <2>1. ch \in [Ends -> Seq(Msg)] /\ status \in [Ends -> Status] /\ chan' = Sent(ch, e, m)
    BY DEF SameFlight, TypeOK, m
  <2>2. /\ \A g \in Ends : g # Far(e) => Sent(ch, e, m)[g] = ch[g]
        /\ status[Far(e)] = "down" => Sent(ch, e, m)[Far(e)] = ch[Far(e)]
        /\ status[Far(e)] # "down" => Sent(ch, e, m)[Far(e)] = Append(ch[Far(e)], m)
    BY <1>1, <2>1 DEF Sent
  <2> QED BY <2>1, <2>2
<1>3. /\ Causal' /\ PushGated' /\ PullGated'
      /\ \A q \in Peers : doc[q] \subseteq doc'[q] /\ doc'[q] \subseteq made' /\ saved'[q] \subseteq made'
      /\ doc'[At(f)] = doc[At(f)] /\ doc'[p] = W
  BY <1>1, GrowsKeeps
<1>4. /\ \A g \in Ends : g # f \/ status[f] = "down" => InFlight(g)' = InFlight(g)
      /\ status[f] # "down" => InFlight(f)' = InFlight(f) \cup (W \ v)
  <2>1. \A g \in Ends : g # f \/ status[f] = "down" => chan'[g] = ch[g]
    BY <1>2
  <2>2. ch[f] \in Seq(Msg)
    BY <1>1 DEF SameFlight
  <2>3. status[f] # "down" => InFlight(f)' = Carried(ch[f], Len(ch[f])) \cup (W \ v)
    <3> SUFFICES ASSUME status[f] # "down"
                 PROVE  InFlight(f)' = Carried(ch[f], Len(ch[f])) \cup (W \ v)
      OBVIOUS
    <3>1. chan'[f] = Append(ch[f], m)
      BY <1>2
    <3>2. InFlight(f)' = Carried(Append(ch[f], m), Len(Append(ch[f], m)))
      BY <3>1 DEF InFlight
    <3> QED BY <1>1, <2>2, <3>2, CarriedAppendUpdates
  <2> QED BY <1>1, <2>1, <2>3 DEF SameFlight, InFlight
<1>5. LinkLife'
  <2>1. status[e] # "idle" /\ status[f] # "idle"
    BY <1>1, EndFacts, LinkFacts DEF LinkLife
  <2>2. \A g \in Ends : chan[g] = <<>> /\ g # f => chan'[g] = <<>>
    BY <1>2 DEF SameFlight
  <2>3. \A g \in Ends : g # e => acked'[g] = acked[g]
    BY DEF TypeOK
  <2>4. ASSUME NEW l \in Links
        PROVE  /\ SpokeEnd(l) \in Ends /\ HostEnd(l) \in Ends
               /\ status[SpokeEnd(l)] = "idle" =>
                    /\ SpokeEnd(l) # e /\ HostEnd(l) # e
                    /\ SpokeEnd(l) # f /\ HostEnd(l) # f
               /\ status[SpokeEnd(l)] \in {"idle", "opening"} =>
                    SpokeEnd(l) # e /\ HostEnd(l) # f
               /\ status[HostEnd(l)] \in {"idle", "waiting", "greeting", "opening"} =>
                    HostEnd(l) # e /\ SpokeEnd(l) # f
    <3>1. status[SpokeEnd(l)] = "idle" => status[HostEnd(l)] = "idle"
      BY DEF LinkLife
    <3>2. (SpokeEnd(l) = f => HostEnd(l) = e) /\ (HostEnd(l) = f => SpokeEnd(l) = e)
      BY <1>1, LinkFacts
    <3> QED BY <2>1, <3>1, <3>2, LinkFacts
  <2>5. ASSUME NEW l \in Links
        PROVE  /\ status[SpokeEnd(l)] = "idle" => chan'[SpokeEnd(l)] = <<>> /\ chan'[HostEnd(l)] = <<>>
               /\ status[SpokeEnd(l)] \in {"idle", "opening"} =>
                    acked'[SpokeEnd(l)] = {} /\ chan'[HostEnd(l)] = <<>>
               /\ status[HostEnd(l)] \in {"idle", "waiting", "greeting", "opening"} =>
                    acked'[HostEnd(l)] = {} /\ chan'[SpokeEnd(l)] = <<>>
    BY <2>2, <2>3, <2>4 DEF LinkLife
  <2> QED BY <2>5 DEF LinkLife
<1>6. OnlyMade'
  <2>1. \A g \in Ends : InFlight(g)' \subseteq InFlight(g) \cup W
    BY <1>1, <1>4
  <2> QED BY <1>3, <2>1 DEF OnlyMade, Grows
<1>7. \A g \in Ends : Imports(g)' = Imports(g)
  BY DEF Imports, Grants
<1>8. ASSUME NEW g \in Ends, Imports(g) PROVE Ordered(ch[g], doc'[At(g)], deps')
  <2>1. ch[g] \in Seq(Msg) /\ Ordered(ch[g], doc[At(g)], deps)
    BY <1>8 DEF SameFlight
  <2>2. \A u \in Carried(ch[g], Len(ch[g])) : deps'[u] = deps[u]
    BY DEF SameFlight, OnlyMade, Grows
  <2>3. Ordered(ch[g], doc[At(g)], deps')
    BY <2>1, <2>2, OrderedDeps
  <2> QED BY <1>3, <2>1, <2>3, OrderedMono, EndFacts
<1>9. InOrder'
  <2> SUFFICES ASSUME NEW g \in Ends, Imports(g) PROVE Ordered(chan'[g], doc'[At(g)], deps')
    BY <1>7 DEF InOrder
  <2>1. CASE g # f
    BY <1>2, <1>8, <2>1
  <2>2. CASE g = f
    <3>1. chan'[f] = Append(ch[f], m) /\ ch[f] \in Seq(Msg)
      BY <1>1, <1>2, <2>2 DEF SameFlight, Imports
    <3>2. v \subseteq doc'[At(f)] \cup Carried(ch[f], Len(ch[f]))
      BY <1>1, <1>3, <2>2 DEF SameFlight
    <3>3. \A u \in m.ops : deps'[u] \subseteq doc'[At(f)] \cup Carried(ch[f], Len(ch[f])) \cup m.ops
      BY <1>1, <3>2 DEF Grows
    <3>4. Ordered(ch[f], doc'[At(f)], deps')
      BY <1>1, <1>8, <2>2
    <3>5. m \in Msg
      BY <1>1
    <3>6. Ordered(Append(ch[f], m), doc'[At(f)], deps')
      BY <3>1, <3>3, <3>4, <3>5, OrderedAppend
    <3> QED BY <2>2, <3>1, <3>6
  <2> QED BY <2>1, <2>2
<1>10. HaveSound'
  <2> SUFFICES ASSUME NEW g \in Ends, status[Far(g)] = "up"
               PROVE  Announced(chan'[g], doc'[At(Far(g))])
    BY DEF HaveSound
  <2>1. ch[g] \in Seq(Msg) /\ Announced(ch[g], doc[At(Far(g))]) /\ At(Far(g)) \in Peers
    BY EndFacts DEF SameFlight
  <2>2. Announced(ch[g], doc'[At(Far(g))])
    BY <1>3, <2>1, AnnouncedMono
  <2>3. chan'[g] = ch[g] \/ chan'[g] = Append(ch[g], m)
    BY <1>2
  <2> QED BY <1>1, <2>1, <2>2, <2>3, AnnouncedAppend
<1>11. AckedSound'
  <2> SUFFICES ASSUME NEW g \in Ends, status[g] = "up", Imports(Far(g))
               PROVE  acked'[g] \subseteq doc'[At(Far(g))] \cup InFlight(Far(g))'
    BY <1>7, EndFacts DEF AckedSound
  <2>1. CASE g = e
    <3>1. status[f] # "down"
      BY <2>1 DEF Imports
    <3>2. W \subseteq doc'[At(f)] \cup InFlight(f)'
      BY <1>3, <1>4, <2>1, <3>1
    <3> QED BY <2>1, <3>2 DEF Grows, TypeOK
  <2>2. CASE g # e
    <3>1. acked'[g] = acked[g]
      BY <2>2 DEF TypeOK
    <3>2. Far(g) \in Ends /\ At(Far(g)) \in Peers
      BY EndFacts
    <3>3. InFlight(Far(g)) \subseteq InFlight(Far(g))'
      BY <1>1, <1>4, <3>2
    <3> QED BY <1>3, <3>1, <3>2, <3>3 DEF AckedSound
  <2> QED BY <2>1, <2>2
<1>12. FlightGated'
  <2> SUFFICES ASSUME NEW g \in Ends, NEW o \in InFlight(g)'
               PROVE  /\ Author[o] \in {At(Far(g)), Host} \cup Pushers
                      /\ g[2] = "spoke" => "pull" \in granted[g[1]]
    BY DEF FlightGated, Pushers
  <2>1. CASE o \in InFlight(g)
    BY <2>1 DEF FlightGated
  <2>2. CASE o \notin InFlight(g)
    <3>1. g = f /\ o \in W
      BY <1>4, <2>2
    <3>2. Author[o] \in {p, Host} \cup Pushers
      BY <1>1, <3>1 DEF Grows, PushGated
    <3>3. g[2] = "spoke" => "pull" \in granted[g[1]]
      BY <3>1 DEF Grants, Far, Ends
    <3> QED BY <1>1, <3>1, <3>2, <3>3
  <2> QED BY <2>1, <2>2
<1> QED BY <1>3, <1>5, <1>6, <1>9, <1>10, <1>11, <1>12

\* A step that sends nothing: a commit, a version read, a mark moved to what
\* the peer announced.
LEMMA QuietKeeps ==
  ASSUME IndInv, TypeOK', NEW p \in Peers, NEW W \in SUBSET Ops, Grows(p, W),
         NEW ch, SameFlight(ch), chan' = ch, UNCHANGED <<status, granted>>,
         \A g \in Ends : \/ acked'[g] = acked[g]
                         \/ /\ status[g] = "up"
                            /\ Imports(Far(g)) =>
                                 acked'[g] \subseteq doc[At(Far(g))] \cup InFlight(Far(g))
  PROVE  IndInv'
<1> USE DEF IndInv
<1>1. /\ Causal' /\ PushGated' /\ PullGated'
      /\ \A q \in Peers : doc[q] \subseteq doc'[q] /\ doc'[q] \subseteq made' /\ saved'[q] \subseteq made'
  BY GrowsKeeps
<1>2. \A g \in Ends : InFlight(g)' = InFlight(g) /\ Imports(g)' = Imports(g)
  BY DEF SameFlight, InFlight, Imports, Grants
<1>3. \A g \in Ends : At(g) \in Peers /\ Far(g) \in Ends /\ At(Far(g)) \in Peers
  BY EndFacts
<1>4. LinkLife'
  <2>1. \A g \in Ends : chan[g] = <<>> => chan'[g] = <<>>
    BY DEF SameFlight
  <2>2. \A g \in Ends : status[g] # "up" => acked'[g] = acked[g]
    OBVIOUS
  <2> QED BY <2>1, <2>2, LinkFacts DEF LinkLife
<1>5. OnlyMade'
  BY <1>1, <1>2 DEF OnlyMade, Grows
<1>6. InOrder'
  <2> SUFFICES ASSUME NEW g \in Ends, Imports(g) PROVE Ordered(chan'[g], doc'[At(g)], deps')
    BY <1>2 DEF InOrder
  <2>1. ch[g] \in Seq(Msg) /\ Ordered(ch[g], doc[At(g)], deps)
    BY DEF SameFlight
  <2>2. \A u \in Carried(ch[g], Len(ch[g])) : deps'[u] = deps[u]
    BY DEF SameFlight, OnlyMade, Grows
  <2>3. Ordered(ch[g], doc[At(g)], deps')
    BY <2>1, <2>2, OrderedDeps
  <2> QED BY <1>1, <1>3, <2>1, <2>3, OrderedMono
<1>7. HaveSound'
  <2> SUFFICES ASSUME NEW g \in Ends, status[Far(g)] = "up"
               PROVE  Announced(chan'[g], doc'[At(Far(g))])
    BY DEF HaveSound
  <2>1. ch[g] \in Seq(Msg) /\ Announced(ch[g], doc[At(Far(g))])
    BY DEF SameFlight
  <2> QED BY <1>1, <1>3, <2>1, AnnouncedMono
<1>8. AckedSound'
  <2> SUFFICES ASSUME NEW g \in Ends, status[g] = "up", Imports(Far(g))
               PROVE  acked'[g] \subseteq doc'[At(Far(g))] \cup InFlight(Far(g))'
    BY <1>2, <1>3 DEF AckedSound
  <2>1. acked'[g] \subseteq doc[At(Far(g))] \cup InFlight(Far(g))
    BY DEF AckedSound
  <2> QED BY <1>1, <1>2, <1>3, <2>1
<1>9. FlightGated'
  BY <1>2 DEF FlightGated, Pushers
<1> QED BY <1>1, <1>4, <1>5, <1>6, <1>7, <1>8, <1>9

\* An import keeps the invariant: the frame completes what the document had.
LEMMA ImportKeeps ==
  ASSUME IndInv, TypeOK', NEW e \in Ends, RecvUpdates(e)
  PROVE  IndInv'
<1> USE DEF IndInv
<1> DEFINE p == At(e)
           q == chan[e]
           U == Head(chan[e]).ops
<1>1. /\ status[e] = "up" /\ q # <<>> /\ q \in Seq(Msg) /\ Head(q).type = "Updates"
      /\ p \in Peers /\ U \subseteq Ops /\ doc \in [Peers -> SUBSET Ops]
  BY CarriedTail, EndFacts DEF RecvUpdates, Reading, TypeOK, Msg
<1>2. U \subseteq InFlight(e)
  <2>1. Head(q) = q[1] /\ 1 \in 1..Len(q)
    BY <1>1, CarriedTail
  <2> QED BY <1>1, <2>1 DEF InFlight, Carried
<1>3. "push" \in Grants(e) => Imports(e) /\ \A u \in U : deps[u] \subseteq doc[p] \cup U
  <2> SUFFICES ASSUME "push" \in Grants(e) PROVE Imports(e) /\ \A u \in U : deps[u] \subseteq doc[p] \cup U
    OBVIOUS
  <2>1. Imports(e)
    BY <1>1 DEF Imports
  <2>2. Ordered(q, doc[p], deps)
    BY <2>1 DEF InOrder
  <2> QED BY <1>1, <2>1, <2>2, OrderedHead
<1>4. "push" \in Grants(e) => Applicable(doc[p], U) = U
  BY <1>3 DEF Applicable
<1> DEFINE new == IF "push" \in Grants(e) THEN U ELSE {}
<1>5. /\ doc' = [doc EXCEPT ![p] = @ \cup new]
      /\ status' = status /\ chan' = [chan EXCEPT ![e] = Tail(@)]
      /\ UNCHANGED <<saved, made, deps, granted, acked>>
  BY <1>4 DEF RecvUpdates
<1>6. /\ doc'[p] = doc[p] \cup new /\ \A r \in Peers : r # p => doc'[r] = doc[r]
      /\ \A r \in Peers : doc[r] \subseteq doc'[r]
      /\ chan'[e] = Tail(q) /\ \A g \in Ends : g # e => chan'[g] = chan[g]
  BY <1>1, <1>5 DEF TypeOK
<1>7. /\ \A g \in Ends : Imports(g)' = Imports(g)
      /\ \A g \in Ends : At(g) \in Peers /\ Far(g) \in Ends /\ At(Far(g)) \in Peers
      /\ Pushers' = Pushers /\ Pullers' = Pullers
  BY <1>5, EndFacts DEF Imports, Grants, Pushers, Pullers
<1>8. /\ \A g \in Ends : g # e => InFlight(g)' = InFlight(g)
      /\ InFlight(e)' = Carried(Tail(q), Len(Tail(q)))
      /\ InFlight(e)' \subseteq InFlight(e)
      /\ InFlight(e) \subseteq InFlight(e)' \cup U
  <2>1. \A g \in Ends : g # e => InFlight(g)' = InFlight(g)
    BY <1>6 DEF InFlight
  <2>2. InFlight(e)' = Carried(Tail(q), Len(Tail(q)))
    BY <1>6 DEF InFlight
  <2>3. /\ Carried(Tail(q), Len(Tail(q))) \subseteq Carried(q, Len(q))
        /\ Carried(q, Len(q)) \subseteq Carried(Tail(q), Len(Tail(q)))
              \cup (IF Head(q).type = "Updates" THEN Head(q).ops ELSE {})
    BY <1>1, CarriedTail
  <2> QED BY <1>1, <2>1, <2>2, <2>3 DEF InFlight
<1>9. LinkLife'
  <2>1. \A g \in Ends : chan[g] = <<>> => chan'[g] = <<>>
    BY <1>1, <1>6
  <2> QED BY <1>5, <2>1, LinkFacts DEF LinkLife
<1>10. OnlyMade'
  BY <1>2, <1>5, <1>6, <1>8 DEF OnlyMade
<1>11. Causal'
  BY <1>3, <1>5, <1>6 DEF Causal
<1>12. InOrder'
  <2> SUFFICES ASSUME NEW g \in Ends, Imports(g) PROVE Ordered(chan'[g], doc'[At(g)], deps')
    BY <1>7 DEF InOrder
  <2>1. CASE g # e
    BY <1>5, <1>6, <1>7, <2>1, StillOrdered
  <2>2. CASE g = e
    <3>1. "push" \in Grants(e)
      BY <1>1, <2>2 DEF Imports
    <3>2. Ordered(q, doc[p], deps) /\ doc[p] \subseteq doc'[p] /\ U \subseteq doc'[p]
      BY <1>6, <2>2, <3>1 DEF InOrder
    <3>3. Ordered(Tail(q), doc'[p], deps)
      BY <1>1, <3>2, OrderedTail
    <3> QED BY <1>5, <1>6, <2>2, <3>3
  <2> QED BY <2>1, <2>2
<1>13. HaveSound'
  <2> SUFFICES ASSUME NEW g \in Ends, status[Far(g)] = "up"
               PROVE  Announced(chan'[g], doc'[At(Far(g))])
    BY <1>5 DEF HaveSound
  <2>1. CASE g # e
    BY <1>6, <1>7, <2>1, StillAnnounced
  <2>2. CASE g = e
    <3>1. Announced(Tail(q), doc[At(Far(e))]) /\ Tail(q) \in Seq(Msg)
      BY <1>1, <2>2, AnnouncedTail, CarriedTail DEF HaveSound
    <3> QED BY <1>6, <1>7, <2>2, <3>1, AnnouncedMono
  <2> QED BY <2>1, <2>2
<1>14. AckedSound'
  <2> SUFFICES ASSUME NEW g \in Ends, status[g] = "up", Imports(Far(g))
               PROVE  acked[g] \subseteq doc'[At(Far(g))] \cup InFlight(Far(g))'
    BY <1>5, <1>7 DEF AckedSound
  <2>1. acked[g] \subseteq doc[At(Far(g))] \cup InFlight(Far(g))
    BY DEF AckedSound
  <2>2. CASE Far(g) # e
    BY <1>6, <1>7, <1>8, <2>1, <2>2
  <2>3. CASE Far(g) = e
    <3>1. "push" \in Grants(e)
      BY <1>1, <2>3 DEF Imports
    <3> QED BY <1>6, <1>8, <2>1, <2>3, <3>1
  <2> QED BY <2>2, <2>3
<1>15. FlightGated'
  BY <1>5, <1>7, <1>8 DEF FlightGated
<1>16. PushGated'
  <2>1. ASSUME NEW o \in new PROVE Author[o] \in {p, Host} \cup Pushers
    <3>1. "push" \in Grants(e) /\ o \in InFlight(e)
      BY <1>2, <2>1
    <3>2. Author[o] \in {At(Far(e)), Host} \cup Pushers
      BY <3>1 DEF FlightGated
    <3>3. At(Far(e)) \in {Host} \cup Pushers
      BY <3>1 DEF Pushers, Grants, At, Far, Ends
    <3> QED BY <3>2, <3>3
  <2> QED BY <1>5, <1>6, <1>7, <2>1 DEF PushGated
<1>17. PullGated'
  <2>1. ASSUME NEW o \in new, p \in Spokes PROVE p \in Pullers
    <3>1. "pull" \in granted[e[1]] /\ p = PeerOf[e[1]]
      BY <1>2, <2>1 DEF FlightGated, At, Ends
    <3> QED BY <3>1, EndFacts DEF Pullers
  <2> QED BY <1>5, <1>6, <1>7, <2>1 DEF PullGated, Peers
<1> QED BY <1>9, <1>10, <1>11, <1>12, <1>13, <1>14, <1>15, <1>16, <1>17

\* Before a session has announced its version, where its task stands matters to
\* nobody.
LEMMA TaskKeeps ==
  ASSUME IndInv, TypeOK', LinkLife',
         \A e \in Ends : \/ status'[e] = status[e]
                         \/ status[e] \notin {"up", "down"} /\ status'[e] \notin {"up", "down"},
         UNCHANGED <<doc, saved, made, deps, granted, acked, chan>>
  PROVE  IndInv'
<1> USE DEF IndInv
<1>1. \A e \in Ends : /\ InFlight(e)' = InFlight(e) /\ Imports(e)' = Imports(e)
                      /\ status'[e] = "up" <=> status[e] = "up"
                      /\ Far(e) \in Ends
  BY EndFacts DEF InFlight, Imports, Grants
<1>2. OnlyMade' /\ Causal'
  BY <1>1 DEF OnlyMade, Causal
<1>3. PushGated' /\ PullGated' /\ FlightGated'
  BY <1>1 DEF PushGated, PullGated, FlightGated, Pushers, Pullers
<1>4. InOrder' /\ HaveSound' /\ AckedSound'
  BY <1>1 DEF InOrder, HaveSound, AckedSound
<1> QED BY <1>2, <1>3, <1>4

\* Dialing keeps the invariant: a fresh session believes nothing of its peer.
LEMMA DialKeeps ==
  ASSUME IndInv, TypeOK', NEW l \in Links, Dial(l)
  PROVE  IndInv'
<1> USE DEF IndInv
<1> DEFINE s == SpokeEnd(l)
           h == HostEnd(l)
<1>1. /\ s \in Ends /\ h \in Ends /\ s # h
      /\ status[s] = "idle" /\ status[h] = "idle" /\ chan[s] = <<>> /\ chan[h] = <<>>
      /\ acked[s] = {} /\ acked[h] = {} /\ granted[l] = {}
  BY LinkFacts DEF Dial, LinkLife
<1>2. /\ status'[s] = "opening" /\ status'[h] = "waiting"
      /\ \A g \in Ends : g # s /\ g # h => status'[g] = status[g]
      /\ UNCHANGED <<doc, saved, made, deps, granted, acked, chan>>
  BY <1>1 DEF Dial, docVars, TypeOK
<1>3. \A k \in Links : k # l => /\ SpokeEnd(k) \in Ends /\ HostEnd(k) \in Ends
                                /\ SpokeEnd(k) \notin {s, h} /\ HostEnd(k) \notin {s, h}
  BY LinkFacts
<1>4. LinkLife'
  BY <1>1, <1>2, <1>3 DEF LinkLife
<1> QED BY <1>1, <1>2, <1>4, TaskKeeps

\* So does accepting the session of a peer that was let in.
LEMMA AcceptKeeps ==
  ASSUME IndInv, TypeOK', NEW l \in Links, Accept(l)
  PROVE  IndInv'
<1> USE DEF IndInv
<1>1. /\ \A k \in Links : /\ SpokeEnd(k) \in Ends /\ HostEnd(k) \in Ends /\ SpokeEnd(k) # HostEnd(l)
                          /\ HostEnd(k) = HostEnd(l) => k = l
      /\ status[HostEnd(l)] = "greeting"
  BY LinkFacts DEF Accept, SpokeEnd, HostEnd
<1>2. /\ status'[HostEnd(l)] = "opening"
      /\ \A g \in Ends : g # HostEnd(l) => status'[g] = status[g]
      /\ UNCHANGED <<doc, saved, made, deps, granted, acked, chan>>
  BY <1>1 DEF Accept, docVars, TypeOK
<1>3. LinkLife'
  BY <1>1, <1>2 DEF LinkLife
<1> QED BY <1>1, <1>2, <1>3, TaskKeeps

\* A verdict keeps the invariant: nothing was granted on this link before.
LEMMA AuthorizeKeeps ==
  ASSUME IndInv, TypeOK', NEW l \in Links, Authorize(l)
  PROVE  IndInv'
<1> USE DEF IndInv
<1> DEFINE h == HostEnd(l)
<1>1. h \in Ends /\ status[h] = "waiting" /\ granted[l] = {} /\ status'[h] = "greeting"
  BY LinkFacts DEF Authorize, LinkLife, TypeOK
<1>2. UNCHANGED <<doc, saved, made, deps, acked, chan>>
  BY DEF Authorize, docVars
<1>3. /\ \A g \in Ends : g # h => status'[g] = status[g]
      /\ \A k \in Links : k # l => granted'[k] = granted[k]
  BY DEF Authorize, TypeOK
<1>4. \A g \in Ends : InFlight(g)' = InFlight(g) /\ (Imports(g)' => Imports(g))
  <2>1. \A g \in Ends : InFlight(g)' = InFlight(g)
    BY <1>2 DEF InFlight
  <2>2. ASSUME NEW g \in Ends, g # h, Imports(g)' PROVE Imports(g)
    <3>1. g[1] \in Links /\ (g[2] = "host" => g[1] # l)
      BY <2>2 DEF HostEnd, Ends
    <3> QED BY <1>3, <2>2, <3>1 DEF Imports, Grants
  <2>3. Imports(h)
    BY <1>1 DEF Imports
  <2> QED BY <2>1, <2>2, <2>3
<1>5. Pushers \subseteq Pushers' /\ Pullers \subseteq Pullers'
  BY <1>1, <1>3 DEF Pushers, Pullers
<1>6. LinkLife'
  <2>1. \A k \in Links : /\ SpokeEnd(k) \in Ends /\ HostEnd(k) \in Ends /\ SpokeEnd(k) # h
                         /\ HostEnd(k) = h => k = l
    BY LinkFacts DEF SpokeEnd, HostEnd
  <2> QED BY <1>1, <1>2, <1>3, <2>1 DEF LinkLife
<1>7. OnlyMade' /\ Causal' /\ PushGated' /\ PullGated'
  BY <1>2, <1>4, <1>5 DEF OnlyMade, Causal, PushGated, PullGated
<1>8. InOrder' /\ AckedSound'
  <2>1. InOrder'
    BY <1>2, <1>4 DEF InOrder
  <2>2. \A g \in Ends : status'[g] = "up" => status[g] = "up"
    BY <1>1, <1>3
  <2> QED BY <1>2, <1>4, <2>1, <2>2, EndFacts DEF AckedSound
<1>9. HaveSound'
  <2>1. \A g \in Ends : status'[g] = "up" => status[g] = "up"
    BY <1>1, <1>3
  <2> QED BY <1>2, <2>1, EndFacts DEF HaveSound
<1>10. FlightGated'
  <2>1. \A k \in Links : "pull" \in granted[k] => "pull" \in granted'[k]
    BY <1>1, <1>3
  <2> QED BY <1>4, <1>5, <2>1, EndFacts DEF FlightGated
<1> QED BY <1>6, <1>7, <1>8, <1>9, <1>10

\* The first frame of an end keeps the invariant, be it the version its
\* session announces or a refusal.
LEMMA AnswerKeeps ==
  ASSUME IndInv, TypeOK', NEW h \in Ends,
         Announce(h) \/ (h = HostEnd(h[1]) /\ h[1] \in Links /\ Refuse(h[1]))
  PROVE  IndInv'
<1> USE DEF IndInv
<1> DEFINE s == Far(h)
           l == h[1]
           m == IF status[h] = "opening" THEN Have(doc[At(h)]) ELSE Refused
<1>1. /\ s \in Ends /\ s # h /\ Far(s) = h /\ At(h) \in Peers /\ l \in Links
      /\ (h = SpokeEnd(l) /\ s = HostEnd(l)) \/ (h = HostEnd(l) /\ s = SpokeEnd(l))
  BY EndFacts
<1>2. /\ status[h] \in {"waiting", "opening"} /\ status[s] # "idle"
      /\ acked[h] = {} /\ chan[s] = <<>>
      /\ status[h] = "waiting" => h = HostEnd(l)
  <2>1. CASE Announce(h)
    <3>1. status[h] = "opening"
      BY <2>1 DEF Announce
    <3> QED BY <1>1, <3>1 DEF LinkLife
  <2>2. CASE h = HostEnd(l) /\ Refuse(l)
    <3>1. status[h] = "waiting"
      BY <2>2 DEF Refuse
    <3> QED BY <1>1, <2>2, <3>1 DEF LinkLife
  <2> QED BY <2>1, <2>2
<1>3. /\ m \in Msg /\ m.type # "Updates"
      /\ m.type = "Have" => m.ops = doc[At(h)]
  BY <1>1, FrameTypes DEF Have, Refused, TypeOK
<1>4. \/ status'[h] = "up" /\ chan'[h] = chan[h] /\ status[h] = "opening"
      \/ status'[h] = "down" /\ chan'[h] = <<>>
  BY <1>1 DEF Announce, Refuse, Sent, TypeOK
<1>5. /\ \A g \in Ends : g # h => status'[g] = status[g]
      /\ \A g \in Ends : g # h /\ g # s => chan'[g] = chan[g]
      /\ chan'[s] = chan[s] \/ chan'[s] = Append(chan[s], m)
  <2>1. /\ \A g \in Ends : g # s => Sent(chan, h, m)[g] = chan[g]
        /\ Sent(chan, h, m)[s] = chan[s] \/ Sent(chan, h, m)[s] = Append(chan[s], m)
        /\ Sent(chan, h, m) \in [Ends -> Seq(Msg)]
    <3>1. chan \in [Ends -> Seq(Msg)] /\ status \in [Ends -> Status]
      BY DEF TypeOK
    <3>2. Append(chan[s], m) \in Seq(Msg)
      BY <1>1, <1>3, <3>1
    <3> HIDE DEF m, IndInv
    <3> QED BY <1>1, <3>1, <3>2 DEF Sent
  <2>2. \A g \in Ends : g # h => status'[g] = status[g]
    BY <1>1 DEF Announce, Refuse, TypeOK
  <2>3. CASE Announce(h)
    <3>1. chan' = Sent(chan, h, m)
      BY <2>3 DEF Announce
    <3> QED BY <2>1, <2>2, <3>1
  <2>4. CASE h = HostEnd(l) /\ Refuse(l)
    <3>1. chan' = chan \/ chan' = [Sent(chan, h, m) EXCEPT ![h] = <<>>]
      BY <2>4 DEF Refuse
    <3> HIDE DEF m
    <3> QED BY <1>1, <2>1, <2>2, <3>1
  <2> QED BY <2>3, <2>4
<1>6. UNCHANGED <<doc, saved, made, deps, granted, acked>>
  BY DEF Announce, Refuse, docVars
<1> HIDE DEF m
<1>7. /\ chan[s] \in Seq(Msg) /\ chan[h] \in Seq(Msg)
      /\ Announced(chan'[s], doc[At(h)])
      /\ \A d, D : Ordered(chan'[s], d, D)
      /\ InFlight(s)' = {}
  <2>1. chan[s] \in Seq(Msg) /\ chan[h] \in Seq(Msg)
    BY <1>1 DEF TypeOK
  <2>2. Announced(chan[s], doc[At(h)]) /\ \A d, D : Ordered(chan[s], d, D)
    BY <1>2, EmptyQueue
  <2>3. Announced(Append(chan[s], m), doc[At(h)])
    BY <1>3, <2>1, <2>2, AnnouncedAppend
  <2>4. ASSUME NEW d, NEW D PROVE Ordered(Append(chan[s], m), d, D)
    BY <1>3, <2>1, <2>2, OrderedAppend
  <2>5. Carried(chan[s], Len(chan[s])) = {}
    BY <1>2, EmptyQueue
  <2>6. Carried(Append(chan[s], m), Len(Append(chan[s], m))) = {}
    BY <1>3, <2>1, <2>5, CarriedAppendOther
  <2>7. InFlight(s)' = {}
    BY <1>5, <2>5, <2>6 DEF InFlight
  <2>8. CASE chan'[s] = chan[s]
    BY <2>1, <2>2, <2>7, <2>8
  <2>9. CASE chan'[s] = Append(chan[s], m)
    BY <2>1, <2>3, <2>4, <2>7, <2>9
  <2> QED BY <1>5, <2>8, <2>9
<1>8. \A g \in Ends : /\ InFlight(g)' \subseteq InFlight(g)
                      /\ Imports(g)' => Imports(g)
                      /\ g # s /\ Imports(g)' => InFlight(g)' = InFlight(g)
  <2>1. \A g \in Ends : g # s /\ g # h => InFlight(g)' = InFlight(g)
    BY <1>5 DEF InFlight
  <2>2. CASE status'[h] = "up"
    <3>1. InFlight(h)' = InFlight(h)
      BY <1>4, <2>2 DEF InFlight
    <3>2. \A g \in Ends : Imports(g)' => Imports(g)
      BY <1>2, <1>4, <1>5, <1>6, <2>2 DEF Imports, Grants
    <3> QED BY <1>7, <2>1, <3>1, <3>2
  <2>3. CASE status'[h] = "down"
    <3>1. InFlight(h)' = {}
      BY <1>4, <2>3, EmptyQueue DEF InFlight
    <3>2. \A g \in Ends : Imports(g)' => Imports(g)
      BY <1>5, <1>6, <2>3 DEF Imports, Grants
    <3>3. ~Imports(h)'
      BY <2>3 DEF Imports
    <3> QED BY <1>7, <2>1, <3>1, <3>2, <3>3
  <2> QED BY <1>4, <2>2, <2>3
<1>9. LinkLife'
  <2> SUFFICES ASSUME NEW k \in Links
               PROVE  (/\ status[SpokeEnd(k)] = "idle" <=> status[HostEnd(k)] = "idle"
                       /\ status[SpokeEnd(k)] = "idle" => chan[SpokeEnd(k)] = <<>> /\ chan[HostEnd(k)] = <<>>
                       /\ status[SpokeEnd(k)] \notin {"waiting", "greeting"}
                       /\ status[SpokeEnd(k)] \in {"idle", "opening"} =>
                            acked[SpokeEnd(k)] = {} /\ chan[HostEnd(k)] = <<>>
                       /\ status[HostEnd(k)] \in {"idle", "waiting"} => granted[k] = {}
                       /\ status[HostEnd(k)] \in {"idle", "waiting", "greeting", "opening"} =>
                            acked[HostEnd(k)] = {} /\ chan[SpokeEnd(k)] = <<>>)'
    BY DEF LinkLife
  <2>1. CASE k = l
    <3>1. /\ status[SpokeEnd(l)] = "idle" => chan[SpokeEnd(l)] = <<>> /\ chan[HostEnd(l)] = <<>>
          /\ status[SpokeEnd(l)] \notin {"waiting", "greeting"}
          /\ status[SpokeEnd(l)] \in {"idle", "opening"} =>
               acked[SpokeEnd(l)] = {} /\ chan[HostEnd(l)] = <<>>
          /\ status[HostEnd(l)] \in {"idle", "waiting"} => granted[l] = {}
          /\ status[HostEnd(l)] \in {"idle", "waiting", "greeting", "opening"} =>
               acked[HostEnd(l)] = {} /\ chan[SpokeEnd(l)] = <<>>
      BY <1>1 DEF LinkLife
    <3> HIDE DEF IndInv
    <3>4. status'[s] = status[s] /\ acked' = acked /\ granted' = granted
      BY <1>1, <1>5, <1>6
    <3>2. CASE h = SpokeEnd(l) /\ s = HostEnd(l)
      BY <1>2, <1>4, <2>1, <3>1, <3>2, <3>4
    <3>3. CASE h = HostEnd(l) /\ s = SpokeEnd(l)
      BY <1>2, <1>4, <2>1, <3>1, <3>3, <3>4
    <3> QED BY <1>1, <3>2, <3>3
  <2>2. CASE k # l
    <3>1. /\ SpokeEnd(k) \in Ends /\ HostEnd(k) \in Ends
          /\ SpokeEnd(k) \notin {s, h} /\ HostEnd(k) \notin {s, h}
      BY <1>1, <2>2, LinkFacts
    <3> QED BY <1>5, <1>6, <3>1 DEF LinkLife
  <2> QED BY <2>1, <2>2
<1>10. OnlyMade' /\ Causal' /\ PushGated' /\ PullGated' /\ FlightGated'
  <2>1. OnlyMade' /\ Causal'
    BY <1>6, <1>8 DEF OnlyMade, Causal
  <2>2. PushGated' /\ PullGated' /\ FlightGated'
    BY <1>6, <1>8 DEF PushGated, PullGated, FlightGated, Pushers, Pullers
  <2> QED BY <2>1, <2>2
<1>11. InOrder'
  <2> SUFFICES ASSUME NEW g \in Ends, Imports(g)' PROVE Ordered(chan'[g], doc[At(g)], deps)
    BY <1>6 DEF InOrder
  <2>1. CASE g = s
    BY <1>7, <2>1
  <2>2. CASE g # s
    <3>1. Imports(g) /\ chan'[g] = chan[g]
      BY <1>4, <1>5, <1>8, <2>2 DEF Imports
    <3> QED BY <3>1 DEF InOrder
  <2> QED BY <2>1, <2>2
<1>12. HaveSound'
  <2> SUFFICES ASSUME NEW g \in Ends, status'[Far(g)] = "up"
               PROVE  Announced(chan'[g], doc[At(Far(g))])
    BY <1>6 DEF HaveSound
  <2>1. CASE g = s
    BY <1>1, <1>7, <2>1
  <2>2. CASE g # s
    <3>1. Far(g) # h /\ Far(g) \in Ends
      BY <1>1, <2>2, EndFacts
    <3>2. status[Far(g)] = "up"
      BY <1>5, <3>1
    <3>3. chan'[g] = chan[g] \/ chan'[g] = <<>>
      BY <1>4, <1>5, <2>2
    <3> QED BY <3>2, <3>3, EmptyQueue DEF HaveSound
  <2> QED BY <2>1, <2>2
<1>13. AckedSound'
  <2> SUFFICES ASSUME NEW g \in Ends, status'[g] = "up", Imports(Far(g))'
               PROVE  acked[g] \subseteq doc[At(Far(g))] \cup InFlight(Far(g))'
    BY <1>6 DEF AckedSound
  <2>1. CASE g = h
    BY <1>2, <2>1
  <2>2. CASE g # h
    <3>1. Far(g) # s /\ Far(g) \in Ends /\ status[g] = "up"
      BY <1>1, <1>5, <2>2, EndFacts
    <3>2. Imports(Far(g)) /\ InFlight(Far(g))' = InFlight(Far(g))
      BY <1>8, <3>1
    <3> QED BY <3>1, <3>2 DEF AckedSound
  <2> QED BY <2>1, <2>2
<1> QED BY <1>9, <1>10, <1>11, <1>12, <1>13

\* Every step keeps the invariant, one case per action.
LEMMA NextInv == IndInv /\ [Next]_vars => IndInv'
<1> SUFFICES ASSUME IndInv, [Next]_vars PROVE IndInv'
  OBVIOUS
<1>0. TypeOK /\ TypeOK'
  BY NextType DEF IndInv
<1>a. SameFlight(chan)
  BY SameFlightChan
<1>b. ASSUME NEW p \in Peers, UNCHANGED <<doc, saved, made, deps>> PROVE Grows(p, doc[p])
  BY <1>0, <1>b DEF Grows, IndInv, TypeOK, OnlyMade, Causal
<1>1. ASSUME NEW p \in Peers, NEW o \in Ops, Commit(p, o) PROVE IndInv'
  <2>1. Grows(p, doc[p] \cup {o})
    BY <1>1, CommitGrows DEF Commit
  <2>2. doc[p] \cup {o} \in SUBSET Ops
    BY <1>0 DEF TypeOK
  <2> QED BY <1>0, <1>1, <1>a, <2>1, <2>2, QuietKeeps DEF Commit
<1>2. ASSUME NEW p \in Peers, Persist(p) PROVE IndInv'
  <2>1. /\ UNCHANGED <<doc, made, deps, granted, status, acked, chan>>
        /\ \A q \in Peers : saved'[q] = saved[q] \/ saved'[q] = doc[q]
    BY <1>0, <1>2 DEF Persist, Stores, TypeOK
  <2>2. \A e \in Ends : InFlight(e)' = InFlight(e) /\ Imports(e)' = Imports(e)
    BY <2>1 DEF InFlight, Imports, Grants
  <2>3. LinkLife' /\ InOrder' /\ HaveSound' /\ AckedSound' /\ FlightGated'
    BY <2>1, <2>2, EndFacts DEF IndInv, LinkLife, InOrder, HaveSound, AckedSound,
       FlightGated, Pushers
  <2>4. OnlyMade' /\ Causal' /\ PushGated' /\ PullGated'
    BY <2>1, <2>2 DEF IndInv, OnlyMade, Causal, PushGated, PullGated, Pushers, Pullers, Peers
  <2> QED BY <1>0, <2>3, <2>4 DEF IndInv
<1>3. ASSUME NEW p \in Peers, Restarts(p) PROVE IndInv'
  <2> DEFINE D == {e \in Ends : At(e) = p /\ status[e] # "idle"}
  <2>1. \A r \in Peers : \/ doc'[r] = doc[r]
                         \/ /\ doc'[r] = saved[r]
                            /\ \A e \in Ends : At(e) = r => e \in D \/ status[e] = "idle"
    BY <1>0, <1>3 DEF Restarts, TypeOK
  <2>2. D \in SUBSET Ends /\ Stopped(D) /\ \A e \in D : status[e] # "idle"
    BY <1>3 DEF Restarts
  <2> HIDE DEF D
  <2> QED BY <1>0, <1>3, <2>1, <2>2, StopKeeps DEF Restarts
<1>4. ASSUME NEW D \in SUBSET Ends, Stopped(D), \A e \in D : status[e] # "idle",
             UNCHANGED <<doc, saved, made, deps, granted, acked>>
      PROVE  IndInv'
  BY <1>0, <1>4, StopKeeps
<1>5. ASSUME NEW p \in Peers, Crash(p) PROVE IndInv'
  BY <1>3, <1>5 DEF Crash
<1>6. ASSUME NEW l \in Links, Dial(l) PROVE IndInv'
  BY <1>0, <1>6, DialKeeps
<1>7. ASSUME NEW l \in Links, Authorize(l) PROVE IndInv'
  BY <1>0, <1>7, AuthorizeKeeps
<1>8. ASSUME NEW l \in Links, Accept(l) PROVE IndInv'
  BY <1>0, <1>8, AcceptKeeps
<1>20. ASSUME NEW l \in Links, Refuse(l) PROVE IndInv'
  BY <1>0, <1>20, LinkFacts, AnswerKeeps
<1>21. ASSUME NEW e \in Ends, Announce(e) PROVE IndInv'
  BY <1>0, <1>21, AnswerKeeps
<1>9. ASSUME NEW l \in Links, AcceptFails(l) PROVE IndInv'
  BY <1>3, <1>9 DEF AcceptFails, Peers
<1>22. ASSUME NEW e \in Ends, Reading(e, "Have")
       PROVE  /\ status[e] = "up" /\ At(e) \in Peers /\ Head(chan[e]).ops \in SUBSET Ops
              /\ doc[At(e)] \in SUBSET Ops
              /\ SameFlight([chan EXCEPT ![e] = Tail(@)])
              /\ Imports(Far(e)) =>
                   Head(chan[e]).ops \subseteq doc[At(Far(e))] \cup InFlight(Far(e))
  <2> DEFINE v == Head(chan[e]).ops
  <2>1. status[e] = "up" /\ chan[e] # <<>> /\ Head(chan[e]).type = "Have"
        /\ SameFlight([chan EXCEPT ![e] = Tail(@)])
    BY <1>22, SameFlightHave DEF Reading
  <2>2. At(e) \in Peers /\ v \in SUBSET Ops /\ doc[At(e)] \in SUBSET Ops
    BY <1>0, <2>1, EndFacts, CarriedTail DEF TypeOK, Msg
  <2>3. Imports(Far(e)) => v \subseteq doc[At(Far(e))] \cup InFlight(Far(e))
    <3>1. status[Far(e)] = "up" => v \subseteq doc[At(Far(e))]
      BY <1>0, <2>1, AnnouncedTail DEF IndInv, HaveSound, TypeOK
    <3>2. status[Far(e)] \in {"up", "down"}
      <4>1. status[Far(e)] \in Status
        BY <1>0, EndFacts DEF TypeOK
      <4>2. CASE e = SpokeEnd(e[1])
        BY <2>1, <4>1, <4>2, EndFacts DEF IndInv, LinkLife, Status
      <4>3. CASE e = HostEnd(e[1])
        BY <2>1, <4>1, <4>3, EndFacts DEF IndInv, LinkLife, Status
      <4> QED BY <4>2, <4>3, EndFacts
    <3> QED BY <3>1, <3>2 DEF Imports
  <2> QED BY <2>1, <2>2, <2>3
<1>10. ASSUME NEW e \in Ends, RecvHave(e) PROVE IndInv'
  <2> DEFINE v == Head(chan[e]).ops
             ch == [chan EXCEPT ![e] = Tail(@)]
  <2>1. status[e] = "up" /\ SameFlight(ch)
    BY <1>10, <1>22 DEF RecvHave
  <2>2. At(e) \in Peers /\ v \in SUBSET Ops /\ doc[At(e)] \in SUBSET Ops
    BY <1>10, <1>22 DEF RecvHave
  <2>3. Imports(Far(e)) => v \subseteq doc[At(Far(e))] \cup InFlight(Far(e))
    BY <1>10, <1>22 DEF RecvHave
  <2>4. Grows(At(e), doc[At(e)]) /\ UNCHANGED <<status, granted>>
    BY <1>10, <1>b, <2>2 DEF RecvHave, docVars
  <2>5. CASE Due(e, v)
    <3>1. /\ chan' = Sent(ch, e, Updates(doc[At(e)] \ v))
          /\ acked' = [acked EXCEPT ![e] = doc[At(e)]]
          /\ "pull" \in Grants(e)
      BY <1>10, <2>5 DEF RecvHave, Due
    <3> HIDE DEF ch, v
    <3> QED BY <1>0, <2>1, <2>2, <2>3, <2>4, <3>1, PushKeeps
  <2>6. CASE ~Due(e, v)
    <3>1. chan' = ch /\ acked' = [acked EXCEPT ![e] = v]
      BY <1>10, <2>6 DEF RecvHave
    <3> HIDE DEF ch, v
    <3>2. \A g \in Ends : \/ acked'[g] = acked[g]
                          \/ /\ status[g] = "up"
                             /\ Imports(Far(g)) =>
                                  acked'[g] \subseteq doc[At(Far(g))] \cup InFlight(Far(g))
      BY <1>0, <2>1, <2>3, <3>1 DEF TypeOK
    <3> QED BY <1>0, <2>1, <2>2, <2>4, <3>1, <3>2, QuietKeeps
  <2> QED BY <2>5, <2>6
<1>11. ASSUME NEW e \in Ends, RecvUpdates(e) PROVE IndInv'
  BY <1>0, <1>11, ImportKeeps
<1>12. ASSUME NEW e \in Ends, RecvRefused(e) PROVE IndInv'
  BY <1>4, <1>12 DEF RecvRefused, Reading, docVars
<1>13. ASSUME NEW e \in Ends, status[e] = "up"
       PROVE  Imports(Far(e)) => acked[e] \subseteq doc[At(Far(e))] \cup InFlight(Far(e))
  BY <1>13 DEF IndInv, AckedSound
<1>14. ASSUME NEW e \in Ends, RecvNudge(e) PROVE IndInv'
  <2>1. At(e) \in Peers /\ doc[At(e)] \in SUBSET Ops /\ acked[e] \in SUBSET Ops /\ status[e] = "up"
    BY <1>0, <1>14, EndFacts DEF TypeOK, RecvNudge
  <2>2. Grows(At(e), doc[At(e)]) /\ UNCHANGED <<status, granted>>
    BY <1>14, <1>b, <2>1 DEF RecvNudge, docVars
  <2>3. CASE Due(e, acked[e])
    <3>1. /\ chan' = Sent(chan, e, Updates(doc[At(e)] \ acked[e]))
          /\ acked' = [acked EXCEPT ![e] = doc[At(e)]]
          /\ "pull" \in Grants(e)
      BY <1>14, <2>3 DEF RecvNudge, Due
    <3> QED BY <1>0, <1>13, <1>a, <2>1, <2>2, <3>1, PushKeeps
  <2>4. CASE ~Due(e, acked[e])
    <3>1. UNCHANGED <<acked, chan>>
      BY <1>14, <2>4 DEF RecvNudge
    <3> QED BY <1>0, <1>a, <2>1, <2>2, <3>1, QuietKeeps
  <2> QED BY <2>3, <2>4
<1>23. ASSUME NEW e \in Ends, NEW o \in Ops, NEW mark \in SUBSET Ops, NEW ch,
              PendingRacing(e, mark, ch, o), status[e] = "up", SameFlight(ch),
              Imports(Far(e)) => mark \subseteq doc[At(Far(e))] \cup InFlight(Far(e))
       PROVE  IndInv'
  <2> DEFINE W == doc[At(e)] \cup {o}
  <2>1. At(e) \in Peers /\ W \in SUBSET Ops
    BY <1>0, EndFacts DEF TypeOK
  <2>2. Grows(At(e), W)
    BY <1>23, <2>1, CommitGrows DEF PendingRacing, RacingCommit
  <2>3. /\ chan' = Sent(ch, e, Updates(W \ mark))
        /\ acked' = [acked EXCEPT ![e] = doc[At(e)]]
        /\ "pull" \in Grants(e) /\ UNCHANGED <<status, granted>>
    BY <1>23 DEF PendingRacing, RacingCommit, Due, MeasureThenExport
  <2> HIDE DEF W
  <2> QED BY <1>0, <1>23, <2>1, <2>2, <2>3, PushKeeps
<1>24. ASSUME NEW e \in Ends, NEW o \in Ops, RecvHaveRacing(e, o) PROVE IndInv'
  BY <1>22, <1>23, <1>24 DEF RecvHaveRacing
<1>15. ASSUME NEW e \in Ends, NEW o \in Ops, RecvNudgeRacing(e, o) PROVE IndInv'
  <2>1. acked[e] \in SUBSET Ops /\ status[e] = "up"
    BY <1>0, <1>15 DEF TypeOK, RecvNudgeRacing
  <2> QED BY <1>13, <1>15, <1>23, <1>a, <2>1 DEF RecvNudgeRacing
<1>16. ASSUME NEW e \in Ends, Drop(e) \/ Hangup(e) PROVE IndInv'
  BY <1>4, <1>16 DEF Drop, Hangup, docVars
<1>17. ASSUME NEW s \in Spokes, NEW g \in SUBSET Perms, SetTrust(s, g) PROVE IndInv'
  <2>1. UNCHANGED <<doc, saved, made, deps, status, granted, acked, chan>>
    BY <1>17 DEF SetTrust, docVars
  <2>2. Grows(Host, doc[Host]) /\ Host \in Peers /\ doc[Host] \in SUBSET Ops
    BY <1>0, <1>b, <2>1 DEF Peers, TypeOK
  <2> QED BY <1>0, <1>a, <2>1, <2>2, QuietKeeps
<1>18. ASSUME NEW s \in Spokes, Revoke(s) PROVE IndInv'
  BY <1>4, <1>18 DEF Revoke, Subscribed, docVars
<1>19. CASE UNCHANGED vars
  <2>1. UNCHANGED <<doc, saved, made, deps, status, granted, acked, chan>>
    BY <1>19 DEF vars
  <2>2. Grows(Host, doc[Host]) /\ Host \in Peers /\ doc[Host] \in SUBSET Ops
    BY <1>0, <1>b, <2>1 DEF Peers, TypeOK
  <2> QED BY <1>0, <1>a, <2>1, <2>2, QuietKeeps
<1> QED
  BY <1>1, <1>2, <1>5, <1>6, <1>7, <1>8, <1>9, <1>10, <1>11, <1>12, <1>14,
     <1>15, <1>16, <1>17, <1>18, <1>19, <1>20, <1>21, <1>24 DEF Next

-----------------------------------------------------------------------------
(* Results *)

\* The invariant holds in every reachable state.
LEMMA Inductive == Spec => []IndInv
  BY InitInv, NextInv, PTL DEF Spec

\* A session's mark never runs ahead of what its peer holds or is about to
\* import, through any number of commits, redials, crashes and grant changes.
THEOREM AckedSoundness == Spec => []AckedSound
<1>1. IndInv => AckedSound
  BY DEF IndInv
<1> QED BY <1>1, Inductive, PTL

\* No session between peers that run this code is ended by an orphaned import.
THEOREM OrphanFreedom == Spec => []NoOrphans
<1>1. IndInv => NoOrphans
  <2> SUFFICES ASSUME IndInv, NEW e \in Ends, status[e] = "up", "push" \in Grants(e),
                      chan[e] # <<>>, Head(chan[e]).type = "Updates"
               PROVE  \A u \in Head(chan[e]).ops : deps[u] \subseteq doc[At(e)] \cup Head(chan[e]).ops
    BY DEF NoOrphans
  <2>1. chan[e] \in Seq(Msg) /\ Ordered(chan[e], doc[At(e)], deps)
    BY DEF IndInv, TypeOK, InOrder, Imports
  <2> QED BY <2>1, OrderedHead
<1> QED BY <1>1, Inductive, PTL

\* The host's grants bound what travels: no operation leaves a spoke that was
\* never let push, nothing reaches a spoke that was never let pull.
THEOREM GatesHold == Spec => []Gated
<1>1. IndInv => Gated
  BY DEF IndInv, Gated
<1> QED BY <1>1, Inductive, PTL

-----------------------------------------------------------------------------
(* Stored snapshots *)

\* A snapshot holds no more than the document, and lags it only while the
\* persist task has a nudge to answer or after it failed to store.
SaveInv == (\A p \in Peers : saved[p] \subseteq doc[p]) /\ NoLostSave

\* What an import does to the document and to the persist task.
LEMMA ImportEffect ==
  ASSUME IndInv, NEW e \in Ends, RecvUpdates(e)
  PROVE  \E S \in SUBSET InFlight(e) :
           /\ S # {} => "push" \in Grants(e)
           /\ \A u \in S : deps[u] \subseteq doc[At(e)] \cup S
           /\ doc' = [doc EXCEPT ![At(e)] = @ \cup S]
           /\ UNCHANGED <<saved, made, deps, granted>>
           /\ IF S \subseteq doc[At(e)] THEN unsaved' = unsaved
              ELSE unsaved' = unsaved \cup (Keepers \cap {At(e)})
           /\ unstored' = unstored
<1> DEFINE p == At(e)
           q == chan[e]
           U == Head(chan[e]).ops
<1>1. status[e] = "up" /\ q # <<>> /\ q \in Seq(Msg) /\ Head(q).type = "Updates" /\ U \subseteq Ops
  BY CarriedTail DEF RecvUpdates, Reading, IndInv, TypeOK, Msg
<1>2. U \subseteq InFlight(e)
  <2>1. Head(q) = q[1] /\ 1 \in 1..Len(q)
    BY <1>1, CarriedTail
  <2> QED BY <1>1, <2>1 DEF InFlight, Carried
<1>3. CASE "push" \in Grants(e)
  <2>1. Ordered(q, doc[p], deps)
    BY <1>1, <1>3 DEF IndInv, InOrder, Imports
  <2>2. \A u \in U : deps[u] \subseteq doc[p] \cup U
    BY <1>1, <2>1, OrderedHead
  <2>3. Applicable(doc[p], U) = U
    BY <2>2 DEF Applicable
  <2>4. /\ doc' = [doc EXCEPT ![p] = @ \cup U]
        /\ UNCHANGED <<saved, unstored, made, deps, granted>>
        /\ IF U \subseteq doc[p] THEN unsaved' = unsaved
           ELSE unsaved' = unsaved \cup (Keepers \cap {p})
    BY <1>3, <2>3 DEF RecvUpdates, Nudge
  <2> QED BY <1>2, <1>3, <2>2, <2>4
<1>4. CASE "push" \notin Grants(e)
  <2>1. doc' = [doc EXCEPT ![p] = @ \cup {}] /\ UNCHANGED <<saved, made, deps, granted, unsaved, unstored>>
    BY <1>4 DEF RecvUpdates
  <2> WITNESS {} \in SUBSET InFlight(e)
  <2> QED BY <2>1
<1> QED BY <1>3, <1>4

\* Every step leaves a document equal to its snapshot, a nudge waiting or a
\* failure behind.
LEMMA NextSave == IndInv /\ SaveInv /\ [Next]_vars => SaveInv'
<1> SUFFICES ASSUME IndInv, SaveInv, [Next]_vars PROVE SaveInv'
  OBVIOUS
<1> USE DEF SaveInv, NoLostSave
<1>0. doc \in [Peers -> SUBSET Ops] /\ saved \in [Peers -> SUBSET Ops]
  BY DEF IndInv, TypeOK
<1>1. ASSUME UNCHANGED <<doc, saved, unsaved, unstored>> PROVE SaveInv'
  BY <1>1
<1>2. ASSUME NEW p \in Peers, NEW S, doc' = [doc EXCEPT ![p] = @ \cup S],
             UNCHANGED <<saved, unstored>>,
             IF S \subseteq doc[p] THEN unsaved' = unsaved
             ELSE unsaved' = unsaved \cup (Keepers \cap {p})
      PROVE  SaveInv'
  <2>1. \A r \in Peers : /\ doc[r] \subseteq doc'[r]
                         /\ r # p => doc'[r] = doc[r]
                         /\ doc'[p] = doc[p] \cup S
    BY <1>0, <1>2
  <2>2. CASE S \subseteq doc[p]
    <3>1. \A r \in Peers : doc'[r] = doc[r]
      BY <2>1, <2>2
    <3> QED BY <1>2, <2>2, <3>1
  <2>3. CASE ~(S \subseteq doc[p])
    BY <1>2, <2>1, <2>3
  <2> QED BY <2>2, <2>3
<1>3. ASSUME NEW p \in Peers, NEW o \in Ops, o \notin made,
             doc' = [doc EXCEPT ![p] = @ \cup {o}], UNCHANGED <<saved, unstored>>, Nudge(p)
      PROVE  SaveInv'
  <2>1. o \notin doc[p]
    BY <1>3 DEF IndInv, OnlyMade
  <2> QED BY <1>2, <1>3, <2>1 DEF Nudge
<1>4. ASSUME NEW p \in Peers, Restarts(p) PROVE SaveInv'
  BY <1>0, <1>4 DEF Restarts
<1>5. ASSUME NEW p \in Peers, Persist(p) PROVE SaveInv'
  <2>1. /\ unsaved' = unsaved \ {p} /\ doc' = doc
        /\ \/ saved' = [saved EXCEPT ![p] = doc[p]] /\ unstored' = unstored \ {p}
           \/ saved' = saved /\ unstored' = unstored \cup {p}
    BY <1>5 DEF Persist, Stores
  <2> QED BY <1>0, <2>1
<1>6. ASSUME NEW e \in Ends, RecvUpdates(e) PROVE SaveInv'
  <2>1. At(e) \in Peers
    BY EndFacts
  <2> QED BY <1>2, <1>6, <2>1, ImportEffect
<1>7. ASSUME NEW p \in Peers, NEW o \in Ops, Commit(p, o) PROVE SaveInv'
  BY <1>3, <1>7 DEF Commit
<1>8. ASSUME NEW e \in Ends, NEW o \in Ops, RecvHaveRacing(e, o) \/ RecvNudgeRacing(e, o)
      PROVE  SaveInv'
  <2>1. At(e) \in Peers /\ RacingCommit(e, o)
    BY <1>8, EndFacts DEF RecvHaveRacing, RecvNudgeRacing, PendingRacing
  <2> QED BY <1>3, <2>1 DEF RacingCommit
<1>9. ASSUME NEW p \in Peers, Crash(p) PROVE SaveInv'
  BY <1>4, <1>9 DEF Crash
<1>10. ASSUME NEW l \in Links, AcceptFails(l) PROVE SaveInv'
  BY <1>4, <1>10 DEF AcceptFails, Peers
<1>11. ASSUME NEW l \in Links, Dial(l) \/ Authorize(l) \/ Refuse(l) \/ Accept(l) PROVE SaveInv'
  BY <1>1, <1>11 DEF Dial, Authorize, Refuse, Accept, docVars
<1>12. ASSUME NEW e \in Ends,
              Announce(e) \/ RecvHave(e) \/ RecvRefused(e) \/ RecvNudge(e) \/ Drop(e) \/ Hangup(e)
       PROVE  SaveInv'
  BY <1>1, <1>12 DEF Announce, RecvHave, RecvRefused, RecvNudge, Drop, Hangup, docVars
<1>13. ASSUME NEW s \in Spokes,
              Revoke(s) \/ \E g \in SUBSET Perms : SetTrust(s, g)
       PROVE  SaveInv'
  BY <1>1, <1>13 DEF Revoke, SetTrust, docVars
<1>14. CASE UNCHANGED vars
  BY <1>1, <1>14 DEF vars
<1> QED
  BY <1>5, <1>6, <1>7, <1>8, <1>9, <1>10, <1>11, <1>12, <1>13, <1>14 DEF Next

\* The same in every reachable state.
LEMMA SaveInductive == Spec => []SaveInv
<1>1. Init => SaveInv
  BY DEF Init, SaveInv, NoLostSave
<1> QED BY <1>1, NextSave, Inductive, PTL DEF Spec

\* A change not yet stored has a wakeup of the persist task behind it, unless
\* the last attempt to store failed: then it waits for the next wakeup.
THEOREM SavesNotLost == Spec => []NoLostSave
<1>1. SaveInv => NoLostSave
  BY DEF SaveInv
<1> QED BY <1>1, SaveInductive, PTL

-----------------------------------------------------------------------------
(* Wakeups *)

\* A version is on its way.
HasHave(q) == \E k \in DOMAIN q : q[k].type = "Have"

\* A session's version waits for an end across that has not started its own.
Heralded ==
  \A e \in Ends :
    status[e] = "up" /\ status[Far(e)] \in {"waiting", "greeting", "opening"}
    => HasHave(chan[Far(e)])

WakeInv == NoLostNudge /\ Heralded

\* A version stays on its way while frames are added and others are read.
LEMMA HasHaveFacts ==
  ASSUME NEW q \in Seq(Msg), NEW m \in Msg
  PROVE  /\ HasHave(q) => HasHave(Append(q, m))
         /\ m.type = "Have" => HasHave(Append(q, m))
         /\ q # <<>> /\ HasHave(q) /\ Head(q).type # "Have" => HasHave(Tail(q))
<1>1. DOMAIN q = 1..Len(q) /\ Len(q) \in Nat /\ DOMAIN Append(q, m) = 1..(Len(q) + 1)
  OBVIOUS
<1>2. HasHave(q) => HasHave(Append(q, m))
  <2> SUFFICES ASSUME NEW k \in DOMAIN q, q[k].type = "Have" PROVE HasHave(Append(q, m))
    BY DEF HasHave
  <2>1. k \in DOMAIN Append(q, m) /\ Append(q, m)[k] = q[k]
    BY <1>1, CarriedAppend
  <2> QED BY <2>1 DEF HasHave
<1>3. m.type = "Have" => HasHave(Append(q, m))
  <2>1. Len(q) + 1 \in DOMAIN Append(q, m) /\ Append(q, m)[Len(q) + 1] = m
    BY <1>1, CarriedAppend
  <2> QED BY <2>1 DEF HasHave
<1>4. ASSUME q # <<>>, HasHave(q), Head(q).type # "Have" PROVE HasHave(Tail(q))
  <2>1. PICK k \in DOMAIN q : q[k].type = "Have"
    BY <1>4 DEF HasHave
  <2>2. k # 1 /\ k - 1 \in 1..Len(Tail(q)) /\ (k - 1) + 1 = k
    BY <1>1, <1>4, <2>1, CarriedTail
  <2>3. k - 1 \in DOMAIN Tail(q) /\ Tail(q)[k - 1] = q[k]
    BY <1>4, <2>2, CarriedTail
  <2> QED BY <2>1, <2>3 DEF HasHave
<1> QED BY <1>2, <1>3, <1>4

\* A version in flight is not lost when some end writes a frame.
LEMMA HasHaveSent ==
  ASSUME NEW ch \in [Ends -> Seq(Msg)], NEW e \in Ends, NEW m \in Msg,
         status \in [Ends -> Status], NEW f \in Ends, HasHave(ch[f])
  PROVE  HasHave(Sent(ch, e, m)[f])
<1>1. Sent(ch, e, m)[f] \in {ch[f], Append(ch[f], m)}
  <2>1. /\ \A g \in Ends : g # Far(e) => Sent(ch, e, m)[g] = ch[g]
        /\ status[Far(e)] = "down" => Sent(ch, e, m)[Far(e)] = ch[Far(e)]
        /\ status[Far(e)] # "down" => Sent(ch, e, m)[Far(e)] = Append(ch[Far(e)], m)
    BY SentFacts
  <2> QED BY <2>1
<1>2. HasHave(Append(ch[f], m))
  BY HasHaveFacts
<1> QED BY <1>1, <1>2

\* Sessions ending leave no other session without its wakeup: a document that
\* falls back to its snapshot takes all sessions of its process with it.
LEMMA StopWakes ==
  ASSUME IndInv, WakeInv, NEW D \in SUBSET Ends, Stopped(D),
         \A p \in Peers : \/ doc'[p] = doc[p]
                          \/ \A e \in Ends : At(e) = p => e \in D \/ status[e] = "idle",
         UNCHANGED <<granted, acked>>
  PROVE  WakeInv'
<1>1. \A e \in Ends :
        /\ e \in D => status'[e] = "down"
        /\ e \notin D => status'[e] = status[e] /\ (e \in nudged' <=> e \in nudged)
        /\ e \notin D /\ Far(e) \notin D => chan'[e] = chan[e]
  BY DEF Stopped
<1>2. NoLostNudge'
  <2> SUFFICES ASSUME NEW e \in Ends, status'[e] = "up", status'[Far(e)] = "up",
                      "pull" \in Grants(e)'
               PROVE  acked'[e] = doc'[At(e)] \/ e \in nudged' \/ HasHave(chan'[e])
    BY DEF NoLostNudge, HasHave, Far, At
  <2>1. Far(e) \in Ends /\ At(e) \in Peers
    BY EndFacts
  <2>2. e \notin D /\ Far(e) \notin D /\ status[e] = "up" /\ status[Far(e)] = "up"
    BY <1>1, <2>1
  <2>3. "pull" \in Grants(e)
    BY DEF Grants
  <2>4. acked[e] = doc[At(e)] \/ e \in nudged \/ HasHave(chan[e])
    BY <2>2, <2>3 DEF WakeInv, NoLostNudge, HasHave
  <2> QED BY <1>1, <2>1, <2>2, <2>4
<1>3. Heralded'
  <2> SUFFICES ASSUME NEW e \in Ends, status'[e] = "up",
                      status'[Far(e)] \in {"waiting", "greeting", "opening"}
               PROVE  HasHave(chan'[Far(e)])
    BY DEF Heralded, HasHave, Far
  <2>1. Far(e) \in Ends /\ Far(Far(e)) = e
    BY EndFacts
  <2>2. e \notin D /\ Far(e) \notin D
    BY <1>1, <2>1
  <2> QED BY <1>1, <2>1, <2>2 DEF WakeInv, Heralded
<1> QED BY <1>2, <1>3 DEF WakeInv

\* A step that opens and closes no session keeps the wakeups if no version in
\* flight is dropped unread and each document that moves nudges its sessions.
LEMMA QuietWakes ==
  ASSUME IndInv, WakeInv, UNCHANGED <<status, granted>>,
         \A e \in Ends :
           /\ \/ HasHave(chan[e]) => HasHave(chan'[e])
              \/ /\ status[e] = "up"
                 /\ "pull" \in Grants(e) => acked'[e] = doc'[At(e)] \/ e \in nudged'
           /\ status[e] = "up" /\ "pull" \in Grants(e) =>
                \/ e \in nudged'
                \/ acked'[e] = doc'[At(e)]
                \/ acked'[e] = acked[e] /\ doc'[At(e)] = doc[At(e)] /\ (e \in nudged => e \in nudged')
  PROVE  WakeInv'
<1>1. NoLostNudge'
  <2> SUFFICES ASSUME NEW e \in Ends, status[e] = "up", status[Far(e)] = "up",
                      "pull" \in Grants(e)
               PROVE  acked'[e] = doc'[At(e)] \/ e \in nudged' \/ HasHave(chan'[e])
    BY DEF NoLostNudge, HasHave, Grants, Far, At
  <2>1. acked[e] = doc[At(e)] \/ e \in nudged \/ HasHave(chan[e])
    BY DEF WakeInv, NoLostNudge, HasHave
  <2> QED BY <2>1
<1>2. Heralded'
  <2> SUFFICES ASSUME NEW e \in Ends, status[e] = "up",
                      status[Far(e)] \in {"waiting", "greeting", "opening"}
               PROVE  HasHave(chan'[Far(e)])
    BY DEF Heralded, HasHave, Far
  <2> QED BY EndFacts DEF WakeInv, Heralded
<1> QED BY <1>1, <1>2 DEF WakeInv

\* Every step keeps a wakeup behind each session that has something to send.
LEMMA NextWakes == IndInv /\ WakeInv /\ [Next]_vars => WakeInv'
<1> SUFFICES ASSUME IndInv, WakeInv, [Next]_vars PROVE WakeInv'
  OBVIOUS
<1>0. /\ doc \in [Peers -> SUBSET Ops] /\ status \in [Ends -> Status]
      /\ acked \in [Ends -> SUBSET Ops] /\ chan \in [Ends -> Seq(Msg)] /\ nudged \subseteq Ends
  BY DEF IndInv, TypeOK
<1>1. ASSUME UNCHANGED <<status, granted, chan, acked, doc, nudged>> PROVE WakeInv'
  BY <1>1, QuietWakes
<1>2. ASSUME NEW p \in Peers, NEW o \in Ops, Commit(p, o) PROVE WakeInv'
  <2>1. /\ UNCHANGED <<status, granted, chan, acked>> /\ nudged' = nudged \cup Sessions(p)
        /\ \A r \in Peers : r # p => doc'[r] = doc[r]
    BY <1>0, <1>2 DEF Commit, Nudge
  <2>2. \A e \in Ends : At(e) \in Peers
    BY EndFacts
  <2>3. \A e \in Ends : status[e] = "up" /\ At(e) = p => e \in nudged'
    BY <2>1 DEF Sessions, Subscribed
  <2> QED BY <2>1, <2>2, <2>3, QuietWakes
<1>3. ASSUME NEW e \in Ends, RecvUpdates(e) PROVE WakeInv'
  <2> DEFINE p == At(e)
             U == Head(chan[e]).ops
  <2>1. /\ status[e] = "up" /\ chan[e] # <<>> /\ chan[e] \in Seq(Msg) /\ Head(chan[e]).type = "Updates"
        /\ p \in Peers
    BY <1>0, <1>3, EndFacts DEF RecvUpdates, Reading
  <2>2. "push" \in Grants(e) => Applicable(doc[p], U) = U
    <3>1. "push" \in Grants(e) => Ordered(chan[e], doc[p], deps)
      BY <2>1 DEF IndInv, InOrder, Imports
    <3>2. "push" \in Grants(e) => \A u \in U : deps[u] \subseteq doc[p] \cup U
      BY <2>1, <3>1, OrderedHead
    <3> QED BY <3>2 DEF Applicable
  <2> DEFINE new == IF "push" \in Grants(e) THEN U ELSE {}
  <2>3. /\ UNCHANGED <<status, granted, acked>> /\ chan' = [chan EXCEPT ![e] = Tail(@)]
        /\ doc' = [doc EXCEPT ![p] = @ \cup new]
        /\ IF new \subseteq doc[p] THEN nudged' = nudged ELSE nudged' = nudged \cup Sessions(p)
    BY <1>3, <2>2 DEF RecvUpdates, Nudge
  <2> HIDE DEF new
  <2>4. \A f \in Ends : HasHave(chan[f]) => HasHave(chan'[f])
    <3>1. HasHave(chan[e]) => HasHave(Tail(chan[e]))
      BY <2>1, HasHaveFacts, FrameTypes
    <3> QED BY <1>0, <2>3, <3>1
  <2>5. \A f \in Ends : status[f] = "up" => f \in nudged' \/ doc'[At(f)] = doc[At(f)]
    <3>1. CASE new \subseteq doc[p]
      <4>1. doc[p] \cup new = doc[p]
        BY <3>1
      <4> QED BY <1>0, <2>1, <2>3, <4>1, EndFacts
    <3>2. CASE ~(new \subseteq doc[p])
      <4>1. \A f \in Ends : status[f] = "up" /\ At(f) = p => f \in nudged'
        BY <2>3, <3>2 DEF Sessions, Subscribed
      <4>2. \A f \in Ends : At(f) # p => doc'[At(f)] = doc[At(f)]
        BY <1>0, <2>3, EndFacts
      <4> QED BY <4>1, <4>2
    <3> QED BY <3>1, <3>2
  <2>6. nudged \subseteq nudged'
    BY <2>3
  <2> QED BY <2>3, <2>4, <2>5, <2>6, QuietWakes
<1>4. ASSUME NEW e \in Ends, RecvHave(e) PROVE WakeInv'
  <2> DEFINE v == Head(chan[e]).ops
             rest == [chan EXCEPT ![e] = Tail(@)]
             m == Updates(doc[At(e)] \ v)
  <2>1. /\ status[e] = "up" /\ chan[e] # <<>> /\ chan[e] \in Seq(Msg) /\ At(e) \in Peers
        /\ m \in Msg /\ rest \in [Ends -> Seq(Msg)]
    BY <1>0, <1>4, EndFacts, FrameTypes, CarriedTail DEF RecvHave, Reading
  <2>2. /\ UNCHANGED <<status, granted, doc, nudged>>
        /\ chan' \in {rest, Sent(rest, e, m)}
        /\ acked' \in [Ends -> SUBSET Ops] /\ \A f \in Ends : f # e => acked'[f] = acked[f]
        /\ "pull" \in Grants(e) => acked'[e] = doc[At(e)]
    <3>1. v \subseteq Ops
      BY <2>1, CarriedTail DEF Msg
    <3> QED BY <1>0, <1>4, <2>1, <3>1 DEF RecvHave, Due, docVars
  <2>3. \A f \in Ends : f # e /\ HasHave(chan[f]) => HasHave(chan'[f])
    <3>1. \A f \in Ends : f # e => rest[f] = chan[f]
      BY <1>0
    <3> HIDE DEF rest, m
    <3> QED BY <1>0, <2>1, <2>2, <3>1, HasHaveSent
  <2> QED BY <2>1, <2>2, <2>3, QuietWakes
<1>5. ASSUME NEW e \in Ends, RecvNudge(e) PROVE WakeInv'
  <2> DEFINE m == Updates(doc[At(e)] \ acked[e])
  <2>1. m \in Msg /\ At(e) \in Peers
    BY <1>0, EndFacts, FrameTypes
  <2>2. /\ UNCHANGED <<status, granted, doc>> /\ nudged' = nudged \ {e}
        /\ chan' \in {chan, Sent(chan, e, m)}
        /\ \A f \in Ends : f # e => acked'[f] = acked[f]
        /\ "pull" \in Grants(e) => acked'[e] = doc[At(e)]
    BY <1>0, <1>5, <2>1 DEF RecvNudge, Due, docVars
  <2> HIDE DEF m
  <2>3. \A f \in Ends : HasHave(chan[f]) => HasHave(chan'[f])
    BY <1>0, <2>1, <2>2, HasHaveSent
  <2> QED BY <2>2, <2>3, QuietWakes
<1>22. ASSUME NEW e \in Ends, NEW o \in Ops, NEW mark \in SUBSET Ops,
              NEW ch \in [Ends -> Seq(Msg)], PendingRacing(e, mark, ch, o), status[e] = "up",
              \A f \in Ends : f # e => ch[f] = chan[f],
              ch[e] = chan[e] \/ (Head(chan[e]).type = "Have" /\ ch[e] = Tail(chan[e]))
       PROVE  WakeInv'
  <2> DEFINE m == Updates((doc[At(e)] \cup {o}) \ mark)
  <2>1. m \in Msg /\ At(e) \in Peers
    BY <1>0, EndFacts, FrameTypes
  <2>2. /\ UNCHANGED <<status, granted>> /\ nudged' = nudged \cup Sessions(At(e))
        /\ chan' = Sent(ch, e, m)
        /\ \A f \in Ends : f # e => acked'[f] = acked[f]
        /\ \A r \in Peers : r # At(e) => doc'[r] = doc[r]
    BY <1>0, <1>22 DEF PendingRacing, RacingCommit, MeasureThenExport, Nudge
  <2> HIDE DEF m
  <2>3. \A f \in Ends : f # e /\ HasHave(chan[f]) => HasHave(chan'[f])
    BY <1>0, <1>22, <2>1, <2>2, HasHaveSent
  <2>4. \A f \in Ends : status[f] = "up" /\ At(f) = At(e) => f \in nudged'
    BY <2>2 DEF Sessions, Subscribed
  <2>5. \A f \in Ends : At(f) \in Peers
    BY EndFacts
  <2> QED BY <1>22, <2>2, <2>3, <2>4, <2>5, QuietWakes
<1>23. ASSUME NEW e \in Ends, NEW o \in Ops, RecvHaveRacing(e, o) PROVE WakeInv'
  <2>1. /\ status[e] = "up" /\ chan[e] # <<>> /\ Head(chan[e]).type = "Have"
        /\ chan[e] \in Seq(Msg)
    BY <1>0, <1>23 DEF RecvHaveRacing, Reading
  <2>2. Head(chan[e]).ops \in SUBSET Ops /\ Tail(chan[e]) \in Seq(Msg)
    BY <2>1, CarriedTail DEF Msg
  <2> DEFINE ch == [chan EXCEPT ![e] = Tail(@)]
             v == Head(chan[e]).ops
  <2>3. /\ ch \in [Ends -> Seq(Msg)] /\ \A f \in Ends : f # e => ch[f] = chan[f]
        /\ ch[e] = Tail(chan[e]) /\ PendingRacing(e, v, ch, o)
    BY <1>0, <1>23, <2>2 DEF RecvHaveRacing
  <2> HIDE DEF ch, v
  <2>4. v \in SUBSET Ops
    BY <2>2 DEF v
  <2> QED BY <1>22, <2>1, <2>3, <2>4, Zenon
<1>6. ASSUME NEW e \in Ends, NEW o \in Ops, RecvNudgeRacing(e, o) PROVE WakeInv'
  <2>1. acked[e] \in SUBSET Ops /\ status[e] = "up" /\ PendingRacing(e, acked[e], chan, o)
    BY <1>0, <1>6 DEF RecvNudgeRacing
  <2> QED BY <1>0, <1>22, <2>1
<1>7. ASSUME NEW p \in Peers, Restarts(p) PROVE WakeInv'
  <2> DEFINE D == {e \in Ends : At(e) = p /\ status[e] # "idle"}
  <2>1. Stopped(D) /\ UNCHANGED <<granted, acked>> /\ \A r \in Peers : r # p => doc'[r] = doc[r]
    BY <1>0, <1>7 DEF Restarts
  <2>2. D \in SUBSET Ends /\ \A e \in Ends : At(e) = p => e \in D \/ status[e] = "idle"
    OBVIOUS
  <2> HIDE DEF D
  <2> QED BY <2>1, <2>2, StopWakes
<1>8. ASSUME NEW D \in SUBSET Ends, Stopped(D), UNCHANGED <<granted, acked, doc>> PROVE WakeInv'
  BY <1>8, StopWakes
<1>9. ASSUME NEW l \in Links, UNCHANGED <<doc, acked, nudged>>,
             \A k \in Links : k # l => granted'[k] = granted[k],
             \A e \in Ends : e[1] # l => status'[e] = status[e]
                                         /\ (HasHave(chan[e]) => HasHave(chan'[e])),
             \A e \in Ends : e[1] = l /\ status'[e] = "up" /\ status'[Far(e)] # "down"
                             => HasHave(chan'[Far(e)])
      PROVE  WakeInv'
  <2>1. NoLostNudge'
    <3> SUFFICES ASSUME NEW e \in Ends, status'[e] = "up", status'[Far(e)] = "up",
                        "pull" \in Grants(e)'
                 PROVE  acked'[e] = doc'[At(e)] \/ e \in nudged' \/ HasHave(chan'[e])
      BY DEF NoLostNudge, HasHave, Far, At
    <3>1. CASE e[1] = l
      <4>1. Far(e) \in Ends /\ Far(e)[1] = l /\ Far(Far(e)) = e
        BY <3>1, EndFacts
      <4> QED BY <1>9, <3>1, <4>1
    <3>2. CASE e[1] # l
      <4>1. Far(e) \in Ends /\ Far(e)[1] # l /\ e[1] \in Links
        BY <3>2, EndFacts
      <4>2. status[e] = "up" /\ status[Far(e)] = "up" /\ "pull" \in Grants(e)
        BY <1>9, <3>2, <4>1 DEF Grants
      <4>3. acked[e] = doc[At(e)] \/ e \in nudged \/ HasHave(chan[e])
        BY <4>2 DEF WakeInv, NoLostNudge, HasHave
      <4> QED BY <1>9, <3>2, <4>3
    <3> QED BY <3>1, <3>2
  <2>2. Heralded'
    <3> SUFFICES ASSUME NEW e \in Ends, status'[e] = "up",
                        status'[Far(e)] \in {"waiting", "greeting", "opening"}
                 PROVE  HasHave(chan'[Far(e)])
      BY DEF Heralded, HasHave, Far
    <3>1. CASE e[1] = l
      BY <1>9, <3>1
    <3>2. CASE e[1] # l
      <4>1. Far(e) \in Ends /\ Far(e)[1] # l
        BY <3>2, EndFacts
      <4> QED BY <1>9, <3>2, <4>1 DEF WakeInv, Heralded
    <3> QED BY <3>1, <3>2
  <2> QED BY <2>1, <2>2 DEF WakeInv
<1>11. ASSUME NEW l \in Links, Dial(l) PROVE WakeInv'
  <2>1. /\ SpokeEnd(l) \in Ends /\ HostEnd(l) \in Ends
        /\ UNCHANGED <<doc, acked, nudged, granted, chan>>
        /\ status'[SpokeEnd(l)] = "opening" /\ status'[HostEnd(l)] = "waiting"
        /\ \A e \in Ends : e # SpokeEnd(l) /\ e # HostEnd(l) => status'[e] = status[e]
    BY <1>0, <1>11, LinkFacts DEF Dial, docVars
  <2>2. \A e \in Ends : e[1] # l => status'[e] = status[e]
    BY <2>1, LinkFacts
  <2>3. \A e \in Ends : e[1] = l => status'[e] # "up"
    BY <2>1, EndsOfLink
  <2> QED BY <1>9, <2>1, <2>2, <2>3
<1>24. ASSUME NEW e \in Ends, status[e] = "up", status[Far(e)] \in {"waiting", "greeting", "opening"}
       PROVE  HasHave(chan[Far(e)])
  BY <1>24 DEF WakeInv, Heralded
<1>12. ASSUME NEW l \in Links, Accept(l) \/ Authorize(l) PROVE WakeInv'
  <2> DEFINE h == HostEnd(l)
  <2>1. /\ h \in Ends /\ SpokeEnd(l) \in Ends /\ Far(SpokeEnd(l)) = h
        /\ h # SpokeEnd(l) /\ h[1] = l
    BY LinkFacts
  <2>2. /\ UNCHANGED <<doc, acked, nudged, chan>>
        /\ \A k \in Links : k # l => granted'[k] = granted[k]
        /\ status[h] \in {"waiting", "greeting"} /\ status'[h] \in {"greeting", "opening"}
        /\ \A e \in Ends : e # h => status'[e] = status[e]
    BY <1>0, <1>12, <2>1 DEF Accept, Authorize, docVars, IndInv, TypeOK
  <2>3. ASSUME NEW e \in Ends, e[1] = l, status'[e] = "up" PROVE HasHave(chan'[Far(e)])
    <3>1. e = SpokeEnd(l)
      BY <2>2, <2>3, EndsOfLink
    <3> QED BY <1>24, <2>1, <2>2, <2>3, <3>1
  <2> QED BY <1>9, <2>1, <2>2, <2>3
<1>25. ASSUME NEW h \in Ends, Announce(h) PROVE WakeInv'
  <2> DEFINE m == Have(doc[At(h)])
             l == h[1]
  <2>1. /\ m \in Msg /\ m.type = "Have" /\ Far(h) \in Ends /\ Far(Far(h)) = h
        /\ Far(h) # h /\ l \in Links
    BY <1>0, EndFacts, FrameTypes DEF Have
  <2>2. /\ UNCHANGED <<doc, acked, nudged, granted>> /\ status[h] = "opening"
        /\ chan' = Sent(chan, h, m)
        /\ \A e \in Ends : e # h => status'[e] = status[e]
    BY <1>0, <1>25 DEF Announce, docVars
  <2> HIDE DEF m
  <2>3. status[Far(h)] # "down" => HasHave(chan'[Far(h)])
    <3>1. status[Far(h)] # "down" =>
            Sent(chan, h, m)[Far(h)] = Append(chan[Far(h)], m)
      BY <1>0, <2>1 DEF Sent
    <3>2. HasHave(Append(chan[Far(h)], m))
      BY <1>0, <2>1, HasHaveFacts
    <3> QED BY <2>2, <3>1, <3>2
  <2>4. \A e \in Ends : HasHave(chan[e]) => HasHave(chan'[e])
    BY <1>0, <2>1, <2>2, HasHaveSent
  <2>5. ASSUME NEW e \in Ends, e[1] = l, status'[e] = "up", status'[Far(e)] # "down"
        PROVE  HasHave(chan'[Far(e)])
    <3>1. e = h \/ e = Far(h)
      BY <2>1, <2>5, EndsOfLink
    <3>2. CASE e = h
      BY <2>1, <2>2, <2>3, <2>5, <3>2
    <3>3. CASE e = Far(h)
      <4>1. status[e] = "up" /\ status[Far(e)] = "opening"
        BY <2>1, <2>2, <2>5, <3>3
      <4> QED BY <1>24, <2>4, <4>1, EndFacts
    <3> QED BY <3>1, <3>2, <3>3
  <2>6. \A e \in Ends : e[1] # l => e # h
    OBVIOUS
  <2> QED BY <1>9, <2>1, <2>2, <2>4, <2>5, <2>6
<1>14. ASSUME NEW l \in Links, Refuse(l) PROVE WakeInv'
  <2>1. /\ SpokeEnd(l) \in Ends /\ HostEnd(l) \in Ends /\ Refused \in Msg
        /\ Far(SpokeEnd(l)) = HostEnd(l)
    BY LinkFacts, FrameTypes
  <2>2. Sent(chan, HostEnd(l), Refused) \in [Ends -> Seq(Msg)]
    BY <1>0, <2>1, SentFacts
  <2>3. /\ UNCHANGED <<doc, acked, nudged, granted>> /\ status'[HostEnd(l)] = "down"
        /\ \A e \in Ends : e # HostEnd(l) =>
             status'[e] = status[e] /\ chan'[e] \in {chan[e], Sent(chan, HostEnd(l), Refused)[e]}
    BY <1>0, <1>14, <2>1, <2>2 DEF Refuse, docVars
  <2>4. \A e \in Ends : e # HostEnd(l) /\ HasHave(chan[e]) => HasHave(chan'[e])
    BY <1>0, <2>1, <2>3, HasHaveSent
  <2>5. \A e \in Ends : e[1] = l => e = SpokeEnd(l) \/ e = HostEnd(l)
    BY EndsOfLink
  <2>6. \A e \in Ends : e[1] # l => e # HostEnd(l)
    BY LinkFacts
  <2> QED BY <1>9, <2>1, <2>3, <2>4, <2>5, <2>6
<1>15. ASSUME NEW p \in Peers, Crash(p) PROVE WakeInv'
  BY <1>7, <1>15 DEF Crash
<1>16. ASSUME NEW l \in Links, AcceptFails(l) PROVE WakeInv'
  BY <1>7, <1>16 DEF AcceptFails, Peers
<1>17. ASSUME NEW e \in Ends, RecvRefused(e) \/ Drop(e) \/ Hangup(e) PROVE WakeInv'
  <2>1. Stopped({e}) /\ UNCHANGED <<granted, acked, doc>> /\ {e} \in SUBSET Ends
    BY <1>17 DEF RecvRefused, Drop, Hangup, docVars
  <2> QED BY <1>8, <2>1
<1>18. ASSUME NEW s \in Spokes, Revoke(s) PROVE WakeInv'
  <2> DEFINE D == {e \in Ends : e[2] = "host" /\ PeerOf[e[1]] = s /\ Subscribed(e)}
  <2>1. Stopped(D) /\ UNCHANGED <<granted, acked, doc>> /\ D \in SUBSET Ends
    BY <1>18 DEF Revoke, docVars
  <2> HIDE DEF D
  <2> QED BY <1>8, <2>1
<1>19. ASSUME NEW s \in Spokes, NEW g \in SUBSET Perms, SetTrust(s, g) PROVE WakeInv'
  BY <1>1, <1>19 DEF SetTrust, docVars
<1>20. ASSUME NEW p \in Peers, Persist(p) PROVE WakeInv'
  BY <1>1, <1>20 DEF Persist
<1>21. CASE UNCHANGED vars
  BY <1>1, <1>21 DEF vars
<1> QED
  BY <1>2, <1>3, <1>4, <1>5, <1>6, <1>11, <1>12, <1>14, <1>15, <1>16, <1>17,
     <1>18, <1>19, <1>20, <1>21, <1>23, <1>25 DEF Next

\* A session whose document has moved past what it sent always has a wakeup
\* coming: a nudge, or the peer's version still to be read.
THEOREM NudgesNotLost == Spec => []NoLostNudge
<1>1. Init => WakeInv
  <2>1. ASSUME Init, NEW e \in Ends PROVE status[e] = "idle"
    BY <2>1 DEF Init
  <2> QED BY <2>1 DEF WakeInv, NoLostNudge, Heralded
<1>2. WakeInv => NoLostNudge
  BY DEF WakeInv
<1> QED BY <1>1, <1>2, NextWakes, Inductive, PTL DEF Spec

-----------------------------------------------------------------------------
(* LiveSync implements CausalReplicas *)

\* Every step of LiveSync is a step of CausalReplicas or a stutter.
LEMMA StepKeepsPromise ==
  ASSUME IndInv, SaveInv, [Next]_vars
  PROVE  [Promise!Next]_(Promise!vars)
<1> USE DEF Promise!Peers, Peers
<1>0. doc \in [Peers -> SUBSET Ops] /\ saved \in [Peers -> SUBSET Ops]
  BY DEF IndInv, TypeOK
<1>a. UNCHANGED granted => UNCHANGED <<Pushers, Pullers>>
  BY DEF Pushers, Pullers
<1>b. ASSUME UNCHANGED <<doc, made, deps, granted>> PROVE UNCHANGED Promise!vars
  BY <1>a, <1>b DEF Promise!vars
<1>1. ASSUME NEW p \in Peers, NEW o \in Ops, o \notin made, Author[o] = p,
             made' = made \cup {o}, deps' = [deps EXCEPT ![o] = doc[p]],
             doc' = [doc EXCEPT ![p] = @ \cup {o}], UNCHANGED granted
      PROVE  Promise!Next
  <2>1. Promise!Commit(p, o)
    BY <1>1, <1>a DEF Promise!Commit
  <2> QED BY <2>1 DEF Promise!Next
<1>2. ASSUME NEW p \in Peers, Restarts(p) PROVE Promise!Next
  <2>1. doc' = [doc EXCEPT ![p] = saved[p]] /\ UNCHANGED <<saved, made, deps, granted>>
    BY <1>2 DEF Restarts
  <2>2. saved[p] \in SUBSET doc[p] /\ \A o \in saved[p] : deps[o] \subseteq saved[p]
    BY DEF IndInv, Causal, SaveInv
  <2>3. Promise!Restart(p)
    BY <1>a, <2>1, <2>2 DEF Promise!Restart, Promise!Closed
  <2> QED BY <2>3 DEF Promise!Next
<1>3. ASSUME NEW e \in Ends, RecvUpdates(e) PROVE Promise!Next
  <2> DEFINE p == At(e)
  <2>1. PICK S \in SUBSET InFlight(e) :
          /\ S # {} => "push" \in Grants(e)
          /\ \A u \in S : deps[u] \subseteq doc[p] \cup S
          /\ doc' = [doc EXCEPT ![p] = @ \cup S]
          /\ UNCHANGED <<saved, made, deps, granted>>
    BY <1>3, ImportEffect
  <2>2. p \in Peers
    BY EndFacts
  <2>3. CASE S = {}
    <3>1. {} \in SUBSET made /\ \A o \in doc[p] : deps[o] \subseteq doc[p]
      BY <2>2 DEF IndInv, Causal
    <3>2. doc' = [doc EXCEPT ![p] = doc[p]]
      BY <2>1, <2>3
    <3>3. Promise!Restart(p)
      BY <1>a, <2>1, <3>1, <3>2 DEF Promise!Restart, Promise!Closed
    <3> QED BY <2>2, <3>3 DEF Promise!Next
  <2>4. CASE S # {}
    <3>1. S \in SUBSET made
      BY <2>1 DEF IndInv, OnlyMade
    <3>2. \A o \in doc[p] \cup S : deps[o] \subseteq doc[p] \cup S
      BY <2>1, <2>2 DEF IndInv, Causal
    <3>3. \A o \in S : Author[o] \in {p, Host} \cup Pushers
      <4>1. \A o \in S : Author[o] \in {At(Far(e)), Host} \cup Pushers
        BY <2>1 DEF IndInv, FlightGated
      <4>2. At(Far(e)) \in {Host} \cup Pushers
        BY <2>1, <2>4 DEF Pushers, Grants, At, Far, Ends
      <4> QED BY <4>1, <4>2
    <3>4. p \in Spokes => p \in Pullers
      <4>1. PICK o \in S : TRUE
        BY <2>4
      <4>2. p \in Spokes => "pull" \in granted[e[1]] /\ p = PeerOf[e[1]]
        BY <2>1, <4>1 DEF IndInv, FlightGated, At, Ends
      <4> QED BY <4>2, EndFacts DEF Pullers
    <3>5. Promise!MayReach(p, S)
      BY <3>3, <3>4 DEF Promise!MayReach
    <3>6. Promise!Merge(p)
      BY <1>a, <2>1, <3>1, <3>2, <3>5 DEF Promise!Merge, Promise!Closed
    <3> QED BY <2>2, <3>6 DEF Promise!Next
  <2> QED BY <2>3, <2>4
<1>4. ASSUME NEW l \in Links, Authorize(l) PROVE Promise!Next
  <2> DEFINE s == PeerOf[l]
  <2>1. s \in Spokes /\ granted[l] = {} /\ UNCHANGED <<doc, made, deps>>
        /\ \A k \in Links : k # l => granted'[k] = granted[k]
    BY <1>4, LinkFacts DEF Authorize, IndInv, LinkLife, TypeOK, docVars
  <2>2. Pushers' \in {Pushers, Pushers \cup {s}} /\ Pullers' \in {Pullers, Pullers \cup {s}}
    <3>1. Pushers' = Pushers \cup (IF "push" \in granted'[l] THEN {s} ELSE {})
      BY <2>1 DEF Pushers
    <3>2. Pullers' = Pullers \cup (IF "pull" \in granted'[l] THEN {s} ELSE {})
      BY <2>1 DEF Pullers
    <3> QED BY <3>1, <3>2
  <2>3. Promise!Admit(s)
    BY <2>1, <2>2 DEF Promise!Admit
  <2> QED BY <2>1, <2>3 DEF Promise!Next
<1>5. ASSUME NEW p \in Peers, NEW o \in Ops, Commit(p, o) PROVE Promise!Next
  BY <1>1, <1>5 DEF Commit
<1>6. ASSUME NEW e \in Ends, NEW o \in Ops, RecvHaveRacing(e, o) \/ RecvNudgeRacing(e, o)
      PROVE  Promise!Next
  <2>1. At(e) \in Peers /\ RacingCommit(e, o)
    BY <1>6, EndFacts DEF RecvHaveRacing, RecvNudgeRacing, PendingRacing
  <2> QED BY <1>1, <2>1 DEF RacingCommit
<1>7. ASSUME NEW p \in Peers, Crash(p) PROVE Promise!Next
  BY <1>2, <1>7 DEF Crash
<1>8. ASSUME NEW l \in Links, AcceptFails(l) PROVE Promise!Next
  BY <1>2, <1>8 DEF AcceptFails
<1>9. ASSUME NEW p \in Peers, Persist(p) PROVE UNCHANGED Promise!vars
  BY <1>b, <1>9 DEF Persist
<1>10. ASSUME NEW l \in Links, Dial(l) \/ Refuse(l) \/ Accept(l) PROVE UNCHANGED Promise!vars
  BY <1>b, <1>10 DEF Dial, Refuse, Accept, docVars
<1>11. ASSUME NEW e \in Ends,
              Announce(e) \/ RecvHave(e) \/ RecvRefused(e) \/ RecvNudge(e) \/ Drop(e) \/ Hangup(e)
       PROVE  UNCHANGED Promise!vars
  BY <1>b, <1>11 DEF Announce, RecvHave, RecvRefused, RecvNudge, Drop, Hangup, docVars
<1>12. ASSUME NEW s \in Spokes, Revoke(s) \/ \E g \in SUBSET Perms : SetTrust(s, g)
       PROVE  UNCHANGED Promise!vars
  BY <1>b, <1>12 DEF Revoke, SetTrust, docVars
<1>13. CASE UNCHANGED vars
  BY <1>b, <1>13 DEF vars
<1> QED
  BY <1>3, <1>4, <1>5, <1>6, <1>7, <1>8, <1>9, <1>10, <1>11, <1>12, <1>13 DEF Next

\* Live sync implements its promise: whatever the sessions do, the documents
\* move only by commits, causally closed and permitted merges, and restarts.
THEOREM PromiseKept == Spec => KeepsPromise
<1>1. Init => Promise!Init
  BY DEF Init, Promise!Init, Promise!Peers, Peers, Pushers, Pullers
<1>2. IndInv /\ SaveInv /\ [Next]_vars => [Promise!Next]_(Promise!vars)
  BY StepKeepsPromise
<1> QED BY <1>1, <1>2, Inductive, SaveInductive, PTL DEF Spec, KeepsPromise, Promise!Spec
=============================================================================
