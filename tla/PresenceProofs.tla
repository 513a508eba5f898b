--------------------------- MODULE PresenceProofs ---------------------------
(***************************************************************************)
(* Theorems about Presence, for any number of clients, entries, changes and *)
(* faults, any capacity of the relay and any timeout.                       *)
(***************************************************************************)
EXTENDS Presence, SequenceTheorems, FiniteSetTheorems, TLAPS

\* An entry as an owner may have written it.
Clean == [val : Values \cup {None}, age : 0 .. MaxAge, sub : Nat]

Frames == UNION {[D -> Entries] : D \in SUBSET Keys}
CleanFrames == UNION {[D -> Clean] : D \in SUBSET Keys}
CleanItems == [origin : Procs, frame : CleanFrames]

\* What may be on its way to end e: frames of which the part that e keeps is
\* clean.
Arriving(e) ==
  {f \in Frames : Decodes(f) => \A k \in DOMAIN f : Owns(e, k) => f[k] \in Clean}

Kinds ==
  /\ own \in [Keys -> Values \cup {None}]
  /\ timer \in [Procs -> 0 .. Period] /\ alive \subseteq Procs /\ regime \in Regime
  /\ phase \in [Ends -> {"down", "subscribed", "up"}]
  /\ lagged \subseteq Ends /\ tied \subseteq Keys

Stores == store \in [Procs -> [Keys -> Clean]]

Queues ==
  /\ queue \in [Ends -> Seq(CleanItems)]
  /\ \A e \in Ends : Len(queue[e]) <= Capacity

Wires ==
  /\ chan = [e \in Ends |-> chan[e]]
  /\ \A e \in Ends : chan[e] \in Seq(Arriving(e))

IndInv == Kinds /\ Stores /\ Queues /\ Wires

-----------------------------------------------------------------------------
LEMMA Numbers == MaxAge \in Nat /\ Period \in Nat /\ Timeout \in Nat /\ Capacity \in Nat /\ MaxFaults \in Nat
  BY PeriodAssumption, BoundsAssumption DEF MaxAge

LEMMA CleanIsEntry == Clean \subseteq Entries /\ CleanFrames \subseteq Frames
  BY DEF Clean, Entries, CleanFrames, Frames

LEMMA CleanSays == ASSUME NEW x \in Clean PROVE x.val \notin {Alien, Container}
  BY ValuesAssumption DEF Clean

LEMMA FrameShape ==
  ASSUME NEW f \in Frames
  PROVE  DOMAIN f \subseteq Keys /\ f \in [DOMAIN f -> Entries]
  BY DEF Frames

LEMMA CleanShape ==
  ASSUME NEW f \in CleanFrames
  PROVE  DOMAIN f \subseteq Keys /\ f \in [DOMAIN f -> Clean]
  BY DEF CleanFrames

LEMMA IsCleanFrame ==
  ASSUME NEW D \in SUBSET Keys, NEW f \in [D -> Clean]
  PROVE  f \in CleanFrames
  BY DEF CleanFrames

\* Clean frames may be on their way anywhere.
LEMMA CleanArrives == ASSUME NEW e PROVE CleanFrames \subseteq Arriving(e)
<1> SUFFICES ASSUME NEW f \in CleanFrames PROVE f \in Arriving(e)
  OBVIOUS
<1> QED
  BY CleanIsEntry, CleanShape DEF Arriving

\* What an end keeps of a frame is clean.
LEMMA KeptIsClean ==
  ASSUME NEW e \in Ends, NEW f \in Arriving(e)
  PROVE  Kept(e, f) \in CleanFrames
<1> DEFINE D == {x \in DOMAIN f : Decodes(f) /\ Owns(e, x)}
<1>1. D \in SUBSET Keys
  BY FrameShape DEF Arriving
<1>2. Kept(e, f) \in [D -> Clean]
  BY DEF Arriving, Kept
<1> QED
  BY <1>1, <1>2, IsCleanFrame

LEMMA AbsentIsClean == Absent \in Clean
  BY Numbers DEF Absent, Clean

LEMMA FreshIsClean ==
  ASSUME NEW old \in Clean, NEW v \in Values \cup {None}, NEW tie \in BOOLEAN
  PROVE  Fresh(old, v, tie) \in Clean
  BY Numbers DEF Fresh, Clean

LEMMA OlderKind ==
  ASSUME NEW V, NEW x \in [val : V, age : 0 .. MaxAge, sub : Nat]
  PROVE  Older(x) \in [val : V, age : 0 .. MaxAge, sub : Nat] /\ Older(x).val = x.val
<1>1. CASE x.age + 1 >= MaxAge
  <2>1. Older(x) = [val |-> x.val, age |-> MaxAge, sub |-> 0]
    BY <1>1 DEF Older
  <2> QED
    BY <2>1, Numbers
<1>2. CASE ~(x.age + 1 >= MaxAge)
  <2>1. Older(x) = [val |-> x.val, age |-> x.age + 1, sub |-> x.sub]
    BY <1>2 DEF Older
  <2>2. x.age + 1 \in 0 .. MaxAge
    BY <1>2, Numbers
  <2> QED
    BY <2>1, <2>2
<1> QED
  BY <1>1, <1>2

LEMMA OlderIsClean ==
  ASSUME NEW x \in Clean
  PROVE  Older(x) \in Clean
  BY OlderKind DEF Clean

LEMMA OlderSame ==
  ASSUME NEW x \in Entries
  PROVE  Older(x) \in Entries /\ Older(x).val = x.val
  BY OlderKind DEF Entries

\* Time spares the values, and so what a frame is.
LEMMA OlderArrives ==
  ASSUME NEW e, NEW f \in Arriving(e)
  PROVE  AllOlder(f) \in Arriving(e)
<1>1. DOMAIN f \subseteq Keys /\ f \in [DOMAIN f -> Entries]
  BY FrameShape DEF Arriving
<1>2. DOMAIN AllOlder(f) = DOMAIN f /\ \A k \in DOMAIN f : AllOlder(f)[k] = Older(f[k])
  BY DEF AllOlder
<1>3. AllOlder(f) \in [DOMAIN f -> Entries]
  BY <1>1, OlderSame DEF AllOlder
<1>4. AllOlder(f) \in Frames
  BY <1>1, <1>3 DEF Frames
<1>5. Decodes(AllOlder(f)) => Decodes(f)
  BY <1>1, <1>2, OlderSame DEF Decodes
<1>6. ASSUME Decodes(AllOlder(f)), NEW k \in DOMAIN f, Owns(e, k) PROVE AllOlder(f)[k] \in Clean
  BY <1>2, <1>5, <1>6, OlderIsClean DEF Arriving
<1> QED
  BY <1>2, <1>4, <1>6 DEF Arriving

LEMMA OlderFrame ==
  ASSUME NEW f \in CleanFrames
  PROVE  AllOlder(f) \in CleanFrames
<1>1. DOMAIN f \subseteq Keys /\ f \in [DOMAIN f -> Clean]
  BY CleanShape
<1>2. AllOlder(f) \in [DOMAIN f -> Clean]
  BY <1>1, OlderIsClean DEF AllOlder
<1> QED
  BY <1>1, <1>2, IsCleanFrame

LEMMA AppliedIsClean ==
  ASSUME NEW st \in [Keys -> Clean], NEW f \in CleanFrames
  PROVE  Applied(st, f) \in [Keys -> Clean]
  BY CleanShape DEF Applied

LEMMA EncodeIsClean ==
  ASSUME NEW st \in [Keys -> Clean]
  PROVE  EncodeAll(st) \in CleanFrames
<1> DEFINE D == {x \in Keys : st[x].age <= Timeout}
<1>1. EncodeAll(st) \in [D -> Clean]
  BY DEF EncodeAll
<1> QED
  BY <1>1, IsCleanFrame

LEMMA SweptIsClean ==
  ASSUME NEW st \in [Keys -> Clean]
  PROVE  Swept(st) \in [Keys -> Clean]
  BY AbsentIsClean DEF Swept

\* The end of a sequence that fits in the relay.
LEMMA LastFew ==
  ASSUME NEW S, NEW seq \in Seq(S)
  PROVE  LastOnes(seq) \in Seq(S) /\ Len(LastOnes(seq)) <= Capacity
<1> DEFINE m == IF Len(seq) > Capacity THEN Len(seq) - Capacity + 1 ELSE 1
           n == Len(seq)
<1>1. m \in Int /\ n \in Int /\ n \in Nat /\ m >= 1
  BY Numbers
<1>2. \A i \in m .. n : seq[i] \in S
  BY <1>1
<1>3. SubSeq(seq, m, n) \in Seq(S) /\ Len(SubSeq(seq, m, n)) = IF m <= n THEN n - m + 1 ELSE 0
  BY <1>1, <1>2, SubSeqProperties
<1> QED
  BY <1>1, <1>3, Numbers DEF LastOnes

LEMMA Published ==
  ASSUME Queues, lagged \subseteq Ends, NEW p, NEW items \in Seq(CleanItems), Publish(p, items)
  PROVE  Queues' /\ lagged' \subseteq Ends
<1>1. ASSUME NEW e \in Ends PROVE LastOnes(queue[e] \o items) \in Seq(CleanItems)
                               /\ Len(LastOnes(queue[e] \o items)) <= Capacity
  <2>1. queue[e] \o items \in Seq(CleanItems)
    BY ConcatProperties DEF Queues
  <2> QED
    BY <2>1, LastFew
<1> QED
  BY <1>1 DEF Queues, Publish, Overrun, SessionsAt

\* One more clean frame on its way.
LEMMA Sent ==
  ASSUME Wires, NEW e \in Ends, NEW f \in Arriving(e), chan' = [chan EXCEPT ![e] = Append(@, f)]
  PROVE  Wires'
<1>1. Append(chan[e], f) \in Seq(Arriving(e))
  BY AppendProperties DEF Wires
<1> QED
  BY <1>1 DEF Wires

-----------------------------------------------------------------------------
LEMMA IndInit == Init => IndInv
<1> SUFFICES ASSUME Init PROVE IndInv
  OBVIOUS
<1>1. Kinds
  BY Numbers, RegimesAssumption DEF Init, Kinds
<1>2. \A k \in Keys : own[k] \in Values \cup {None}
  BY DEF Init
<1>3. \A k \in Keys : Fresh(Absent, own[k], FALSE) \in Clean
  BY <1>2, AbsentIsClean, FreshIsClean
<1>4. Stores
  BY <1>3, AbsentIsClean DEF Init, Stores
<1>5. Queues /\ Wires
  BY Numbers DEF Init, Queues, Wires
<1> QED
  BY <1>1, <1>4, <1>5 DEF IndInv

LEMMA ItemIsClean ==
  ASSUME NEW p \in Procs, NEW k \in Keys, NEW x \in Clean
  PROVE  Item(p, k, x) \in CleanItems
<1>1. [y \in {k} |-> x] \in CleanFrames
  BY IsCleanFrame
<1> QED
  BY <1>1 DEF Item, CleanItems

LEMMA IndSet ==
  ASSUME IndInv, NEW k \in Keys, NEW v \in Values \cup {None}, NEW tie \in BOOLEAN, Set(k, v, tie)
  PROVE  IndInv'
<1> DEFINE p == OwnerOf[k]
           new == Fresh(store[p][k], v, tie)
<1>1. p \in Procs /\ new \in Clean
  BY KeysAssumption, FreshIsClean DEF IndInv, Stores
<1>2. Stores'
  BY <1>1 DEF IndInv, Stores, Set
<1>3. <<Item(p, k, new)>> \in Seq(CleanItems)
  BY <1>1, ItemIsClean
<1>4. Queues' /\ lagged' \subseteq Ends
  BY <1>3, Published DEF Set, IndInv, Kinds
<1>5. Kinds'
  BY <1>4 DEF Set, IndInv, Kinds
<1>6. Wires'
  BY DEF Set, IndInv, Wires
<1> QED
  BY <1>2, <1>4, <1>5, <1>6 DEF IndInv

LEMMA IndRefresh ==
  ASSUME IndInv, NEW p \in Procs, Refresh(p)
  PROVE  IndInv'
<1> DEFINE new == [k \in Renewed(p) |-> Fresh(store[p][k], own[k], FALSE)]
           st == [k \in Keys |-> IF k \in Renewed(p) THEN new[k] ELSE store[p][k]]
<1>1. Renewed(p) \subseteq Keys
  BY DEF Renewed
<1>2. new \in [Renewed(p) -> Clean]
  BY <1>1, FreshIsClean DEF IndInv, Stores, Kinds
<1>3. st \in [Keys -> Clean]
  BY <1>1, <1>2 DEF IndInv, Stores
<1>4. store' = [store EXCEPT ![p] = Swept(st)]
  BY DEF Refresh, IndInv, Stores
<1> HIDE DEF new, st
<1>5. Stores'
  BY <1>3, <1>4, SweptIsClean DEF IndInv, Stores
<1>6. PICK order \in SetToSeqs(Renewed(p)) :
        Publish(p, [i \in DOMAIN order |-> Item(p, order[i], new[order[i]])])
  BY DEF Refresh, new
<1> DEFINE items == [i \in DOMAIN order |-> Item(p, order[i], new[order[i]])]
<1>7. items \in Seq(CleanItems)
  <2>1. Cardinality(Renewed(p)) \in Nat
    BY <1>1, KeysAssumption, FS_Subset, FS_CardinalityType
  <2>2. order \in [1 .. Cardinality(Renewed(p)) -> Renewed(p)]
    BY DEF SetToSeqs
  <2>3. \A i \in DOMAIN order : Item(p, order[i], new[order[i]]) \in CleanItems
    BY <1>1, <1>2, <2>2, ItemIsClean
  <2> QED
    BY <2>1, <2>2, <2>3
<1>8. Queues' /\ lagged' \subseteq Ends
  BY <1>6, <1>7, Published DEF IndInv, Kinds
<1>9. Kinds'
  BY <1>8, Numbers DEF Refresh, IndInv, Kinds, bounds
<1>10. Wires'
  BY DEF Refresh, IndInv, Wires
<1> QED
  BY <1>5, <1>8, <1>9, <1>10 DEF IndInv

LEMMA IndConnect ==
  ASSUME IndInv, NEW s \in Spokes, Connect(s)
  PROVE  IndInv'
  BY DEF Connect, bounds, IndInv, Kinds, Stores, Queues, Wires

LEMMA FarIsEnd ==
  ASSUME NEW e \in Ends
  PROVE  Far(e) \in Ends /\ At(e) \in Procs
  BY DEF Ends, Far, At, Procs

LEMMA IndOpen ==
  ASSUME IndInv, NEW e \in Ends, Open(e)
  PROVE  IndInv'
<1>1. Opening(e) \in Arriving(Far(e))
  BY FarIsEnd, EncodeIsClean, CleanArrives DEF Opening, IndInv, Stores
<1>2. Wires'
  BY <1>1, FarIsEnd, Sent DEF Open, IndInv
<1> QED
  BY <1>2 DEF Open, bounds, IndInv, Kinds, Stores, Queues

LEMMA IndRecv ==
  ASSUME IndInv, NEW e \in Ends, Recv(e)
  PROVE  IndInv'
<1> DEFINE f == Head(chan[e])
           kept == Kept(e, f)
<1>0. chan[e] \in Seq(Arriving(e)) /\ chan[e] # <<>>
  BY DEF IndInv, Wires, Recv
<1>1. f \in Arriving(e)
  BY <1>0, HeadTailProperties
<1>2. kept \in CleanFrames /\ At(e) \in Procs
  BY <1>1, KeptIsClean, FarIsEnd
<1>3. Stores'
  BY <1>2, AppliedIsClean DEF Recv, IndInv, Stores
<1>4. Wires'
  <2>1. Tail(chan[e]) \in Seq(Arriving(e))
    BY <1>0, HeadTailProperties
  <2> QED
    BY <2>1 DEF Recv, IndInv, Wires
<1>5. Queues' /\ lagged' \subseteq Ends
  <2>1. CASE e[1] = "host" /\ DOMAIN kept # {}
    <3>1. e[2] \in Procs
      BY DEF Ends, Procs
    <3>2. <<[origin |-> e[2], frame |-> kept]>> \in Seq(CleanItems)
      BY <1>2, <3>1 DEF CleanItems
    <3> QED
      BY <2>1, <3>2, Published DEF Recv, IndInv, Kinds
  <2>2. CASE ~(e[1] = "host" /\ DOMAIN kept # {})
    BY <2>2 DEF Recv, IndInv, Kinds, Queues
  <2> QED
    BY <2>1, <2>2
<1>6. Kinds'
  BY <1>5 DEF Recv, bounds, IndInv, Kinds
<1> QED
  BY <1>3, <1>4, <1>5, <1>6 DEF IndInv

LEMMA IndRelay ==
  ASSUME IndInv, NEW e \in Ends, Relay(e)
  PROVE  IndInv'
<1>0. Kinds' /\ Stores'
  BY DEF Relay, bounds, IndInv, Kinds, Stores
<1>1. CASE e \in lagged
  <2>1. EncodeAll(store[At(e)]) \in Arriving(Far(e))
    BY FarIsEnd, EncodeIsClean, CleanArrives DEF IndInv, Stores
  <2>2. chan' = [chan EXCEPT ![Far(e)] = Append(@, EncodeAll(store[At(e)]))] /\ UNCHANGED queue
    BY <1>1, FarIsEnd DEF Relay, CaughtUp, IndInv, Wires
  <2> QED
    BY <1>0, <2>1, <2>2, FarIsEnd, Sent DEF IndInv, Queues
<1>2. CASE e \notin lagged
  <2>1. queue[e] \in Seq(CleanItems) /\ queue[e] # <<>> /\ queue' = [queue EXCEPT ![e] = Tail(@)]
    BY <1>2 DEF Relay, IndInv, Queues
  <2>2. /\ Head(queue[e]) \in CleanItems /\ Tail(queue[e]) \in Seq(CleanItems)
        /\ Len(Tail(queue[e])) = Len(queue[e]) - 1 /\ Len(queue[e]) \in Nat
    BY <2>1, HeadTailProperties
  <2>3. Queues'
    BY <2>1, <2>2, Numbers DEF IndInv, Queues
  <2>4. Head(queue[e]).frame \in Arriving(Far(e))
    BY <2>2, CleanArrives DEF CleanItems
  <2>5. Wires'
    BY <1>2, <2>4, FarIsEnd, Sent DEF Relay, IndInv, Wires
  <2> QED
    BY <1>0, <2>3, <2>5 DEF IndInv
<1> QED
  BY <1>1, <1>2

LEMMA IndBroken ==
  ASSUME IndInv, NEW s \in Spokes, Broken(s), alive' \subseteq alive,
         UNCHANGED <<store, own, timer, tied, regime>>
  PROVE  IndInv'
<1>1. Kinds' /\ Stores' /\ Wires'
  BY DEF Broken, IndInv, Kinds, Stores, Wires
<1>2. Queues'
  BY Numbers DEF Broken, IndInv, Queues
<1> QED
  BY <1>1, <1>2 DEF IndInv

\* A stray frame: of a client's own entries it has what the client holds.
LEMMA IndStray ==
  ASSUME IndInv, NEW s \in Spokes, NEW v \in {Alien, Container}, Stray(s, v)
  PROVE  IndInv'
<1> DEFINE e == <<"host", s>>
           mine == IF v = Alien THEN {k \in Keys : OwnerOf[k] = s} ELSE {}
           D == {x \in Keys : x \in mine => store[s][x].age <= Timeout}
           frame == [k \in D |-> IF k \in mine THEN store[s][k] ELSE [val |-> v, age |-> 0, sub |-> 2]]
<1>1. e \in Ends /\ s \in Procs
  BY DEF Ends, Procs
<1>2. [val |-> v, age |-> 0, sub |-> 2] \in Entries
  BY Numbers DEF Entries
<1>3. store[s] \in [Keys -> Clean]
  BY <1>1 DEF IndInv, Stores
<1>4. frame \in [D -> Entries]
  BY <1>2, <1>3, CleanIsEntry
<1>5. frame \in Frames
  BY <1>4 DEF Frames
<1>6. ASSUME Decodes(frame), NEW k \in D, Owns(e, k) PROVE frame[k] \in Clean
  <2>1. OwnerOf[k] = s
    BY <1>6 DEF Owns
  <2>2. k \in mine
    <3>1. frame[k].val # Container
      BY <1>6 DEF Decodes
    <3> QED
      BY <2>1, <3>1
  <2> QED
    BY <1>3, <2>2
<1>7. frame \in Arriving(e)
  BY <1>5, <1>6 DEF Arriving
<1>8. chan' = [chan EXCEPT ![e] = Append(@, frame)]
  BY DEF Stray
<1>9. Wires'
  BY <1>1, <1>7, <1>8, Sent DEF IndInv
<1> QED
  BY <1>9 DEF Stray, IndInv, Kinds, Stores, Queues

LEMMA IndTick ==
  ASSUME IndInv, Tick
  PROVE  IndInv'
<1>1. Kinds'
  <2>1. timer' \in [Procs -> 0 .. Period]
    BY Numbers DEF Tick, IndInv, Kinds
  <2> QED
    BY <2>1 DEF Tick, IndInv, Kinds
<1>2. Stores'
  BY OlderIsClean DEF Tick, IndInv, Stores, AllOlder
<1>3. Queues'
  <2>1. ASSUME NEW e \in Ends
        PROVE  queue'[e] \in Seq(CleanItems) /\ Len(queue'[e]) = Len(queue[e])
    <3>1. queue'[e] = [i \in DOMAIN queue[e] |-> [queue[e][i] EXCEPT !.frame = AllOlder(@)]]
          /\ queue[e] \in Seq(CleanItems)
      BY DEF Tick, IndInv, Queues
    <3>2. ASSUME NEW i \in DOMAIN queue[e]
          PROVE  [queue[e][i] EXCEPT !.frame = AllOlder(@)] \in CleanItems
      <4>1. queue[e][i] \in CleanItems
        BY <3>1
      <4> QED
        BY <4>1, OlderFrame DEF CleanItems
    <3>3. DOMAIN queue[e] = 1 .. Len(queue[e]) /\ Len(queue[e]) \in Nat
      BY <3>1
    <3>4. queue'[e] \in [1 .. Len(queue[e]) -> CleanItems]
      BY <3>1, <3>2, <3>3
    <3> QED
      BY <3>3, <3>4
  <2> QED
    BY <2>1 DEF Tick, IndInv, Queues
<1>4. Wires'
  <2>1. ASSUME NEW e \in Ends PROVE chan'[e] \in Seq(Arriving(e))
    BY OlderArrives DEF Tick, IndInv, Wires
  <2> QED
    BY <2>1 DEF Tick, Wires
<1> QED
  BY <1>1, <1>2, <1>3, <1>4 DEF IndInv

LEMMA IndNext == IndInv /\ [Next]_vars => IndInv'
<1> SUFFICES ASSUME IndInv, [Next]_vars PROVE IndInv'
  OBVIOUS
<1>1. ASSUME NEW k \in Keys, NEW v \in Values \cup {None}, NEW tie \in BOOLEAN, Set(k, v, tie)
      PROVE  IndInv'
  BY <1>1, IndSet
<1>2. ASSUME NEW p \in Procs, Refresh(p) PROVE IndInv'
  BY <1>2, IndRefresh
<1>3. ASSUME NEW s \in Spokes, Connect(s) PROVE IndInv'
  BY <1>3, IndConnect
<1>4. ASSUME NEW s \in Spokes, Drop(s) \/ Close(s) PROVE IndInv'
  BY <1>4, IndBroken DEF Drop, Close
<1>5. ASSUME NEW s \in Spokes, NEW v \in {Alien, Container}, Stray(s, v) PROVE IndInv'
  BY <1>5, IndStray
<1>6. ASSUME NEW e \in Ends, Open(e) \/ Recv(e) \/ Relay(e) PROVE IndInv'
  BY <1>6, IndOpen, IndRecv, IndRelay
<1>7. CASE Tick
  BY <1>7, IndTick
<1>8. CASE UNCHANGED vars
  BY <1>8 DEF vars, wires, bounds, IndInv, Kinds, Stores, Queues, Wires
<1> QED
  BY <1>1, <1>2, <1>3, <1>4, <1>5, <1>6, <1>7, <1>8 DEF Next

\* Stores, frames and the relay keep their types, and the relay its capacity.
THEOREM TypeCorrect == Spec => []TypeOK
<1>1. IndInv => TypeOK
  <2> SUFFICES ASSUME IndInv PROVE TypeOK
    OBVIOUS
  <2>1. \A f \in Frames : IsFrame(f)
    BY FrameShape DEF IsFrame
  <2>2. ASSUME NEW e \in Ends, NEW i \in DOMAIN chan[e] PROVE IsFrame(chan[e][i])
    <3>1. chan[e] \in Seq(Arriving(e))
      BY DEF IndInv, Wires
    <3>2. chan[e][i] \in Arriving(e)
      BY <3>1, ElementOfSeq
    <3> QED
      BY <2>1, <3>2 DEF Arriving
  <2>3. ASSUME NEW e \in Ends, NEW i \in DOMAIN queue[e]
        PROVE  queue[e][i].origin \in Procs /\ IsFrame(queue[e][i].frame)
    <3>1. queue[e] \in Seq(CleanItems)
      BY DEF IndInv, Queues
    <3>2. queue[e][i] \in CleanItems
      BY <3>1
    <3> QED
      BY <2>1, <3>2, CleanIsEntry DEF CleanItems
  <2>4. store \in [Procs -> [Keys -> Entries]]
    BY CleanIsEntry DEF IndInv, Stores
  <2> QED
    BY <2>2, <2>3, <2>4 DEF IndInv, Kinds, Queues, TypeOK
<1> QED
  BY <1>1, IndInit, IndNext, PTL DEF Spec

\* Whatever clients send, nobody's store ever has an entry that its owner did
\* not write, at the host or beyond its relay (apply_owned).
THEOREM OwnersOnly == Spec => []OnlyOwnersWrite
<1>1. IndInv => OnlyOwnersWrite
  BY CleanSays DEF IndInv, Stores, OnlyOwnersWrite
<1> QED
  BY <1>1, IndInit, IndNext, PTL DEF Spec

-----------------------------------------------------------------------------
(* Expiry. *)

\* Frames, and items of the relay, in which nothing is older than n.
Aged(n) == {f \in Frames : \A k \in DOMAIN f : f[k].age <= n}
AgedItems(n) == {x \in CleanItems : x.frame \in Aged(n)}

\* The most that what is on its way can have aged: it left within the timeout.
Limit == Timeout + faults

Passing ==
  \A e \in Ends : chan[e] \in Seq(Aged(Limit)) /\ queue[e] \in Seq(AgedItems(Limit))

\* Since its last sweep, a store has aged as much as its timer says.
Faded ==
  \A p \in alive, k \in Keys :
    store[p][k].val # None => store[p][k].age <= Limit + timer[p]

GhostInv == faults \in Nat /\ Passing /\ Faded

LEMMA Ages ==
  ASSUME IndInv, NEW p \in Procs, NEW k \in Keys
  PROVE  store[p][k] \in Clean /\ store[p][k].age \in Nat /\ timer[p] \in Nat
  BY Numbers DEF IndInv, Stores, Kinds, Clean

LEMMA AgedGrows ==
  ASSUME NEW m \in Nat, NEW n \in Nat, m <= n
  PROVE  Aged(m) \subseteq Aged(n) /\ AgedItems(m) \subseteq AgedItems(n)
<1>1. ASSUME NEW f \in Aged(m) PROVE f \in Aged(n)
  BY FrameShape, Numbers DEF Aged, Entries
<1> QED
  BY <1>1 DEF AgedItems

LEMMA EncodeAged ==
  ASSUME NEW st \in [Keys -> Clean], faults \in Nat
  PROVE  EncodeAll(st) \in Aged(Limit)
<1>1. EncodeAll(st) \in Frames
  BY EncodeIsClean, CleanIsEntry
<1>2. ASSUME NEW k \in DOMAIN EncodeAll(st) PROVE EncodeAll(st)[k].age <= Limit
  BY Numbers DEF EncodeAll, Limit, Clean
<1> QED
  BY <1>1, <1>2 DEF Aged

LEMMA ItemAged ==
  ASSUME faults \in Nat, NEW p \in Procs, NEW k \in Keys, NEW x \in Clean, x.age = 0
  PROVE  Item(p, k, x) \in AgedItems(Limit)
<1>1. Item(p, k, x) \in CleanItems /\ Item(p, k, x).frame = [y \in {k} |-> x]
  BY ItemIsClean DEF Item
<1>2. [y \in {k} |-> x] \in Frames
  BY IsCleanFrame, CleanIsEntry
<1> QED
  BY <1>1, <1>2, Numbers DEF AgedItems, Aged, Limit

LEMMA KeptAged ==
  ASSUME NEW e \in Ends, NEW n, NEW f \in Aged(n) \cap Arriving(e)
  PROVE  Kept(e, f) \in Aged(n) /\ DOMAIN Kept(e, f) \subseteq DOMAIN f
<1>1. Kept(e, f) \in Frames
  BY KeptIsClean, CleanIsEntry
<1> QED
  BY <1>1 DEF Aged, Kept

\* What a change leaves of the relay's items and of frames on their way.
LEMMA PassingPublish ==
  ASSUME Passing, DOMAIN queue = Ends, NEW p, NEW items \in Seq(AgedItems(Limit)), Publish(p, items)
  PROVE  \A e \in Ends : queue'[e] \in Seq(AgedItems(Limit))
<1> SUFFICES ASSUME NEW e \in Ends PROVE queue'[e] \in Seq(AgedItems(Limit))
  OBVIOUS
<1>1. queue[e] \o items \in Seq(AgedItems(Limit))
  BY ConcatProperties DEF Passing
<1>2. LastOnes(queue[e] \o items) \in Seq(AgedItems(Limit))
  BY <1>1, LastFew
<1> QED
  BY <1>2 DEF Publish, Passing

LEMMA PassingSend ==
  ASSUME Passing, Wires, NEW e \in Ends, NEW f \in Aged(Limit), chan' = [chan EXCEPT ![e] = Append(@, f)]
  PROVE  \A d \in Ends : chan'[d] \in Seq(Aged(Limit))
<1>1. Append(chan[e], f) \in Seq(Aged(Limit))
  BY AppendProperties DEF Passing
<1> QED
  BY <1>1 DEF Passing, Wires

LEMMA GhostInit == Init => GhostInv
<1> SUFFICES ASSUME Init PROVE GhostInv
  OBVIOUS
<1>1. faults = 0 /\ faults \in Nat
  BY DEF Init
<1>2. Passing
  BY DEF Init, Passing
<1>3. ASSUME NEW p \in Procs, NEW k \in Keys
      PROVE  store[p][k] = Absent \/ store[p][k] = Fresh(Absent, own[k], FALSE)
  BY DEF Init
<1>4. Absent.val = None /\ \A k \in Keys : Fresh(Absent, own[k], FALSE).age = 0
  BY DEF Absent, Fresh
<1>5. ASSUME NEW p \in Procs PROVE timer[p] = 0
  BY DEF Init
<1>6. alive \subseteq Procs
  BY DEF Init
<1>7. ASSUME NEW p \in alive, NEW k \in Keys, store[p][k].val # None
      PROVE  store[p][k].age <= Limit + timer[p]
  <2>1. store[p][k].age = 0
    BY <1>3, <1>4, <1>6, <1>7
  <2>2. timer[p] = 0
    BY <1>5, <1>6
  <2> QED
    BY <1>1, <2>1, <2>2, Numbers DEF Limit
<1> QED
  BY <1>1, <1>2, <1>7 DEF GhostInv, Faded

LEMMA GhostSet ==
  ASSUME IndInv, GhostInv, NEW k \in Keys, NEW v \in Values \cup {None}, NEW tie \in BOOLEAN,
         Set(k, v, tie)
  PROVE  GhostInv'
<1> DEFINE p == OwnerOf[k]
           new == Fresh(store[p][k], v, tie)
<1>1. p \in Procs /\ new \in Clean /\ new.age = 0
  BY KeysAssumption, FreshIsClean, Ages DEF Fresh
<1>2. UNCHANGED <<faults, chan, alive, timer>> /\ store' = [store EXCEPT ![p][k] = new]
      /\ Publish(p, <<Item(p, k, new)>>)
  BY DEF Set
<1>3. <<Item(p, k, new)>> \in Seq(AgedItems(Limit))
  BY <1>1, ItemAged DEF GhostInv
<1> HIDE DEF new
<1>4. Passing'
  BY <1>2, <1>3, PassingPublish DEF GhostInv, IndInv, Queues, Passing, Limit
<1>5. ASSUME NEW q \in alive, NEW x \in Keys, store'[q][x].val # None
      PROVE  store'[q][x].age <= Limit + timer[q]
  <2>1. q \in Procs /\ timer[q] \in Nat /\ faults \in Nat
    BY Ages DEF IndInv, Kinds, GhostInv
  <2>2. CASE q = p /\ x = k
    BY <1>1, <1>2, <2>1, <2>2, Numbers DEF IndInv, Stores, Limit
  <2>3. CASE ~(q = p /\ x = k)
    <3>1. store'[q][x] = store[q][x]
      BY <1>1, <1>2, <2>1, <2>3 DEF IndInv, Stores
    <3> QED
      BY <1>5, <3>1 DEF GhostInv, Faded
  <2> QED
    BY <2>2, <2>3
<1> QED
  BY <1>2, <1>4, <1>5 DEF GhostInv, Faded, Limit

\* The sweep leaves nothing that has expired, and what is renewed is new.
LEMMA GhostRefresh ==
  ASSUME IndInv, GhostInv, NEW p \in Procs, Refresh(p)
  PROVE  GhostInv'
<1> DEFINE new == [k \in Renewed(p) |-> Fresh(store[p][k], own[k], FALSE)]
           st == [k \in Keys |-> IF k \in Renewed(p) THEN new[k] ELSE store[p][k]]
<1>1. Renewed(p) \subseteq Keys
  BY DEF Renewed
<1>2. new \in [Renewed(p) -> Clean] /\ \A k \in Renewed(p) : new[k].age = 0
  BY <1>1, FreshIsClean DEF IndInv, Stores, Kinds, Fresh
<1>3. st \in [Keys -> Clean]
  BY <1>1, <1>2 DEF IndInv, Stores
<1>4. /\ store' = [store EXCEPT ![p] = Swept(st)] /\ timer' = [timer EXCEPT ![p] = 0]
      /\ UNCHANGED <<faults, chan, alive>>
  BY DEF Refresh, IndInv, Stores, bounds
<1> HIDE DEF new, st
<1>5. PICK order \in SetToSeqs(Renewed(p)) :
        Publish(p, [i \in DOMAIN order |-> Item(p, order[i], new[order[i]])])
  BY DEF Refresh, new
<1> DEFINE items == [i \in DOMAIN order |-> Item(p, order[i], new[order[i]])]
<1>6. items \in Seq(AgedItems(Limit))
  <2>1. Cardinality(Renewed(p)) \in Nat
    BY <1>1, KeysAssumption, FS_Subset, FS_CardinalityType
  <2>2. order \in [1 .. Cardinality(Renewed(p)) -> Renewed(p)]
    BY DEF SetToSeqs
  <2>3. \A i \in DOMAIN order : Item(p, order[i], new[order[i]]) \in AgedItems(Limit)
    BY <1>1, <1>2, <2>2, ItemAged DEF GhostInv
  <2> QED
    BY <2>1, <2>2, <2>3
<1>7. Passing'
  BY <1>4, <1>5, <1>6, PassingPublish DEF GhostInv, IndInv, Queues, Passing, Limit
<1>8. ASSUME NEW q \in alive, NEW k \in Keys, store'[q][k].val # None
      PROVE  store'[q][k].age <= Limit + timer'[q]
  <2>1. q \in Procs /\ faults \in Nat
    BY DEF IndInv, Kinds, GhostInv
  <2>2. CASE q = p
    <3>1. store'[p][k] = Swept(st)[k] /\ timer'[p] = 0
      BY <1>4 DEF IndInv, Stores, Kinds
    <3>2. Swept(st)[k].age <= Timeout /\ Swept(st)[k].age \in Nat
      BY <1>3, <1>8, <2>2, <3>1, Numbers DEF Swept, Absent, Clean
    <3> QED
      BY <2>1, <2>2, <3>1, <3>2, Numbers DEF Limit
  <2>3. CASE q # p
    <3>1. store'[q] = store[q] /\ timer'[q] = timer[q]
      BY <1>4, <2>1, <2>3 DEF IndInv, Stores, Kinds
    <3> QED
      BY <1>8, <3>1 DEF GhostInv, Faded
  <2> QED
    BY <2>2, <2>3
<1> QED
  BY <1>4, <1>7, <1>8 DEF GhostInv, Faded, Limit

LEMMA GhostOpen ==
  ASSUME IndInv, GhostInv, NEW e \in Ends, Open(e)
  PROVE  GhostInv'
<1>1. Opening(e) \in Aged(Limit)
  BY FarIsEnd, EncodeAged DEF Opening, IndInv, Stores, GhostInv
<1>2. chan' = [chan EXCEPT ![Far(e)] = Append(@, Opening(e))]
      /\ UNCHANGED <<store, timer, alive, queue, faults>>
  BY DEF Open, bounds
<1>3. Passing'
  BY <1>1, <1>2, FarIsEnd, PassingSend DEF IndInv, GhostInv, Passing, Limit
<1> QED
  BY <1>2, <1>3 DEF GhostInv, Faded, Limit

LEMMA GhostRecv ==
  ASSUME IndInv, GhostInv, NEW e \in Ends, Recv(e)
  PROVE  GhostInv'
<1> DEFINE f == Head(chan[e])
           kept == Kept(e, f)
           p == At(e)
<1>1. chan[e] # <<>> /\ chan[e] \in Seq(Arriving(e)) /\ chan[e] \in Seq(Aged(Limit))
  BY DEF Recv, IndInv, Wires, GhostInv, Passing
<1>2. f \in Arriving(e) /\ f \in Aged(Limit) /\ Tail(chan[e]) \in Seq(Aged(Limit))
  BY <1>1, HeadTailProperties
<1>3. kept \in CleanFrames /\ kept \in Aged(Limit) /\ p \in Procs
  BY <1>2, KeptIsClean, KeptAged, FarIsEnd
<1>4. /\ chan' = [chan EXCEPT ![e] = Tail(@)] /\ store' = [store EXCEPT ![p] = Applied(@, kept)]
      /\ UNCHANGED <<timer, alive, faults>>
  BY DEF Recv, bounds
<1>5. \A d \in Ends : queue'[d] \in Seq(AgedItems(Limit))
  <2>1. CASE e[1] = "host" /\ DOMAIN kept # {}
    <3>1. [origin |-> e[2], frame |-> kept] \in AgedItems(Limit)
      BY <1>3 DEF AgedItems, CleanItems, Ends, Procs
    <3>2. Publish(p, <<[origin |-> e[2], frame |-> kept]>>)
      BY <2>1 DEF Recv
    <3>3. <<[origin |-> e[2], frame |-> kept]>> \in Seq(AgedItems(Limit))
      BY <3>1
    <3>4. Passing /\ DOMAIN queue = Ends
      BY DEF IndInv, Queues, GhostInv
    <3> HIDE DEF kept, p
    <3> QED
      BY <3>2, <3>3, <3>4, PassingPublish
  <2>2. CASE ~(e[1] = "host" /\ DOMAIN kept # {})
    BY <2>2 DEF Recv, GhostInv, Passing
  <2> QED
    BY <2>1, <2>2
<1> HIDE DEF kept
<1>6. Passing'
  BY <1>2, <1>4, <1>5 DEF IndInv, Wires, GhostInv, Passing, Limit
<1>7. ASSUME NEW q \in alive, NEW k \in Keys, store'[q][k].val # None
      PROVE  store'[q][k].age <= Limit + timer[q]
  <2>1. q \in Procs /\ timer[q] \in Nat /\ faults \in Nat
    BY Ages DEF IndInv, Kinds, GhostInv
  <2>2. CASE q = p /\ k \in DOMAIN kept /\ store'[q][k] = kept[k]
    <3>1. kept[k].age <= Limit /\ kept[k].age \in Nat
      BY <1>3, <2>2, CleanShape DEF Aged, Clean
    <3> QED
      BY <2>1, <2>2, <3>1, Numbers DEF Limit
  <2>3. CASE store'[q][k] = store[q][k]
    BY <1>7, <2>3 DEF GhostInv, Faded
  <2>4. store'[q][k] = store[q][k] \/ (q = p /\ k \in DOMAIN kept /\ store'[q][k] = kept[k])
    BY <1>3, <1>4, <2>1 DEF IndInv, Stores, Applied
  <2> QED
    BY <2>2, <2>3, <2>4
<1> QED
  BY <1>4, <1>6, <1>7 DEF GhostInv, Faded, Limit

LEMMA GhostRelay ==
  ASSUME IndInv, GhostInv, NEW e \in Ends, Relay(e)
  PROVE  GhostInv'
<1>0. UNCHANGED <<store, timer, alive, faults>>
  BY DEF Relay, bounds
<1>1. CASE e \in lagged
  <2>1. EncodeAll(store[At(e)]) \in Aged(Limit)
    BY FarIsEnd, EncodeAged DEF IndInv, Stores, GhostInv
  <2>2. chan' = [chan EXCEPT ![Far(e)] = Append(@, EncodeAll(store[At(e)]))] /\ UNCHANGED queue
    BY <1>1, FarIsEnd DEF Relay, CaughtUp, IndInv, Wires
  <2>3. Passing'
    BY <1>0, <2>1, <2>2, FarIsEnd, PassingSend DEF IndInv, GhostInv, Passing, Limit
  <2> QED
    BY <1>0, <2>3 DEF GhostInv, Faded, Limit
<1>2. CASE e \notin lagged
  <2>1. queue[e] \in Seq(AgedItems(Limit)) /\ queue[e] # <<>> /\ queue' = [queue EXCEPT ![e] = Tail(@)]
    BY <1>2 DEF Relay, GhostInv, Passing
  <2>2. Head(queue[e]) \in AgedItems(Limit) /\ Tail(queue[e]) \in Seq(AgedItems(Limit))
    BY <2>1, HeadTailProperties
  <2>3. \A d \in Ends : queue'[d] \in Seq(AgedItems(Limit))
    BY <2>1, <2>2 DEF IndInv, Queues, GhostInv, Passing
  <2>4. Head(queue[e]).frame \in Aged(Limit)
    BY <2>2 DEF AgedItems
  <2>5. \A d \in Ends : chan'[d] \in Seq(Aged(Limit))
    BY <1>2, <2>4, FarIsEnd, PassingSend DEF Relay, IndInv, GhostInv, Passing
  <2>6. Passing'
    BY <1>0, <2>3, <2>5 DEF Passing, Limit
  <2> QED
    BY <1>0, <2>6 DEF GhostInv, Faded, Limit
<1> QED
  BY <1>1, <1>2

\* What a fault adds to the limit, nothing takes away.
LEMMA Loosened ==
  ASSUME GhostInv, faults' = faults + 1
  PROVE  /\ Limit' = Limit + 1 /\ faults' \in Nat
         /\ \A e \in Ends : chan[e] \in Seq(Aged(Limit')) /\ queue[e] \in Seq(AgedItems(Limit'))
<1>1. Limit \in Nat /\ Limit' = Limit + 1 /\ faults' \in Nat
  BY Numbers DEF GhostInv, Limit
<1>2. Aged(Limit) \subseteq Aged(Limit') /\ AgedItems(Limit) \subseteq AgedItems(Limit')
  BY <1>1, AgedGrows
<1> QED
  BY <1>1, <1>2, SeqMonotonic DEF GhostInv, Passing

LEMMA GhostLoosened ==
  ASSUME IndInv, GhostInv, faults' = faults + 1, alive' \subseteq alive, UNCHANGED <<store, timer>>
  PROVE  Faded'
<1> SUFFICES ASSUME NEW p \in alive', NEW k \in Keys, store[p][k].val # None
             PROVE  store[p][k].age <= Limit' + timer[p]
  BY DEF Faded
<1>1. p \in Procs /\ store[p][k].age <= Limit + timer[p]
  BY DEF IndInv, Kinds, GhostInv, Faded
<1>2. store[p][k].age \in Nat /\ timer[p] \in Nat /\ Limit \in Nat
  BY <1>1, Ages, Numbers DEF GhostInv, Limit
<1> QED
  BY <1>1, <1>2, Loosened

LEMMA GhostBroken ==
  ASSUME IndInv, GhostInv, NEW s \in Spokes, Broken(s), faults' = faults + 1, alive' \subseteq alive,
         UNCHANGED <<store, timer>>
  PROVE  GhostInv'
<1>1. Passing'
  BY Loosened DEF Broken, Passing
<1> QED
  BY <1>1, Loosened, GhostLoosened DEF GhostInv

LEMMA GhostStray ==
  ASSUME IndInv, GhostInv, NEW s \in Spokes, NEW v \in {Alien, Container}, Stray(s, v)
  PROVE  GhostInv'
<1> DEFINE e == <<"host", s>>
           mine == IF v = Alien THEN {k \in Keys : OwnerOf[k] = s} ELSE {}
           D == {x \in Keys : x \in mine => store[s][x].age <= Timeout}
           frame == [k \in D |-> IF k \in mine THEN store[s][k] ELSE [val |-> v, age |-> 0, sub |-> 2]]
<1>1. e \in Ends /\ s \in Procs
  BY DEF Ends, Procs
<1>2. store[s] \in [Keys -> Clean] /\ [val |-> v, age |-> 0, sub |-> 2] \in Entries
  BY <1>1, Numbers DEF IndInv, Stores, Entries
<1>3. frame \in Frames
  <2>1. frame \in [D -> Entries]
    BY <1>2, CleanIsEntry
  <2> QED
    BY <2>1 DEF Frames
<1>4. ASSUME NEW k \in D PROVE frame[k].age <= Timeout /\ frame[k].age \in Nat
  BY <1>2, Numbers DEF Clean
<1>5. /\ chan' = [chan EXCEPT ![e] = Append(@, frame)] /\ faults' = faults + 1
      /\ UNCHANGED <<store, timer, alive, queue>>
  BY DEF Stray
<1>6. frame \in Aged(Limit')
  <2>1. Limit' \in Nat /\ Timeout <= Limit'
    BY <1>5, Loosened, Numbers DEF GhostInv, Limit
  <2>2. DOMAIN frame = D
    OBVIOUS
  <2> QED
    BY <1>3, <1>4, <2>1, <2>2, Numbers DEF Aged
<1> HIDE DEF frame
<1>7. Append(chan[e], frame) \in Seq(Aged(Limit'))
  BY <1>1, <1>5, <1>6, Loosened, AppendProperties
<1>8. Passing'
  BY <1>1, <1>5, <1>7, Loosened DEF Passing, IndInv, Wires
<1> QED
  BY <1>5, <1>8, Loosened, GhostLoosened DEF GhostInv

\* A tick ages what is in a sequence by one.
LEMMA TickAges ==
  ASSUME NEW n \in Nat, NEW f \in Aged(n)
  PROVE  AllOlder(f) \in Aged(n + 1)
<1>1. AllOlder(f) \in Frames /\ DOMAIN AllOlder(f) = DOMAIN f
  <2>1. DOMAIN f \subseteq Keys /\ f \in [DOMAIN f -> Entries]
    BY FrameShape DEF Aged
  <2>2. AllOlder(f) \in [DOMAIN f -> Entries]
    BY <2>1, OlderSame DEF AllOlder
  <2> QED
    BY <2>1, <2>2 DEF Frames
<1>2. ASSUME NEW k \in DOMAIN f PROVE AllOlder(f)[k].age <= n + 1
  <2>1. f[k] \in Entries /\ f[k].age <= n
    BY FrameShape DEF Aged
  <2> QED
    BY <2>1, Numbers DEF AllOlder, Older, Entries
<1> QED
  BY <1>1, <1>2 DEF Aged

LEMMA GhostTick ==
  ASSUME IndInv, GhostInv, Tick
  PROVE  GhostInv'
<1>1. Limit \in Nat /\ faults \in Nat
  BY Numbers DEF GhostInv, Limit
<1>2. faults' \in Nat /\ Limit' \in Nat /\ Limit <= Limit'
  BY <1>1, Numbers DEF Tick, Limit
<1>3. ASSUME NEW e \in Ends PROVE chan'[e] \in Seq(Aged(Limit'))
  <2>1. chan[e] \in Seq(Aged(Limit)) /\ chan'[e] = [i \in DOMAIN chan[e] |-> AllOlder(chan[e][i])]
    BY DEF Tick, GhostInv, Passing
  <2>2. DOMAIN chan[e] = 1 .. Len(chan[e]) /\ Len(chan[e]) \in Nat
    BY <2>1
  <2>3. ASSUME NEW i \in DOMAIN chan[e] PROVE AllOlder(chan[e][i]) \in Aged(Limit')
    <3>1. chan[e][i] \in Aged(Limit) /\ chan[e] # <<>>
      BY <2>1, <2>2
    <3>2. OnItsWay
      BY <3>1 DEF OnItsWay
    <3>3. Limit' = Limit + 1
      BY <1>1, <3>2, Numbers DEF Tick, Limit
    <3> QED
      BY <1>1, <3>1, <3>3, TickAges
  <2>4. chan'[e] \in [1 .. Len(chan[e]) -> Aged(Limit')]
    BY <2>1, <2>2, <2>3
  <2> QED
    BY <2>2, <2>4
<1>4. ASSUME NEW e \in Ends PROVE queue'[e] \in Seq(AgedItems(Limit'))
  <2>1. queue[e] \in Seq(AgedItems(Limit))
        /\ queue'[e] = [i \in DOMAIN queue[e] |-> [queue[e][i] EXCEPT !.frame = AllOlder(@)]]
    BY DEF Tick, GhostInv, Passing
  <2>2. DOMAIN queue[e] = 1 .. Len(queue[e]) /\ Len(queue[e]) \in Nat
    BY <2>1
  <2>3. ASSUME NEW i \in DOMAIN queue[e]
        PROVE  [queue[e][i] EXCEPT !.frame = AllOlder(@)] \in AgedItems(Limit')
    <3>1. queue[e][i] \in AgedItems(Limit) /\ queue[e] # <<>>
      BY <2>1, <2>2
    <3>2. OnItsWay
      BY <3>1 DEF OnItsWay
    <3>3. Limit' = Limit + 1
      BY <1>1, <3>2, Numbers DEF Tick, Limit
    <3>4. AllOlder(queue[e][i].frame) \in Aged(Limit')
      BY <1>1, <3>1, <3>3, TickAges DEF AgedItems
    <3>5. [queue[e][i] EXCEPT !.frame = AllOlder(@)] \in CleanItems
      BY <3>1, OlderFrame DEF AgedItems, CleanItems
    <3> QED
      BY <3>1, <3>4, <3>5 DEF AgedItems, CleanItems
  <2>4. queue'[e] \in [1 .. Len(queue[e]) -> AgedItems(Limit')]
    BY <2>1, <2>2, <2>3
  <2> QED
    BY <2>2, <2>4
<1>5. ASSUME NEW p \in alive, NEW k \in Keys, store'[p][k].val # None
      PROVE  store'[p][k].age <= Limit' + timer'[p]
  <2>1. p \in Procs /\ timer'[p] = timer[p] + 1
    BY DEF Tick, IndInv, Kinds
  <2>2. store[p][k] \in Clean /\ store[p][k].age \in Nat /\ timer[p] \in Nat
    BY <2>1, Ages
  <2>3. store'[p][k] = Older(store[p][k])
    BY <2>1 DEF Tick, AllOlder, IndInv, Stores
  <2>4. Older(store[p][k]).val = store[p][k].val /\ Older(store[p][k]).age <= store[p][k].age + 1
        /\ Older(store[p][k]).age \in Nat
    BY <2>2, Numbers DEF Older, Clean
  <2>5. store[p][k].age <= Limit + timer[p]
    BY <1>5, <2>3, <2>4 DEF GhostInv, Faded
  <2> QED
    BY <1>1, <1>2, <2>1, <2>2, <2>3, <2>4, <2>5
<1>6. alive' = alive
  BY DEF Tick
<1> QED
  BY <1>2, <1>3, <1>4, <1>5, <1>6 DEF GhostInv, Passing, Faded

LEMMA GhostNext == IndInv /\ GhostInv /\ [Next]_vars => GhostInv'
<1> SUFFICES ASSUME IndInv, GhostInv, [Next]_vars PROVE GhostInv'
  OBVIOUS
<1>1. ASSUME NEW k \in Keys, NEW v \in Values \cup {None}, NEW tie \in BOOLEAN, Set(k, v, tie)
      PROVE  GhostInv'
  BY <1>1, GhostSet
<1>2. ASSUME NEW p \in Procs, Refresh(p) PROVE GhostInv'
  BY <1>2, GhostRefresh
<1>3. ASSUME NEW s \in Spokes, Connect(s) PROVE GhostInv'
  BY <1>3 DEF Connect, bounds, GhostInv, Passing, Faded, Limit
<1>4. ASSUME NEW s \in Spokes, Drop(s) \/ Close(s) PROVE GhostInv'
  <2>1. Broken(s) /\ faults' = faults + 1 /\ alive' \subseteq alive /\ UNCHANGED <<store, timer>>
    BY <1>4 DEF Drop, Close
  <2> QED
    BY <2>1, GhostBroken
<1>5. ASSUME NEW s \in Spokes, NEW v \in {Alien, Container}, Stray(s, v) PROVE GhostInv'
  BY <1>5, GhostStray
<1>6. ASSUME NEW e \in Ends, Open(e) \/ Recv(e) \/ Relay(e) PROVE GhostInv'
  BY <1>6, GhostOpen, GhostRecv, GhostRelay
<1>7. CASE Tick
  BY <1>7, GhostTick
<1>8. CASE UNCHANGED vars
  BY <1>8 DEF vars, wires, bounds, GhostInv, Passing, Faded, Limit
<1> QED
  BY <1>1, <1>2, <1>3, <1>4, <1>5, <1>6, <1>7, <1>8 DEF Next

\* Whoever left fades from every view: no entry is shown past the timeout, one
\* period of the viewer's own sweep and the delays there were, although snapshots
\* of others who have not swept yet go on carrying it (remove_outdated, encode_all).
THEOREM GhostsFade == Spec => []NoGhosts
<1>1. IndInv /\ GhostInv => NoGhosts
  <2> SUFFICES ASSUME IndInv, GhostInv, NEW p \in alive, NEW k \in Keys, store[p][k].val # None
               PROVE  store[p][k].age <= Timeout + Period + faults
    BY DEF NoGhosts
  <2>1. p \in Procs /\ timer[p] \in 0 .. Period /\ faults \in Nat
    BY DEF IndInv, Kinds, GhostInv
  <2>2. store[p][k].age \in Nat /\ store[p][k].age <= Limit + timer[p]
    BY <2>1, Ages DEF GhostInv, Faded
  <2> QED
    BY <2>1, <2>2, Numbers DEF Limit
<1> QED
  BY <1>1, IndInit, IndNext, GhostInit, GhostNext, PTL DEF Spec

-----------------------------------------------------------------------------
(* An owner's view of its own entries. *)

\* The entries of the owners that run, as each has them.
Master == [k \in {x \in Keys : OwnerOf[x] \in alive} |-> store[OwnerOf[k]][k]]

\* x, unless it has expired, would not be applied over m, and it is m if it is as
\* new, unless k was last changed twice in one instant: no copy of an entry is
\* ahead of its owner's.
NotAhead(T, k, m, x) ==
  x.age <= Timeout => IF k \in T THEN ~Newer(x, m) ELSE x = m \/ Newer(m, x)
Behind(T, M, k, x) == k \in DOMAIN M => NotAhead(T, k, M[k], x)

\* The frames and items whose entries are behind M, as far as they are kept.
BehindFrames(T, M, e) ==
  {f \in Arriving(e) : Decodes(f) => \A k \in DOMAIN f : Owns(e, k) => Behind(T, M, k, f[k])}
BehindItems(T, M) == {x \in CleanItems : \A k \in DOMAIN x.frame : Behind(T, M, k, x.frame[k])}

\* A set entry is as it was set and renewed in time; a cleared one shows nothing.
Masters ==
  \A k \in DOMAIN Master :
    IF own[k] # None THEN Master[k].val = own[k] /\ Master[k].age <= timer[OwnerOf[k]]
    ELSE Master[k].val = None \/ Master[k].age > Timeout
StoresBehind(T, M, st) == \A p \in Procs, k \in Keys : Behind(T, M, k, st[p][k])
FramesBehind(T, M, ch) == \A e \in Ends : ch[e] \in Seq(BehindFrames(T, M, e))
QueuesBehind(T, M, q) == \A e \in Ends : q[e] \in Seq(BehindItems(T, M))

OwnInv ==
  /\ Masters /\ StoresBehind(tied, Master, store)
  /\ FramesBehind(tied, Master, chan) /\ QueuesBehind(tied, Master, queue)

\* Whatever is behind M is behind N.
Covers(T, M, U, N) ==
  /\ DOMAIN N \subseteq DOMAIN M
  /\ \A k \in DOMAIN N : \A x \in Entries : NotAhead(T, k, M[k], x) => NotAhead(U, k, N[k], x)

LEMMA NotAheadSelf == ASSUME NEW m \in Clean, NEW T, NEW k PROVE NotAhead(T, k, m, m)
  BY Numbers DEF NotAhead, Newer, Clean

\* Nothing that has not expired is behind an entry that has.
LEMMA ExpiredBehind ==
  ASSUME NEW m \in Clean, m.age > Timeout, NEW x \in Entries, NEW T, NEW k,
         NotAhead(T, k, m, x)
  PROVE  \A U, n : NotAhead(U, k, n, x)
  BY Numbers DEF NotAhead, Newer, Clean, Entries

LEMMA FreshCovers ==
  ASSUME NEW m \in Clean, NEW v, NEW tie \in BOOLEAN, NEW x \in Entries,
         NEW T, NEW U, NEW k, tie => k \in U, NotAhead(T, k, m, x)
  PROVE  NotAhead(U, k, Fresh(m, v, tie), x)
<1>1. m.age \in Nat /\ m.sub \in Nat /\ x.age \in Nat /\ x.sub \in Nat
  BY Numbers DEF Clean, Entries
<1>2. x.age <= Timeout => ~Newer(x, m)
  BY <1>1 DEF NotAhead, Newer
<1>3. CASE m.age > 0
  BY <1>1, <1>2, <1>3, Numbers DEF NotAhead, Newer, Fresh
<1>4. CASE m.age = 0
  BY <1>1, <1>2, <1>4, Numbers DEF NotAhead, Newer, Fresh
<1> QED BY <1>1, <1>3, <1>4

LEMMA OlderBehind ==
  ASSUME NEW m \in Clean, NEW x \in Entries, NEW T, NEW k, NotAhead(T, k, m, x)
  PROVE  NotAhead(T, k, Older(m), Older(x))
<1>1. m.age \in 0 .. MaxAge /\ m.sub \in Nat /\ x.age \in 0 .. MaxAge /\ x.sub \in Nat
  BY DEF Clean, Entries
<1>2. MaxAge \in Nat /\ Timeout \in Nat /\ Timeout + 2 <= MaxAge
  BY PeriodAssumption, BoundsAssumption DEF MaxAge
<1> SUFFICES ASSUME Older(x).age <= Timeout
             PROVE  IF k \in T THEN ~Newer(Older(x), Older(m))
                    ELSE Older(x) = Older(m) \/ Newer(Older(m), Older(x))
  BY DEF NotAhead
<1>3. x.age + 1 <= Timeout /\ Older(x) = [x EXCEPT !.age = @ + 1]
  BY <1>1, <1>2 DEF Older, Entries
<1>4. ~Newer(x, m)
  BY <1>1, <1>2, <1>3 DEF NotAhead, Newer
<1>5. m.age <= x.age
  BY <1>1, <1>4 DEF Newer
<1>6. Older(m) = [m EXCEPT !.age = @ + 1]
  BY <1>1, <1>2, <1>3, <1>5 DEF Older
<1>7. /\ Older(x).age = x.age + 1 /\ Older(x).sub = x.sub
      /\ Older(m).age = m.age + 1 /\ Older(m).sub = m.sub
  BY <1>3, <1>6 DEF Clean, Entries
<1>8. k \in T => ~Newer(Older(x), Older(m))
  BY <1>1, <1>4, <1>7 DEF Newer
<1>9. k \notin T => Older(x) = Older(m) \/ Newer(Older(m), Older(x))
  BY <1>1, <1>2, <1>3, <1>7 DEF NotAhead, Newer
<1> QED BY <1>8, <1>9

LEMMA BehindGrows ==
  ASSUME NEW T, NEW M, NEW U, NEW N, Covers(T, M, U, N)
  PROVE  /\ \A k, x : x \in Entries /\ Behind(T, M, k, x) => Behind(U, N, k, x)
         /\ \A e : BehindFrames(T, M, e) \subseteq BehindFrames(U, N, e)
         /\ BehindItems(T, M) \subseteq BehindItems(U, N)
<1>1. ASSUME NEW k, NEW x \in Entries, Behind(T, M, k, x) PROVE Behind(U, N, k, x)
  BY <1>1 DEF Behind, Covers
<1>2. ASSUME NEW e, NEW f \in BehindFrames(T, M, e) PROVE f \in BehindFrames(U, N, e)
  <2>1. f \in Arriving(e) /\ \A k \in DOMAIN f : f[k] \in Entries
    BY FrameShape DEF BehindFrames, Arriving
  <2> QED BY <1>1, <2>1 DEF BehindFrames
<1>3. ASSUME NEW i \in BehindItems(T, M) PROVE i \in BehindItems(U, N)
  <2>1. i \in CleanItems /\ \A k \in DOMAIN i.frame : i.frame[k] \in Entries
    BY CleanShape, CleanIsEntry DEF BehindItems, CleanItems
  <2> QED BY <1>1, <2>1 DEF BehindItems
<1> QED BY <1>1, <1>2, <1>3

\* What was behind stays behind when the owners' entries move on.
LEMMA StillBehind ==
  ASSUME IndInv, OwnInv, NEW U, NEW N, Covers(tied, Master, U, N)
  PROVE  /\ StoresBehind(U, N, store) /\ FramesBehind(U, N, chan) /\ QueuesBehind(U, N, queue)
<1>1. StoresBehind(U, N, store)
  BY BehindGrows, CleanIsEntry DEF OwnInv, StoresBehind, IndInv, Stores
<1>2. FramesBehind(U, N, chan)
  <2> SUFFICES ASSUME NEW e \in Ends PROVE chan[e] \in Seq(BehindFrames(U, N, e))
    BY DEF FramesBehind
  <2>1. BehindFrames(tied, Master, e) \subseteq BehindFrames(U, N, e)
    BY BehindGrows
  <2> QED BY <2>1, SeqMonotonic DEF OwnInv, FramesBehind
<1>3. QueuesBehind(U, N, queue)
  <2>1. BehindItems(tied, Master) \subseteq BehindItems(U, N)
    BY BehindGrows
  <2> QED BY <2>1, SeqMonotonic DEF OwnInv, QueuesBehind
<1> QED BY <1>1, <1>2, <1>3

LEMMA BehindPublish ==
  ASSUME NEW U, NEW N, QueuesBehind(U, N, queue), NEW p, NEW items \in Seq(BehindItems(U, N)), Publish(p, items)
  PROVE  QueuesBehind(U, N, queue')
<1> SUFFICES ASSUME NEW e \in Ends PROVE queue'[e] \in Seq(BehindItems(U, N))
  BY DEF QueuesBehind
<1>1. queue[e] \o items \in Seq(BehindItems(U, N))
  BY ConcatProperties DEF QueuesBehind
<1>2. LastOnes(queue[e] \o items) \in Seq(BehindItems(U, N))
  BY <1>1, LastFew
<1> QED BY <1>2 DEF Publish, QueuesBehind

LEMMA BehindSend ==
  ASSUME NEW U, NEW N, FramesBehind(U, N, chan), Wires, NEW e \in Ends, NEW f \in BehindFrames(U, N, e),
         chan' = [chan EXCEPT ![e] = Append(@, f)]
  PROVE  FramesBehind(U, N, chan')
<1>1. Append(chan[e], f) \in Seq(BehindFrames(U, N, e))
  BY AppendProperties DEF FramesBehind
<1> QED BY <1>1 DEF FramesBehind, Wires

\* A snapshot of a store is behind.
LEMMA SnapshotBehind ==
  ASSUME IndInv, OwnInv, NEW p \in Procs, NEW e \in Ends
  PROVE  EncodeAll(store[p]) \in BehindFrames(tied, Master, e)
<1>1. EncodeAll(store[p]) \in Arriving(e)
  BY EncodeIsClean, CleanArrives DEF IndInv, Stores
<1>2. ASSUME NEW k \in DOMAIN EncodeAll(store[p])
      PROVE  Behind(tied, Master, k, EncodeAll(store[p])[k])
  <2>1. k \in Keys /\ EncodeAll(store[p])[k] = store[p][k]
    BY DEF EncodeAll
  <2> QED BY <2>1 DEF OwnInv, StoresBehind
<1> QED BY <1>1, <1>2 DEF BehindFrames

\* A relayed item is behind wherever it goes.
LEMMA ItemBehind ==
  ASSUME NEW T, NEW M, NEW i \in BehindItems(T, M), NEW e
  PROVE  i.frame \in BehindFrames(T, M, e)
<1>1. i.frame \in CleanFrames
  BY DEF BehindItems, CleanItems
<1>2. i.frame \in Arriving(e)
  BY <1>1, CleanArrives
<1> QED BY <1>2 DEF BehindItems, BehindFrames

LEMMA SameCovers == ASSUME NEW T, NEW M PROVE Covers(T, M, T, M)
  BY DEF Covers

LEMMA MasterClean ==
  ASSUME IndInv, NEW k \in DOMAIN Master
  PROVE  k \in Keys /\ OwnerOf[k] \in Procs /\ OwnerOf[k] \in alive
         /\ Master[k] = store[OwnerOf[k]][k] /\ Master[k] \in Clean
  BY KeysAssumption DEF Master, IndInv, Stores

LEMMA OwnInit == Init => OwnInv
<1> SUFFICES ASSUME Init PROVE OwnInv
  OBVIOUS
<1>1. IndInv /\ alive = Procs
  BY IndInit DEF Init
<1>2. /\ Absent.age = MaxAge /\ MaxAge > Timeout /\ MaxAge \in Nat /\ Timeout \in Nat
      /\ \A k \in Keys : Fresh(Absent, own[k], FALSE) = [val |-> own[k], age |-> 0, sub |-> 0]
  BY PeriodAssumption, BoundsAssumption DEF Absent, Fresh, MaxAge
<1>3. ASSUME NEW p \in Procs, NEW k \in Keys
      PROVE  store[p][k] = IF own[k] # None /\ (OwnerOf[k] = p \/ {OwnerOf[k], p} \subseteq {Host} \cup regime.on)
                             THEN [val |-> own[k], age |-> 0, sub |-> 0] ELSE Absent
  BY <1>2 DEF Init
<1>4. ASSUME NEW k \in DOMAIN Master
      PROVE  /\ k \in Keys
             /\ Master[k] = IF own[k] # None THEN [val |-> own[k], age |-> 0, sub |-> 0] ELSE Absent
  BY <1>1, <1>3, MasterClean
<1>5. Masters
  <2> SUFFICES ASSUME NEW k \in DOMAIN Master
               PROVE  IF own[k] # None THEN Master[k].val = own[k] /\ Master[k].age <= timer[OwnerOf[k]]
                      ELSE Master[k].val = None \/ Master[k].age > Timeout
    BY DEF Masters
  <2>1. timer[OwnerOf[k]] = 0
    BY <1>1, MasterClean DEF Init
  <2> QED BY <1>2, <1>4, <2>1
<1>6. ASSUME NEW p \in Procs, NEW k \in Keys PROVE Behind(tied, Master, k, store[p][k])
  <2> SUFFICES ASSUME k \in DOMAIN Master PROVE NotAhead(tied, k, Master[k], store[p][k])
    BY DEF Behind
  <2>1. CASE own[k] # None /\ store[p][k] # Absent
    BY <1>3, <1>4, <2>1 DEF NotAhead, Newer
  <2>2. CASE store[p][k] = Absent
    BY <1>2, <2>2 DEF NotAhead
  <2>3. own[k] = None => store[p][k] = Absent
    BY <1>3
  <2> QED BY <2>1, <2>2, <2>3
<1>7. FramesBehind(tied, Master, chan) /\ QueuesBehind(tied, Master, queue)
  BY DEF Init, FramesBehind, QueuesBehind
<1> QED BY <1>5, <1>6, <1>7 DEF OwnInv, StoresBehind

\* A store and an owner's entry in it are changed; what was behind stays so.
LEMMA OwnSet ==
  ASSUME IndInv, OwnInv, NEW k \in Keys, NEW v \in Values \cup {None}, NEW tie \in BOOLEAN,
         Set(k, v, tie)
  PROVE  OwnInv'
<1> DEFINE p == OwnerOf[k]
           old == store[p][k]
           new == Fresh(old, v, tie)
<1>1. p \in Procs /\ p \in alive /\ old \in Clean /\ new \in Clean /\ new.age = 0 /\ new.val = v
  BY KeysAssumption, FreshIsClean DEF IndInv, Stores, Set, Fresh
<1>2. /\ UNCHANGED <<chan, alive, timer>> /\ store' = [store EXCEPT ![p][k] = new]
      /\ own' = [own EXCEPT ![k] = v] /\ Publish(p, <<Item(p, k, new)>>)
  BY DEF Set
<1>3. /\ \A x \in Entries : NotAhead(tied, k, old, x) => NotAhead(tied', k, new, x)
      /\ \A x : x # k => (x \in tied' <=> x \in tied)
  <2>1. (tie => k \in tied') /\ \A x : x # k => (x \in tied' <=> x \in tied)
    BY DEF Set
  <2> QED BY <1>1, <2>1, FreshCovers
<1> HIDE DEF new
<1>4. /\ DOMAIN Master' = DOMAIN Master /\ k \in DOMAIN Master /\ Master[k] = old /\ Master'[k] = new
      /\ \A x \in DOMAIN Master : x # k => Master'[x] = Master[x]
  BY <1>1, <1>2, KeysAssumption DEF Master, IndInv, Stores
<1>5. Covers(tied, Master, tied', Master')
  BY <1>3, <1>4 DEF Covers, NotAhead
<1>6. /\ StoresBehind(tied', Master', store) /\ FramesBehind(tied', Master', chan)
      /\ QueuesBehind(tied', Master', queue)
  BY <1>5, StillBehind
<1>7. NotAhead(tied', k, new, new)
  BY <1>1, NotAheadSelf
<1>8. StoresBehind(tied', Master', store')
  <2> SUFFICES ASSUME NEW q \in Procs, NEW x \in Keys PROVE Behind(tied', Master', x, store'[q][x])
    BY DEF StoresBehind
  <2>1. CASE q = p /\ x = k
    BY <1>1, <1>2, <1>4, <1>7, <2>1 DEF Behind, IndInv, Stores
  <2>2. CASE ~(q = p /\ x = k)
    <3>1. store'[q][x] = store[q][x]
      BY <1>1, <1>2, <2>2 DEF IndInv, Stores
    <3> QED BY <1>6, <3>1 DEF StoresBehind
  <2> QED BY <2>1, <2>2
<1>9. QueuesBehind(tied', Master', queue')
  <2>1. Item(p, k, new) \in CleanItems /\ Item(p, k, new).frame = [y \in {k} |-> new]
    BY <1>1, ItemIsClean DEF Item
  <2>2. Item(p, k, new) \in BehindItems(tied', Master')
    BY <1>4, <1>7, <2>1 DEF BehindItems, Behind
  <2>3. <<Item(p, k, new)>> \in Seq(BehindItems(tied', Master'))
    BY <2>2
  <2> QED BY <1>2, <1>6, <2>3, BehindPublish
<1>10. Masters'
  <2> SUFFICES ASSUME NEW x \in DOMAIN Master'
               PROVE  IF own'[x] # None
                        THEN Master'[x].val = own'[x] /\ Master'[x].age <= timer'[OwnerOf[x]]
                        ELSE Master'[x].val = None \/ Master'[x].age > Timeout
    BY DEF Masters
  <2>1. CASE x = k
    <3>1. own'[x] = v /\ timer'[OwnerOf[x]] >= 0
      BY <1>1, <1>2, <2>1, Numbers DEF IndInv, Kinds
    <3> QED BY <1>1, <1>4, <2>1, <3>1
  <2>2. CASE x # k
    <3>1. own'[x] = own[x] /\ Master'[x] = Master[x] /\ x \in DOMAIN Master
      BY <1>2, <1>4, <2>2, MasterClean DEF IndInv, Kinds
    <3> QED BY <1>2, <3>1 DEF OwnInv, Masters
  <2> QED BY <2>1, <2>2
<1> QED BY <1>2, <1>6, <1>8, <1>9, <1>10 DEF OwnInv

LEMMA OwnRefresh ==
  ASSUME IndInv, OwnInv, NEW p \in Procs, Refresh(p)
  PROVE  OwnInv'
<1> DEFINE new == [k \in Renewed(p) |-> Fresh(store[p][k], own[k], FALSE)]
           st == [k \in Keys |-> IF k \in Renewed(p) THEN new[k] ELSE store[p][k]]
<1>1. Renewed(p) \subseteq Keys /\ p \in alive
  BY DEF Renewed, Refresh
<1>2. new \in [Renewed(p) -> Clean] /\ \A k \in Renewed(p) : new[k].age = 0 /\ new[k].val = own[k]
  BY <1>1, FreshIsClean DEF IndInv, Stores, Kinds, Fresh
<1>3. \A k \in Renewed(p) : \A x \in Entries :
        NotAhead(tied, k, store[p][k], x) => NotAhead(tied', k, new[k], x)
  BY <1>1, FreshCovers DEF IndInv, Stores
<1>4. /\ store' = [store EXCEPT ![p] = Swept(st)] /\ timer' = [timer EXCEPT ![p] = 0]
      /\ UNCHANGED <<own, chan, alive>> /\ tied' = tied \ Renewed(p)
  BY DEF Refresh, IndInv, Stores
<1> HIDE DEF new
<1>5. ASSUME NEW k \in Keys
      PROVE  Swept(st)[k] = IF k \in Renewed(p) THEN new[k]
                            ELSE IF store[p][k].age > Timeout THEN Absent ELSE store[p][k]
  <2>1. CASE k \in Renewed(p)
    <3>1. st[k] = new[k] /\ new[k].age = 0
      BY <1>2, <2>1
    <3> QED BY <2>1, <3>1, Numbers DEF Swept
  <2>2. CASE k \notin Renewed(p)
    BY <2>2 DEF Swept
  <2> QED BY <2>1, <2>2
<1>6. ASSUME NEW q \in Procs, NEW k \in Keys
      PROVE  store'[q][k] = IF q # p THEN store[q][k]
                            ELSE IF k \in Renewed(p) THEN new[k]
                            ELSE IF store[p][k].age > Timeout THEN Absent ELSE store[p][k]
  BY <1>4, <1>5 DEF IndInv, Stores
<1>7. ASSUME NEW k \in DOMAIN Master'
      PROVE  k \in DOMAIN Master /\ k \in Keys /\ OwnerOf[k] \in Procs
             /\ Master[k] \in Clean /\ Master[k] = store[OwnerOf[k]][k]
             /\ Master'[k] = IF OwnerOf[k] # p THEN Master[k]
                             ELSE IF k \in Renewed(p) THEN new[k]
                             ELSE IF Master[k].age > Timeout THEN Absent ELSE Master[k]
  <2>1. k \in DOMAIN Master /\ Master'[k] = store'[OwnerOf[k]][k]
    BY <1>4 DEF Master
  <2>2. k \in Keys /\ OwnerOf[k] \in Procs /\ Master[k] \in Clean /\ Master[k] = store[OwnerOf[k]][k]
    BY <2>1, MasterClean
  <2> QED BY <1>6, <2>1, <2>2
<1>8. Covers(tied, Master, tied', Master')
  <2> SUFFICES ASSUME NEW k \in DOMAIN Master', NEW x \in Entries, NotAhead(tied, k, Master[k], x)
               PROVE  NotAhead(tied', k, Master'[k], x)
    BY <1>7 DEF Covers
  <2>1. CASE OwnerOf[k] = p /\ k \in Renewed(p)
    BY <1>3, <1>7, <2>1
  <2>2. CASE OwnerOf[k] = p /\ k \notin Renewed(p) /\ Master[k].age > Timeout
    BY <1>7, <2>2, ExpiredBehind
  <2>3. CASE Master'[k] = Master[k] /\ k \notin Renewed(p)
    BY <1>4, <2>3 DEF NotAhead
  <2>4. OwnerOf[k] # p => k \notin Renewed(p)
    BY DEF Renewed
  <2> QED BY <1>7, <2>1, <2>2, <2>3, <2>4
<1>9. /\ StoresBehind(tied', Master', store) /\ FramesBehind(tied', Master', chan)
      /\ QueuesBehind(tied', Master', queue)
  BY <1>8, StillBehind
<1>10. ASSUME NEW k \in Renewed(p) PROVE Behind(tied', Master', k, new[k])
  <2> SUFFICES ASSUME k \in DOMAIN Master' PROVE NotAhead(tied', k, Master'[k], new[k])
    BY DEF Behind
  <2>1. Master'[k] = new[k]
    BY <1>7, <1>10 DEF Renewed
  <2> QED BY <1>2, <2>1, NotAheadSelf
<1>11. StoresBehind(tied', Master', store')
  <2> SUFFICES ASSUME NEW q \in Procs, NEW k \in Keys PROVE Behind(tied', Master', k, store'[q][k])
    BY DEF StoresBehind
  <2>1. Behind(tied', Master', k, store[q][k])
    BY <1>9 DEF StoresBehind
  <2>2. Behind(tied', Master', k, Absent)
    BY PeriodAssumption, BoundsAssumption DEF Behind, NotAhead, Absent, MaxAge
  <2> QED BY <1>6, <1>10, <2>1, <2>2
<1>12. PICK order \in SetToSeqs(Renewed(p)) :
         Publish(p, [i \in DOMAIN order |-> Item(p, order[i], new[order[i]])])
  BY DEF Refresh, new
<1> DEFINE items == [i \in DOMAIN order |-> Item(p, order[i], new[order[i]])]
<1>13. items \in Seq(BehindItems(tied', Master'))
  <2>1. Cardinality(Renewed(p)) \in Nat
    BY <1>1, KeysAssumption, FS_Subset, FS_CardinalityType
  <2>2. order \in [1 .. Cardinality(Renewed(p)) -> Renewed(p)]
    BY DEF SetToSeqs
  <2>3. ASSUME NEW k \in Renewed(p) PROVE Item(p, k, new[k]) \in BehindItems(tied', Master')
    <3>1. Item(p, k, new[k]) \in CleanItems /\ Item(p, k, new[k]).frame = [y \in {k} |-> new[k]]
      BY <1>1, <1>2, ItemIsClean DEF Item
    <3> QED BY <1>10, <3>1 DEF BehindItems
  <2>4. \A i \in DOMAIN order : Item(p, order[i], new[order[i]]) \in BehindItems(tied', Master')
    BY <2>2, <2>3
  <2> QED BY <2>1, <2>2, <2>4
<1>14. QueuesBehind(tied', Master', queue')
  BY <1>9, <1>12, <1>13, BehindPublish
<1>15. Masters'
  <2> SUFFICES ASSUME NEW k \in DOMAIN Master'
               PROVE  IF own[k] # None
                        THEN Master'[k].val = own[k] /\ Master'[k].age <= timer'[OwnerOf[k]]
                        ELSE Master'[k].val = None \/ Master'[k].age > Timeout
    BY <1>4 DEF Masters
  <2>1. IF own[k] # None THEN Master[k].val = own[k] /\ Master[k].age <= timer[OwnerOf[k]]
        ELSE Master[k].val = None \/ Master[k].age > Timeout
    BY <1>7 DEF OwnInv, Masters
  <2>2. CASE OwnerOf[k] # p
    <3>1. timer'[OwnerOf[k]] = timer[OwnerOf[k]]
      BY <1>4, <1>7, <2>2 DEF IndInv, Kinds
    <3> QED BY <1>7, <2>1, <2>2, <3>1
  <2>3. CASE OwnerOf[k] = p /\ k \in Renewed(p)
    <3>1. timer'[p] = 0 /\ own[k] # None
      BY <1>4, <2>3 DEF IndInv, Kinds, Renewed
    <3> QED BY <1>2, <1>7, <2>3, <3>1
  <2>4. CASE OwnerOf[k] = p /\ k \notin Renewed(p)
    <3>1. own[k] = None
      BY <1>7, <2>4 DEF Renewed
    <3>2. Absent.val = None
      BY DEF Absent
    <3> QED BY <1>7, <2>1, <2>4, <3>1, <3>2
  <2> QED BY <2>2, <2>3, <2>4
<1> QED BY <1>4, <1>9, <1>11, <1>14, <1>15 DEF OwnInv

\* What does not touch the stores leaves the owners' entries alone.
LEMMA OwnStays ==
  ASSUME OwnInv, UNCHANGED <<store, own, timer, alive, tied>>
  PROVE  Master' = Master /\ tied' = tied /\ Masters' /\ StoresBehind(tied', Master', store')
<1>1. Master' = Master
  BY DEF Master
<1> QED BY <1>1 DEF OwnInv, Masters, StoresBehind

LEMMA OwnOpen ==
  ASSUME IndInv, OwnInv, NEW e \in Ends, Open(e)
  PROVE  OwnInv'
<1>1. chan' = [chan EXCEPT ![Far(e)] = Append(@, Opening(e))]
      /\ UNCHANGED <<store, own, timer, alive, tied, queue>>
  BY DEF Open
<1>2. Master' = Master /\ tied' = tied /\ Masters' /\ StoresBehind(tied', Master', store')
  BY <1>1, OwnStays
<1>3. Opening(e) \in BehindFrames(tied, Master, Far(e))
  BY FarIsEnd, SnapshotBehind DEF Opening
<1>4. FramesBehind(tied, Master, chan')
  BY <1>1, <1>3, FarIsEnd, BehindSend DEF OwnInv, IndInv
<1> QED BY <1>1, <1>2, <1>4 DEF OwnInv

LEMMA OwnRelay ==
  ASSUME IndInv, OwnInv, NEW e \in Ends, Relay(e)
  PROVE  OwnInv'
<1>1. UNCHANGED <<store, own, timer, alive, tied>>
  BY DEF Relay
<1>2. Master' = Master /\ tied' = tied /\ Masters' /\ StoresBehind(tied', Master', store')
  BY <1>1, OwnStays
<1>3. CASE e \in lagged
  <2>1. EncodeAll(store[At(e)]) \in BehindFrames(tied, Master, Far(e))
    BY FarIsEnd, SnapshotBehind
  <2>2. chan' = [chan EXCEPT ![Far(e)] = Append(@, EncodeAll(store[At(e)]))] /\ UNCHANGED queue
    BY <1>3, FarIsEnd DEF Relay, CaughtUp, IndInv, Wires
  <2>3. FramesBehind(tied, Master, chan')
    BY <2>1, <2>2, FarIsEnd, BehindSend DEF OwnInv, IndInv
  <2> QED BY <1>2, <2>2, <2>3 DEF OwnInv
<1>4. CASE e \notin lagged
  <2>1. /\ queue[e] \in Seq(BehindItems(tied, Master)) /\ queue[e] # <<>>
        /\ queue' = [queue EXCEPT ![e] = Tail(@)]
    BY <1>4 DEF Relay, OwnInv, QueuesBehind
  <2>2. Head(queue[e]) \in BehindItems(tied, Master) /\ Tail(queue[e]) \in Seq(BehindItems(tied, Master))
    BY <2>1, HeadTailProperties
  <2>3. QueuesBehind(tied, Master, queue')
    BY <2>1, <2>2 DEF IndInv, Queues, OwnInv, QueuesBehind
  <2>4. Head(queue[e]).frame \in BehindFrames(tied, Master, Far(e))
    BY <2>2, ItemBehind
  <2>5. FramesBehind(tied, Master, chan')
    BY <1>4, <2>4, FarIsEnd, BehindSend DEF Relay, IndInv, OwnInv
  <2> QED BY <1>2, <2>3, <2>5 DEF OwnInv
<1> QED BY <1>3, <1>4

LEMMA OwnBroken ==
  ASSUME IndInv, OwnInv, NEW s \in Spokes, Broken(s), alive' \subseteq alive,
         UNCHANGED <<store, own, timer, tied>>
  PROVE  OwnInv'
<1>1. DOMAIN Master' \subseteq DOMAIN Master /\ \A k \in DOMAIN Master' : Master'[k] = Master[k]
  BY DEF Master
<1>2. Covers(tied, Master, tied', Master')
  BY <1>1 DEF Covers
<1>3. /\ StoresBehind(tied', Master', store) /\ FramesBehind(tied', Master', chan)
      /\ QueuesBehind(tied', Master', queue)
  BY <1>2, StillBehind
<1>4. FramesBehind(tied', Master', chan') /\ QueuesBehind(tied', Master', queue')
  BY <1>3 DEF Broken, FramesBehind, QueuesBehind
<1>5. Masters'
  BY <1>1 DEF OwnInv, Masters
<1> QED BY <1>3, <1>4, <1>5 DEF OwnInv

LEMMA OwnStray ==
  ASSUME IndInv, OwnInv, NEW s \in Spokes, NEW v \in {Alien, Container}, Stray(s, v)
  PROVE  OwnInv'
<1> DEFINE e == <<"host", s>>
           mine == IF v = Alien THEN {k \in Keys : OwnerOf[k] = s} ELSE {}
           D == {x \in Keys : x \in mine => store[s][x].age <= Timeout}
           frame == [k \in D |-> IF k \in mine THEN store[s][k] ELSE [val |-> v, age |-> 0, sub |-> 2]]
<1>1. e \in Ends /\ s \in Procs
  BY DEF Ends, Procs
<1>2. store[s] \in [Keys -> Clean] /\ [val |-> v, age |-> 0, sub |-> 2] \in Entries
  BY <1>1, Numbers DEF IndInv, Stores, Entries
<1>3. frame \in Frames
  <2>1. frame \in [D -> Entries]
    BY <1>2, CleanIsEntry
  <2> QED BY <2>1 DEF Frames
<1>4. ASSUME Decodes(frame), NEW k \in D, Owns(e, k)
      PROVE  frame[k] \in Clean /\ Behind(tied, Master, k, frame[k])
  <2>1. OwnerOf[k] = s
    BY <1>4 DEF Owns
  <2>2. frame[k].val # Container
    BY <1>4 DEF Decodes
  <2>3. k \in mine /\ frame[k] = store[s][k]
    BY <2>1, <2>2
  <2> QED BY <1>1, <1>2, <2>3 DEF OwnInv, StoresBehind
<1>5. frame \in BehindFrames(tied, Master, e)
  BY <1>3, <1>4 DEF BehindFrames, Arriving
<1>6. chan' = [chan EXCEPT ![e] = Append(@, frame)]
      /\ UNCHANGED <<store, own, timer, alive, tied, queue>>
  BY DEF Stray
<1> HIDE DEF frame
<1>7. FramesBehind(tied, Master, chan')
  BY <1>1, <1>5, <1>6, BehindSend DEF OwnInv, IndInv
<1>8. Master' = Master /\ tied' = tied /\ Masters' /\ StoresBehind(tied', Master', store')
  BY <1>6, OwnStays
<1> QED BY <1>6, <1>7, <1>8 DEF OwnInv

\* A frame arrives: nothing it brings replaces an owner's own entry, unless both
\* have expired.
LEMMA OwnRecv ==
  ASSUME IndInv, OwnInv, NEW e \in Ends, Recv(e)
  PROVE  OwnInv'
<1> DEFINE f == Head(chan[e])
           kept == Kept(e, f)
           p == At(e)
<1>1. chan[e] # <<>> /\ chan[e] \in Seq(BehindFrames(tied, Master, e))
  BY DEF Recv, OwnInv, FramesBehind
<1>2. f \in BehindFrames(tied, Master, e) /\ Tail(chan[e]) \in Seq(BehindFrames(tied, Master, e))
  BY <1>1, HeadTailProperties
<1>3. kept \in CleanFrames /\ p \in Procs
  BY <1>2, KeptIsClean, FarIsEnd DEF BehindFrames
<1>4. \A k \in DOMAIN kept : Behind(tied, Master, k, kept[k]) /\ kept[k] \in Clean
  BY <1>2, <1>3, CleanShape DEF BehindFrames, Kept
<1>5. /\ chan' = [chan EXCEPT ![e] = Tail(@)] /\ store' = [store EXCEPT ![p] = Applied(@, kept)]
      /\ UNCHANGED <<own, timer, alive, tied>>
      /\ IF e[1] = "host" /\ DOMAIN kept # {}
           THEN Publish(p, <<[origin |-> e[2], frame |-> kept]>>) ELSE UNCHANGED queue
  BY DEF Recv
<1> HIDE DEF kept, p
<1>6. ASSUME NEW q \in Procs, NEW k \in Keys
      PROVE  \/ store'[q][k] = store[q][k]
             \/ q = p /\ k \in DOMAIN kept /\ Newer(kept[k], store[q][k]) /\ store'[q][k] = kept[k]
  BY <1>3, <1>5 DEF IndInv, Stores, Applied
<1>7. ASSUME NEW k \in DOMAIN Master'
      PROVE  /\ k \in DOMAIN Master /\ k \in Keys /\ Master[k] \in Clean
             /\ \/ Master'[k] = Master[k]
                \/ Master[k].age > Timeout /\ Master'[k] \in Clean /\ Master'[k].age > Timeout
  <2>1. k \in DOMAIN Master /\ Master'[k] = store'[OwnerOf[k]][k]
    BY <1>5 DEF Master
  <2>2. k \in Keys /\ OwnerOf[k] \in Procs /\ Master[k] = store[OwnerOf[k]][k] /\ Master[k] \in Clean
    BY <2>1, MasterClean
  <2>3. CASE store'[OwnerOf[k]][k] = store[OwnerOf[k]][k]
    BY <2>1, <2>2, <2>3
  <2>4. CASE k \in DOMAIN kept /\ Newer(kept[k], Master[k]) /\ Master'[k] = kept[k]
    <3>1. NotAhead(tied, k, Master[k], kept[k]) /\ kept[k] \in Clean
      BY <1>4, <2>1, <2>4 DEF Behind
    <3>2. kept[k].age > Timeout
      BY <2>2, <2>4, <3>1, Numbers DEF NotAhead, Newer, Clean
    <3>3. Master[k].age > Timeout
      BY <2>2, <2>4, <3>1, <3>2, Numbers DEF Newer, Clean
    <3> QED BY <2>1, <2>2, <2>4, <3>1, <3>2, <3>3
  <2> QED BY <1>6, <2>1, <2>2, <2>3, <2>4
<1>8. Covers(tied, Master, tied', Master')
  <2> SUFFICES ASSUME NEW k \in DOMAIN Master', NEW x \in Entries, NotAhead(tied, k, Master[k], x)
               PROVE  NotAhead(tied', k, Master'[k], x)
    BY <1>7 DEF Covers
  <2>1. CASE Master[k].age > Timeout
    BY <1>7, <2>1, ExpiredBehind
  <2>2. tied' = tied
    BY <1>5
  <2> QED BY <1>7, <2>1, <2>2
<1>9. /\ StoresBehind(tied', Master', store) /\ FramesBehind(tied', Master', chan)
      /\ QueuesBehind(tied', Master', queue)
  BY <1>8, StillBehind
<1>10. \A k \in DOMAIN kept : Behind(tied', Master', k, kept[k])
  BY <1>4, <1>8, BehindGrows, CleanIsEntry
<1>11. StoresBehind(tied', Master', store')
  BY <1>6, <1>9, <1>10 DEF StoresBehind
<1>12. FramesBehind(tied', Master', chan')
  <2>1. chan[e] \in Seq(BehindFrames(tied', Master', e))
    BY <1>9 DEF FramesBehind
  <2>2. Tail(chan[e]) \in Seq(BehindFrames(tied', Master', e))
    BY <1>1, <2>1, HeadTailProperties
  <2> QED BY <1>5, <1>9, <2>2 DEF FramesBehind, IndInv, Wires
<1>13. QueuesBehind(tied', Master', queue')
  <2>1. CASE e[1] = "host" /\ DOMAIN kept # {}
    <3>1. [origin |-> e[2], frame |-> kept] \in BehindItems(tied', Master')
      BY <1>3, <1>10 DEF BehindItems, CleanItems, Ends, Procs
    <3>2. <<[origin |-> e[2], frame |-> kept]>> \in Seq(BehindItems(tied', Master'))
      BY <3>1
    <3>3. Publish(p, <<[origin |-> e[2], frame |-> kept]>>)
      BY <1>5, <2>1
    <3> QED BY <1>9, <3>2, <3>3, BehindPublish
  <2>2. CASE ~(e[1] = "host" /\ DOMAIN kept # {})
    BY <1>5, <1>9, <2>2
  <2> QED BY <2>1, <2>2
<1>14. Masters'
  <2> SUFFICES ASSUME NEW k \in DOMAIN Master'
               PROVE  IF own[k] # None
                        THEN Master'[k].val = own[k] /\ Master'[k].age <= timer[OwnerOf[k]]
                        ELSE Master'[k].val = None \/ Master'[k].age > Timeout
    BY <1>5 DEF Masters
  <2>1. IF own[k] # None THEN Master[k].val = own[k] /\ Master[k].age <= timer[OwnerOf[k]]
        ELSE Master[k].val = None \/ Master[k].age > Timeout
    BY <1>7 DEF OwnInv, Masters
  <2>2. timer[OwnerOf[k]] \in 0 .. Period /\ Period <= Timeout
    BY <1>7, MasterClean, PeriodAssumption DEF IndInv, Kinds
  <2>3. Master[k].age > Timeout => own[k] = None
    BY <1>7, <2>1, <2>2, Numbers DEF Clean
  <2> QED BY <1>7, <2>1, <2>3
<1> QED BY <1>9, <1>11, <1>12, <1>13, <1>14 DEF OwnInv

\* Time passes for a copy and for its owner's entry alike.
LEMMA OwnTick ==
  ASSUME IndInv, OwnInv, Tick
  PROVE  OwnInv'
<1>1. UNCHANGED <<own, alive, tied>> /\ timer' = [p \in Procs |-> IF p \in alive THEN timer[p] + 1 ELSE 0]
  BY DEF Tick
<1>2. \A p \in Procs, k \in Keys : store'[p][k] = Older(store[p][k])
  BY DEF Tick, AllOlder, IndInv, Stores
<1>3. ASSUME NEW k \in DOMAIN Master
      PROVE  Master'[k] = Older(Master[k]) /\ Master[k] \in Clean
  BY <1>1, <1>2, MasterClean DEF Master
<1>4. DOMAIN Master' = DOMAIN Master
  BY <1>1 DEF Master
<1>5. ASSUME NEW k, NEW x \in Entries, Behind(tied, Master, k, x)
      PROVE  Behind(tied', Master', k, Older(x))
  BY <1>1, <1>3, <1>4, <1>5, OlderBehind DEF Behind
<1>6. StoresBehind(tied', Master', store')
  BY <1>2, <1>5, CleanIsEntry DEF OwnInv, StoresBehind, IndInv, Stores
<1>7. ASSUME NEW e, NEW f \in BehindFrames(tied, Master, e) PROVE AllOlder(f) \in BehindFrames(tied', Master', e)
  <2>1. f \in Arriving(e) /\ DOMAIN f \subseteq Keys /\ f \in [DOMAIN f -> Entries]
    BY <1>7, FrameShape DEF BehindFrames, Arriving
  <2>2. AllOlder(f) \in Arriving(e)
    BY <2>1, OlderArrives
  <2>3. DOMAIN AllOlder(f) = DOMAIN f /\ \A k \in DOMAIN f : AllOlder(f)[k] = Older(f[k])
    BY DEF AllOlder
  <2>4. Decodes(AllOlder(f)) => Decodes(f)
    BY <2>1, <2>3, OlderSame DEF Decodes
  <2>5. ASSUME Decodes(AllOlder(f)), NEW k \in DOMAIN f, Owns(e, k)
        PROVE  Behind(tied', Master', k, AllOlder(f)[k])
    BY <1>5, <1>7, <2>1, <2>3, <2>4, <2>5 DEF BehindFrames
  <2> QED BY <2>2, <2>3, <2>5 DEF BehindFrames
<1>8. FramesBehind(tied', Master', chan')
  <2> SUFFICES ASSUME NEW e \in Ends PROVE chan'[e] \in Seq(BehindFrames(tied', Master', e))
    BY DEF FramesBehind
  <2>1. /\ chan[e] \in Seq(BehindFrames(tied, Master, e))
        /\ chan'[e] = [i \in DOMAIN chan[e] |-> AllOlder(chan[e][i])]
    BY DEF Tick, OwnInv, FramesBehind
  <2>2. DOMAIN chan[e] = 1 .. Len(chan[e]) /\ Len(chan[e]) \in Nat
    BY <2>1
  <2>3. chan'[e] \in [1 .. Len(chan[e]) -> BehindFrames(tied', Master', e)]
    BY <1>7, <2>1, <2>2
  <2> QED BY <2>2, <2>3
<1>9. QueuesBehind(tied', Master', queue')
  <2> SUFFICES ASSUME NEW e \in Ends PROVE queue'[e] \in Seq(BehindItems(tied', Master'))
    BY DEF QueuesBehind
  <2>1. /\ queue[e] \in Seq(BehindItems(tied, Master))
        /\ queue'[e] = [i \in DOMAIN queue[e] |-> [queue[e][i] EXCEPT !.frame = AllOlder(@)]]
    BY DEF Tick, OwnInv, QueuesBehind
  <2>2. DOMAIN queue[e] = 1 .. Len(queue[e]) /\ Len(queue[e]) \in Nat
    BY <2>1
  <2>3. ASSUME NEW x \in BehindItems(tied, Master)
        PROVE  [x EXCEPT !.frame = AllOlder(@)] \in BehindItems(tied', Master')
    <3>1. /\ x \in CleanItems /\ x.frame \in CleanFrames
          /\ \A k \in DOMAIN x.frame : Behind(tied, Master, k, x.frame[k])
      BY <2>3 DEF BehindItems, CleanItems
    <3>2. DOMAIN x.frame \subseteq Keys /\ \A k \in DOMAIN x.frame : x.frame[k] \in Entries
      BY <3>1, CleanShape, CleanIsEntry
    <3> DEFINE g == AllOlder(x.frame)
    <3>3. g \in CleanFrames /\ DOMAIN g = DOMAIN x.frame /\ \A k \in DOMAIN g : g[k] = Older(x.frame[k])
      BY <3>1, OlderFrame DEF AllOlder
    <3>4. \A k \in DOMAIN g : Behind(tied', Master', k, g[k])
      BY <1>5, <3>1, <3>2, <3>3
    <3> HIDE DEF g
    <3>5. [x EXCEPT !.frame = g] \in CleanItems /\ [x EXCEPT !.frame = g].frame = g
      BY <3>1, <3>3 DEF CleanItems
    <3>6. [x EXCEPT !.frame = g] \in BehindItems(tied', Master')
      BY <3>4, <3>5 DEF BehindItems
    <3> QED BY <3>6 DEF g
  <2>4. queue'[e] \in [1 .. Len(queue[e]) -> BehindItems(tied', Master')]
    BY <2>1, <2>2, <2>3
  <2> QED BY <2>2, <2>4
<1>10. Masters'
  <2> SUFFICES ASSUME NEW k \in DOMAIN Master
               PROVE  IF own[k] # None
                        THEN Master'[k].val = own[k] /\ Master'[k].age <= timer'[OwnerOf[k]]
                        ELSE Master'[k].val = None \/ Master'[k].age > Timeout
    BY <1>1, <1>4 DEF Masters
  <2>1. IF own[k] # None THEN Master[k].val = own[k] /\ Master[k].age <= timer[OwnerOf[k]]
        ELSE Master[k].val = None \/ Master[k].age > Timeout
    BY DEF OwnInv, Masters
  <2>2. OwnerOf[k] \in Procs /\ OwnerOf[k] \in alive /\ timer[OwnerOf[k]] \in Nat
        /\ timer'[OwnerOf[k]] = timer[OwnerOf[k]] + 1
    BY <1>1, MasterClean, Numbers DEF IndInv, Kinds
  <2>3. MaxAge > Timeout
    BY PeriodAssumption, BoundsAssumption DEF MaxAge
  <2>4. /\ Master'[k].val = Master[k].val /\ Master'[k].age <= Master[k].age + 1
        /\ Master[k].age > Timeout => Master'[k].age > Timeout
        /\ Master[k].age \in Nat /\ Master'[k].age \in Nat
    <3> DEFINE m == Master[k]
    <3>1. Master'[k] = Older(m) /\ m.age \in 0 .. MaxAge
      BY <1>3 DEF Clean
    <3>2. Older(m).val = m.val
      BY <1>3, OlderKind DEF Clean
    <3>3. Older(m).age = IF m.age + 1 >= MaxAge THEN MaxAge ELSE m.age + 1
      BY <1>3 DEF Older, Clean
    <3> HIDE DEF m
    <3>4. /\ Older(m).age <= m.age + 1
          /\ m.age > Timeout => Older(m).age > Timeout
          /\ m.age \in Nat /\ Older(m).age \in Nat
      BY <2>3, <3>1, <3>3, Numbers
    <3> QED BY <3>1, <3>2, <3>4 DEF m
  <2> QED BY <2>1, <2>2, <2>4
<1> QED BY <1>6, <1>8, <1>9, <1>10 DEF OwnInv

LEMMA OwnNext == IndInv /\ OwnInv /\ [Next]_vars => OwnInv'
<1> SUFFICES ASSUME IndInv, OwnInv, [Next]_vars PROVE OwnInv'
  OBVIOUS
<1>1. ASSUME NEW k \in Keys, NEW v \in Values \cup {None}, NEW tie \in BOOLEAN, Set(k, v, tie)
      PROVE  OwnInv'
  BY <1>1, OwnSet
<1>2. ASSUME NEW p \in Procs, Refresh(p) PROVE OwnInv'
  BY <1>2, OwnRefresh
<1>3. ASSUME UNCHANGED <<store, own, timer, alive, tied, chan, queue>> PROVE OwnInv'
  BY <1>3, OwnStays DEF OwnInv
<1>4. ASSUME NEW s \in Spokes, Connect(s) PROVE OwnInv'
  BY <1>3, <1>4 DEF Connect
<1>5. ASSUME NEW s \in Spokes, Drop(s) \/ Close(s) PROVE OwnInv'
  BY <1>5, OwnBroken DEF Drop, Close
<1>6. ASSUME NEW s \in Spokes, NEW v \in {Alien, Container}, Stray(s, v) PROVE OwnInv'
  BY <1>6, OwnStray
<1>7. ASSUME NEW e \in Ends, Open(e) \/ Recv(e) \/ Relay(e) PROVE OwnInv'
  BY <1>7, OwnOpen, OwnRecv, OwnRelay
<1>8. CASE Tick
  BY <1>8, OwnTick
<1>9. CASE UNCHANGED vars
  BY <1>3, <1>9 DEF vars, wires
<1> QED BY <1>1, <1>2, <1>4, <1>5, <1>6, <1>7, <1>8, <1>9 DEF Next

\* However late a frame or a snapshot comes back, an owner goes on showing what
\* it last set: apply takes strictly newer entries only, no copy of an entry that
\* has not expired is newer than its owner's, and the owner renews it in time.
THEOREM OwnersKeepTheirs == Spec => []OwnEntryHolds
<1>1. IndInv /\ OwnInv => OwnEntryHolds
  <2> SUFFICES ASSUME IndInv, OwnInv, NEW k \in Keys, OwnerOf[k] \in alive
               PROVE  Shown(OwnerOf[k], k) = own[k]
    BY DEF OwnEntryHolds
  <2>1. k \in DOMAIN Master
    BY DEF Master
  <2>2. OwnerOf[k] \in Procs /\ Master[k] = store[OwnerOf[k]][k] /\ Master[k] \in Clean
    BY <2>1, MasterClean
  <2>3. IF own[k] # None THEN Master[k].val = own[k] /\ Master[k].age <= timer[OwnerOf[k]]
        ELSE Master[k].val = None \/ Master[k].age > Timeout
    BY <2>1 DEF OwnInv, Masters
  <2>4. timer[OwnerOf[k]] \in 0 .. Period /\ Period <= Timeout
    BY <2>2, PeriodAssumption DEF IndInv, Kinds
  <2> QED BY <2>2, <2>3, <2>4, Numbers DEF Shown, Clean
<1> QED BY <1>1, IndInit, IndNext, OwnInit, OwnNext, PTL DEF Spec

-----------------------------------------------------------------------------
(* Agreement. *)

Carries(f, k, x) == k \in DOMAIN f /\ f[k] = x

\* The session at e will send entry x of k: from the relay, in a snapshot, or it
\* has sent it.
Queued(e, k, x) ==
  e \in lagged \/ \E i \in DOMAIN queue[e] :
                    ~Echoes(e, queue[e][i]) /\ Carries(queue[e][i].frame, k, x)
Coming(c, k, x) == \E i \in DOMAIN c : Decodes(c[i]) /\ Carries(c[i], k, x)
OnWay(e, k, x) == phase[e] = "subscribed" \/ Queued(e, k, x) \/ Coming(chan[Far(e)], k, x)

\* The entries to agree on: of an owner that runs, not expired, and not changed
\* twice in one instant.
Live == {k \in DOMAIN Master \ tied : Master[k].age <= Timeout}

\* The session at e leads away from the owner of k.
Feeds(e, k) == IF e[1] = "spoke" THEN OwnerOf[k] = e[2] ELSE OwnerOf[k] # e[2]

\* Along a session, an owner's entry that has come as far as one end is at the
\* other end or on its way.
Reaches(e, k) ==
  phase[e] # "down" /\ store[At(e)][k] = Master[k]
    => store[At(Far(e))][k] = Master[k] \/ OnWay(e, k, Master[k])
Told == \A k \in Live, e \in Ends : Feeds(e, k) => Reaches(e, k)

LEMMA FarFacts ==
  ASSUME NEW e \in Ends, NEW d \in Ends
  PROVE  Far(e) \in Ends /\ Far(Far(e)) = e /\ (Far(d) = Far(e) => d = e)
         /\ At(e) \in Procs /\ At(Far(e)) \in Procs
<1>1. PICK s \in Spokes : e = <<"host", s>> \/ e = <<"spoke", s>>
  BY DEF Ends
<1>2. PICK t \in Spokes : d = <<"host", t>> \/ d = <<"spoke", t>>
  BY DEF Ends
<1> QED BY <1>1, <1>2 DEF Ends, Far, At, Procs

\* What is published reaches a session's queue, or the session lags.
LEMMA PublishAll ==
  ASSUME Queues, NEW p, NEW items \in Seq(CleanItems), Publish(p, items), NEW e \in Ends
  PROVE  /\ lagged \subseteq lagged'
         /\ e \in lagged' \/ queue'[e] = IF e \in SessionsAt(p) THEN queue[e] \o items ELSE queue[e]
<1>1. lagged' = lagged \cup Overrun(p, items)
  BY DEF Publish
<1>2. CASE e \in SessionsAt(p) /\ Len(queue[e]) + Len(items) <= Capacity
  <2> DEFINE seq == queue[e] \o items
  <2>1. seq \in Seq(CleanItems) /\ Len(seq) = Len(queue[e]) + Len(items)
    BY ConcatProperties DEF Queues
  <2>2. queue'[e] = LastOnes(seq)
    BY <1>2 DEF Publish
  <2> HIDE DEF seq
  <2>3. LastOnes(seq) = SubSeq(seq, 1, Len(seq))
    <3>1. Len(seq) \in Nat /\ Len(seq) <= Capacity
      BY <1>2, <2>1
    <3>2. ~(Len(seq) > Capacity)
      BY <3>1, Numbers
    <3> QED BY <3>2, Zenon DEF LastOnes
  <2>4. SubSeq(seq, 1, Len(seq)) = seq
    BY <2>1
  <2> QED BY <1>1, <1>2, <2>2, <2>3, <2>4 DEF seq
<1>3. CASE e \in SessionsAt(p) /\ ~(Len(queue[e]) + Len(items) <= Capacity)
  <2>1. Len(queue[e]) + Len(items) > Capacity
    BY <1>3, Numbers DEF Queues
  <2> QED BY <1>1, <1>3, <2>1 DEF Overrun
<1>4. CASE e \notin SessionsAt(p)
  BY <1>1, <1>4 DEF Publish
<1> QED BY <1>2, <1>3, <1>4

LEMMA QueuedPublish ==
  ASSUME Queues, NEW p, NEW items \in Seq(CleanItems), Publish(p, items), NEW e \in Ends,
         NEW k, NEW x, Queued(e, k, x)
  PROVE  Queued(e, k, x)'
<1>1. CASE e \in lagged'
  BY <1>1 DEF Queued
<1>2. CASE e \notin lagged'
  <2>1. /\ e \notin lagged
        /\ queue'[e] = IF e \in SessionsAt(p) THEN queue[e] \o items ELSE queue[e]
    BY <1>2, PublishAll
  <2>2. PICK i \in DOMAIN queue[e] : ~Echoes(e, queue[e][i]) /\ Carries(queue[e][i].frame, k, x)
    BY <2>1 DEF Queued
  <2>3. i \in DOMAIN queue'[e] /\ queue'[e][i] = queue[e][i]
    BY <2>1, ConcatProperties DEF Queues
  <2>4. \E j \in DOMAIN queue'[e] : ~Echoes(e, queue'[e][j]) /\ Carries(queue'[e][j].frame, k, x)
    BY <2>2, <2>3
  <2> QED BY <2>4 DEF Queued, Echoes, Carries
<1> QED BY <1>1, <1>2

LEMMA QueuedNew ==
  ASSUME Queues, NEW p, NEW items \in Seq(CleanItems), Publish(p, items), NEW e \in SessionsAt(p),
         NEW k, NEW x, NEW j \in DOMAIN items, ~Echoes(e, items[j]), Carries(items[j].frame, k, x)
  PROVE  Queued(e, k, x)'
<1>0. e \in Ends
  BY DEF SessionsAt
<1>1. CASE e \in lagged'
  BY <1>1 DEF Queued
<1>2. CASE e \notin lagged'
  <2>1. queue'[e] = queue[e] \o items
    BY <1>0, <1>2, PublishAll
  <2>2. queue[e] \in Seq(CleanItems) /\ Len(queue[e]) \in Nat /\ j \in 1 .. Len(items)
    BY <1>0 DEF Queues
  <2> DEFINE i == Len(queue[e]) + j
  <2>3. i \in DOMAIN queue'[e] /\ queue'[e][i] = items[j]
    BY <2>1, <2>2, ConcatProperties
  <2> HIDE DEF i
  <2>4. ~Echoes(e, queue'[e][i]) /\ Carries(queue'[e][i].frame, k, x)
    BY <2>3
  <2>5. \E d \in DOMAIN queue'[e] : ~Echoes(e, queue'[e][d]) /\ Carries(queue'[e][d].frame, k, x)
    BY <2>3, <2>4
  <2> QED BY <2>5 DEF Queued, Echoes, Carries
<1> QED BY <1>1, <1>2

LEMMA ComingAppend ==
  ASSUME NEW S, NEW c \in Seq(S), NEW f, NEW k, NEW x
  PROVE  /\ Coming(c, k, x) => Coming(Append(c, f), k, x)
         /\ Decodes(f) /\ Carries(f, k, x) => Coming(Append(c, f), k, x)
<1> DEFINE a == Append(c, f)
<1>1. /\ \A i \in DOMAIN c : i \in DOMAIN a /\ a[i] = c[i]
      /\ Len(c) + 1 \in DOMAIN a /\ a[Len(c) + 1] = f
  OBVIOUS
<1> HIDE DEF a
<1>2. /\ Coming(c, k, x) => Coming(a, k, x)
      /\ Decodes(f) /\ Carries(f, k, x) => Coming(a, k, x)
  BY <1>1 DEF Coming
<1> QED BY <1>2 DEF a

LEMMA ComingTail ==
  ASSUME NEW S, NEW c \in Seq(S), c # <<>>, NEW k, NEW x, Coming(c, k, x)
  PROVE  Coming(Tail(c), k, x) \/ (Decodes(Head(c)) /\ Carries(Head(c), k, x))
<1>1. PICK i \in DOMAIN c : Decodes(c[i]) /\ Carries(c[i], k, x)
  BY DEF Coming
<1>2. CASE i = 1
  BY <1>1, <1>2
<1>3. CASE i # 1
  <2> DEFINE j == i - 1
             t == Tail(c)
  <2>1. j \in DOMAIN t /\ t[j] = c[i]
    BY <1>3
  <2> HIDE DEF j, t
  <2>2. Coming(t, k, x)
    BY <1>1, <2>1 DEF Coming
  <2> QED BY <2>2 DEF t
<1> QED BY <1>2, <1>3

LEMMA SnapshotCarries ==
  ASSUME IndInv, NEW p \in Procs, NEW k \in Keys, store[p][k].age <= Timeout
  PROVE  Decodes(EncodeAll(store[p])) /\ Carries(EncodeAll(store[p]), k, store[p][k])
<1>1. \A x \in DOMAIN EncodeAll(store[p]) :
        x \in Keys /\ EncodeAll(store[p])[x] = store[p][x] /\ store[p][x] \in Clean
  BY DEF EncodeAll, IndInv, Stores
<1>2. Decodes(EncodeAll(store[p]))
  BY <1>1, CleanSays DEF Decodes
<1> QED BY <1>2 DEF Carries, EncodeAll

LEMMA LiveFacts ==
  ASSUME IndInv, NEW k \in Live
  PROVE  /\ k \in Keys /\ k \in DOMAIN Master /\ k \notin tied /\ OwnerOf[k] \in Procs
         /\ OwnerOf[k] \in alive /\ Master[k] = store[OwnerOf[k]][k] /\ Master[k] \in Clean
         /\ Master[k].age <= Timeout /\ Master[k].age \in Nat
<1>1. k \in DOMAIN Master
  BY DEF Live
<1>2. Master[k] \in Clean => Master[k].age \in Nat
  BY Numbers DEF Clean
<1> QED BY <1>1, <1>2, MasterClean DEF Live

\* A copy of a live entry is the entry or older; the entry replaces it.
LEMMA LiveCopy ==
  ASSUME IndInv, OwnInv, NEW k \in Live, NEW p \in Procs
  PROVE  store[p][k] = Master[k] \/ Newer(Master[k], store[p][k])
<1>1. k \in Keys /\ k \in DOMAIN Master /\ k \notin tied /\ Master[k] \in Clean /\ Master[k].age <= Timeout
  BY LiveFacts
<1>2. NotAhead(tied, k, Master[k], store[p][k]) /\ store[p][k] \in Clean
  BY <1>1 DEF OwnInv, StoresBehind, Behind, IndInv, Stores
<1> QED BY <1>1, <1>2, Numbers DEF NotAhead, Newer, Clean

LEMMA ReachesNext ==
  ASSUME NEW e, NEW k, NEW x, Master'[k] = x,
         phase'[e] # "down" /\ store'[At(e)][k] = x
           => store'[At(Far(e))][k] = x \/ OnWay(e, k, x)'
  PROVE  Reaches(e, k)'
  BY DEF Reaches, OnWay, Queued

LEMMA ReachesNow ==
  ASSUME Told, NEW k \in Live, NEW e \in Ends, Feeds(e, k), NEW x, x = Master[k],
         phase[e] # "down", store[At(e)][k] = x
  PROVE  store[At(Far(e))][k] = x \/ OnWay(e, k, x)
  BY DEF Told, Reaches

\* A clean change of an owner's entry has an instant of its own.
LEMMA FreshUnlike ==
  ASSUME NEW m \in Clean, NEW x \in Clean, NEW T, NEW k, NotAhead(T, k, m, x), NEW v
  PROVE  x # Fresh(m, v, FALSE)
<1>1. m.age \in Nat /\ m.sub \in Nat /\ x.age \in Nat /\ x.sub \in Nat
  BY Numbers DEF Clean
<1> DEFINE f == Fresh(m, v, FALSE)
<1>0. f.age = 0 /\ f.sub = IF m.age > 0 THEN 0 ELSE m.sub + 1
  BY DEF Fresh
<1> HIDE DEF f
<1> SUFFICES ASSUME x = f PROVE FALSE
  BY DEF f
<1>2. x.age = 0 /\ x.sub = IF m.age > 0 THEN 0 ELSE m.sub + 1
  BY <1>0
<1>3. ~Newer(x, m)
  BY <1>1, <1>2, Numbers DEF NotAhead, Newer
<1> QED BY <1>1, <1>2, <1>3 DEF Newer

LEMMA ToldInit == Init => Told
<1> SUFFICES ASSUME Init, NEW k \in Live, NEW e \in Ends,
                    phase[e] # "down", store[At(e)][k] = Master[k]
             PROVE  store[At(Far(e))][k] = Master[k]
  BY DEF Told, Reaches
<1>1. IndInv
  BY IndInit
<1>2. /\ k \in Keys /\ OwnerOf[k] \in Procs /\ Master[k].age <= Timeout
      /\ Master[k] = store[OwnerOf[k]][k]
  BY <1>1, LiveFacts
<1>3. Absent.age > Timeout /\ Absent.age \in Nat
  BY PeriodAssumption, BoundsAssumption DEF Absent, MaxAge
<1>4. ASSUME NEW p \in Procs
      PROVE  store[p][k] = IF /\ own[k] # None
                              /\ OwnerOf[k] = p \/ {OwnerOf[k], p} \subseteq {Host} \cup regime.on
                             THEN Fresh(Absent, own[k], FALSE) ELSE Absent
  BY <1>2 DEF Init
<1>5. e[2] \in regime.on /\ At(e) \in {Host, e[2]} /\ At(Far(e)) \in {Host, e[2]}
  BY DEF Init, At, Far, Ends
<1>6. At(e) \in Procs /\ At(Far(e)) \in Procs
  BY FarFacts
<1>7. Master[k] # Absent
  BY <1>2, <1>3, Numbers
<1>8. own[k] # None /\ OwnerOf[k] \in {Host} \cup regime.on
  BY <1>4, <1>5, <1>6, <1>7
<1> QED BY <1>2, <1>4, <1>5, <1>6, <1>8

LEMMA ToldSet ==
  ASSUME IndInv, OwnInv, Told, NEW k \in Keys, NEW v \in Values \cup {None}, NEW tie \in BOOLEAN,
         Set(k, v, tie)
  PROVE  Told'
<1> DEFINE p == OwnerOf[k]
           old == store[p][k]
           new == Fresh(old, v, tie)
           items == <<Item(p, k, new)>>
<1>1. p \in Procs /\ p \in alive /\ old \in Clean /\ new \in Clean
  BY KeysAssumption, FreshIsClean DEF IndInv, Stores, Set
<1>2. /\ UNCHANGED <<chan, phase, alive>> /\ store' = [store EXCEPT ![p][k] = new]
      /\ Publish(p, items) /\ tied' = IF tie THEN tied \cup {k} ELSE tied \ {k}
  BY DEF Set
<1>3. items \in Seq(CleanItems)
  BY <1>1, ItemIsClean
<1>4. /\ DOMAIN Master' = DOMAIN Master /\ k \in DOMAIN Master /\ Master[k] = old /\ Master'[k] = new
      /\ \A x \in DOMAIN Master : x # k => Master'[x] = Master[x]
  BY <1>1, <1>2, KeysAssumption DEF Master, IndInv, Stores
<1> SUFFICES ASSUME NEW y \in Live', NEW e \in Ends, Feeds(e, y) PROVE Reaches(e, y)'
  BY DEF Told, Feeds
<1>5. At(e) \in Procs /\ At(Far(e)) \in Procs /\ Far(e) \in Ends
  BY FarFacts
<1>6. CASE y = k
  <2>1. ~tie
    BY <1>2, <1>6 DEF Live
  <2>2. PICK x : x = new
    OBVIOUS
  <2>3. ASSUME phase'[e] # "down", store'[At(e)][k] = x PROVE OnWay(e, k, x)'
    <3>1. At(e) = p
      <4> SUFFICES ASSUME At(e) # p PROVE FALSE
        OBVIOUS
      <4>1. store[At(e)][k] = new /\ store[At(e)][k] \in Clean
        BY <1>1, <1>2, <1>5, <2>2, <2>3 DEF IndInv, Stores
      <4>2. NotAhead(tied, k, old, store[At(e)][k])
        BY <1>4, <1>5 DEF OwnInv, StoresBehind, Behind
      <4> QED BY <1>1, <2>1, <4>1, <4>2, FreshUnlike
    <3>2. e \in SessionsAt(p)
      BY <1>2, <2>3, <3>1 DEF SessionsAt
    <3>3. items[1] = Item(p, k, new) /\ 1 \in DOMAIN items
      OBVIOUS
    <3>4. ~Echoes(e, items[1])
      BY <1>1, <1>6, <3>3 DEF Echoes, Item, Feeds
    <3>5. Carries(items[1].frame, k, x)
      BY <2>2, <3>3 DEF Carries, Item
    <3> HIDE DEF items, new
    <3>6. Queued(e, k, x)'
      BY <1>2, <1>3, <3>2, <3>3, <3>4, <3>5, QueuedNew DEF IndInv
    <3> QED BY <3>6 DEF OnWay
  <2> HIDE DEF new
  <2> QED BY <1>4, <1>6, <2>2, <2>3, ReachesNext
<1>7. CASE y # k
  <2>1. y \in Live /\ Master'[y] = Master[y]
    BY <1>2, <1>4, <1>7 DEF Live
  <2>2. PICK x : x = Master[y]
    OBVIOUS
  <2>3. \A q \in Procs : store'[q][y] = store[q][y]
    BY <1>1, <1>2, <1>7 DEF IndInv, Stores
  <2>4. ASSUME OnWay(e, y, x) PROVE OnWay(e, y, x)'
    <3>1. CASE Queued(e, y, x)
      <4> HIDE DEF items
      <4>1. Queued(e, y, x)'
        BY <1>2, <1>3, <3>1, QueuedPublish DEF IndInv
      <4> QED BY <4>1 DEF OnWay
    <3>2. CASE ~Queued(e, y, x)
      BY <1>2, <2>4, <3>2 DEF OnWay
    <3> QED BY <3>1, <3>2
  <2>5. phase'[e] # "down" /\ store'[At(e)][y] = x
          => store'[At(Far(e))][y] = x \/ OnWay(e, y, x)'
    BY <1>2, <1>5, <2>1, <2>2, <2>3, <2>4, ReachesNow
  <2> QED BY <2>1, <2>2, <2>5, ReachesNext
<1> QED BY <1>6, <1>7

LEMMA SeqsCover ==
  ASSUME NEW S, IsFiniteSet(S), NEW order \in SetToSeqs(S)
  PROVE  /\ order \in [1 .. Cardinality(S) -> S]
         /\ \A x \in S : \E i \in DOMAIN order : order[i] = x
<1> DEFINE D == 1 .. Cardinality(S)
<1>1. order \in [D -> S] /\ \A i, j \in D : i # j => order[i] # order[j]
  BY DEF SetToSeqs
<1>2. Cardinality(S) \in Nat
  BY FS_CardinalityType
<1>3. Cardinality(D) = Cardinality(S)
  BY <1>2, FS_Interval
<1> HIDE DEF D
<1>4. order \in Injection(D, S)
  BY <1>1 DEF Injection, IsInjective
<1>5. order \in Surjection(D, S)
  BY <1>3, <1>4, FS_Injection
<1> QED BY <1>1, <1>5 DEF Surjection, D

LEMMA ToldRefresh ==
  ASSUME IndInv, OwnInv, Told, NEW p \in Procs, Refresh(p)
  PROVE  Told'
<1> DEFINE new == [k \in Renewed(p) |-> Fresh(store[p][k], own[k], FALSE)]
           st == [k \in Keys |-> IF k \in Renewed(p) THEN new[k] ELSE store[p][k]]
<1>1. Renewed(p) \subseteq Keys /\ p \in alive /\ \A k \in Renewed(p) : OwnerOf[k] = p
  BY DEF Renewed, Refresh
<1>2. /\ new \in [Renewed(p) -> Clean] /\ \A k \in Renewed(p) : new[k].age = 0
      /\ \A k \in Renewed(p) : new[k] = Fresh(store[p][k], own[k], FALSE)
  BY <1>1, FreshIsClean DEF IndInv, Stores, Kinds, Fresh
<1>3. /\ store' = [store EXCEPT ![p] = Swept(st)] /\ UNCHANGED <<chan, alive, phase>>
      /\ tied' = tied \ Renewed(p)
  BY DEF Refresh, IndInv, Stores
<1>4. PICK order \in SetToSeqs(Renewed(p)) :
        Publish(p, [i \in DOMAIN order |-> Item(p, order[i], new[order[i]])])
  BY DEF Refresh
<1> HIDE DEF new
<1>5. ASSUME NEW q \in Procs, NEW k \in Keys
      PROVE  store'[q][k] = IF q # p THEN store[q][k]
                            ELSE IF k \in Renewed(p) THEN new[k]
                            ELSE IF store[p][k].age > Timeout THEN Absent ELSE store[p][k]
  <2>1. k \in Renewed(p) => st[k] = new[k] /\ ~(new[k].age > Timeout)
    BY <1>2, Numbers
  <2>2. Swept(st)[k] = IF k \in Renewed(p) THEN new[k]
                       ELSE IF store[p][k].age > Timeout THEN Absent ELSE store[p][k]
    BY <2>1 DEF Swept
  <2> QED BY <1>3, <2>2 DEF IndInv, Stores
<1>6. Absent.age > Timeout
  BY PeriodAssumption, BoundsAssumption DEF Absent, MaxAge
<1> DEFINE items == [i \in DOMAIN order |-> Item(p, order[i], new[order[i]])]
<1>7. /\ items \in Seq(CleanItems) /\ DOMAIN items = DOMAIN order
      /\ \A k \in Renewed(p) : \E i \in DOMAIN order : order[i] = k
  <2>1. Cardinality(Renewed(p)) \in Nat
    BY <1>1, KeysAssumption, FS_Subset, FS_CardinalityType
  <2>2. /\ order \in [1 .. Cardinality(Renewed(p)) -> Renewed(p)]
        /\ \A k \in Renewed(p) : \E i \in DOMAIN order : order[i] = k
    BY <1>1, KeysAssumption, FS_Subset, SeqsCover
  <2>3. \A i \in DOMAIN order : Item(p, order[i], new[order[i]]) \in CleanItems
    BY <1>1, <1>2, <2>2, ItemIsClean
  <2> QED BY <2>1, <2>2, <2>3
<1> SUFFICES ASSUME NEW k \in Live', NEW e \in Ends, Feeds(e, k) PROVE Reaches(e, k)'
  BY DEF Told, Feeds
<1>8. At(e) \in Procs /\ At(Far(e)) \in Procs
  BY FarFacts
<1>9. /\ k \in DOMAIN Master /\ k \in Keys /\ OwnerOf[k] \in Procs /\ OwnerOf[k] \in alive
      /\ Master[k] = store[OwnerOf[k]][k] /\ Master[k] \in Clean
      /\ Master'[k] = store'[OwnerOf[k]][k] /\ Master'[k].age <= Timeout /\ k \notin tied'
  <2>1. k \in DOMAIN Master' /\ Master'[k].age <= Timeout /\ k \notin tied'
    BY DEF Live
  <2>2. k \in DOMAIN Master /\ Master'[k] = store'[OwnerOf[k]][k]
    BY <1>3, <2>1 DEF Master
  <2> QED BY <2>1, <2>2, MasterClean
<1>10. CASE k \in Renewed(p)
  <2>1. Master'[k] = new[k] /\ Master[k] = store[p][k] /\ OwnerOf[k] = p
    BY <1>1, <1>5, <1>9, <1>10
  <2>2. PICK x : x = new[k]
    OBVIOUS
  <2>3. ASSUME phase'[e] # "down", store'[At(e)][k] = x PROVE OnWay(e, k, x)'
    <3>1. At(e) = p
      <4> SUFFICES ASSUME At(e) # p PROVE FALSE
        OBVIOUS
      <4>1. store[At(e)][k] = new[k] /\ store[At(e)][k] \in Clean
        BY <1>5, <1>8, <1>9, <2>2, <2>3 DEF IndInv, Stores
      <4>2. NotAhead(tied, k, Master[k], store[At(e)][k])
        BY <1>8, <1>9 DEF OwnInv, StoresBehind, Behind
      <4> QED BY <1>2, <1>9, <1>10, <2>1, <4>1, <4>2, FreshUnlike
    <3>2. e \in SessionsAt(p)
      BY <1>3, <2>3, <3>1 DEF SessionsAt
    <3>3. PICK j \in DOMAIN items : order[j] = k
      BY <1>7, <1>10
    <3>4. items[j] = Item(p, k, new[k])
      BY <1>7, <3>3
    <3>5. ~Echoes(e, items[j])
      BY <2>1, <3>4 DEF Echoes, Item, Feeds
    <3>6. Carries(items[j].frame, k, x)
      BY <2>2, <3>4 DEF Carries, Item
    <3> HIDE DEF items
    <3>7. Queues /\ Publish(p, items)
      BY <1>4 DEF IndInv, items
    <3>8. Queued(e, k, x)'
      BY <1>7, <3>2, <3>5, <3>6, <3>7, QueuedNew
    <3> QED BY <3>8 DEF OnWay
  <2> QED BY <2>1, <2>2, <2>3, ReachesNext
<1>11. CASE k \notin Renewed(p)
  <2>0. \A q \in Procs : store[q][k].age \in Nat
    BY <1>9, Numbers DEF IndInv, Stores, Clean
  <2>1. Master'[k] = Master[k] /\ k \in Live
    <3> DEFINE o == OwnerOf[k]
    <3>1. store'[o][k] = IF o = p /\ store[o][k].age > Timeout THEN Absent ELSE store[o][k]
      BY <1>5, <1>9, <1>11
    <3>2. store'[o][k] # Absent
      BY <1>6, <1>9, Numbers DEF Absent
    <3>3. store'[o][k] = store[o][k]
      BY <3>1, <3>2
    <3> QED BY <1>3, <1>9, <1>11, <3>3 DEF Live
  <2>2. PICK x : x = Master[k]
    OBVIOUS
  <2>3. \A q \in Procs : store'[q][k] = x <=> store[q][k] = x
    <3> SUFFICES ASSUME NEW q \in Procs PROVE store'[q][k] = x <=> store[q][k] = x
      OBVIOUS
    <3>1. store'[q][k] = IF q = p /\ store[q][k].age > Timeout THEN Absent ELSE store[q][k]
      BY <1>5, <1>9, <1>11
    <3>2. x.age <= Timeout /\ x # Absent
      BY <1>6, <1>9, <2>1, <2>2, Numbers DEF Absent
    <3>3. store[q][k] = x => ~(store[q][k].age > Timeout)
      BY <2>0, <3>2, Numbers
    <3> QED BY <3>1, <3>2, <3>3
  <2>4. ASSUME OnWay(e, k, x) PROVE OnWay(e, k, x)'
    <3>1. CASE Queued(e, k, x)
      <4>0. Queues /\ Publish(p, items) /\ items \in Seq(CleanItems)
        BY <1>4, <1>7 DEF IndInv
      <4> HIDE DEF items
      <4>1. Queued(e, k, x)'
        BY <3>1, <4>0, QueuedPublish
      <4> QED BY <4>1 DEF OnWay
    <3>2. CASE ~Queued(e, k, x)
      BY <1>3, <2>4, <3>2 DEF OnWay
    <3> QED BY <3>1, <3>2
  <2>5. phase'[e] # "down" /\ store'[At(e)][k] = x
          => store'[At(Far(e))][k] = x \/ OnWay(e, k, x)'
    BY <1>3, <1>8, <2>1, <2>2, <2>3, <2>4, ReachesNow
  <2> QED BY <2>1, <2>2, <2>5, ReachesNext
<1> QED BY <1>10, <1>11

\* A step that leaves the stores alone need only keep what is on its way.
LEMMA ToldStays ==
  ASSUME IndInv, Told, UNCHANGED <<store, tied>>, alive' \subseteq alive,
         \A e \in Ends, k \in Live : \A x :
           /\ x = Master[k] /\ store[At(e)][k] = x /\ phase'[e] # "down"
           /\ phase[e] # "down" => OnWay(e, k, x)
           => OnWay(e, k, x)'
  PROVE  Told'
<1>1. DOMAIN Master' \subseteq DOMAIN Master /\ \A k \in DOMAIN Master' : Master'[k] = Master[k]
  BY DEF Master
<1>2. Live' \subseteq Live /\ \A k \in Live' : Master'[k] = Master[k]
  BY <1>1 DEF Live
<1> SUFFICES ASSUME NEW k \in Live', NEW e \in Ends, Feeds(e, k) PROVE Reaches(e, k)'
  BY DEF Told, Feeds
<1>3. PICK x : x = Master[k]
  OBVIOUS
<1>4. ASSUME phase'[e] # "down", store[At(e)][k] = x, store[At(Far(e))][k] # x PROVE OnWay(e, k, x)'
  <2>1. phase[e] # "down" => OnWay(e, k, x)
    BY <1>2, <1>3, <1>4, ReachesNow
  <2> QED BY <1>2, <1>3, <1>4, <2>1
<1>5. phase'[e] # "down" /\ store'[At(e)][k] = x
        => store'[At(Far(e))][k] = x \/ OnWay(e, k, x)'
  BY <1>4
<1> QED BY <1>2, <1>3, <1>5, ReachesNext

LEMMA ToldConnect ==
  ASSUME IndInv, Told, NEW s \in Spokes, Connect(s)
  PROVE  Told'
<1>1. UNCHANGED <<store, tied, alive, chan, queue, lagged>>
  BY DEF Connect
<1> SUFFICES ASSUME NEW e \in Ends, NEW k \in Live, NEW x, phase'[e] # "down",
                    phase[e] # "down" => OnWay(e, k, x)
             PROVE  OnWay(e, k, x)'
  BY <1>1, ToldStays
<1>2. CASE e \in Both(s)
  BY <1>2 DEF Connect, OnWay
<1>3. CASE e \notin Both(s)
  <2>1. phase'[e] = phase[e]
    BY <1>3 DEF Connect
  <2> QED BY <1>1, <2>1 DEF OnWay, Queued
<1> QED BY <1>2, <1>3

\* What is sent from end e, and a frame appended, leaves the rest on its way.
LEMMA SentOnWay ==
  ASSUME IndInv, NEW d \in Ends, NEW f, chan' = [chan EXCEPT ![d] = Append(@, f)],
         NEW e \in Ends, NEW k, NEW x
  PROVE  /\ Coming(chan[Far(e)], k, x) => Coming(chan'[Far(e)], k, x)
         /\ Far(e) = d /\ Decodes(f) /\ Carries(f, k, x) => Coming(chan'[Far(e)], k, x)
<1>1. Far(e) \in Ends
  BY FarFacts
<1>2. chan'[Far(e)] = IF Far(e) = d THEN Append(chan[Far(e)], f) ELSE chan[Far(e)]
  BY <1>1 DEF IndInv, Wires
<1>3. chan[Far(e)] \in Seq(Arriving(Far(e)))
  BY <1>1 DEF IndInv, Wires
<1> QED BY <1>2, <1>3, ComingAppend

LEMMA ToldOpen ==
  ASSUME IndInv, Told, NEW d \in Ends, Open(d)
  PROVE  Told'
<1>1. /\ UNCHANGED <<store, tied, alive, queue, lagged>> /\ phase' = [phase EXCEPT ![d] = "up"]
      /\ chan' = [chan EXCEPT ![Far(d)] = Append(@, EncodeAll(store[At(d)]))]
      /\ phase[d] = "subscribed"
  BY DEF Open, Opening
<1> SUFFICES ASSUME NEW e \in Ends, NEW k \in Live, NEW x, x = Master[k], store[At(e)][k] = x,
                    phase'[e] # "down", phase[e] # "down" => OnWay(e, k, x)
             PROVE  OnWay(e, k, x)'
  BY <1>1, ToldStays
<1>2. Far(d) \in Ends /\ At(e) \in Procs
  BY FarFacts
<1>3. CASE e = d
  <2>1. k \in Keys /\ store[At(d)][k].age <= Timeout
    BY <1>3, LiveFacts
  <2>2. Decodes(EncodeAll(store[At(d)])) /\ Carries(EncodeAll(store[At(d)]), k, x)
    BY <1>2, <1>3, <2>1, SnapshotCarries
  <2>3. Coming(chan'[Far(e)], k, x)
    BY <1>1, <1>2, <1>3, <2>2, SentOnWay
  <2> QED BY <2>3 DEF OnWay, Coming
<1>4. CASE e # d
  <2>1. phase'[e] = phase[e]
    BY <1>1, <1>4 DEF IndInv, Kinds
  <2>2. Coming(chan[Far(e)], k, x) => Coming(chan'[Far(e)], k, x)
    BY <1>1, <1>2, SentOnWay
  <2> QED BY <1>1, <2>1, <2>2 DEF OnWay, Queued, Coming
<1> QED BY <1>3, <1>4

LEMMA ToldStray ==
  ASSUME IndInv, Told, NEW s \in Spokes, NEW v, Stray(s, v)
  PROVE  Told'
<1>1. UNCHANGED <<store, tied, alive, queue, lagged, phase>>
  BY DEF Stray
<1>2. PICK f : chan' = [chan EXCEPT ![<<"host", s>>] = Append(@, f)]
  BY DEF Stray
<1> SUFFICES ASSUME NEW e \in Ends, NEW k \in Live, NEW x,
                    phase'[e] # "down", phase[e] # "down" => OnWay(e, k, x)
             PROVE  OnWay(e, k, x)'
  BY <1>1, ToldStays
<1>3. <<"host", s>> \in Ends
  BY DEF Ends
<1>4. Coming(chan[Far(e)], k, x) => Coming(chan'[Far(e)], k, x)
  BY <1>2, <1>3, SentOnWay
<1> QED BY <1>1, <1>4 DEF OnWay, Queued, Coming

LEMMA ToldBroken ==
  ASSUME IndInv, Told, NEW s \in Spokes, Broken(s), alive' \subseteq alive, UNCHANGED <<store, tied>>
  PROVE  Told'
<1> SUFFICES ASSUME NEW e \in Ends, NEW k \in Live, NEW x,
                    phase'[e] # "down", phase[e] # "down" => OnWay(e, k, x)
             PROVE  OnWay(e, k, x)'
  BY ToldStays
<1>1. e \notin Both(s) /\ phase'[e] = phase[e]
  BY DEF Broken
<1>2. Far(e) \in Ends /\ Far(e) \notin Both(s)
  BY <1>1, FarFacts DEF Both, Far, Ends
<1>3. chan'[Far(e)] = chan[Far(e)] /\ queue'[e] = queue[e] /\ (e \in lagged => e \in lagged')
  BY <1>1, <1>2 DEF Broken
<1> QED BY <1>1, <1>3 DEF OnWay, Queued, Coming

LEMMA ToldRelay ==
  ASSUME IndInv, Told, NEW d \in Ends, Relay(d)
  PROVE  Told'
<1>1. UNCHANGED <<store, tied, alive, phase>> /\ phase[d] = "up"
  BY DEF Relay
<1> SUFFICES ASSUME NEW e \in Ends, NEW k \in Live, NEW x, x = Master[k], store[At(e)][k] = x,
                    phase'[e] # "down", OnWay(e, k, x)
             PROVE  OnWay(e, k, x)'
  BY <1>1, ToldStays
<1>2. Far(d) \in Ends /\ At(e) \in Procs
  BY FarFacts
<1>3. CASE d \in lagged
  <2>1. /\ chan' = [chan EXCEPT ![Far(d)] = Append(@, EncodeAll(store[At(d)]))]
        /\ UNCHANGED queue /\ lagged' = lagged \ {d}
    BY <1>2, <1>3 DEF Relay, CaughtUp, IndInv, Wires
  <2>2. CASE e = d
    <3>1. k \in Keys /\ store[At(d)][k].age <= Timeout
      BY <2>2, LiveFacts
    <3>2. Decodes(EncodeAll(store[At(d)])) /\ Carries(EncodeAll(store[At(d)]), k, x)
      BY <1>2, <2>2, <3>1, SnapshotCarries
    <3>3. Coming(chan'[Far(e)], k, x)
      BY <1>2, <2>1, <2>2, <3>2, SentOnWay
    <3> QED BY <3>3 DEF OnWay, Coming
  <2>3. CASE e # d
    <3>1. Coming(chan[Far(e)], k, x) => Coming(chan'[Far(e)], k, x)
      BY <1>2, <2>1, SentOnWay
    <3> QED BY <1>1, <2>1, <2>3, <3>1 DEF OnWay, Queued, Coming
  <2> QED BY <2>2, <2>3
<1>4. CASE d \notin lagged
  <2> DEFINE h == Head(queue[d])
  <2>1. /\ queue[d] # <<>> /\ queue' = [queue EXCEPT ![d] = Tail(@)] /\ UNCHANGED lagged
        /\ chan' = IF Echoes(d, h) THEN chan ELSE [chan EXCEPT ![Far(d)] = Append(@, h.frame)]
    BY <1>4 DEF Relay
  <2>2. queue[d] \in Seq(CleanItems) /\ h \in CleanItems
    BY <2>1, HeadTailProperties DEF IndInv, Queues
  <2>3. Decodes(h.frame)
    BY <2>2, CleanShape, CleanSays DEF CleanItems, Decodes
  <2>4. /\ Coming(chan[Far(e)], k, x) => Coming(chan'[Far(e)], k, x)
        /\ e = d /\ ~Echoes(d, h) /\ Carries(h.frame, k, x) => Coming(chan'[Far(e)], k, x)
    <3>1. CASE Echoes(d, h)
      BY <2>1, <3>1
    <3>2. CASE ~Echoes(d, h)
      <4>1. chan' = [chan EXCEPT ![Far(d)] = Append(@, h.frame)]
        BY <2>1, <3>2
      <4> HIDE DEF h
      <4> QED BY <1>2, <2>3, <4>1, SentOnWay
    <3> QED BY <3>1, <3>2
  <2>5. CASE Queued(e, k, x) /\ e = d
    <3>1. PICK i \in DOMAIN queue[d] : ~Echoes(d, queue[d][i]) /\ Carries(queue[d][i].frame, k, x)
      BY <1>4, <2>5 DEF Queued
    <3>2. CASE i = 1
      <4>1. h = queue[d][i]
        BY <3>2
      <4>2. Coming(chan'[Far(e)], k, x)
        BY <2>4, <2>5, <3>1, <4>1
      <4> QED BY <4>2 DEF OnWay, Coming
    <3>3. CASE i # 1
      <4> DEFINE j == i - 1
      <4>1. queue'[d] = Tail(queue[d])
        BY <2>1 DEF IndInv, Queues
      <4>2. j \in DOMAIN queue'[d] /\ queue'[d][j] = queue[d][i]
        <5>1. ASSUME NEW c \in Seq(CleanItems), NEW b \in DOMAIN c, b # 1
              PROVE  b - 1 \in DOMAIN Tail(c) /\ Tail(c)[b - 1] = c[b]
          BY <5>1
        <5> QED BY <2>2, <3>3, <4>1, <5>1
      <4> HIDE DEF j
      <4>3. \E b \in DOMAIN queue'[d] : ~Echoes(d, queue'[d][b]) /\ Carries(queue'[d][b].frame, k, x)
        BY <3>1, <4>2
      <4> QED BY <2>5, <4>3 DEF OnWay, Queued, Echoes, Carries
    <3> QED BY <3>2, <3>3
  <2>6. CASE Queued(e, k, x) /\ e # d
    <3>1. queue'[e] = queue[e]
      BY <2>1, <2>6 DEF IndInv, Queues
    <3> QED BY <2>1, <2>6, <3>1 DEF OnWay, Queued
  <2>7. CASE ~Queued(e, k, x)
    BY <1>1, <2>4, <2>7 DEF OnWay, Coming
  <2> QED BY <2>5, <2>6, <2>7
<1> QED BY <1>3, <1>4

\* A frame arrives: an entry that it brings as far as the host goes on to the
\* others.
LEMMA ToldRecv ==
  ASSUME IndInv, OwnInv, Told, NEW d \in Ends, Recv(d)
  PROVE  Told'
<1> DEFINE f == Head(chan[d])
           kept == Kept(d, f)
           p == At(d)
           item == [origin |-> d[2], frame |-> kept]
<1>1. chan[d] # <<>> /\ chan[d] \in Seq(BehindFrames(tied, Master, d))
  BY DEF Recv, OwnInv, FramesBehind
<1>2. f \in BehindFrames(tied, Master, d)
  BY <1>1, HeadTailProperties
<1>3. kept \in CleanFrames /\ p \in Procs /\ item \in CleanItems
  <2>1. kept \in CleanFrames /\ p \in Procs /\ d[2] \in Procs
    BY <1>2, KeptIsClean, FarIsEnd DEF BehindFrames, Ends, Procs
  <2> HIDE DEF kept
  <2> QED BY <2>1 DEF CleanItems
<1>4. \A k \in DOMAIN kept : Behind(tied, Master, k, kept[k]) /\ kept[k] \in Clean /\ Owns(d, k)
  BY <1>2, <1>3, CleanShape DEF BehindFrames, Kept
<1>5. ASSUME NEW k, NEW x, Decodes(f), Carries(f, k, x), Owns(d, k)
      PROVE  k \in DOMAIN kept /\ kept[k] = x
  BY <1>5 DEF Carries, Kept
<1>6. /\ chan' = [chan EXCEPT ![d] = Tail(@)] /\ store' = [store EXCEPT ![p] = Applied(@, kept)]
      /\ UNCHANGED <<alive, tied, phase>>
      /\ IF d[1] = "host" /\ DOMAIN kept # {} THEN Publish(p, <<item>>) ELSE UNCHANGED <<queue, lagged>>
  BY DEF Recv
<1> HIDE DEF kept, p, item, f
<1>7. ASSUME NEW q \in Procs, NEW k \in Keys
      PROVE  store'[q][k] = IF q = p /\ k \in DOMAIN kept /\ Newer(kept[k], store[q][k])
                              THEN kept[k] ELSE store[q][k]
  BY <1>3, <1>6 DEF IndInv, Stores, Applied
<1>8. ASSUME NEW e \in Ends, NEW k, NEW x, Queued(e, k, x) PROVE Queued(e, k, x)'
  <2>1. CASE d[1] = "host" /\ DOMAIN kept # {}
    <3>1. Publish(p, <<item>>) /\ <<item>> \in Seq(CleanItems)
      BY <1>3, <1>6, <2>1
    <3> QED BY <1>8, <3>1, QueuedPublish DEF IndInv
  <2>2. CASE ~(d[1] = "host" /\ DOMAIN kept # {})
    BY <1>6, <1>8, <2>2 DEF Queued
  <2> QED BY <2>1, <2>2
<1> SUFFICES ASSUME NEW k \in Live', NEW e \in Ends, Feeds(e, k) PROVE Reaches(e, k)'
  BY DEF Told, Feeds
<1>9. k \in DOMAIN Master /\ Master'[k] = store'[OwnerOf[k]][k] /\ Master'[k].age <= Timeout /\ k \notin tied
  BY <1>6 DEF Live, Master
<1>10. k \in Keys /\ OwnerOf[k] \in Procs /\ Master[k] = store[OwnerOf[k]][k] /\ Master[k] \in Clean
  BY <1>9, MasterClean
\* An owner's entry that has not expired stays, with every copy of it.
<1>11. ASSUME k \in DOMAIN kept, Newer(kept[k], Master[k]) PROVE kept[k].age > Timeout
  <2>1. NotAhead(tied, k, Master[k], kept[k]) /\ kept[k] \in Clean
    BY <1>4, <1>9, <1>11 DEF Behind
  <2> QED BY <1>9, <1>10, <1>11, <2>1, Numbers DEF NotAhead, Newer, Clean
<1>12. Master'[k] = Master[k] /\ k \in Live
  <2>1. Master'[k] = Master[k]
    <3> SUFFICES ASSUME Master'[k] # Master[k] PROVE FALSE
      OBVIOUS
    <3>1. k \in DOMAIN kept /\ Newer(kept[k], Master[k]) /\ Master'[k] = kept[k]
      BY <1>7, <1>9, <1>10
    <3>2. kept[k].age > Timeout /\ kept[k].age <= Timeout /\ kept[k].age \in Nat
      BY <1>4, <1>9, <1>11, <3>1, Numbers DEF Clean
    <3> QED BY <3>2, Numbers
  <2> QED BY <1>9, <2>1 DEF Live
<1>13. PICK x : x = Master[k]
  OBVIOUS
<1>14. ASSUME NEW q \in Procs, store[q][k] = x PROVE store'[q][k] = x
  <2>1. x.age <= Timeout /\ x \in Clean
    BY <1>10, <1>12, <1>13, LiveFacts
  <2>2. ~(k \in DOMAIN kept /\ Newer(kept[k], x))
    <3> SUFFICES ASSUME k \in DOMAIN kept, Newer(kept[k], x) PROVE FALSE
      OBVIOUS
    <3>1. kept[k].age > Timeout /\ kept[k] \in Clean
      BY <1>4, <1>11, <1>13
    <3> QED BY <2>1, <3>1, Numbers DEF Newer, Clean
  <2> QED BY <1>7, <1>10, <1>14, <2>2
<1>15. At(e) \in Procs /\ At(Far(e)) \in Procs /\ Far(e) \in Ends
  BY FarFacts
<1>16. CASE store[At(e)][k] = x /\ phase[e] # "down"
  <2>1. store[At(Far(e))][k] = x \/ OnWay(e, k, x)
    BY <1>12, <1>13, <1>16, ReachesNow
  <2>2. CASE store[At(Far(e))][k] = x
    <3>1. store'[At(Far(e))][k] = x
      BY <1>14, <1>15, <2>2
    <3> QED BY <1>12, <1>13, <3>1, ReachesNext
  <2>3. CASE phase[e] = "subscribed" \/ Queued(e, k, x)
    <3>1. OnWay(e, k, x)'
      BY <1>6, <1>8, <2>3 DEF OnWay
    <3> QED BY <1>12, <1>13, <3>1, ReachesNext
  <2>4. CASE Coming(chan[Far(e)], k, x)
    <3>1. CASE Far(e) # d
      <4>1. chan'[Far(e)] = chan[Far(e)]
        BY <1>6, <1>15, <3>1 DEF IndInv, Wires
      <4>2. OnWay(e, k, x)'
        BY <2>4, <4>1 DEF OnWay, Coming
      <4> QED BY <1>12, <1>13, <4>2, ReachesNext
    <3>2. CASE Far(e) = d
      <4>1. chan'[d] = Tail(chan[d])
        BY <1>6 DEF IndInv, Wires
      <4>2. Coming(Tail(chan[d]), k, x) \/ (Decodes(f) /\ Carries(f, k, x))
        BY <1>1, <2>4, <3>2, ComingTail DEF f
      <4>3. CASE Coming(Tail(chan[d]), k, x)
        <5>1. OnWay(e, k, x)'
          BY <3>2, <4>1, <4>3 DEF OnWay, Coming
        <5> QED BY <1>12, <1>13, <5>1, ReachesNext
      <4>4. CASE Decodes(f) /\ Carries(f, k, x)
        <5>1. Owns(d, k)
          BY <3>2 DEF Feeds, Far, Owns, Ends
        <5>2. k \in DOMAIN kept /\ kept[k] = x
          BY <1>5, <4>4, <5>1
        <5>3. store[p][k] = x \/ Newer(x, store[p][k])
          BY <1>3, <1>12, <1>13, LiveCopy
        <5>4. store'[p][k] = x
          BY <1>3, <1>7, <1>10, <5>2, <5>3
        <5>5. store'[At(Far(e))][k] = x
          BY <3>2, <5>4 DEF p
        <5> QED BY <1>12, <1>13, <5>5, ReachesNext
      <4> QED BY <4>2, <4>3, <4>4
    <3> QED BY <3>1, <3>2
  <2> QED BY <2>1, <2>2, <2>3, <2>4 DEF OnWay
<1>17. CASE store[At(e)][k] # x /\ store'[At(e)][k] = x /\ phase[e] # "down"
  <2>1. At(e) = p /\ k \in DOMAIN kept /\ kept[k] = x
    BY <1>7, <1>10, <1>15, <1>17
  <2>2. At(e) # OwnerOf[k]
    BY <1>10, <1>13, <1>17
  <2>3. e[1] = "host" /\ OwnerOf[k] # e[2]
    BY <2>2 DEF Feeds, At, Ends
  <2>4. d[1] = "host" /\ p = Host
    BY <2>1, <2>3, KeysAssumption DEF At, p, Ends
  <2>5. OwnerOf[k] = d[2]
    BY <1>4, <2>1, <2>4 DEF Owns
  <2>6. Publish(p, <<item>>) /\ <<item>> \in Seq(CleanItems)
    BY <1>3, <1>6, <2>1, <2>4
  <2>7. e \in SessionsAt(p)
    BY <1>17, <2>1 DEF SessionsAt
  <2>8. 1 \in DOMAIN <<item>> /\ <<item>>[1] = item
    OBVIOUS
  <2>9. ~Echoes(e, item) /\ Carries(item.frame, k, x)
    BY <2>1, <2>3, <2>5 DEF Echoes, Carries, item
  <2>10. Queued(e, k, x)'
    BY <2>6, <2>7, <2>8, <2>9, QueuedNew DEF IndInv
  <2>11. OnWay(e, k, x)'
    BY <2>10 DEF OnWay
  <2> QED BY <1>12, <1>13, <2>11, ReachesNext
<1>18. CASE ~(phase'[e] # "down" /\ store'[At(e)][k] = x)
  BY <1>12, <1>13, <1>18, ReachesNext
<1> QED BY <1>6, <1>16, <1>17, <1>18

LEMMA OlderLike ==
  ASSUME NEW x \in Clean, NEW y \in Clean, Older(y) = Older(x), Older(x).age <= Timeout
  PROVE  y = x /\ x.age <= Timeout
<1>1. x.age \in 0 .. MaxAge /\ y.age \in 0 .. MaxAge /\ MaxAge > Timeout
  BY PeriodAssumption, BoundsAssumption DEF Clean, MaxAge
<1>2. ASSUME NEW z \in Clean PROVE Older(z).age = IF z.age + 1 >= MaxAge THEN MaxAge ELSE z.age + 1
  BY DEF Older, Clean
<1>3. ~(x.age + 1 >= MaxAge) /\ ~(y.age + 1 >= MaxAge)
  BY <1>1, <1>2, Numbers
<1>4. Older(x) = [x EXCEPT !.age = x.age + 1] /\ Older(y) = [y EXCEPT !.age = y.age + 1]
  BY <1>3 DEF Older
<1>5. x.val = y.val /\ x.sub = y.sub /\ x.age + 1 = y.age + 1
  BY <1>4 DEF Clean
<1>6. x.age = y.age
  BY <1>1, <1>5, Numbers
<1>7. x = y
  BY <1>5, <1>6 DEF Clean
<1>8. x.age <= Timeout
  BY <1>1, <1>2, <1>3, Numbers
<1> QED BY <1>7, <1>8

\* Time passes for an entry and for what is on its way alike.
LEMMA ToldTick ==
  ASSUME IndInv, Told, Tick
  PROVE  Told'
<1>1. UNCHANGED <<alive, tied, phase, lagged>>
  BY DEF Tick
<1>2. \A p \in Procs, k \in Keys : store'[p][k] = Older(store[p][k])
  BY DEF Tick, AllOlder, IndInv, Stores
<1> SUFFICES ASSUME NEW k \in Live', NEW e \in Ends, Feeds(e, k) PROVE Reaches(e, k)'
  BY DEF Told, Feeds
<1>3. k \in DOMAIN Master /\ Master'[k] = store'[OwnerOf[k]][k] /\ Master'[k].age <= Timeout /\ k \notin tied
  BY <1>1 DEF Live, Master
<1>4. k \in Keys /\ OwnerOf[k] \in Procs /\ Master[k] = store[OwnerOf[k]][k] /\ Master[k] \in Clean
  BY <1>3, MasterClean
<1>5. PICK x : x = Master[k]
  OBVIOUS
<1>6. PICK y : y = Older(x)
  OBVIOUS
<1>7. Master'[k] = y /\ x \in Clean /\ Older(x).age <= Timeout
  BY <1>2, <1>3, <1>4, <1>5, <1>6
<1>8. x.age <= Timeout /\ k \in Live
  BY <1>3, <1>5, <1>7, OlderLike DEF Live
<1>9. ASSUME NEW q \in Procs PROVE store'[q][k] = y <=> store[q][k] = x
  <2>1. store[q][k] \in Clean /\ store'[q][k] = Older(store[q][k])
    BY <1>2, <1>4 DEF IndInv, Stores
  <2> QED BY <1>6, <1>7, <2>1, OlderLike
<1>10. ASSUME NEW g, Carries(g, k, x) PROVE Carries(AllOlder(g), k, y)
  BY <1>6, <1>10 DEF Carries, AllOlder
<1>11. At(e) \in Procs /\ At(Far(e)) \in Procs /\ Far(e) \in Ends
  BY FarFacts
<1>12. ASSUME Queued(e, k, x) PROVE Queued(e, k, y)'
  <2>1. CASE e \in lagged
    BY <1>1, <2>1 DEF Queued
  <2>2. CASE e \notin lagged
    <3>1. PICK i \in DOMAIN queue[e] : ~Echoes(e, queue[e][i]) /\ Carries(queue[e][i].frame, k, x)
      BY <1>12, <2>2 DEF Queued
    <3>2. i \in DOMAIN queue'[e] /\ queue'[e][i] = [queue[e][i] EXCEPT !.frame = AllOlder(@)]
      BY DEF Tick
    <3>3. queue[e] \in Seq(CleanItems)
      BY DEF IndInv, Queues
    <3>4. queue[e][i] \in CleanItems
      BY <3>3
    <3>5. queue'[e][i].origin = queue[e][i].origin /\ queue'[e][i].frame = AllOlder(queue[e][i].frame)
      BY <3>2, <3>4 DEF CleanItems
    <3>6. ~Echoes(e, queue'[e][i]) /\ Carries(queue'[e][i].frame, k, y)
      BY <1>10, <3>1, <3>5 DEF Echoes
    <3>7. \E j \in DOMAIN queue'[e] : ~Echoes(e, queue'[e][j]) /\ Carries(queue'[e][j].frame, k, y)
      BY <3>2, <3>6
    <3> QED BY <3>7 DEF Queued, Echoes, Carries
  <2> QED BY <2>1, <2>2
<1>13. ASSUME Coming(chan[Far(e)], k, x) PROVE Coming(chan'[Far(e)], k, y)
  <2> DEFINE c == chan[Far(e)]
  <2>1. PICK i \in DOMAIN c : Decodes(c[i]) /\ Carries(c[i], k, x)
    BY <1>13 DEF Coming
  <2>2. i \in DOMAIN chan'[Far(e)] /\ chan'[Far(e)][i] = AllOlder(c[i])
    BY <1>11 DEF Tick
  <2>3. c[i] \in Arriving(Far(e))
    <3>1. c \in Seq(Arriving(Far(e)))
      BY <1>11 DEF IndInv, Wires
    <3> HIDE DEF c
    <3> QED BY <3>1
  <2>4. c[i] \in [DOMAIN c[i] -> Entries]
    BY <2>3, FrameShape DEF Arriving
  <2>5. Decodes(AllOlder(c[i]))
    BY <2>1, <2>4, OlderSame DEF Decodes, AllOlder
  <2> QED BY <1>10, <2>1, <2>2, <2>5 DEF Coming
<1>14. phase'[e] # "down" /\ store'[At(e)][k] = y => store'[At(Far(e))][k] = y \/ OnWay(e, k, y)'
  <2> SUFFICES ASSUME phase[e] # "down", store[At(e)][k] = x
               PROVE  store[At(Far(e))][k] = x \/ OnWay(e, k, y)'
    BY <1>1, <1>9, <1>11
  <2>1. store[At(Far(e))][k] = x \/ OnWay(e, k, x)
    BY <1>5, <1>8, ReachesNow
  <2>2. ASSUME OnWay(e, k, x) PROVE OnWay(e, k, y)'
    BY <1>1, <1>12, <1>13, <2>2 DEF OnWay, Coming
  <2> QED BY <2>1, <2>2
<1> QED BY <1>7, <1>14, ReachesNext

LEMMA ToldNext == IndInv /\ OwnInv /\ Told /\ [Next]_vars => Told'
<1> SUFFICES ASSUME IndInv, OwnInv, Told, [Next]_vars PROVE Told'
  OBVIOUS
<1>1. ASSUME NEW k \in Keys, NEW v \in Values \cup {None}, NEW tie \in BOOLEAN, Set(k, v, tie)
      PROVE  Told'
  BY <1>1, ToldSet
<1>2. ASSUME NEW p \in Procs, Refresh(p) PROVE Told'
  BY <1>2, ToldRefresh
<1>3. ASSUME NEW s \in Spokes, Connect(s) PROVE Told'
  BY <1>3, ToldConnect
<1>4. ASSUME NEW s \in Spokes, Drop(s) \/ Close(s) PROVE Told'
  BY <1>4, ToldBroken DEF Drop, Close
<1>5. ASSUME NEW s \in Spokes, NEW v \in {Alien, Container}, Stray(s, v) PROVE Told'
  BY <1>5, ToldStray
<1>6. ASSUME NEW e \in Ends, Open(e) \/ Recv(e) \/ Relay(e) PROVE Told'
  BY <1>6, ToldOpen, ToldRecv, ToldRelay
<1>7. CASE Tick
  BY <1>7, ToldTick
<1>8. CASE UNCHANGED vars
  <2>1. UNCHANGED <<store, tied, alive, phase, chan, queue, lagged>>
    BY <1>8 DEF vars, wires
  <2> SUFFICES ASSUME NEW e \in Ends, NEW k \in Live, NEW x, phase'[e] # "down",
                      phase[e] # "down" => OnWay(e, k, x)
               PROVE  OnWay(e, k, x)'
    BY <2>1, ToldStays
  <2> QED BY <2>1 DEF OnWay, Queued, Coming
<1> QED BY <1>1, <1>2, <1>3, <1>4, <1>5, <1>6, <1>7, <1>8 DEF Next

\* When nothing is on its way, everybody who is linked shows what each owner last
\* set: an entry that has reached one end of a session is at the other end or on
\* its way, whatever was set while the session opened, the relay overran or the
\* frame was another client's.
THEOREM AgreesWhenQuiet == Spec => []AgreeWhenQuiet
<1>1. IndInv /\ OwnInv /\ Told => AgreeWhenQuiet
  <2> SUFFICES ASSUME IndInv, OwnInv, Told, Quiet, NEW k \in Keys \ tied, NEW p \in alive,
                      OwnerOf[k] \in alive, Linked(OwnerOf[k]), Linked(p)
               PROVE  Shown(p, k) = own[k]
    BY DEF AgreeWhenQuiet
  <2> DEFINE o == OwnerOf[k]
             m == Master[k]
  <2>1. k \in DOMAIN Master /\ p \in Procs
    BY DEF Master, IndInv, Kinds
  <2>2. o \in Procs /\ m = store[o][k] /\ m \in Clean /\ m.age \in Nat
    BY <2>1, MasterClean, Numbers DEF Clean
  <2>3. IF own[k] # None THEN m.val = own[k] /\ m.age <= timer[o] ELSE m.val = None \/ m.age > Timeout
    BY <2>1 DEF OwnInv, Masters
  <2>4. timer[o] \in 0 .. Period /\ Period <= Timeout
    BY <2>2, PeriodAssumption DEF IndInv, Kinds
  <2>5. CASE m.age > Timeout
    <3>1. own[k] = None
      BY <2>2, <2>3, <2>4, <2>5, Numbers
    <3>2. NotAhead(tied, k, m, store[p][k]) /\ store[p][k] \in Clean
      BY <2>1 DEF OwnInv, StoresBehind, Behind, IndInv, Stores
    <3>3. store[p][k].age > Timeout
      BY <2>2, <2>5, <3>2, Numbers DEF NotAhead, Newer, Clean
    <3> QED BY <3>1, <3>3 DEF Shown
  <2>6. CASE m.age <= Timeout
    <3>1. k \in Live
      BY <2>1, <2>6 DEF Live
    <3>2. ASSUME NEW e \in Ends, NEW x PROVE ~OnWay(e, k, x)
      <4>1. /\ phase[e] # "subscribed" /\ e \notin lagged
            /\ queue[e] = <<>> /\ chan[Far(e)] = <<>>
        BY FarFacts DEF Quiet, OnItsWay
      <4> QED BY <4>1 DEF OnWay, Queued, Coming
    <3>3. ASSUME NEW e \in Ends, Feeds(e, k), phase[e] = "up", store[At(e)][k] = m
          PROVE  store[At(Far(e))][k] = m
      BY <3>1, <3>2, <3>3, ReachesNow
    <3>4. store[Host][k] = m
      <4>1. CASE o = Host
        BY <2>2, <4>1
      <4>2. CASE o # Host
        <5> DEFINE e == <<"spoke", o>>
        <5>1. e \in Ends /\ Feeds(e, k) /\ phase[e] = "up" /\ At(e) = o /\ At(Far(e)) = Host
          BY <2>2, <4>2 DEF Ends, Feeds, Linked, Both, At, Far, Procs
        <5> HIDE DEF e
        <5> QED BY <2>2, <3>3, <5>1
      <4> QED BY <4>1, <4>2
    <3>5. store[p][k] = m
      <4>1. CASE p = Host \/ p = o
        BY <2>2, <3>4, <4>1
      <4>2. CASE p # Host /\ p # o
        <5> DEFINE e == <<"host", p>>
        <5>1. e \in Ends /\ Feeds(e, k) /\ phase[e] = "up" /\ At(e) = Host /\ At(Far(e)) = p
          BY <2>1, <4>2 DEF Ends, Feeds, Linked, Both, At, Far, Procs
        <5> HIDE DEF e
        <5> QED BY <3>3, <3>4, <5>1
      <4> QED BY <4>1, <4>2
    <3>6. ~(m.age > Timeout)
      BY <2>2, <2>6, Numbers
    <3> QED BY <2>3, <3>5, <3>6 DEF Shown
  <2> QED BY <2>2, <2>5, <2>6, Numbers
<1> QED BY <1>1, IndInit, IndNext, OwnInit, OwnNext, ToldInit, ToldNext, PTL DEF Spec
=============================================================================
