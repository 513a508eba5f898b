---------------------------- MODULE MountProofs -----------------------------
(***************************************************************************)
(* Proofs about Mount, for any files, edits and bounds: no write and no     *)
(* peer edit is lost in the dirty buffers, and the kernel's pages follow.   *)
(***************************************************************************)
EXTENDS Mount, TLAPS

USE EditsAssumption, MarksAssumption, BoundsAssumption

\* What a document can hold, and a buffer.
Texts == Bits \ Binary
Buffer == [bytes : SUBSET Bits, base : SUBSET Texts]

\* The buffers there are, in the map or taken out of it by a commit.
Pending == Dirty \cup DOMAIN taken
Buf(n) == IF n \in DOMAIN taken THEN taken[n] ELSE buf[n]

\* What is buffered, seeded and cached are nodes with an inode; one buffer at
\* most is being seeded, and it is not dirty yet; the lock has one holder.
TypeOK ==
  /\ live \subseteq born /\ known \subseteq born /\ born \subseteq Nodes
  /\ text \in [Nodes -> SUBSET Texts]
  /\ Pending \subseteq known /\ \A n \in Pending : Buf(n) \in Buffer
  /\ Dirty \cap DOMAIN taken = {}
  /\ DOMAIN seed \subseteq known \ Pending /\ \A n \in DOMAIN seed : seed[n] \subseteq Texts
  /\ \A n, m \in DOMAIN seed : n = m
  /\ DOMAIN seed = {} \/ DOMAIN taken = {}
  /\ stale \subseteq Pending
  /\ DOMAIN cache \subseteq known
  /\ used \subseteq Edits /\ cut \subseteq Bits

\* The edits of S and the marks of those that are not UTF-8.
Traces(S) == S \cup {Mark(e) : e \in S \cap Binary}

\* The edits found anywhere in node n, or about to be.
Held(n) ==
  text[n] \cup (IF n \in Pending THEN Traces(Buf(n).bytes) \cup Buf(n).base ELSE {})
          \cup (IF n \in DOMAIN seed THEN seed[n] ELSE {})

\* An edit is in one node, was accepted, and a node is empty before its birth.
Homes ==
  /\ \A n \in Nodes : Held(n) \subseteq Traces(used)
  /\ cut \subseteq Traces(used)
  /\ \A n, m \in Nodes : n # m => Held(n) \cap Held(m) = {}
  /\ \A n \in Nodes \ born : text[n] = {}

\* A buffer against the text it will be merged into: what it adds is not there
\* yet; what went from its base was cut; what it takes away was cut, or came
\* from a peer while the buffer was seeded; and the merge brings nothing back.
\* What is not UTF-8 has left no mark yet.
BufferFits(n) ==
  LET b == Buf(n)
      l == Lossy(b.bytes)
  IN /\ (l \ b.base) \cap text[n] = {}
     /\ \A e \in b.bytes \cap Binary : Mark(e) \notin text[n] \cup b.base \cup b.bytes
     /\ n \in live =>
          /\ b.base \ text[n] \subseteq cut
          /\ text[n] \cap (b.base \ l) \subseteq cut \cup (torn \cap PeerEdits)
          /\ Merged(text[n], b) \cap cut \subseteq torn

\* A text being seeded differs from what was read only by what is torn.
SeedFits(n) ==
  /\ text[n] \ seed[n] \subseteq torn \cap PeerEdits
  /\ n \in live => seed[n] \cap cut \subseteq torn

Fits == (\A n \in Pending : BufferFits(n)) /\ (\A n \in DOMAIN seed : SeedFits(n))

\* An edit that no commit is at work on and that is not late is in a text, once
\* the buffers are committed for good.
Settled ==
  phase = "closing" =>
    \A e \in used \cap AppEdits : {e, Rendered(e)} \cap cut = {} =>
      \/ e \in late
      \/ \E n \in live :
           Rendered(e) \in text[n] \/ (n \in DOMAIN taken /\ e \in taken[n].bytes)

\* A text that is not the base of its buffer was moved by a peer, whose edit is
\* hidden or about to drop the pages, if it has not; the pages of a file whose
\* buffer is being seeded or committed are as fresh as what was read.
PagesFollow ==
  /\ \A n \in Dirty : text[n] = buf[n].base \/ n \in shadowed
  /\ \A n \in DOMAIN taken \cap DOMAIN cache \cap live :
       text[n] = taken[n].base \/ n \in invals \cup shadowed
  /\ Serving => \A n \in DOMAIN seed \cap DOMAIN cache \cap live :
                  cache[n] = seed[n] \/ n \in invals \cup shadowed
  /\ Serving => \A n \in DOMAIN taken \cap DOMAIN cache \cap live :
                  cache[n] = taken[n].bytes \/ n \in invals \cup shadowed

IndInv ==
  /\ TypeOK /\ Homes /\ Fits
  /\ MergeHolds /\ WritesSurvive /\ Settled
  /\ PagesFollow /\ CacheCoherent

-----------------------------------------------------------------------------
(* Maps, marks and traces *)

\* The empty map.
LEMMA NoneFacts == DOMAIN <<>> = {}
  OBVIOUS

\* A mark is no edit, and tells which edit left it.
LEMMA MarkFacts ==
  /\ \A e, d : Mark(e) = Mark(d) => e = d
  /\ \A e \in Binary : Mark(e) \in Marks /\ Mark(e) \notin Edits /\ Mark(e) \notin Binary
  /\ \A e : e \in Binary => Rendered(e) = Mark(e)
  /\ \A e : e \notin Binary => Rendered(e) = e
  /\ Binary \subseteq AppEdits /\ AppEdits \subseteq Edits /\ PeerEdits \subseteq Texts
BY DEF Mark, Marks, Rendered, Edits, Texts, Bits

\* Traces of disjoint sets of edits are disjoint.
LEMMA TraceFacts ==
  /\ \A S : S \subseteq Traces(S) /\ Lossy(S) \subseteq Traces(S)
  /\ \A S, R : S \subseteq R => Traces(S) \subseteq Traces(R)
  /\ \A S, R : Traces(S \cup R) = Traces(S) \cup Traces(R)
  /\ \A S \in SUBSET Edits, R \in SUBSET Edits : S \cap R = {} => Traces(S) \cap Traces(R) = {}
  /\ \A S, R : Lossy(S \cup R) = Lossy(S) \cup Lossy(R)
  /\ \A S \in SUBSET Bits : Lossy(S) \subseteq Texts /\ Traces(S) \subseteq Bits
<1>1. \A S : S \subseteq Traces(S) /\ Lossy(S) \subseteq Traces(S)
  BY MarkFacts DEF Traces, Lossy
<1>2. \A S, R : S \subseteq R => Traces(S) \subseteq Traces(R)
  BY DEF Traces
<1>3. \A S, R : Traces(S \cup R) = Traces(S) \cup Traces(R)
  BY DEF Traces
<1>4. ASSUME NEW S \in SUBSET Edits, NEW R \in SUBSET Edits, S \cap R = {}
      PROVE  Traces(S) \cap Traces(R) = {}
  BY <1>4, MarkFacts DEF Traces
<1>5. \A S, R : Lossy(S \cup R) = Lossy(S) \cup Lossy(R)
  BY DEF Lossy
<1>6. ASSUME NEW S \in SUBSET Bits PROVE Lossy(S) \subseteq Texts /\ Traces(S) \subseteq Bits
  <2>1. \A e \in S \cap Binary : Mark(e) \in Bits \ Binary
    BY MarkFacts DEF Bits
  <2> QED BY <2>1, MarkFacts DEF Lossy, Traces, Texts
<1> QED BY <1>1, <1>2, <1>3, <1>4, <1>5, <1>6

-----------------------------------------------------------------------------
(* The invariant holds at the start. *)

LEMMA InitInv == Init => IndInv
<1> SUFFICES ASSUME Init PROVE IndInv
  OBVIOUS
<1>1. Dirty = {} /\ DOMAIN seed = {} /\ DOMAIN cache = {} /\ DOMAIN taken = {} /\ Pending = {}
  BY NoneFacts DEF Init, Dirty, Pending
<1>2. \A n \in Nodes : text[n] = {}
  BY DEF Init
<1>3. TypeOK
  BY <1>1 DEF Init, TypeOK
<1>4. Homes
  BY <1>1, <1>2 DEF Init, Homes, Held
<1>5. Fits /\ PagesFollow /\ CacheCoherent
  BY <1>1 DEF Fits, PagesFollow, CacheCoherent
<1>6. MergeHolds /\ WritesSurvive /\ Settled
  BY DEF Init, MergeHolds, LostPeerEdits, WritesSurvive, Settled
<1> QED BY <1>3, <1>4, <1>5, <1>6 DEF IndInv

-----------------------------------------------------------------------------
(* Writing into a buffer *)

\* What a write does to the buffer it goes to; no commit is under way then.
LEMMA BufferEffect ==
  ASSUME IndInv, NEW n \in Nodes, NEW gone, NEW new \in SUBSET Edits, Buffers(n, gone, new)
  PROVE  /\ Seeded(n) \in Buffer /\ gone \subseteq Seeded(n).bytes
         /\ n \in DOMAIN buf' /\ DOMAIN buf' = DOMAIN buf \cup {n} /\ n \in known
         /\ buf'[n] \in Buffer /\ buf'[n].base = Seeded(n).base
         /\ buf'[n].bytes = (Seeded(n).bytes \ gone) \cup new
         /\ \A m \in DOMAIN buf : m # n => buf'[m] = buf[m]
         /\ DOMAIN seed' = {} /\ DOMAIN taken = {} /\ taken' = taken
         /\ \/ n \in Dirty /\ DOMAIN seed = {} /\ Seeded(n) = buf[n]
            \/ /\ n \notin Dirty /\ n \in DOMAIN seed
               /\ Seeded(n).bytes = seed[n] /\ Seeded(n).base = text[n]
<1> DEFINE nb == [Seeded(n) EXCEPT !.bytes = (@ \ gone) \cup new]
<1>1. /\ DOMAIN taken = {}
      /\ \/ n \in Dirty /\ DOMAIN seed = {} /\ Seeded(n) = buf[n]
         \/ /\ n \notin Dirty /\ n \in DOMAIN seed
            /\ Seeded(n) = [bytes |-> seed[n], base |-> text[n]]
  BY DEF Buffers, Seeded, Locked, IndInv, TypeOK, Pending
<1>2. n \in known /\ Seeded(n) \in Buffer
  <2>1. CASE n \in Dirty
    BY <1>1, <2>1 DEF IndInv, TypeOK, Pending, Buf
  <2>2. CASE n \in DOMAIN seed
    <3>1. seed[n] \in SUBSET Bits /\ text[n] \in SUBSET Texts /\ n \in known
      BY <2>2 DEF IndInv, TypeOK, Texts
    <3> QED BY <1>1, <2>1, <3>1 DEF Buffer
  <2> QED BY <1>1, <2>1, <2>2
<1>3. nb \in Buffer /\ nb.base = Seeded(n).base /\ nb.bytes = (Seeded(n).bytes \ gone) \cup new
  BY <1>2 DEF Buffer, Bits
<1>4. /\ buf' = Put(buf, n, nb) /\ seed' = <<>> /\ taken' = taken
      /\ gone \subseteq Seeded(n).bytes
  BY DEF Buffers
<1> HIDE DEF nb
<1>5. DOMAIN seed' = {}
  BY <1>4, NoneFacts
<1>6. /\ DOMAIN Put(buf, n, nb) = DOMAIN buf \cup {n} /\ Put(buf, n, nb)[n] = nb
      /\ \A m \in DOMAIN buf : m # n => Put(buf, n, nb)[m] = buf[m]
  BY DEF Put
<1>7. /\ n \in DOMAIN buf' /\ DOMAIN buf' = DOMAIN buf \cup {n} /\ buf'[n] = nb
      /\ \A m \in DOMAIN buf : m # n => buf'[m] = buf[m]
  BY <1>4, <1>6
<1>8. n \notin Dirty => Seeded(n).bytes = seed[n] /\ Seeded(n).base = text[n]
  BY <1>1
<1> QED BY <1>1, <1>2, <1>3, <1>4, <1>5, <1>7, <1>8

\* A write of fresh edits keeps the invariant.
LEMMA BuffersKeep ==
  ASSUME IndInv, NEW n \in Nodes, NEW gone \in SUBSET Bits, NEW new \in SUBSET AppEdits,
         new \cap used = {}, Buffers(n, gone, new)
  PROVE  IndInv'
<1> USE DEF IndInv
<1> DEFINE B == Seeded(n)
<1>0. new \in SUBSET Edits /\ used \in SUBSET Edits
  BY DEF Edits, TypeOK
<1>1. /\ B \in Buffer /\ gone \subseteq B.bytes
      /\ DOMAIN buf' = Dirty \cup {n} /\ n \in known
      /\ buf'[n] \in Buffer /\ buf'[n].base = B.base
      /\ buf'[n].bytes = (B.bytes \ gone) \cup new
      /\ \A m \in Dirty : m # n => buf'[m] = buf[m]
      /\ DOMAIN seed' = {} /\ DOMAIN taken = {} /\ taken' = taken
      /\ \/ n \in Dirty /\ DOMAIN seed = {} /\ B = buf[n]
         \/ /\ n \notin Dirty /\ n \in DOMAIN seed
            /\ B.bytes = seed[n] /\ B.base = text[n]
  BY <1>0, BufferEffect DEF Dirty
<1>2. /\ UNCHANGED <<live, text, saved, born, known, invals, phase, torn, shadowed>>
      /\ stale' = stale \ {n} /\ Serving
      /\ used' = used \cup new /\ cut' = cut \cup gone \cup (IF n \in live THEN {} ELSE new)
      /\ late' = (IF phase = "closing" THEN late \cup new ELSE late)
  BY DEF Buffers, docVars
<1>3. /\ DOMAIN cache' = DOMAIN cache
      /\ \A m \in DOMAIN cache : m # n => cache'[m] = cache[m]
      /\ n \in DOMAIN cache => cache'[n] = (cache[n] \ gone) \cup new
  <2> DEFINE pages == (cache[n] \ gone) \cup new
  <2>1. cache' = IF n \in DOMAIN cache THEN Put(cache, n, pages) ELSE cache
    BY DEF Buffers
  <2> HIDE DEF pages
  <2>2. /\ DOMAIN Put(cache, n, pages) = DOMAIN cache \cup {n} /\ Put(cache, n, pages)[n] = pages
        /\ \A m \in DOMAIN cache : m # n => Put(cache, n, pages)[m] = cache[m]
    BY DEF Put
  <2> QED BY <2>1, <2>2 DEF pages
<1> HIDE DEF B
<1>P. /\ Pending = Dirty /\ Pending' = Dirty \cup {n} /\ Dirty' = Dirty \cup {n}
      /\ \A m : Buf(m) = buf[m] /\ Buf(m)' = buf'[m]
      /\ DOMAIN taken' = {}
  BY <1>1 DEF Pending, Buf, Dirty
<1>4. TypeOK'
  <2>1. \A m \in Pending' : Buf(m)' \in Buffer
    BY <1>1, <1>P DEF TypeOK
  <2>2. cut' \subseteq Bits /\ used' \subseteq Edits
    BY <1>0, <1>2 DEF TypeOK, Bits
  <2> QED BY <1>1, <1>2, <1>3, <1>P, <2>1, <2>2 DEF TypeOK
<1>5. /\ Traces(B.bytes) \cup B.base \subseteq Held(n) /\ text[n] \subseteq Held(n)
      /\ B.bytes \subseteq Held(n) /\ Lossy(B.bytes) \subseteq Held(n)
  <2>1. CASE n \in Dirty
    BY <1>1, <1>P, <2>1, TraceFacts DEF Held
  <2>2. CASE n \notin Dirty
    <3>1. B.bytes = seed[n] /\ B.base = text[n] /\ n \in DOMAIN seed /\ seed[n] \cap Binary = {}
      BY <1>1, <2>2 DEF TypeOK, Texts
    <3>2. Traces(B.bytes) = B.bytes
      BY <3>1 DEF Traces
    <3> QED BY <3>1, <3>2, TraceFacts DEF Held
  <2> QED BY <2>1, <2>2
<1>6. /\ Held(n)' \subseteq Held(n) \cup Traces(new) /\ Held(n) \subseteq Traces(used)
      /\ \A m \in Nodes : m # n => Held(m)' \subseteq Held(m)
  <2>1. Traces(buf'[n].bytes) \subseteq Traces(B.bytes) \cup Traces(new)
    BY <1>1 DEF Traces
  <2>2. Held(n)' \subseteq Held(n) \cup Traces(new)
    <3>1. Held(n)' \subseteq text'[n] \cup Traces(buf'[n].bytes) \cup buf'[n].base
      BY <1>1, <1>P DEF Held, Traces
    <3> QED BY <1>1, <1>2, <1>5, <2>1, <3>1
  <2>3. ASSUME NEW m \in Nodes, m # n PROVE Held(m)' \subseteq Held(m)
    BY <1>1, <1>2, <1>P, <2>3 DEF Held
  <2> QED BY <2>2, <2>3 DEF Homes
<1>7. gone \subseteq Held(n)
  BY <1>1, <1>5
<1>T. /\ Traces(used') = Traces(used) \cup Traces(new) /\ Traces(used) \cap Traces(new) = {}
      /\ new \subseteq Traces(new) /\ Lossy(new) \subseteq Traces(new)
  BY <1>0, <1>2, TraceFacts
<1>8. Homes'
  <2>1. \A m \in Nodes : Held(m)' \subseteq Traces(used')
    BY <1>6, <1>T DEF Homes
  <2>2. cut' \subseteq Traces(used')
    BY <1>2, <1>6, <1>7, <1>T DEF Homes
  <2>3. \A m, k \in Nodes : m # k => Held(m)' \cap Held(k)' = {}
    <3> SUFFICES ASSUME NEW m \in Nodes, NEW k \in Nodes, m # k,
                        NEW x \in Held(m)', x \in Held(k)'
                 PROVE  FALSE
      OBVIOUS
    <3>1. \A j \in Nodes : Held(j)' \subseteq Held(j) \cup (IF j = n THEN Traces(new) ELSE {})
      BY <1>6
    <3>2. Held(m) \subseteq Traces(used) /\ Held(k) \subseteq Traces(used) /\ Held(m) \cap Held(k) = {}
      BY DEF Homes
    <3> QED BY <1>T, <3>1, <3>2
  <2>4. \A m \in Nodes \ born : text'[m] = {}
    BY <1>2 DEF Homes
  <2>5. (\A m \in Nodes : Held(m) \subseteq Traces(used))' /\ (cut \subseteq Traces(used))'
    BY <2>1, <2>2 DEF Traces
  <2> QED BY <1>2, <2>3, <2>4, <2>5 DEF Homes
<1>9. Fits'
  <2>1. ASSUME NEW m \in Dirty, m # n PROVE BufferFits(m)'
    <3>1. Held(m) \cap Held(n) = {} /\ Held(m) \subseteq Traces(used) /\ m \in Nodes
      BY <1>P, <2>1 DEF TypeOK, Homes
    <3>2. buf'[m] = buf[m] /\ text[m] \cup Lossy(buf[m].bytes) \subseteq Held(m)
      BY <1>1, <1>P, <2>1, TraceFacts DEF Held
    <3>3. BufferFits(m)
      BY <1>P DEF Fits
    <3>4. Merged(text[m], buf[m]) \subseteq Held(m)
      BY <3>2 DEF Merged
    <3>5. Merged(text[m], buf[m]) \cap cut' \subseteq torn \/ m \notin live
      BY <1>2, <1>7, <1>P, <1>T, <3>1, <3>3, <3>4 DEF BufferFits
    <3> QED BY <1>2, <1>P, <3>2, <3>3, <3>5 DEF BufferFits
  <2>2. BufferFits(n)'
    <3> DEFINE b == (B.bytes \ gone) \cup new
               a == B.base
               t == text[n]
               c == cut \cup gone
               l == Lossy(b)
               L == Lossy(B.bytes)
               N == Lossy(new)
    <3>1. /\ n \in live => cut' = c
          /\ buf'[n].bytes = b /\ buf'[n].base = a /\ text'[n] = t
          /\ t \cup a \cup L \cup B.bytes \subseteq Held(n)
          /\ N \cap Held(n) = {} /\ N \cap cut = {}
          /\ Traces(new) \cap Held(n) = {} /\ t \subseteq Texts
          /\ a \subseteq Texts
      BY <1>1, <1>2, <1>5, <1>6, <1>T DEF Homes, TypeOK, Buffer
    <3>2. /\ (L \ a) \cap t = {}
          /\ \A e \in B.bytes \cap Binary : Mark(e) \notin t \cup a \cup B.bytes
          /\ n \in live =>
               /\ a \ t \subseteq cut
               /\ t \cap (a \ L) \subseteq cut \cup (torn \cap PeerEdits)
               /\ ((t \ (a \ L)) \cup (L \ a)) \cap cut \subseteq torn
      <4>1. CASE n \in Dirty
        BY <1>1, <1>P, <4>1 DEF Fits, BufferFits, Merged
      <4>2. CASE n \notin Dirty
        <5>1. SeedFits(n) /\ B.bytes = seed[n] /\ a = t /\ seed[n] \subseteq Texts
          BY <1>1, <4>2 DEF Fits, TypeOK
        <5>2. L = seed[n] /\ B.bytes \cap Binary = {}
          BY <5>1, MarkFacts DEF Lossy, Texts
        <5> QED BY <5>1, <5>2 DEF SeedFits
      <4> QED BY <4>1, <4>2
    <3>3. \* what the write does to the bytes as text
          /\ l \subseteq L \cup N /\ gone \cap t \subseteq L
          /\ gone \cap l = {} /\ (L \ l) \cap (t \cup a) \subseteq gone
      <4>1. l \subseteq L \cup N
        BY DEF Lossy
      <4>2. gone \cap t \subseteq L
        BY <1>1, <3>1, MarkFacts DEF Lossy, Texts
      <4>3. ASSUME NEW x \in gone, x \in l PROVE FALSE
        <5>1. PICK e \in b : x = Rendered(e)
          BY <4>3 DEF Lossy
        <5>2. x \notin new
          BY <1>7, <1>T, <3>1
        <5>3. CASE e \in Binary
          <6>1. x = Mark(e) /\ x \in B.bytes /\ x \in Held(n)
            BY <1>1, <1>7, <5>1, <5>3, MarkFacts
          <6>2. e \in new => x \in Traces(new)
            BY <5>3, <6>1 DEF Traces
          <6> QED BY <3>1, <3>2, <5>3, <6>1, <6>2
        <5>4. CASE e \notin Binary
          BY <4>3, <5>1, <5>2, <5>4, MarkFacts
        <5> QED BY <5>3, <5>4
      <4>4. ASSUME NEW x \in L \ l, x \in t \cup a PROVE x \in gone
        <5>1. PICK e \in B.bytes : x = Rendered(e)
          BY <4>4 DEF Lossy
        <5>2. e \in gone
          BY <4>4, <5>1 DEF Lossy
        <5> QED BY <3>2, <4>4, <5>1, <5>2, MarkFacts
      <4> QED BY <4>1, <4>2, <4>3, <4>4
    <3>4. \A e \in b \cap Binary : Mark(e) \notin t \cup a \cup b
      <4> SUFFICES ASSUME NEW e \in b \cap Binary PROVE Mark(e) \notin t \cup a \cup b
        OBVIOUS
      <4>1. Mark(e) \notin new
        BY <1>0, MarkFacts
      <4>2. CASE e \in new
        BY <3>1, <4>1, <4>2 DEF Traces
      <4>3. CASE e \notin new
        BY <3>2, <4>1, <4>3
      <4> QED BY <4>2, <4>3
    <3> HIDE DEF b, a, t, c, l, L, N
    <3>5. (l \ a) \cap t = {}
      BY <3>1, <3>2, <3>3
    <3>6. ASSUME n \in live
          PROVE  /\ a \ t \subseteq c
                 /\ t \cap (a \ l) \subseteq c \cup (torn \cap PeerEdits)
                 /\ ((t \ (a \ l)) \cup (l \ a)) \cap c \subseteq torn
      <4>1. a \ t \subseteq c
        BY <3>2, <3>6 DEF c
      <4>2. t \cap (a \ l) \subseteq c \cup (torn \cap PeerEdits)
        BY <3>2, <3>3, <3>6 DEF c
      <4>3. ASSUME NEW x \in (t \ (a \ l)) \cup (l \ a), x \in c PROVE x \in torn
        <5>1. CASE x \in gone
          BY <3>2, <3>3, <4>3, <5>1
        <5>2. CASE x \in cut
          <6>1. x \notin N
            BY <3>1, <5>2
          <6>2. x \in (t \ (a \ L)) \cup (L \ a)
            BY <3>3, <4>3, <6>1
          <6> QED BY <3>2, <3>6, <5>2, <6>2
        <5> QED BY <4>3, <5>1, <5>2 DEF c
      <4> QED BY <4>1, <4>2, <4>3
    <3> QED BY <1>2, <1>P, <3>1, <3>4, <3>5, <3>6 DEF BufferFits, Merged, l
  <2> QED BY <1>1, <1>P, <2>1, <2>2 DEF Fits
<1>10. MergeHolds'
  <2>1. LostPeerEdits' \subseteq LostPeerEdits
    <3>1. new \cap PeerEdits = {}
      OBVIOUS
    <3> QED BY <1>2, <3>1 DEF LostPeerEdits
  <2>2. ASSUME NEW m \in live, m \notin Dirty, m # n PROVE text[m] \cap cut' \subseteq torn
    <3>1. m \in Nodes /\ text[m] \subseteq Held(m) /\ Held(m) \subseteq Traces(used)
          /\ Held(m) \cap Held(n) = {}
      BY <2>2 DEF TypeOK, Held, Homes
    <3>2. text[m] \cap cut \subseteq torn
      BY <1>1, <1>2, <2>2 DEF MergeHolds
    <3> QED BY <1>2, <1>7, <1>T, <3>1, <3>2
  <2> QED BY <1>2, <1>P, <2>1, <2>2 DEF MergeHolds
<1>11. WritesSurvive' /\ Settled'
  <2>1. ASSUME NEW e \in used' \cap AppEdits, {e, Rendered(e)} \cap cut' = {}
        PROVE  \E m \in live : e \in Uncommitted(m)' \/ Rendered(e) \in text[m]
    <3>1. CASE e \in new
      <4>1. n \in live /\ e \in buf'[n].bytes /\ n \in Dirty'
        BY <1>1, <1>2, <1>P, <2>1, <3>1
      <4> QED BY <4>1 DEF Uncommitted
    <3>2. CASE e \notin new
      <4>1. PICK m \in live : e \in Uncommitted(m) \/ Rendered(e) \in text[m]
        BY <1>2, <2>1, <3>2 DEF WritesSurvive
      <4>2. e \notin gone
        BY <1>2, <2>1
      <4>3. e \in Uncommitted(m) => e \in Uncommitted(m)'
        <5>1. CASE m # n
          BY <1>1, <1>P, <5>1 DEF Uncommitted
        <5>2. CASE m = n
          BY <1>1, <1>P, <4>2, <5>2 DEF Uncommitted
        <5> QED BY <5>1, <5>2
      <4> QED BY <4>1, <4>3
    <3> QED BY <3>1, <3>2
  <2>2. Settled'
    BY <1>1, <1>2 DEF Settled
  <2> QED BY <1>2, <2>1, <2>2 DEF WritesSurvive, Serving
<1>12. PagesFollow'
  <2>1. ASSUME NEW m \in Dirty \cup {n} PROVE text[m] = buf'[m].base \/ m \in shadowed
    BY <1>1, <2>1 DEF PagesFollow
  <2> QED BY <1>1, <1>2, <1>P, <2>1 DEF PagesFollow
<1>13. CacheCoherent'
  <2> SUFFICES ASSUME NEW m \in DOMAIN cache \cap live
               PROVE  cache'[m] = Shown(m)' \/ m \in invals \cup shadowed
    BY <1>2, <1>3 DEF CacheCoherent
  <2>1. CASE m # n
    <3>1. Shown(m)' = Shown(m) /\ cache'[m] = cache[m]
      BY <1>1, <1>2, <1>3, <2>1 DEF Shown, Dirty
    <3> QED BY <1>1, <1>2, <3>1 DEF CacheCoherent
  <2>2. CASE m = n
    <3>1. cache[n] = B.bytes \/ n \in invals \cup shadowed
      BY <1>1, <1>2, <2>2 DEF CacheCoherent, PagesFollow, Shown
    <3>2. Shown(n)' = (B.bytes \ gone) \cup new
      BY <1>1 DEF Shown, Dirty
    <3> QED BY <1>3, <2>2, <3>1, <3>2
  <2> QED BY <2>1, <2>2
<1> QED BY <1>4, <1>8, <1>9, <1>10, <1>11, <1>12, <1>13

-----------------------------------------------------------------------------
(* Committing buffers *)

\* Taking buffers out to commit them keeps the invariant; the final commit
\* takes them all.
LEMMA TakesKeep ==
  ASSUME IndInv, NEW S \in SUBSET Dirty, Takes(S), Serving,
         phase' = phase \/ (phase' = "closing" /\ S = Dirty)
  PROVE  IndInv'
<1> USE DEF IndInv
<1>1. /\ UNCHANGED <<live, text, seed, saved, known, cache, born, used, cut, late, torn, stale,
                     invals, shadowed>>
      /\ DOMAIN seed = {} /\ DOMAIN taken = {}
      /\ DOMAIN taken' = S /\ \A n \in S : taken'[n] = buf[n]
      /\ DOMAIN buf' = Dirty \ S /\ \A n \in Dirty \ S : buf'[n] = buf[n]
  BY DEF Takes, Locked, docVars, Drop, Dirty
<1>2. /\ Dirty' = Dirty \ S /\ Pending' = Dirty /\ Pending = Dirty /\ Serving'
      /\ \A n \in Dirty : Buf(n)' = Buf(n) /\ Buf(n) = buf[n]
  BY <1>1 DEF Dirty, Pending, Buf, Serving
<1>3. TypeOK'
  BY <1>1, <1>2 DEF TypeOK
<1>4. \A n : Held(n)' = Held(n)
  BY <1>1, <1>2 DEF Held
<1>5. Homes'
  BY <1>1, <1>4 DEF Homes, Traces
<1>6. Fits'
  <2>1. ASSUME NEW n \in Dirty PROVE BufferFits(n)'
    BY <1>1, <1>2 DEF Fits, BufferFits, Merged, Lossy
  <2> QED BY <1>1, <1>2, <2>1 DEF Fits
<1>7. MergeHolds'
  BY <1>1, <1>2 DEF MergeHolds, LostPeerEdits
<1>8. \A n : Uncommitted(n)' = Uncommitted(n)
  BY <1>1, <1>2 DEF Uncommitted
<1>9. WritesSurvive'
  BY <1>1, <1>2, <1>8 DEF WritesSurvive
<1>10. Settled'
  <2>0. UNCHANGED <<live, used, cut, late>>
    BY <1>1
  <2> SUFFICES ASSUME phase' = "closing", NEW e \in used \cap AppEdits,
                      {e, Rendered(e)} \cap cut = {}, e \notin late
               PROVE  \E n \in live : \/ Rendered(e) \in text[n]
                                      \/ n \in DOMAIN taken' /\ e \in taken'[n].bytes
    BY <1>1, <2>0, SMT DEF Settled
  <2>1. CASE phase' = phase
    BY <1>1, <2>1 DEF Settled
  <2>2. CASE S = Dirty
    <3>1. PICK n \in live : e \in Uncommitted(n) \/ Rendered(e) \in text[n]
      BY DEF WritesSurvive
    <3> QED BY <1>1, <2>2, <3>1 DEF Uncommitted
  <2> QED BY <2>1, <2>2
<1>11. PagesFollow'
  <2>1. \A n \in Dirty : text[n] = buf[n].base \/ n \in shadowed
    BY DEF PagesFollow
  <2>2. \A n \in S \cap DOMAIN cache \cap live : cache[n] = buf[n].bytes \/ n \in invals \cup shadowed
    BY <1>1 DEF CacheCoherent, Shown
  <2> QED BY <1>1, <1>2, <2>1, <2>2 DEF PagesFollow
<1>12. CacheCoherent'
  <2>1. \A n : n \notin S => Shown(n)' = Shown(n)
    BY <1>1, <1>2 DEF Shown
  <2> QED BY <1>1, <1>2, <2>1 DEF CacheCoherent
<1> QED BY <1>3, <1>5, <1>6, <1>7, <1>9, <1>10, <1>11, <1>12

\* Applying one of them keeps it.
LEMMA AppliesKeep ==
  ASSUME IndInv, NEW n \in Nodes, Applies(n)
  PROVE  IndInv'
<1> USE DEF IndInv
<1> DEFINE b == taken[n]
           t == text[n]
           l == Lossy(b.bytes)
           M == Merged(t, b)
           new == [text EXCEPT ![n] = M]
<1>1. /\ UNCHANGED <<live, buf, seed, saved, known, cache, phase, born, used, cut, late, torn>>
      /\ n \in DOMAIN taken /\ Serving /\ DOMAIN seed = {}
      /\ stale' = stale \ {n} /\ text' = new
      /\ invals' = invals \cup Stamped(new) /\ shadowed' = shadowed \ Stamped(new)
  BY DEF Applies, TypeOK
<1>2. DOMAIN taken' = DOMAIN taken \ {n} /\ \A m \in DOMAIN taken \ {n} : taken'[m] = taken[m]
  BY DEF Applies, Drop
<1>3. /\ n \in known /\ n \notin Dirty /\ n \in Pending /\ b = Buf(n) /\ b \in Buffer
      /\ Dirty' = Dirty /\ Pending' = Pending \ {n} /\ Serving'
      /\ \A m \in Pending \ {n} : Buf(m)' = Buf(m)
  <2>1. n \notin Dirty /\ n \in Pending /\ b = Buf(n)
    BY <1>1 DEF TypeOK, Pending, Buf
  <2> QED BY <1>1, <1>2, <2>1 DEF TypeOK, Pending, Buf, Dirty, Serving
<1>4. /\ text'[n] = M /\ \A m \in Nodes : m # n => text'[m] = text[m]
      /\ DOMAIN text' = Nodes
      /\ M # t => n \in Stamped(new)
      /\ Stamped(new) \subseteq {n} /\ (M = t => Stamped(new) = {})
  BY <1>1, <1>3 DEF TypeOK, Stamped, Changed
<1> HIDE DEF new
<1>5. /\ l \subseteq Texts /\ t \subseteq Texts /\ M \subseteq t \cup l
      /\ M \subseteq Held(n) /\ t \subseteq Held(n)
  <2>1. l \subseteq Texts /\ l \subseteq Traces(b.bytes)
    BY <1>3, TraceFacts DEF Buffer
  <2> QED BY <1>3, <2>1 DEF TypeOK, Held, Merged
<1>6. TypeOK'
  <2>1. text' \in [Nodes -> SUBSET Texts]
    <3>1. \A m \in Nodes : text'[m] \in SUBSET Texts
      BY <1>4, <1>5 DEF TypeOK
    <3>2. text' = [m \in Nodes |-> text'[m]]
      BY <1>1 DEF new, TypeOK
    <3> QED BY <3>1, <3>2
  <2> QED BY <1>1, <1>2, <1>3, <2>1 DEF TypeOK
<1>7. \A m \in Nodes : Held(m)' \subseteq Held(m)
  <2>1. Held(n)' \subseteq Held(n)
    BY <1>1, <1>3, <1>4, <1>5 DEF Held
  <2>2. ASSUME NEW m \in Nodes, m # n PROVE Held(m)' \subseteq Held(m)
    BY <1>1, <1>3, <1>4, <2>2 DEF Held
  <2> QED BY <2>1, <2>2
<1>8. Homes'
  <2>1. \A m \in Nodes \ born : text'[m] = {}
    BY <1>3, <1>4 DEF Homes, TypeOK
  <2>2. (\A m \in Nodes : Held(m) \subseteq Traces(used))' /\ (cut \subseteq Traces(used))'
    BY <1>1, <1>7 DEF Homes, Traces
  <2> QED BY <1>1, <1>7, <2>1, <2>2 DEF Homes
<1>9. Fits'
  <2>1. ASSUME NEW m \in Pending \ {n} PROVE BufferFits(m)'
    <3>1. text'[m] = text[m] /\ Buf(m)' = Buf(m) /\ BufferFits(m)
      BY <1>3, <1>4, <2>1 DEF Fits, TypeOK
    <3> QED BY <1>1, <3>1 DEF BufferFits, Merged, Lossy
  <2> QED BY <1>1, <1>3, <2>1 DEF Fits
<1>10. /\ (l \ b.base) \cap t = {}
       /\ \A e \in b.bytes \cap Binary : Mark(e) \notin t \cup b.base \cup b.bytes
       /\ n \in live =>
            /\ b.base \ t \subseteq cut
            /\ t \cap (b.base \ l) \subseteq cut \cup (torn \cap PeerEdits)
            /\ M \cap cut \subseteq torn
       /\ M = (t \ (b.base \ l)) \cup (l \ b.base)
  BY <1>3 DEF Fits, BufferFits, Merged
<1> HIDE DEF M, l, t
<1>11. MergeHolds'
  <2>1. ASSUME NEW e \in LostPeerEdits' PROVE e \in torn
    <3>1. e \in (used \cap PeerEdits) \ cut /\ \A m \in live : e \notin text'[m]
      BY <1>1, <2>1 DEF LostPeerEdits
    <3>2. CASE \A m \in live : e \notin text[m]
      BY <3>1, <3>2 DEF MergeHolds, LostPeerEdits
    <3>3. CASE \E m \in live : e \in text[m]
      <4>1. PICK m \in live : e \in text[m]
        BY <3>3
      <4>2. m = n
        BY <1>4, <3>1, <4>1 DEF TypeOK
      <4>3. e \in t /\ e \notin M
        BY <1>4, <3>1, <4>1, <4>2 DEF t
      <4> QED BY <1>10, <3>1, <4>1, <4>2, <4>3
    <3> QED BY <3>2, <3>3
  <2>2. ASSUME NEW m \in live, m \notin Pending' PROVE text'[m] \cap cut \subseteq torn
    <3>1. m \in Nodes
      BY DEF TypeOK
    <3>2. CASE m = n
      BY <1>4, <1>10, <3>2
    <3>3. CASE m # n
      BY <1>1, <1>3, <1>4, <2>2, <3>1, <3>3 DEF MergeHolds, Pending
    <3> QED BY <3>2, <3>3
  <2> QED BY <1>1, <1>3, <2>1, <2>2 DEF MergeHolds, Pending
<1>12. \* a write in the buffer, or its text, is in the merge
       ASSUME NEW e \in AppEdits, {e, Rendered(e)} \cap cut = {}, n \in live,
              e \in b.bytes \/ Rendered(e) \in t
       PROVE  Rendered(e) \in M
  <2>1. Rendered(e) \notin PeerEdits
    <3>1. PeerEdits \subseteq Edits /\ e \notin PeerEdits
      BY <1>12 DEF Edits
    <3>2. CASE e \in Binary
      BY <3>1, <3>2, MarkFacts
    <3>3. CASE e \notin Binary
      BY <3>1, <3>3, MarkFacts
    <3> QED BY <3>2, <3>3
  <2>2. e \in b.bytes => Rendered(e) \in l
    BY DEF Lossy, l
  <2> QED BY <1>10, <1>12, <2>1, <2>2
<1>13. \A m : m # n => Uncommitted(m)' = Uncommitted(m)
  BY <1>1, <1>2 DEF Uncommitted, Dirty
<1>14. Uncommitted(n) = b.bytes
  BY <1>1, <1>3 DEF Uncommitted
<1>15. WritesSurvive'
  <2> SUFFICES ASSUME NEW e \in used \cap AppEdits, {e, Rendered(e)} \cap cut = {}
               PROVE  \E m \in live : e \in Uncommitted(m)' \/ Rendered(e) \in text'[m]
    BY <1>1, <1>3 DEF WritesSurvive
  <2>1. PICK m \in live : e \in Uncommitted(m) \/ Rendered(e) \in text[m]
    BY <1>1 DEF WritesSurvive
  <2>2. CASE m = n
    BY <1>4, <1>12, <1>14, <2>1, <2>2 DEF t
  <2>3. CASE m # n
    BY <1>4, <1>13, <2>1, <2>3 DEF TypeOK
  <2> QED BY <2>2, <2>3
<1>16. Settled'
  <2>0. UNCHANGED <<live, used, cut, late>>
    BY <1>1
  <2> SUFFICES ASSUME phase = "closing", NEW e \in used \cap AppEdits,
                      {e, Rendered(e)} \cap cut = {}, e \notin late
               PROVE  \E m \in live : \/ Rendered(e) \in text'[m]
                                      \/ m \in DOMAIN taken' /\ e \in taken'[m].bytes
    BY <1>1, <2>0, SMT DEF Settled
  <2>1. PICK m \in live : Rendered(e) \in text[m] \/ (m \in DOMAIN taken /\ e \in taken[m].bytes)
    BY DEF Settled
  <2>2. CASE m = n
    BY <1>4, <1>12, <2>1, <2>2 DEF t
  <2>3. CASE m # n
    BY <1>2, <1>4, <2>1, <2>3 DEF TypeOK
  <2> QED BY <2>2, <2>3
<1>17. \A m \in Nodes : m # n => (m \in invals => m \in invals') /\ (m \in shadowed => m \in shadowed')
  BY <1>1, <1>4
<1>18. PagesFollow'
  <2>1. ASSUME NEW m \in Dirty PROVE text'[m] = buf'[m].base \/ m \in shadowed'
    <3>1. m # n /\ m \in Nodes
      BY <1>3 DEF TypeOK, Pending
    <3> QED BY <1>1, <1>4, <1>17, <3>1 DEF PagesFollow
  <2>2. ASSUME NEW m \in (DOMAIN taken \ {n}) \cap DOMAIN cache \cap live
        PROVE  /\ text'[m] = taken'[m].base \/ m \in invals' \cup shadowed'
               /\ cache[m] = taken'[m].bytes \/ m \in invals' \cup shadowed'
    <3>1. m # n /\ m \in Nodes
      BY DEF TypeOK, Pending
    <3> QED BY <1>1, <1>2, <1>4, <1>17, <2>2, <3>1 DEF PagesFollow
  <2> QED BY <1>1, <1>2, <1>3, <2>1, <2>2 DEF PagesFollow
<1>19. CacheCoherent'
  <2> SUFFICES ASSUME NEW m \in DOMAIN cache \cap live, m \notin DOMAIN taken'
               PROVE  cache[m] = Shown(m)' \/ m \in invals' \cup shadowed'
    BY <1>1 DEF CacheCoherent
  <2>1. m \in Nodes
    BY DEF TypeOK
  <2>2. CASE m # n
    <3>1. Shown(m)' = Shown(m)
      BY <1>1, <1>3, <1>4, <2>1, <2>2 DEF Shown
    <3> QED BY <1>1, <1>2, <1>17, <2>1, <2>2, <3>1 DEF CacheCoherent
  <2>3. CASE m = n /\ M # t
    BY <1>1, <1>4, <2>3
  <2>4. CASE m = n /\ M = t /\ n \notin invals \cup shadowed
    <3>1. t = b.base /\ cache[n] = b.bytes
      BY <1>1, <2>4 DEF PagesFollow, t
    <3>2. t = l
      BY <1>10, <2>4, <3>1
    <3>3. b.bytes \cap Binary = {}
      <4>1. \A e \in b.bytes \cap Binary : Mark(e) \in l
        BY MarkFacts DEF Lossy, l
      <4> QED BY <1>10, <3>2, <4>1
    <3>4. l = b.bytes
      BY <3>3, MarkFacts DEF Lossy, l
    <3>5. Shown(n)' = M
      BY <1>3, <1>4 DEF Shown
    <3> QED BY <2>4, <3>1, <3>2, <3>4, <3>5
  <2>5. CASE m = n /\ M = t /\ n \in invals \cup shadowed
    BY <1>1, <1>4, <2>5
  <2> QED BY <2>2, <2>3, <2>4, <2>5
<1> QED BY <1>6, <1>8, <1>9, <1>11, <1>15, <1>16, <1>18, <1>19

-----------------------------------------------------------------------------
(* Imports *)

\* An import into one file keeps the invariant: it adds fresh peer edits to a
\* live file or takes edits away and counts them as cut, and a file it removes
\* takes all its edits with it.
LEMMA ImportsKeep ==
  ASSUME IndInv, NEW n \in Nodes, NEW T \in SUBSET Texts, NEW G,
         Imports([text EXCEPT ![n] = T]),
         T \ text[n] \subseteq PeerEdits \ used, used' = used \cup (T \ text[n]),
         text[n] \ T \subseteq G, G \subseteq Held(n), cut' = cut \cup G,
         live' \subseteq live \cup {n}, live \subseteq live' \cup {n},
         born' = born \cup live', n \in live \/ n \notin born,
         n \in live' => G = text[n] \ T,
         n \notin live' => T \subseteq text[n] /\ text[n] \cup Uncommitted(n) \subseteq G
  PROVE  IndInv'
<1> USE DEF IndInv
<1> DEFINE new == [text EXCEPT ![n] = T]
           fresh == T \ text[n]
           gone == text[n] \ T
<1>1. /\ UNCHANGED <<buf, seed, taken, stale, known, cache, saved, phase, late>> /\ phase = "mounted"
      /\ text' = new /\ invals' = invals \cup Stamped(new)
      /\ shadowed' = shadowed \cup (Stamped(new) \cap Dirty)
      /\ torn' = torn \cup UNION {(text[m] \ new[m]) \cup (new[m] \ text[m]) : m \in DOMAIN seed}
  BY DEF Imports, Running
<1>2. /\ text' \in [Nodes -> SUBSET Texts] /\ text'[n] = T
      /\ \A m \in Nodes : m # n => text'[m] = text[m]
  BY <1>1 DEF TypeOK
<1>3. /\ T # text[n] /\ n \in known => n \in Stamped(new)
      /\ n \in DOMAIN seed => fresh \cup gone \subseteq torn'
      /\ torn \subseteq torn' /\ invals \subseteq invals' /\ shadowed \subseteq shadowed'
  <2>1. n \in DOMAIN seed => ((text[n] \ new[n]) \cup (new[n] \ text[n])) \subseteq torn'
    BY <1>1
  <2>2. new[n] = T
    BY <1>1, <1>2
  <2> QED BY <1>1, <2>1, <2>2 DEF Stamped, Changed
<1> HIDE DEF new, fresh, gone
<1>4. /\ Dirty' = Dirty /\ Pending' = Pending /\ Serving /\ Serving'
      /\ \A m : Buf(m)' = Buf(m) /\ Uncommitted(m)' = Uncommitted(m)
  BY <1>1 DEF Dirty, Pending, Buf, Uncommitted, Serving
<1>5. /\ fresh \cap used = {} /\ fresh \subseteq PeerEdits /\ T \subseteq text[n] \cup fresh
      /\ text[n] \subseteq T \cup gone /\ gone \cap T = {} /\ gone \subseteq G /\ gone \subseteq text[n]
      /\ used' = used \cup fresh /\ (n \in live' => G = gone) /\ (n \notin live' => fresh = {})
      /\ fresh \subseteq T
  BY DEF fresh, gone
<1>6. /\ Held(n) \subseteq Traces(used) /\ text[n] \subseteq Held(n) /\ cut \subseteq Traces(used)
      /\ \A m \in Nodes : m # n => Held(m) \cap Held(n) = {} /\ Held(m)' = Held(m)
      /\ Held(n)' \subseteq Held(n) \cup fresh
  BY <1>1, <1>2, <1>4, <1>5 DEF Held, Homes
<1>T. /\ fresh \cap Traces(used) = {} /\ fresh \subseteq Edits
      /\ Traces(used) \subseteq Traces(used') /\ fresh \subseteq Traces(used')
  <2>1. fresh \subseteq Edits /\ fresh \cap Binary = {}
    BY <1>5 DEF Edits
  <2>2. \A e \in Binary : Mark(e) \notin fresh
    BY <2>1, MarkFacts
  <2> QED BY <1>5, <2>1, <2>2 DEF Traces
<1>7. n \in known => n \in live
  BY DEF TypeOK
<1>8. TypeOK'
  <2>1. live' \subseteq born' /\ known' \subseteq born' /\ born' \subseteq Nodes
    BY <1>1 DEF TypeOK
  <2>2. used' \subseteq Edits /\ cut' \subseteq Bits
    <3>1. used \subseteq Edits /\ cut \subseteq Bits /\ Traces(used) \subseteq Bits
      BY TraceFacts DEF TypeOK, Bits
    <3> QED BY <1>5, <1>6, <1>T, <3>1
  <2> QED BY <1>1, <1>2, <1>4, <2>1, <2>2 DEF TypeOK
<1>9. Homes'
  <2>1. \A m \in Nodes : Held(m)' \subseteq Traces(used')
    <3>1. Held(n)' \subseteq Traces(used')
      BY <1>6, <1>T
    <3>2. ASSUME NEW m \in Nodes, m # n PROVE Held(m)' \subseteq Traces(used')
      <4>1. Held(m) \subseteq Traces(used)
        BY DEF Homes
      <4> QED BY <1>6, <1>T, <3>2, <4>1
    <3> QED BY <3>1, <3>2
  <2>2. cut' \subseteq Traces(used')
    BY <1>6, <1>T
  <2>3. \A m, k \in Nodes : m # k => Held(m)' \cap Held(k)' = {}
    <3>1. \A m \in Nodes : Held(m) \subseteq Traces(used)
      BY DEF Homes
    <3>2. ASSUME NEW m \in Nodes, m # n PROVE Held(m)' \cap Held(n)' = {}
      BY <1>6, <1>T, <3>1, <3>2
    <3>3. ASSUME NEW m \in Nodes, NEW k \in Nodes, m # k, m # n, k # n
          PROVE  Held(m)' \cap Held(k)' = {}
      BY <1>6, <3>3 DEF Homes
    <3> QED BY <3>2, <3>3
  <2>4. \A m \in Nodes \ born' : text'[m] = {}
    <3>1. n \notin born' => T = {}
      BY <1>5 DEF Homes
    <3> QED BY <1>2, <3>1 DEF Homes
  <2>5. (\A m \in Nodes : Held(m) \subseteq Traces(used))' /\ (cut \subseteq Traces(used))'
    BY <2>1, <2>2 DEF Traces
  <2> QED BY <2>3, <2>4, <2>5 DEF Homes
<1>10. Fits'
  <2>1. ASSUME NEW m \in Pending, m # n PROVE BufferFits(m)'
    <3>1. m \in Nodes /\ BufferFits(m) /\ Held(m) \cap Held(n) = {}
      BY <1>6, <2>1 DEF TypeOK, Fits
    <3>2. text'[m] = text[m] /\ Buf(m)' = Buf(m) /\ (m \in live' <=> m \in live)
      BY <1>2, <1>4, <2>1, <3>1
    <3>3. Merged(text[m], Buf(m)) \subseteq Held(m)
      BY TraceFacts DEF Merged, Held
    <3>4. Merged(text[m], Buf(m)) \cap cut' = Merged(text[m], Buf(m)) \cap cut
      BY <3>1, <3>3
    <3> QED BY <1>3, <3>1, <3>2, <3>4 DEF BufferFits
  <2>2. ASSUME n \in Pending PROVE BufferFits(n)'
    <3> DEFINE l == Lossy(Buf(n).bytes)
               a == Buf(n).base
               t == text[n]
    <3>1. BufferFits(n) /\ n \in live /\ a \subseteq Held(n) /\ l \subseteq Held(n) /\ Buf(n)' = Buf(n)
      BY <1>4, <1>7, <2>2, TraceFacts DEF Fits, TypeOK, Held
    <3>2. /\ (l \ a) \cap t = {} /\ a \ t \subseteq cut
          /\ t \cap (a \ l) \subseteq cut \cup (torn \cap PeerEdits)
          /\ ((t \ (a \ l)) \cup (l \ a)) \cap cut \subseteq torn
      BY <3>1 DEF BufferFits, Merged
    <3>3. /\ T \subseteq t \cup fresh /\ t \subseteq T \cup gone /\ gone \cap T = {} /\ gone \subseteq t
          /\ fresh \cap a = {} /\ fresh \cap l = {} /\ fresh \cap cut = {}
      BY <1>5, <1>6, <1>T, <3>1
    <3>R. \A e \in Buf(n).bytes \cap Binary : Mark(e) \notin T \cup a \cup Buf(n).bytes
      <4>1. \A e \in Binary : Mark(e) \notin fresh
        BY <1>T, MarkFacts
      <4> QED BY <3>1, <3>3, <4>1 DEF BufferFits
    <3> HIDE DEF a, l, t
    <3>4. (l \ a) \cap T = {}
      BY <3>2, <3>3
    <3>5. ASSUME n \in live'
          PROVE  /\ a \ T \subseteq cut' /\ T \cap (a \ l) \subseteq cut' \cup (torn' \cap PeerEdits)
                 /\ ((T \ (a \ l)) \cup (l \ a)) \cap cut' \subseteq torn'
      <4>1. cut' = cut \cup gone
        BY <1>5, <3>5
      <4>2. a \ T \subseteq cut'
        BY <3>2, <3>3, <4>1
      <4>3. T \cap (a \ l) \subseteq cut' \cup (torn' \cap PeerEdits)
        BY <1>3, <3>2, <3>3, <4>1
      <4>4. ASSUME NEW x \in (T \ (a \ l)) \cup (l \ a), x \in cut' PROVE x \in torn
        <5>1. x \notin gone /\ x \in cut /\ x \notin fresh
          BY <3>2, <3>3, <4>1, <4>4
        <5>2. x \in (t \ (a \ l)) \cup (l \ a)
          BY <3>3, <4>4, <5>1
        <5> QED BY <3>2, <5>1, <5>2
      <4> QED BY <1>3, <4>2, <4>3, <4>4
    <3> QED BY <1>2, <3>1, <3>R, <3>4, <3>5 DEF BufferFits, Merged, Lossy, a, l
  <2>3. ASSUME NEW m \in DOMAIN seed PROVE SeedFits(m)'
    <3>1. m \in Nodes /\ SeedFits(m) /\ seed'[m] = seed[m] /\ seed[m] \subseteq Held(m)
      BY <1>1 DEF TypeOK, Fits, Held
    <3>2. CASE m # n
      <4>1. text'[m] = text[m] /\ (m \in live' <=> m \in live) /\ Held(m) \cap Held(n) = {}
        BY <1>2, <1>6, <3>1, <3>2
      <4> QED BY <1>3, <3>1, <4>1 DEF SeedFits
    <3>3. CASE m = n
      <4>1. n \in live /\ fresh \cup gone \subseteq torn'
        BY <1>3, <1>7, <3>3 DEF TypeOK
      <4>2. text'[n] \ seed[n] \subseteq torn' \cap PeerEdits
        BY <1>2, <1>3, <1>5, <3>1, <3>3, <4>1 DEF SeedFits
      <4>3. n \in live' => seed[n] \cap cut' \subseteq torn'
        BY <1>3, <1>5, <3>1, <3>3, <4>1 DEF SeedFits
      <4> QED BY <3>1, <3>3, <4>2, <4>3 DEF SeedFits
    <3> QED BY <3>2, <3>3
  <2> QED BY <1>1, <1>4, <2>1, <2>2, <2>3 DEF Fits
<1>11. MergeHolds'
  <2>1. ASSUME NEW e \in LostPeerEdits' PROVE e \in torn'
    <3>1. e \in (used' \cap PeerEdits) \ cut' /\ \A m \in live' : e \notin text'[m]
      BY <2>1 DEF LostPeerEdits
    <3>2. e \notin fresh
      BY <1>2, <1>5, <3>1
    <3>3. ASSUME NEW m \in live, e \in text[m] PROVE FALSE
      <4>1. CASE m # n
        <5>1. m \in live' /\ m \in Nodes
          BY <4>1 DEF TypeOK
        <5> QED BY <1>2, <3>1, <3>3, <4>1, <5>1
      <4>2. CASE m = n
        BY <1>2, <1>5, <3>1, <3>3, <4>2
      <4> QED BY <4>1, <4>2
    <3>4. e \in LostPeerEdits
      BY <1>5, <3>1, <3>2, <3>3 DEF LostPeerEdits
    <3> QED BY <1>3, <3>4 DEF MergeHolds
  <2>2. ASSUME NEW m \in live', m \notin Pending PROVE text'[m] \cap cut' \subseteq torn'
    <3>1. CASE m # n
      <4>1. m \in live /\ m \in Nodes /\ text[m] \subseteq Held(m)
        BY <3>1 DEF TypeOK, Held
      <4>2. text[m] \cap cut \subseteq torn /\ Held(m) \cap Held(n) = {}
        BY <1>4, <1>6, <2>2, <3>1, <4>1 DEF MergeHolds, Pending
      <4> QED BY <1>2, <1>3, <3>1, <4>1, <4>2
    <3>2. CASE m = n
      <4>1. text[n] \cap cut \subseteq torn
        BY <1>4, <2>2, <3>2 DEF MergeHolds, Homes, Pending
      <4> QED BY <1>2, <1>3, <1>5, <1>6, <1>T, <2>2, <3>2, <4>1
    <3> QED BY <3>1, <3>2
  <2> QED BY <1>4, <2>1, <2>2 DEF MergeHolds, Pending
<1>12. WritesSurvive'
  <2> SUFFICES ASSUME NEW e \in used' \cap AppEdits, {e, Rendered(e)} \cap cut' = {}
               PROVE  \E m \in live' : e \in Uncommitted(m)' \/ Rendered(e) \in text'[m]
    BY <1>4 DEF WritesSurvive
  <2>1. e \in used \cap AppEdits /\ {e, Rendered(e)} \cap cut = {}
    BY <1>5
  <2>2. PICK m \in live : e \in Uncommitted(m) \/ Rendered(e) \in text[m]
    BY <1>4, <2>1 DEF WritesSurvive
  <2>3. CASE m # n
    BY <1>2, <1>4, <2>2, <2>3 DEF TypeOK
  <2>4. CASE m = n
    <3>1. n \in live' /\ Rendered(e) \notin gone
      BY <1>5, <2>2, <2>4
    <3> QED BY <1>2, <1>4, <1>5, <2>2, <2>4, <3>1
  <2> QED BY <2>3, <2>4
<1>13. Settled'
  BY <1>1 DEF Settled
<1>14. PagesFollow'
  <2>1. ASSUME NEW m \in Dirty PROVE text'[m] = buf[m].base \/ m \in shadowed'
    <3>1. m \in Nodes /\ m \in known
      BY DEF TypeOK, Pending
    <3>2. CASE text'[m] = text[m]
      BY <1>3, <3>2 DEF PagesFollow
    <3>3. CASE text'[m] # text[m]
      BY <1>1, <1>2, <1>3, <3>1, <3>3
    <3> QED BY <3>2, <3>3
  <2>2. ASSUME NEW m \in DOMAIN taken \cap DOMAIN cache, m \in live'
        PROVE  text'[m] = taken[m].base \/ m \in invals' \cup shadowed'
    <3>1. m \in Nodes /\ m \in known /\ m \in live
      BY <1>7, <2>2 DEF TypeOK, Pending
    <3>2. CASE text'[m] = text[m]
      BY <1>3, <3>1, <3>2 DEF PagesFollow
    <3>3. CASE text'[m] # text[m]
      BY <1>1, <1>2, <1>3, <3>1, <3>3
    <3> QED BY <3>2, <3>3
  <2>3. ASSUME NEW m \in DOMAIN cache, m \in live'
        PROVE  /\ m \in DOMAIN seed => cache[m] = seed[m] \/ m \in invals' \cup shadowed'
               /\ m \in DOMAIN taken => cache[m] = taken[m].bytes \/ m \in invals' \cup shadowed'
    <3>1. m \in live
      BY <1>7, <2>3 DEF TypeOK
    <3> QED BY <1>3, <1>4, <3>1 DEF PagesFollow
  <2> QED BY <1>1, <1>4, <2>1, <2>2, <2>3 DEF PagesFollow
<1>15. CacheCoherent'
  <2> SUFFICES ASSUME NEW m \in DOMAIN cache \cap live', m \notin DOMAIN taken
               PROVE  cache[m] = Shown(m)' \/ m \in invals' \cup shadowed'
    BY <1>1 DEF CacheCoherent
  <2>1. m \in live /\ m \in Nodes /\ m \in known
    BY <1>7 DEF TypeOK
  <2>2. cache[m] = Shown(m) \/ m \in invals \cup shadowed
    BY <1>4, <2>1 DEF CacheCoherent
  <2>3. CASE text'[m] = text[m]
    BY <1>1, <1>3, <1>4, <2>2, <2>3 DEF Shown
  <2>4. CASE text'[m] # text[m]
    BY <1>1, <1>2, <1>3, <2>1, <2>4
  <2> QED BY <2>3, <2>4
<1> QED BY <1>8, <1>9, <1>10, <1>11, <1>12, <1>13, <1>14, <1>15

\* The three imports.
LEMMA PeersKeep ==
  ASSUME IndInv, NEW n \in Nodes,
         \/ \E e \in PeerEdits : PeerInserts(n, e)
         \/ \E e \in Bits : PeerCuts(n, e)
         \/ PeerRemoves(n)
  PROVE  IndInv'
<1>0. /\ text[n] \subseteq Held(n) /\ text[n] \subseteq Texts /\ live \subseteq born
      /\ text \in [Nodes -> SUBSET Texts] /\ Uncommitted(n) \subseteq Held(n)
  <2>1. Uncommitted(n) \subseteq Held(n)
    <3>1. Uncommitted(n) \subseteq IF n \in Pending THEN Buf(n).bytes ELSE {}
      BY DEF IndInv, TypeOK, Uncommitted, Pending, Buf
    <3> QED BY <3>1, TraceFacts DEF Held
  <2> QED BY <2>1 DEF IndInv, TypeOK, Held
<1>1. ASSUME NEW e \in PeerEdits, PeerInserts(n, e) PROVE IndInv'
  <2> DEFINE T == text[n] \cup {e}
  <2>1. T \in SUBSET Texts /\ T \ text[n] = {e} /\ text[n] \ T = {}
    <3>1. e \notin used /\ e \in Texts /\ e \in Edits
      BY <1>1, MarkFacts DEF PeerInserts, Edits
    <3>2. e \notin Traces(used)
      BY <3>1, MarkFacts DEF Traces
    <3> QED BY <1>0, <3>1, <3>2 DEF IndInv, Homes
  <2>2. /\ Imports([text EXCEPT ![n] = T]) /\ used' = used \cup {e} /\ e \notin used
        /\ live' = live \cup {n} /\ born' = born \cup {n} /\ cut' = cut /\ (n \in live \/ n \notin born)
    BY <1>1 DEF PeerInserts
  <2> HIDE DEF T
  <2>3. born' = born \cup live'
    BY <1>0, <2>2
  <2>4. /\ T \ text[n] \subseteq PeerEdits \ used /\ used' = used \cup (T \ text[n])
        /\ cut' = cut \cup {}
    BY <1>1, <2>1, <2>2
  <2> QED BY <2>1, <2>2, <2>3, <2>4, ImportsKeep
<1>2. ASSUME NEW e \in Bits, PeerCuts(n, e) PROVE IndInv'
  <2> DEFINE T == text[n] \ {e}
  <2>1. T \in SUBSET Texts /\ T \ text[n] = {} /\ text[n] \ T = {e}
    BY <1>0, <1>2 DEF PeerCuts
  <2>2. /\ Imports([text EXCEPT ![n] = T]) /\ UNCHANGED <<live, born, used>>
        /\ cut' = cut \cup {e} /\ n \in live /\ {e} \subseteq Held(n)
    BY <1>0, <1>2 DEF PeerCuts
  <2> HIDE DEF T
  <2>3. born' = born \cup live' /\ used' = used \cup (T \ text[n])
    BY <1>0, <2>1, <2>2
  <2> QED BY <2>1, <2>2, <2>3, ImportsKeep
<1>3. ASSUME PeerRemoves(n) PROVE IndInv'
  <2> DEFINE G == text[n] \cup Uncommitted(n)
  <2>1. /\ Imports(text) /\ UNCHANGED <<born, used>> /\ live' = live \ {n} /\ n \in live
        /\ cut' = cut \cup G
    BY <1>3 DEF PeerRemoves
  <2>2. text = [text EXCEPT ![n] = text[n]]
    BY <1>0
  <2>3. Imports([text EXCEPT ![n] = text[n]])
    BY <2>1, <2>2
  <2>4. /\ G \subseteq Held(n) /\ text[n] \ text[n] \subseteq G /\ text[n] \cup Uncommitted(n) \subseteq G
        /\ used' = used \cup (text[n] \ text[n]) /\ born' = born \cup live' /\ n \notin live'
        /\ text[n] \ text[n] \subseteq PeerEdits \ used
    BY <1>0, <2>1
  <2> HIDE DEF G
  <2> QED BY <1>0, <2>1, <2>3, <2>4, ImportsKeep
<1> QED BY <1>1, <1>2, <1>3

-----------------------------------------------------------------------------
(* The other steps *)

\* A removal by an application takes the file's edits with it.
LEMMA UnlinkKeeps ==
  ASSUME IndInv, NEW n \in Nodes, Unlink(n)
  PROVE  IndInv'
<1> USE DEF IndInv
<1>1. /\ UNCHANGED <<text, seed, taken, known, cache, invals, phase, born, used, late, torn, shadowed>>
      /\ DOMAIN seed = {} /\ DOMAIN taken = {} /\ Serving /\ live' = live \ {n} /\ stale' = stale \ {n} /\ n \in live
      /\ cut' = cut \cup text[n] \cup Shown(n)
  BY DEF Unlink, Locked
<1>2. DOMAIN buf' = Dirty \ {n} /\ \A m \in Dirty \ {n} : buf'[m] = buf[m]
  BY DEF Unlink, Drop, Dirty
<1>P. /\ Pending = Dirty /\ Pending' = Dirty \ {n} /\ Dirty' = Dirty \ {n}
      /\ \A m : Buf(m) = buf[m] /\ Buf(m)' = buf'[m]
  BY <1>1, <1>2 DEF Pending, Buf, Dirty
<1>3. /\ text[n] \cup Shown(n) \subseteq Held(n) /\ Held(n) \subseteq Traces(used)
      /\ Traces(used) \subseteq Bits
  <2>1. Shown(n) \subseteq Held(n)
    BY <1>P, TraceFacts DEF Held, Shown
  <2>2. used \in SUBSET Bits
    BY DEF TypeOK, Bits
  <2> QED BY <2>1, <2>2, TraceFacts DEF Held, Homes
<1>4. TypeOK'
  BY <1>1, <1>2, <1>3, <1>P DEF TypeOK
<1>5. \A m \in Nodes : Held(m)' \subseteq Held(m)
  BY <1>1, <1>2, <1>P DEF Held
<1>6. Homes'
  <2>1. (\A m \in Nodes : Held(m) \subseteq Traces(used))' /\ (cut \subseteq Traces(used))'
    BY <1>1, <1>3, <1>5 DEF Homes, Traces
  <2> QED BY <1>1, <1>5, <2>1 DEF Homes
<1>7. \A m \in Nodes : m # n => Held(m) \cap cut' = Held(m) \cap cut
  BY <1>1, <1>3 DEF Homes
<1>8. Fits'
  <2>1. ASSUME NEW m \in Dirty, m # n PROVE BufferFits(m)'
    <3>1. m \in Nodes /\ BufferFits(m) /\ buf'[m] = buf[m] /\ (m \in live' <=> m \in live)
      BY <1>1, <1>2, <1>P, <2>1 DEF TypeOK, Fits
    <3>2. Merged(text[m], buf[m]) \subseteq Held(m)
      BY <1>P, TraceFacts DEF Merged, Held
    <3>3. Merged(text[m], buf[m]) \cap cut' = Merged(text[m], buf[m]) \cap cut
      BY <1>7, <2>1, <3>1, <3>2
    <3> QED BY <1>1, <1>P, <3>1, <3>3 DEF BufferFits
  <2> QED BY <1>1, <1>P, <2>1 DEF Fits
<1>9. MergeHolds'
  <2>1. LostPeerEdits' \subseteq LostPeerEdits
    <3> SUFFICES ASSUME NEW e \in LostPeerEdits', NEW m \in live, e \in text[m] PROVE FALSE
      BY <1>1 DEF LostPeerEdits
    <3> QED BY <1>1 DEF LostPeerEdits
  <2>2. ASSUME NEW m \in live', m \notin DOMAIN buf' PROVE text[m] \cap cut' \subseteq torn
    <3>1. m \in live /\ m # n /\ m \in Nodes /\ m \notin Dirty /\ text[m] \subseteq Held(m)
      BY <1>1, <1>2, <2>2 DEF TypeOK, Held
    <3>2. text[m] \cap cut' = text[m] \cap cut
      BY <1>7, <3>1
    <3> QED BY <1>1, <3>1, <3>2 DEF MergeHolds
  <2> QED BY <1>1, <2>1, <2>2 DEF MergeHolds, Dirty
<1>10. WritesSurvive'
  <2> SUFFICES ASSUME NEW e \in used \cap AppEdits, {e, Rendered(e)} \cap cut' = {}
               PROVE  \E m \in live' : e \in Uncommitted(m)' \/ Rendered(e) \in text[m]
    BY <1>1 DEF WritesSurvive, Serving
  <2>1. PICK m \in live : e \in Uncommitted(m) \/ Rendered(e) \in text[m]
    BY <1>1 DEF WritesSurvive
  <2>2. m # n
    BY <1>1, <2>1 DEF Shown, Uncommitted
  <2>3. Uncommitted(m)' = Uncommitted(m)
    BY <1>1, <1>2, <2>2 DEF Uncommitted, Dirty
  <2> QED BY <1>1, <2>1, <2>2, <2>3
<1>11. Settled'
  <2> SUFFICES ASSUME phase = "closing", NEW e \in used \cap AppEdits,
                      {e, Rendered(e)} \cap cut' = {}, e \notin late
               PROVE  \E m \in live' : Rendered(e) \in text[m]
    BY <1>1 DEF Settled
  <2>1. PICK m \in live : Rendered(e) \in text[m]
    BY <1>1 DEF Settled
  <2> QED BY <1>1, <2>1
<1>12. PagesFollow'
  BY <1>1, <1>2 DEF PagesFollow, Dirty
<1>13. CacheCoherent'
  <2> SUFFICES ASSUME NEW m \in DOMAIN cache \cap live, m # n, m \notin DOMAIN taken
               PROVE  cache[m] = Shown(m)' \/ m \in invals \cup shadowed
    BY <1>1 DEF CacheCoherent
  <2>1. Shown(m)' = Shown(m)
    BY <1>1, <1>2 DEF Shown, Dirty
  <2> QED BY <1>1, <2>1 DEF CacheCoherent
<1> QED BY <1>4, <1>6, <1>8, <1>9, <1>10, <1>11, <1>12, <1>13

\* A step that only moves inodes, pages, time or the link.
LEMMA PlainKeeps ==
  ASSUME IndInv, UNCHANGED <<live, text, buf, seed, taken, born, used, cut, late, torn, shadowed, saved,
                     unstored>>,
         phase' = phase \/ (phase = "mounted" /\ phase' = "interrupted"),
         known \subseteq known', known' \subseteq born, stale' \subseteq Pending, DOMAIN cache' \subseteq known,
         \A n \in DOMAIN cache' \cap live :
           \/ Serving /\ DOMAIN seed = {} /\ DOMAIN taken = {} /\ cache'[n] = Shown(n)
           \/ n \in DOMAIN cache /\ cache'[n] = cache[n] /\ (n \in invals => n \in invals')
  PROVE  IndInv'
<1> USE DEF IndInv
<1>1. /\ Dirty' = Dirty /\ Serving' = Serving /\ Pending' = Pending
      /\ \A m : Buf(m)' = Buf(m) /\ Uncommitted(m)' = Uncommitted(m)
  BY DEF Dirty, Serving, Pending, Buf, Uncommitted
<1>2. TypeOK'
  BY <1>1 DEF TypeOK
<1>3. Homes' /\ Fits'
  BY <1>1 DEF Homes, Held, Fits, BufferFits, SeedFits, Merged, Lossy, Traces
<1>4. MergeHolds' /\ Settled'
  BY <1>1 DEF MergeHolds, LostPeerEdits, Settled
<1>5. WritesSurvive'
  BY <1>1 DEF WritesSurvive
<1>6. PagesFollow'
  BY <1>1 DEF PagesFollow
<1>7. CacheCoherent'
  <2>1. \A n : Shown(n)' = Shown(n)
    BY <1>1 DEF Shown
  <2> QED BY <1>1, <2>1 DEF CacheCoherent
<1> QED BY <1>2, <1>3, <1>4, <1>5, <1>6, <1>7

\* A write reads the text it starts from.
LEMMA SeedsKeep ==
  ASSUME IndInv, NEW n \in Nodes, Seeds(n)
  PROVE  IndInv'
<1> USE DEF IndInv
<1>1. /\ UNCHANGED <<live, text, buf, taken, stale, known, cache, invals, phase, born, used, cut,
                     late, torn, shadowed, saved, unstored>>
      /\ DOMAIN seed = {} /\ DOMAIN taken = {} /\ n \in known \ Dirty /\ Serving
  BY DEF Seeds, Locked, docVars
<1>2. DOMAIN seed' = {n} /\ seed'[n] = text[n]
  BY <1>1 DEF Seeds, Put
<1>3. /\ Dirty' = Dirty /\ Serving' /\ Pending' = Pending /\ Pending = Dirty
      /\ \A m : Buf(m)' = Buf(m) /\ Uncommitted(m)' = Uncommitted(m)
  BY <1>1 DEF Dirty, Serving, Pending, Buf, Uncommitted
<1>4. TypeOK'
  BY <1>1, <1>2, <1>3 DEF TypeOK
<1>5. \A m \in Nodes : Held(m)' = Held(m)
  BY <1>1, <1>2, <1>3 DEF Held
<1>6. Homes'
  <2>1. (\A m \in Nodes : Held(m) \subseteq Traces(used))' /\ (cut \subseteq Traces(used))'
    BY <1>1, <1>5 DEF Homes, Traces
  <2> QED BY <1>1, <1>5, <2>1 DEF Homes
<1>7. Fits'
  <2>1. \A m \in Pending : BufferFits(m)'
    BY <1>1, <1>3 DEF Fits, BufferFits, Merged, Lossy
  <2>2. n \in live => text[n] \cap cut \subseteq torn
    BY <1>1 DEF MergeHolds
  <2>3. SeedFits(n)'
    BY <1>1, <1>2, <2>2 DEF SeedFits
  <2> QED BY <1>2, <1>3, <2>1, <2>3 DEF Fits
<1>8. MergeHolds' /\ Settled'
  BY <1>1, <1>3 DEF MergeHolds, LostPeerEdits, Settled
<1>9. \A m : Shown(m)' = Shown(m)
  BY <1>1, <1>3 DEF Shown
<1>10. WritesSurvive' /\ CacheCoherent'
  BY <1>1, <1>3, <1>9 DEF WritesSurvive, CacheCoherent
<1>11. n \in DOMAIN cache \cap live => cache[n] = text[n] \/ n \in invals \cup shadowed
  BY <1>1 DEF CacheCoherent, Shown
<1>12. PagesFollow'
  BY <1>1, <1>2, <1>3, <1>11 DEF PagesFollow
<1> QED BY <1>4, <1>6, <1>7, <1>8, <1>10, <1>12

\* A new file is empty.
LEMMA CreateKeeps ==
  ASSUME IndInv, NEW n \in Nodes, Create(n)
  PROVE  IndInv'
<1> USE DEF IndInv
<1>1. /\ UNCHANGED <<text, buf, seed, taken, stale, cache, invals, saved, unstored, phase, used,
                     cut, late, torn, shadowed>>
      /\ live' = live \cup {n} /\ born' = born \cup {n} /\ known' = known \cup {n} /\ n \notin born
      /\ Serving
  BY DEF Create
<1>2. /\ Dirty' = Dirty /\ Serving' /\ n \notin known /\ text[n] = {} /\ Pending' = Pending
      /\ \A m : Buf(m)' = Buf(m) /\ Uncommitted(m)' = Uncommitted(m)
  BY <1>1 DEF Dirty, Serving, TypeOK, Homes, Pending, Buf, Uncommitted
<1>3. n \notin Pending /\ n \notin DOMAIN seed /\ n \notin DOMAIN cache
  BY <1>2 DEF TypeOK
<1>4. TypeOK'
  BY <1>1, <1>2 DEF TypeOK
<1>5. Homes'
  BY <1>1, <1>2 DEF Homes, Held, Traces
<1>6. Fits'
  BY <1>1, <1>2, <1>3 DEF Fits, BufferFits, SeedFits, Merged, Lossy
<1>7. MergeHolds'
  BY <1>1, <1>2, <1>3 DEF MergeHolds, LostPeerEdits
<1>8. \A m : Shown(m)' = Shown(m)
  BY <1>1, <1>2 DEF Shown
<1>9. WritesSurvive' /\ Settled'
  BY <1>1, <1>2, <1>8 DEF WritesSurvive, Settled
<1>10. PagesFollow' /\ CacheCoherent'
  BY <1>1, <1>2, <1>3, <1>8 DEF PagesFollow, CacheCoherent
<1> QED BY <1>4, <1>5, <1>6, <1>7, <1>9, <1>10

\* The unmount drops the buffers and stores what the document holds, or not.
LEMMA UnmountKeeps ==
  ASSUME IndInv, Unmount
  PROVE  IndInv'
<1> USE DEF IndInv
<1>1. /\ UNCHANGED <<live, text, taken, known, cache, invals, born, used, cut, late, torn, shadowed>>
      /\ phase = "closing" /\ phase' = "unmounted" /\ stale' = {}
      /\ saved' = Snapshot \/ unstored'
      /\ DOMAIN seed' = {} /\ DOMAIN buf' = {} /\ DOMAIN taken = {}
  BY NoneFacts DEF Unmount, Stores
<1>2. Dirty' = {} /\ ~Serving' /\ Pending' = {}
  BY <1>1 DEF Dirty, Serving, Pending
<1>3. TypeOK'
  BY <1>1, <1>2 DEF TypeOK
<1>4. Homes'
  <2>1. \A m \in Nodes : Held(m)' \subseteq Held(m)
    BY <1>1, <1>2 DEF Held
  <2>2. (\A m \in Nodes : Held(m) \subseteq Traces(used))' /\ (cut \subseteq Traces(used))'
    BY <1>1, <2>1 DEF Homes, Traces
  <2> QED BY <1>1, <2>1, <2>2 DEF Homes
<1>5. Fits' /\ PagesFollow' /\ CacheCoherent' /\ Settled'
  BY <1>1, <1>2 DEF Fits, PagesFollow, CacheCoherent, Settled
<1>6. MergeHolds'
  BY <1>1, <1>2 DEF MergeHolds, LostPeerEdits
<1>7. WritesSurvive'
  <2> SUFFICES ASSUME NEW e \in used \cap AppEdits, {e, Rendered(e)} \cap cut = {},
                      e \notin late, ~unstored'
               PROVE  \E n \in saved'.live : Rendered(e) \in saved'.text[n]
    BY <1>1, <1>2 DEF WritesSurvive
  <2>1. PICK n \in live : Rendered(e) \in text[n]
    BY <1>1 DEF Settled
  <2>2. saved' = [live |-> live, text |-> text]
    BY <1>1 DEF Snapshot
  <2> QED BY <2>1, <2>2
<1> QED BY <1>3, <1>4, <1>5, <1>6, <1>7

-----------------------------------------------------------------------------
(* The theorems *)

\* Every step keeps the invariant.
LEMMA NextInv == IndInv /\ [Next]_vars => IndInv'
<1> SUFFICES ASSUME IndInv, [Next]_vars PROVE IndInv'
  OBVIOUS
<1>0. live \subseteq born /\ known \subseteq born /\ stale \subseteq Pending /\ DOMAIN cache \subseteq known
      /\ born \subseteq Nodes
  BY DEF IndInv, TypeOK
<1>1. ASSUME UNCHANGED <<live, text, buf, seed, taken, born, used, cut, late, torn, shadowed, saved,
                         unstored, known, cache, invals>>,
             phase' = phase \/ (phase = "mounted" /\ phase' = "interrupted"),
             stale' \subseteq Pending
      PROVE  IndInv'
  BY <1>0, <1>1, PlainKeeps
<1>2. ASSUME NEW S, Sees(S) PROVE IndInv'
  BY <1>0, <1>2, PlainKeeps DEF Sees, docVars
<1>3. ASSUME NEW n \in Nodes, Read(n) PROVE IndInv'
  <2>1. /\ DOMAIN cache' = DOMAIN cache \cup {n} /\ cache'[n] = Shown(n)
        /\ \A m \in DOMAIN cache : m # n => cache'[m] = cache[m]
    BY <1>3 DEF Read, Put
  <2>2. UNCHANGED <<live, text, buf, seed, taken, stale, known, invals, phase, born, used, cut, late,
                    torn, shadowed, saved, unstored>>
        /\ DOMAIN seed = {} /\ DOMAIN taken = {} /\ Serving /\ n \in known
    BY <1>3 DEF Read, Locked, docVars
  <2> QED BY <1>0, <2>1, <2>2, PlainKeeps
<1>4. ASSUME NEW n \in Nodes, Invalidate(n) PROVE IndInv'
  <2>1. /\ DOMAIN cache' = DOMAIN cache \ {n} /\ invals' = invals \ {n}
        /\ \A m \in DOMAIN cache' : cache'[m] = cache[m]
    BY <1>4 DEF Invalidate, Drop
  <2>2. UNCHANGED <<live, text, buf, seed, taken, stale, known, phase, born, used, cut, late, torn,
                    shadowed, saved, unstored>>
    BY <1>4 DEF Invalidate, docVars
  <2> QED BY <1>0, <2>1, <2>2, PlainKeeps
<1>5. ASSUME NEW n \in Nodes, NEW e \in AppEdits, NEW over \in SUBSET Bits, Write(n, e, over)
      PROVE  IndInv'
  <2>1. {e} \in SUBSET AppEdits /\ {e} \cap used = {} /\ Buffers(n, over, {e})
    BY <1>5 DEF Write
  <2> QED BY <2>1, BuffersKeep
<1>6. ASSUME NEW n \in Nodes, NEW gone \in SUBSET Bits, Buffers(n, gone, {}) PROVE IndInv'
  BY <1>6, BuffersKeep
<1>7. ASSUME NEW n \in Nodes, Flush(n) PROVE IndInv'
  <2>1. {n} \in SUBSET Dirty /\ Takes({n}) /\ Serving /\ phase' = phase
    BY <1>7 DEF Flush
  <2> QED BY <2>1, TakesKeep
<1>8. ASSUME Ceiling PROVE IndInv'
  <2>1. stale \in SUBSET Dirty /\ Takes(stale) /\ Serving /\ phase' = phase
    BY <1>0, <1>8 DEF Ceiling, Running, Serving, Takes, Locked, Pending
  <2> QED BY <2>1, TakesKeep
<1>9. ASSUME FinalCommit PROVE IndInv'
  <2>1. Dirty \in SUBSET Dirty /\ Takes(Dirty) /\ Serving /\ phase' = "closing"
    BY <1>9 DEF FinalCommit, Serving
  <2> QED BY <2>1, TakesKeep
<1>10. ASSUME NEW n \in Nodes, Ages(n) PROVE IndInv'
  BY <1>0, <1>1, <1>10 DEF Ages, docVars, Pending
<1>11. ASSUME Dials \/ LinkDrops \/ Interrupt PROVE IndInv'
  BY <1>0, <1>1, <1>11 DEF Dials, LinkDrops, Interrupt, docVars
<1>12. ASSUME Persist PROVE IndInv'
  <2>1. UNCHANGED <<live, text, buf, seed, taken, stale, known, cache, invals, phase, born, used, cut,
                    late, torn, shadowed>> /\ phase = "mounted"
    BY <1>12 DEF Persist, Running
  <2>2. /\ Dirty' = Dirty /\ Serving /\ Serving' /\ Pending' = Pending
        /\ \A m : Buf(m)' = Buf(m) /\ Uncommitted(m)' = Uncommitted(m) /\ Shown(m)' = Shown(m)
    BY <2>1 DEF Dirty, Serving, Pending, Buf, Uncommitted, Shown
  <2>3. TypeOK' /\ Homes' /\ Fits'
    BY <2>1, <2>2 DEF IndInv, TypeOK, Homes, Held, Fits, BufferFits, SeedFits, Merged, Lossy, Traces
  <2>4. MergeHolds' /\ WritesSurvive' /\ Settled' /\ PagesFollow' /\ CacheCoherent'
    BY <2>1, <2>2 DEF IndInv, MergeHolds, LostPeerEdits, WritesSurvive, Settled, PagesFollow,
       CacheCoherent
  <2> QED BY <2>3, <2>4 DEF IndInv
<1>13. CASE UNCHANGED vars
  BY <1>0, <1>1, <1>13 DEF vars
<1> QED
  BY <1>2, <1>3, <1>4, <1>5, <1>6, <1>7, <1>8, <1>9, <1>10, <1>11, <1>12, <1>13, SeedsKeep,
     CreateKeeps, UnlinkKeeps, AppliesKeep, PeersKeep, UnmountKeeps
  DEF Next, Lookup, Readdir, Rewrite, Truncate

\* The invariant holds in every reachable state.
LEMMA Inductive == Spec => []IndInv
  BY InitInv, NextInv, PTL DEF Spec

\* What is buffered, seeded or cached has an inode and a type, always.
THEOREM TypeCorrect == Spec => []TypeOK
<1>1. IndInv => TypeOK
  BY DEF IndInv
<1> QED BY <1>1, Inductive, PTL

\* Whichever of flush, ceiling and unmount commits a buffer, the merge undoes
\* nothing a peer did to the text except between the two reads of the seeding.
THEOREM MergesHold == Spec => []MergeHolds
<1>1. IndInv => MergeHolds
  BY DEF IndInv
<1> QED BY <1>1, Inductive, PTL

\* A write that was answered is never lost while the mount serves, also not
\* while a commit has its buffer; after the unmount it is in the stored state
\* unless it came after the final commit or the state could not be stored.  (Of
\* a write that is not UTF-8 the replacement characters are there.)
THEOREM WritesKept == Spec => []WritesSurvive
<1>1. IndInv => WritesSurvive
  BY DEF IndInv
<1> QED BY <1>1, Inductive, PTL

\* The kernel's pages of a file are those a read would return, or queued to be
\* dropped, or behind a peer edit that a dirty buffer hides.
THEOREM PagesCoherent == Spec => []CacheCoherent
<1>1. IndInv => CacheCoherent
  BY DEF IndInv
<1> QED BY <1>1, Inductive, PTL
=============================================================================
