------------------------- MODULE MaterializeProofs --------------------------
(***************************************************************************)
(* Theorems about Materialize, for any names, any edits, any number of      *)
(* nodes and any regime.                                                    *)
(***************************************************************************)
EXTENDS Materialize, WellFoundedInduction, SequenceTheorems, TLAPS

\* A document: a live node is a root, and has a name and a text.
GoodDoc(d) ==
  /\ d \in [roots : Seq(Nat), live : SUBSET Nat, name : Seq(Paths), text : Seq(SUBSET Edits)]
  /\ Len(d.name) = Len(d.roots) /\ Len(d.text) = Len(d.roots)
  /\ \A n \in d.live : n \in DOMAIN d.text /\ \E i \in DOMAIN d.roots : d.roots[i] = n

Base == [node : Nat, view : Seq(SUBSET Edits)]

TypeOK ==
  /\ regime \in Regimes /\ GoodDoc(doc) /\ GoodDoc(saved)
  /\ DOMAIN disk \subseteq Paths /\ disk \in [DOMAIN disk -> SUBSET Edits]
  /\ DOMAIN base \subseteq Paths /\ base \in [DOMAIN base -> Base]
  /\ events \subseteq Paths /\ nudged \in BOOLEAN /\ loose \in BOOLEAN /\ (loose => regime.fails > 0)
  /\ startup \in {"none", "bind", "seeded"} /\ running \in BOOLEAN
  /\ (running => startup = "none") /\ (~running => Quiet)
  /\ used \subseteq Edits /\ cut \subseteq Edits /\ known \subseteq Edits /\ gone \subseteq Paths
  /\ missed \subseteq UserEdits
  /\ userOps \in Nat /\ peerOps \in Nat /\ fails \in Nat /\ stops \in Nat

\* Whatever a base recorded has been in the document.
Recorded ==
  /\ Kept(doc) \subseteq known /\ Kept(saved) \subseteq known
  /\ \A p \in DOMAIN base : base[p].view[base[p].node] \subseteq known

\* No two live nodes have one name, and no edit is in two of them.
Alone(d) == \A m, n \in d.live : d.name[m] = d.name[n] => m = n
Apart(d) == \A m, n \in d.live : m # n => d.text[m] \cap d.text[n] = {}
FilesApart == \A p, q \in DOMAIN disk : p # q => disk[p] \cap disk[q] = {}

Content(p) == IF p \in DOMAIN disk THEN disk[p] ELSE {}
\* The file is the node's text; the base is, and what the file lacks was cut.
Synced(p) == (p \in DOMAIN disk <=> Exists(doc, p)) /\ \A n \in Named(doc, p) : disk[p] = Text(n)
Tracked(p) ==
  /\ p \in DOMAIN base <=> Exists(doc, p)
  /\ \A n \in Named(doc, p) :
       base[p].node = n /\ base[p].view[n] = Text(n) /\ Text(n) \ Content(p) \subseteq cut

\* With nothing to export the files are what counts: all that was not cut is on
\* disk, and the document is behind in at most the one file the user changed.
Resting ==
  /\ saved = doc /\ FilesApart /\ cut \cap OnDisk = {} /\ used \ cut \subseteq OnDisk
  /\ \A p \in Paths : Synced(p) \/ (running /\ events = {p})
  /\ running \/ startup = "seeded" => \A p \in Paths : Tracked(p)
\* With something to export it is the document that counts, and every file there
\* is can be replaced or pruned.
Exporting ==
  /\ running /\ events = {} /\ DOMAIN base = DOMAIN disk /\ \A p \in DOMAIN disk : Echo(p)
  /\ Apart(doc) /\ cut \cap Kept(doc) = {} /\ used \ cut \subseteq Kept(doc)
Turns ==
  TakingTurns =>
    /\ Alone(doc) /\ Kept(doc) \cup OnDisk \cup cut \subseteq used /\ NoPeerEditLost
    /\ ~running => Quiet
    /\ IF nudged THEN Exporting ELSE Resting

\* The base of a file is of the node that has its name, it lacks no edit of a
\* peer that is not about to be exported, and the file lacks none it has.
Careful(p) ==
  \E n \in Named(doc, p) :
    /\ base[p].node = n /\ n \in DOMAIN base[p].view
    /\ ~nudged => Text(n) \cap PeerEdits \subseteq base[p].view[n]
    /\ p \in DOMAIN disk /\ (p \in events \/ ~nudged)
         => (base[p].view[n] \cap PeerEdits) \ disk[p] \subseteq cut
Care ==
  CarefulUser =>
    /\ running /\ Alone(doc) /\ NoPeerEditLost
    /\ \A p \in DOMAIN base : Careful(p)
    /\ \A p \in DOMAIN disk : p \in DOMAIN base \/ ~Exists(doc, p)
    /\ events \subseteq DOMAIN disk \cup gone

\* The local edits that count: nobody removed them and eg looks at them.
Alive == UserEdits \ (cut \cup missed)
Up == running \/ startup # "none"

\* A base records no live edit that the node lacks, nor one of a node that is gone.
Backed(p) ==
  /\ base[p].node \in DOMAIN base[p].view /\ DOMAIN base[p].view \subseteq DOMAIN doc.text
  /\ \A n \in DOMAIN base[p].view \cap doc.live : base[p].view[n] \cap Alive \subseteq doc.text[n]
  /\ base[p].view[base[p].node] \cap Alive # {} => base[p].node \in Named(doc, p)
\* Document d has what is in the files that have been looked at.
Looked(d) == \A p \in DOMAIN disk \ events : \A e \in Alive \cap disk[p] : \E n \in Named(d, p) : e \in d.text[n]
\* A node's live edits are in its file.
Shelved == \A n \in doc.live : Text(n) \cap Alive \subseteq Content(doc.name[n])
\* A hasty user's edits are all in their files, and so are the document's.
Hastes ==
  /\ Alone(doc) /\ Alone(saved) /\ (~Up => DOMAIN base = {})
  /\ \A p \in DOMAIN base : Backed(p)
  /\ Up => Shelved
  /\ \A e \in used \cap Alive : \E p \in DOMAIN disk : e \in disk[p]
  /\ IF Up THEN Looked(doc) ELSE Looked(saved)
  /\ Up /\ ~nudged /\ fails = 0 => saved = doc
  /\ startup # "none" => saved = doc
Haste == HastyUser => Hastes
-----------------------------------------------------------------------------
(* Tree order, and what a change makes of a document. *)

LEMMA LeastOf ==
  ASSUME NEW I \in SUBSET Nat, I # {}
  PROVE  \E x \in I : \A y \in I : x <= y
<1>1. PICK x \in I : \A y \in I : ~(<<y, x>> \in OpToRel(<, Nat))
  BY NatLessThanWellFounded, WFMin
<1>2. ASSUME NEW y \in I PROVE x <= y
  <2>1. <<y, x>> \in Nat \X Nat /\ <<y, x>>[1] = y /\ <<y, x>>[2] = x
    OBVIOUS
  <2>2. ~(y < x)
    BY <1>1, <2>1 DEF OpToRel
  <2> QED BY <2>2
<1> QED BY <1>2

LEMMA EndsExist ==
  ASSUME NEW d, GoodDoc(d), NEW S, S \subseteq d.live, S # {}
  PROVE  Foremost(d, S) \in S /\ Hindmost(d, S) \in S
<1> DEFINE I == {i \in DOMAIN d.roots : d.roots[i] \in S}
           L == Len(d.roots)
<1>1. d.roots \in Seq(Nat) /\ L \in Nat /\ DOMAIN d.roots = 1 .. L
  BY DEF GoodDoc
<1>2. \A n \in S : \E i \in I : d.roots[i] = n
  BY DEF GoodDoc
<1>3. I \in SUBSET Nat /\ I # {}
  BY <1>1, <1>2
<1>4. \E n \in S : \A m \in S : Before(d, n, m)
  <2>1. PICK x \in I : \A y \in I : x <= y
    BY <1>3, LeastOf
  <2>2. ASSUME NEW m \in S PROVE Before(d, d.roots[x], m)
    BY <1>2, <2>1 DEF Before
  <2> QED BY <2>1, <2>2
<1>5. \E n \in S : \A m \in S : Before(d, m, n)
  <2> DEFINE K == {L - i : i \in I}
  <2>1. K \in SUBSET Nat /\ K # {}
    <3>1. ASSUME NEW i \in I PROVE L - i \in Nat
      BY <1>1
    <3> HIDE DEF I, L
    <3> QED BY <1>3, <3>1
  <2>2. PICK k \in K : \A y \in K : k <= y
    BY <2>1, LeastOf
  <2>3. PICK x \in I : k = L - x
    BY <2>2
  <2>4. ASSUME NEW y \in I PROVE y <= x
    <3>1. L - y \in K
      OBVIOUS
    <3>2. y \in Nat /\ x \in Nat /\ L \in Nat
      BY <1>1
    <3>3. L - x <= L - y
      BY <2>2, <2>3, <3>1
    <3> HIDE DEF I, K, L
    <3> QED BY <3>2, <3>3
  <2>5. ASSUME NEW m \in S PROVE Before(d, m, d.roots[x])
    BY <1>2, <2>3, <2>4 DEF Before
  <2> QED BY <2>3, <2>5
<1> QED BY <1>4, <1>5 DEF Foremost, Hindmost

LEMMA NameFacts ==
  ASSUME NEW d, GoodDoc(d), NEW p, Exists(d, p)
  PROVE  /\ First(d, p) \in Named(d, p) /\ Last(d, p) \in Named(d, p)
         /\ Alone(d) => \A n \in Named(d, p) : First(d, p) = n /\ Last(d, p) = n
<1>1. Named(d, p) \subseteq d.live /\ Named(d, p) # {}
  BY DEF Named, Exists
<1>2. First(d, p) \in Named(d, p) /\ Last(d, p) \in Named(d, p)
  BY <1>1, EndsExist DEF First, Last
<1>3. Alone(d) => \A m, n \in Named(d, p) : m = n
  BY DEF Alone, Named
<1> QED BY <1>2, <1>3

LEMMA NodeFacts ==
  ASSUME NEW d, GoodDoc(d), NEW n \in d.live
  PROVE  /\ n \in Nat /\ n \in DOMAIN d.text /\ n \in DOMAIN d.name /\ n \in 1 .. Len(d.roots)
         /\ d.text[n] \in SUBSET Edits /\ d.name[n] \in Paths
         /\ d.text[n] \subseteq Kept(d) /\ n \in Named(d, d.name[n])
<1>1. /\ d.text \in Seq(SUBSET Edits) /\ d.name \in Seq(Paths) /\ Len(d.name) = Len(d.roots)
      /\ Len(d.text) = Len(d.roots) /\ Len(d.roots) \in Nat /\ n \in DOMAIN d.text
  BY DEF GoodDoc
<1>2. n \in 1 .. Len(d.roots) /\ DOMAIN d.name = 1 .. Len(d.roots)
  BY <1>1
<1>3. d.text[n] \in SUBSET Edits /\ d.name[n] \in Paths
  BY <1>1, <1>2
<1> QED BY <1>1, <1>2, <1>3 DEF Kept, Named

LEMMA KeptFacts ==
  ASSUME NEW d, GoodDoc(d)
  PROVE  /\ Kept(d) \in SUBSET Edits
         /\ \A e : e \in Kept(d) <=> \E n \in d.live : e \in d.text[n]
<1>1. \A n \in d.live : d.text[n] \in SUBSET Edits
  BY NodeFacts
<1> QED BY <1>1 DEF Kept

\* A node's text changes.
Texted(d, e, n, t) ==
  /\ GoodDoc(e) /\ e.live = d.live /\ e.name = d.name /\ e.text[n] = t
  /\ (\A m \in d.live : m # n => e.text[m] = d.text[m]) /\ \A p : Named(e, p) = Named(d, p)
  /\ DOMAIN e.text = DOMAIN d.text /\ (t = d.text[n] => e = d)

LEMMA TextDoc ==
  ASSUME NEW d, GoodDoc(d), NEW n \in d.live, NEW t \in SUBSET Edits
  PROVE  Texted(d, [d EXCEPT !.text[n] = t], n, t)
<1> DEFINE e == [d EXCEPT !.text[n] = t]
<1>1. d \in [roots : Seq(Nat), live : SUBSET Nat, name : Seq(Paths), text : Seq(SUBSET Edits)]
  BY DEF GoodDoc
<1>2. n \in DOMAIN d.text /\ d.text \in Seq(SUBSET Edits)
  BY NodeFacts, <1>1
<1> DEFINE x == [d.text EXCEPT ![n] = t]
<1>3. x \in Seq(SUBSET Edits) /\ Len(x) = Len(d.text) /\ DOMAIN x = DOMAIN d.text
      /\ x[n] = t /\ \A m \in DOMAIN d.text : m # n => x[m] = d.text[m]
  BY <1>2
<1>4. e = [d EXCEPT !.text = x]
  BY <1>1
<1>5. t = d.text[n] => x = d.text
  BY <1>2
<1> HIDE DEF x
<1>6. e.live = d.live /\ e.name = d.name /\ e.roots = d.roots /\ e.text = x
      /\ e \in [roots : Seq(Nat), live : SUBSET Nat, name : Seq(Paths), text : Seq(SUBSET Edits)]
  BY <1>1, <1>3, <1>4
<1>7. x = d.text => e = d
  BY <1>1, <1>4
<1> HIDE DEF e
<1>8. GoodDoc(e)
  BY <1>3, <1>6 DEF GoodDoc
<1>9. \A m \in d.live : m \in DOMAIN d.text
  BY NodeFacts
<1>10. \A p : Named(e, p) = Named(d, p)
  BY <1>6 DEF Named
<1>11. /\ e.text[n] = t /\ (\A m \in d.live : m # n => e.text[m] = d.text[m]) /\ DOMAIN e.text = DOMAIN d.text
  BY <1>3, <1>6, <1>9
<1>12. Texted(d, e, n, t)
  BY <1>5, <1>6, <1>7, <1>8, <1>10, <1>11 DEF Texted
<1> QED BY <1>12 DEF e

\* A node goes.
LEMMA LessDoc ==
  ASSUME NEW d, GoodDoc(d), NEW n \in d.live
  PROVE  LET e == [d EXCEPT !.live = @ \ {n}] IN
         /\ GoodDoc(e) /\ e.live = d.live \ {n} /\ e.name = d.name /\ e.text = d.text /\ e.roots = d.roots
         /\ \A p : Named(e, p) = Named(d, p) \ {n}
<1> DEFINE e == [d EXCEPT !.live = @ \ {n}]
<1>1. d \in [roots : Seq(Nat), live : SUBSET Nat, name : Seq(Paths), text : Seq(SUBSET Edits)]
  BY DEF GoodDoc
<1>2. /\ e.live = d.live \ {n} /\ e.name = d.name /\ e.text = d.text /\ e.roots = d.roots
      /\ e \in [roots : Seq(Nat), live : SUBSET Nat, name : Seq(Paths), text : Seq(SUBSET Edits)]
  BY <1>1
<1> HIDE DEF e
<1>3. GoodDoc(e)
  BY <1>2 DEF GoodDoc
<1>4. \A p : Named(e, p) = Named(d, p) \ {n}
  BY <1>2 DEF Named
<1> QED BY <1>2, <1>3, <1>4 DEF e

\* A node is renamed.
LEMMA NameDoc ==
  ASSUME NEW d, GoodDoc(d), NEW n \in d.live, NEW q \in Paths
  PROVE  LET e == [d EXCEPT !.name[n] = q] IN
         /\ GoodDoc(e) /\ e.live = d.live /\ e.text = d.text /\ e.roots = d.roots
         /\ e.name[n] = q /\ \A m \in d.live : m # n => e.name[m] = d.name[m]
<1> DEFINE e == [d EXCEPT !.name[n] = q]
<1>1. d \in [roots : Seq(Nat), live : SUBSET Nat, name : Seq(Paths), text : Seq(SUBSET Edits)]
  BY DEF GoodDoc
<1>2. n \in DOMAIN d.name /\ d.name \in Seq(Paths)
  BY NodeFacts, <1>1
<1> DEFINE x == [d.name EXCEPT ![n] = q]
<1>3. x \in Seq(Paths) /\ Len(x) = Len(d.name)
      /\ x[n] = q /\ \A m \in DOMAIN d.name : m # n => x[m] = d.name[m]
  BY <1>2
<1>4. e = [d EXCEPT !.name = x]
  BY <1>1
<1> HIDE DEF x
<1>6. e.live = d.live /\ e.text = d.text /\ e.roots = d.roots /\ e.name = x
      /\ e \in [roots : Seq(Nat), live : SUBSET Nat, name : Seq(Paths), text : Seq(SUBSET Edits)]
  BY <1>1, <1>3, <1>4
<1> HIDE DEF e
<1>8. GoodDoc(e)
  BY <1>3, <1>6 DEF GoodDoc
<1>9. \A m \in d.live : m \in DOMAIN d.name
  BY NodeFacts
<1>11. e.name[n] = q /\ \A m \in d.live : m # n => e.name[m] = d.name[m]
  BY <1>3, <1>6, <1>9
<1> QED BY <1>6, <1>8, <1>11 DEF e

LEMMA Appended ==
  ASSUME NEW X, NEW s \in Seq(X), NEW x \in X, NEW k \in Nat, k = Len(s) + 1
  PROVE  /\ Append(s, x) \in Seq(X) /\ Len(Append(s, x)) = k /\ Append(s, x)[k] = x
         /\ \A i \in 1 .. Len(s) : Append(s, x)[i] = s[i]
  BY AppendProperties

\* Roots r hold the ones of s and the new one, k.
Grown(s, r, k) ==
  /\ r \in Seq(Nat) /\ Len(r) = Len(s) + 1 /\ \E i \in DOMAIN r : r[i] = k
  /\ \A j \in DOMAIN s : \E i \in DOMAIN r : r[i] = s[j]

\* A node is added.
With(d, r, k, q, t) ==
  [roots |-> r, live |-> d.live \cup {k}, name |-> Append(d.name, q), text |-> Append(d.text, t)]
Gained(d, e, k, q, t) ==
  /\ GoodDoc(e) /\ e.live = d.live \cup {k} /\ k \notin d.live /\ e.name[k] = q /\ e.text[k] = t
  /\ \A m \in d.live : e.name[m] = d.name[m] /\ e.text[m] = d.text[m]
  /\ k \notin DOMAIN d.text /\ DOMAIN e.text = DOMAIN d.text \cup {k}

LEMMA MoreDoc ==
  ASSUME NEW d, GoodDoc(d), NEW q \in Paths, NEW t \in SUBSET Edits, NEW k, k = Len(d.roots) + 1,
         NEW r, Grown(d.roots, r, k)
  PROVE  Gained(d, With(d, r, k, q, t), k, q, t)
<1> DEFINE e == With(d, r, k, q, t)
<1>1. /\ d.roots \in Seq(Nat) /\ d.live \in SUBSET Nat /\ d.name \in Seq(Paths) /\ d.text \in Seq(SUBSET Edits)
      /\ Len(d.name) = Len(d.roots) /\ Len(d.text) = Len(d.roots) /\ Len(d.roots) \in Nat /\ k \in Nat
      /\ r \in Seq(Nat) /\ Len(r) = k /\ (\E i \in DOMAIN r : r[i] = k)
      /\ \A j \in DOMAIN d.roots : \E i \in DOMAIN r : r[i] = d.roots[j]
  BY DEF GoodDoc, Grown
<1>2. /\ Append(d.name, q) \in Seq(Paths) /\ Len(Append(d.name, q)) = k /\ Append(d.name, q)[k] = q
      /\ \A i \in 1 .. Len(d.roots) : Append(d.name, q)[i] = d.name[i]
  <2>1. d.name \in Seq(Paths) /\ k \in Nat /\ k = Len(d.name) + 1 /\ Len(d.name) = Len(d.roots)
    BY <1>1
  <2>2. /\ Append(d.name, q) \in Seq(Paths) /\ Len(Append(d.name, q)) = k /\ Append(d.name, q)[k] = q
        /\ \A i \in 1 .. Len(d.name) : Append(d.name, q)[i] = d.name[i]
    BY <2>1, AppendProperties
  <2> QED BY <2>1, <2>2
<1>3. /\ Append(d.text, t) \in Seq(SUBSET Edits) /\ Len(Append(d.text, t)) = k /\ Append(d.text, t)[k] = t
      /\ \A i \in 1 .. Len(d.roots) : Append(d.text, t)[i] = d.text[i]
  <2>1. d.text \in Seq(SUBSET Edits) /\ k \in Nat /\ k = Len(d.text) + 1 /\ Len(d.text) = Len(d.roots)
    BY <1>1
  <2>2. /\ Append(d.text, t) \in Seq(SUBSET Edits) /\ Len(Append(d.text, t)) = k /\ Append(d.text, t)[k] = t
        /\ \A i \in 1 .. Len(d.text) : Append(d.text, t)[i] = d.text[i]
    BY <2>1, AppendProperties
  <2> QED BY <2>1, <2>2
<1>4. /\ e.roots = r /\ e.live = d.live \cup {k} /\ e.name = Append(d.name, q) /\ e.text = Append(d.text, t)
      /\ e \in [roots : Seq(Nat), live : SUBSET Nat, name : Seq(Paths), text : Seq(SUBSET Edits)]
  BY <1>1, <1>2, <1>3 DEF With
<1> HIDE DEF e
<1>5. \A m \in d.live : m \in 1 .. Len(d.roots)
  BY NodeFacts
<1>6. /\ DOMAIN e.text = 1 .. k /\ k \in 1 .. k /\ k \notin d.live
      /\ k \notin DOMAIN d.text /\ DOMAIN e.text = DOMAIN d.text \cup {k}
  <2>1. e.text \in Seq(SUBSET Edits) /\ Len(e.text) = k
    BY <1>3, <1>4
  <2>2. /\ k \notin 1 .. Len(d.roots) /\ k \in 1 .. k /\ 1 .. k = (1 .. Len(d.roots)) \cup {k}
        /\ DOMAIN d.text = 1 .. Len(d.roots)
    BY <1>1
  <2> QED BY <1>5, <2>1, <2>2
<1>7. ASSUME NEW n \in e.live PROVE n \in DOMAIN e.text /\ \E i \in DOMAIN e.roots : e.roots[i] = n
  <2>1. CASE n = k
    BY <1>1, <1>4, <1>6, <2>1
  <2>2. CASE n \in d.live
    <3>1. PICK j \in DOMAIN d.roots : d.roots[j] = n
      BY <2>2 DEF GoodDoc
    <3>2. n \in 1 .. k
      BY <1>1, <1>5, <2>2
    <3> QED BY <1>1, <1>4, <1>6, <3>1, <3>2
  <2> QED BY <1>4, <2>1, <2>2
<1>8. GoodDoc(e)
  BY <1>1, <1>2, <1>3, <1>4, <1>7 DEF GoodDoc
<1>9. Gained(d, e, k, q, t)
  BY <1>2, <1>3, <1>4, <1>5, <1>6, <1>8 DEF Gained
<1> QED BY <1>9 DEF e

LEMMA InsertRoots ==
  ASSUME NEW s \in Seq(Nat), NEW i \in 0 .. Len(s), NEW k \in Nat
  PROVE  Grown(s, Insert(s, i, k), k)
<1> DEFINE r == Insert(s, i, k)
           L == Len(s)
<1>1. L \in Nat /\ DOMAIN s = 1 .. L /\ \A j \in 1 .. L : s[j] \in Nat
  OBVIOUS
<1>2. r = [l \in 1 .. (L + 1) |-> IF l <= i THEN s[l] ELSE IF l = i + 1 THEN k ELSE s[l - 1]]
  BY DEF Insert
<1> HIDE DEF r, L
<1>3. r \in [1 .. (L + 1) -> Nat]
  <2>1. ASSUME NEW l \in 1 .. (L + 1)
        PROVE  (IF l <= i THEN s[l] ELSE IF l = i + 1 THEN k ELSE s[l - 1]) \in Nat
    <3>1. CASE l <= i
      BY <1>1, <3>1 DEF L
    <3>2. CASE ~(l <= i) /\ l # i + 1
      <4>1. l - 1 \in 1 .. L
        BY <1>1, <3>2 DEF L
      <4> QED BY <1>1, <3>2, <4>1
    <3> QED BY <3>1, <3>2
  <2> QED BY <1>2, <2>1
<1>4. r \in Seq(Nat) /\ Len(r) = L + 1 /\ DOMAIN r = 1 .. (L + 1)
  BY <1>1, <1>3
<1>5. i + 1 \in DOMAIN r /\ r[i + 1] = k
  BY <1>1, <1>2, <1>4 DEF L
<1>6. ASSUME NEW j \in DOMAIN s PROVE \E l \in DOMAIN r : r[l] = s[j]
  <2>1. CASE j <= i
    BY <1>1, <1>2, <1>4, <2>1
  <2>2. CASE ~(j <= i)
    <3>1. j + 1 \in DOMAIN r /\ ~(j + 1 <= i) /\ j + 1 # i + 1 /\ (j + 1) - 1 = j
      BY <1>1, <1>4, <2>2 DEF L
    <3>2. r[j + 1] = s[j]
      BY <1>2, <1>4, <3>1
    <3> QED BY <3>1, <3>2
  <2> QED BY <2>1, <2>2
<1>7. Grown(s, r, k)
  BY <1>4, <1>5, <1>6 DEF Grown, L
<1> QED BY <1>7 DEF r

LEMMA AppendRoots ==
  ASSUME NEW s \in Seq(Nat), NEW k \in Nat
  PROVE  Grown(s, Append(s, k), k)
<1> DEFINE r == Append(s, k)
<1>1. /\ r \in Seq(Nat) /\ Len(r) = Len(s) + 1 /\ r[Len(s) + 1] = k /\ Len(s) \in Nat
      /\ \A i \in 1 .. Len(s) : r[i] = s[i]
  BY AppendProperties
<1> HIDE DEF r
<1>2. DOMAIN r = 1 .. Len(s) + 1 /\ DOMAIN s = 1 .. Len(s)
  BY <1>1
<1>3. Grown(s, r, k)
  BY <1>1, <1>2 DEF Grown
<1> QED BY <1>3 DEF r

-----------------------------------------------------------------------------
(* Files and bases. *)

LEMMA BaseFacts ==
  ASSUME NEW d, GoodDoc(d), NEW n \in d.live
  PROVE  /\ BaseAt(d, n) \in Base /\ BaseAt(d, n).node = n /\ BaseAt(d, n).view[n] = d.text[n]
         /\ BaseAt(d, n).view = d.text /\ n \in DOMAIN BaseAt(d, n).view
<1>1. n \in Nat /\ n \in DOMAIN d.text /\ d.text \in Seq(SUBSET Edits)
  BY NodeFacts DEF GoodDoc
<1> QED BY <1>1 DEF BaseAt, Base

\* What becomes of the nodes of the document.
Retexted(n, t) ==
  /\ n \in doc.live /\ doc'.live = doc.live /\ doc'.name = doc.name /\ doc'.text[n] = t
  /\ \A m \in doc.live : m # n => doc'.text[m] = doc.text[m]
  /\ \A q \in Paths : Named(doc', q) = Named(doc, q)
  /\ DOMAIN doc'.text = DOMAIN doc.text
Removed(n) ==
  /\ n \in doc.live /\ doc'.live = doc.live \ {n} /\ doc'.name = doc.name /\ doc'.text = doc.text
  /\ \A q \in Paths : Named(doc', q) = Named(doc, q) \ {n}
Renamed(n, p) ==
  /\ n \in doc.live /\ doc'.live = doc.live /\ doc'.text = doc.text /\ doc'.name[n] = p
  /\ \A m \in doc.live : m # n => doc'.name[m] = doc.name[m]
Added(k, p, t) ==
  /\ k \notin doc.live /\ doc'.live = doc.live \cup {k} /\ doc'.name[k] = p /\ doc'.text[k] = t
  /\ \A m \in doc.live : doc'.name[m] = doc.name[m] /\ doc'.text[m] = doc.text[m]
  /\ k \notin DOMAIN doc.text /\ DOMAIN doc'.text = DOMAIN doc.text \cup {k}

\* A step of the ingest task: event p is done, moved says whether to export, b is
\* what the bases become; a batch that fails does less.
Committed(p, moved, b) ==
  /\ running /\ p \in events /\ events' = events \ {p} /\ GoodDoc(doc') /\ known' = known \cup Kept(doc')
  /\ (base' = b \/ base' = base) /\ nudged' \in BOOLEAN /\ loose' \in BOOLEAN /\ fails' \in {fails, fails + 1}
  /\ loose' => regime.fails > 0
  /\ regime.fails = 0 => base' = b /\ nudged' = (nudged \/ moved)
  /\ ~nudged' /\ fails' = 0 => ~nudged /\ ~moved /\ fails = 0
  /\ UNCHANGED <<regime, saved, disk, startup, running, used, gone, missed, userOps, peerOps, stops>>

LEMMA CommitsDoes ==
  ASSUME TypeOK, NEW p, NEW d, GoodDoc(d), NEW moved \in BOOLEAN, NEW b, Commits(p, d, moved, b)
  PROVE  Committed(p, moved, b) /\ doc' = d
<1>1. /\ running /\ p \in events /\ events' = events \ {p} /\ doc' = d /\ known' = known \cup Kept(d)
      /\ GoesThrough(moved, b) \/ BreaksOff(d, b)
      /\ UNCHANGED <<regime, saved, disk, startup, running, used, gone, missed, userOps, peerOps, stops>>
  BY DEF Commits
<1>2. nudged \in BOOLEAN /\ loose \in BOOLEAN /\ (loose => regime.fails > 0) /\ fails \in Nat /\ regime.fails \in Nat
  BY RegimesAssumption DEF TypeOK, Regime
<1>3. CASE GoesThrough(moved, b)
  <2>1. /\ nudged' = (nudged \/ moved) \/ nudged' = (nudged \/ moved \/ loose)
        /\ base' = b /\ loose' = FALSE /\ fails' = fails
    BY <1>3 DEF GoesThrough
  <2>2. regime.fails = 0 => ~loose
    BY <1>2
  <2>3. nudged' \in BOOLEAN /\ (regime.fails = 0 => nudged' = (nudged \/ moved)) /\ (~nudged' => ~nudged /\ ~moved)
    BY <1>2, <2>1, <2>2
  <2> QED BY <1>1, <2>1, <2>3 DEF Committed
<1>4. CASE BreaksOff(d, b)
  <2>1. fails < regime.fails /\ fails' = fails + 1 /\ nudged' = nudged /\ (base' = b \/ base' = base) /\ loose' \in BOOLEAN
    BY <1>4 DEF BreaksOff
  <2>2. regime.fails > 0 /\ regime.fails # 0 /\ fails' # 0
    BY <1>2, <2>1
  <2> QED BY <1>1, <1>2, <2>1, <2>2 DEF Committed
<1> QED BY <1>1, <1>3, <1>4

OldText(p, n) == IF p \in DOMAIN base /\ n \in DOMAIN base[p].view THEN base[p].view[n] ELSE Text(n)
NewText(p, n) == IF disk[p] = Text(n) THEN Text(n) ELSE Merge(Text(n), OldText(p, n), disk[p])

LEMMA EditDoes ==
  ASSUME TypeOK, NEW p \in Paths, IngestEdit(p)
  PROVE  \E n \in Named(doc, p) :
           /\ p \in DOMAIN disk /\ n = First(doc, p) /\ NewText(p, n) \in SUBSET Edits
           /\ Retexted(n, NewText(p, n)) /\ (NewText(p, n) = Text(n) => doc' = doc)
           /\ Committed(p, disk[p] # Text(n) /\ disk[p] # OldText(p, n), Put(base, p, BaseAt(doc', n))) /\ cut' = cut
<1> DEFINE n == First(doc, p)
           d == [doc EXCEPT !.text[n] = NewText(p, n)]
<1>1. p \in DOMAIN disk /\ Exists(doc, p) /\ cut' = cut
  BY DEF IngestEdit
<1>2. Commits(p, d, disk[p] # Text(n) /\ disk[p] # OldText(p, n), Put(base, p, BaseAt(d, n)))
  BY DEF IngestEdit, NewText, OldText
<1>3. GoodDoc(doc)
  BY DEF TypeOK
<1>4. n \in Named(doc, p) /\ n \in doc.live
  BY <1>1, <1>3, NameFacts DEF Named
<1> HIDE DEF n
<1>5. NewText(p, n) \in SUBSET Edits
  <2>1. Text(n) \in SUBSET Edits /\ disk[p] \in SUBSET Edits
    BY <1>1, <1>3, <1>4, NodeFacts DEF Text, TypeOK
  <2> QED BY <2>1 DEF NewText, Merge
<1>6. PICK t \in SUBSET Edits : t = NewText(p, n)
  BY <1>5
<1>7. Texted(doc, [doc EXCEPT !.text[n] = t], n, t)
  BY <1>3, <1>4, TextDoc
<1>8. Texted(doc, d, n, t)
  BY <1>6, <1>7
<1> HIDE DEF d
<1>9. Committed(p, disk[p] # Text(n) /\ disk[p] # OldText(p, n), Put(base, p, BaseAt(d, n))) /\ doc' = d
  BY <1>2, <1>8, CommitsDoes DEF Texted
<1>10. Retexted(n, NewText(p, n)) /\ (NewText(p, n) = Text(n) => doc' = doc)
  BY <1>4, <1>6, <1>8, <1>9 DEF Retexted, Text, Texted
<1> QED BY <1>1, <1>4, <1>5, <1>9, <1>10 DEF n

LEMMA NewDoes ==
  ASSUME TypeOK, NEW p \in Paths, IngestNew(p)
  PROVE  \E k \in Nat :
           /\ p \in DOMAIN disk /\ ~Exists(doc, p) /\ ~Echo(p) /\ Added(k, p, disk[p])
           /\ Committed(p, TRUE, Put(base, p, BaseAt(doc', k))) /\ cut' = cut
<1> DEFINE k == Len(doc.roots) + 1
           d == [roots |-> Append(doc.roots, k), live |-> doc.live \cup {k},
                 name |-> Append(doc.name, p), text |-> Append(doc.text, disk[p])]
<1>1. /\ p \in DOMAIN disk /\ ~Exists(doc, p) /\ ~Echo(p) /\ cut' = cut
      /\ Commits(p, d, TRUE, Put(base, p, BaseAt(d, k)))
  BY DEF IngestNew
<1>2. GoodDoc(doc) /\ doc.roots \in Seq(Nat) /\ Len(doc.roots) \in Nat /\ disk[p] \in SUBSET Edits
  BY <1>1 DEF TypeOK, GoodDoc
<1>3. k \in Nat /\ k = Len(doc.roots) + 1
  BY <1>2
<1> HIDE DEF k
<1>4. PICK r : r = Append(doc.roots, k)
  OBVIOUS
<1>5. Grown(doc.roots, r, k)
  BY <1>2, <1>3, <1>4, AppendRoots
<1>6. d = With(doc, r, k, p, disk[p])
  BY <1>4 DEF With
<1> HIDE DEF d
<1>7. Gained(doc, d, k, p, disk[p])
  BY <1>2, <1>3, <1>5, <1>6, MoreDoc
<1>8. Committed(p, TRUE, Put(base, p, BaseAt(d, k))) /\ doc' = d
  BY <1>1, <1>7, CommitsDoes DEF Gained
<1>9. Added(k, p, disk[p])
  BY <1>7, <1>8 DEF Added, Gained
<1> QED BY <1>1, <1>3, <1>8, <1>9

LEMMA MissingDoes ==
  ASSUME TypeOK, NEW p \in Paths, IngestMissing(p)
  PROVE  /\ p \notin DOMAIN disk
         /\ \/ \E n \in Named(doc, p) :
                 /\ n = First(doc, p) /\ Removed(n) /\ Committed(p, TRUE, Drop(base, {p}))
                 /\ cut' = IF p \in gone THEN cut \cup Text(n) ELSE cut
            \/ ~Exists(doc, p) /\ Committed(p, FALSE, Drop(base, {p})) /\ doc' = doc /\ cut' = cut
<1>1. p \notin DOMAIN disk
  BY DEF IngestMissing
<1>2. GoodDoc(doc)
  BY DEF TypeOK
<1>3. CASE ~Exists(doc, p)
  <2>1. Commits(p, doc, FALSE, Drop(base, {p})) /\ cut' = cut
    BY <1>3 DEF IngestMissing
  <2> QED BY <1>1, <1>2, <1>3, <2>1, CommitsDoes
<1>4. CASE Exists(doc, p)
  <2> DEFINE n == First(doc, p)
             d == [doc EXCEPT !.live = @ \ {n}]
  <2>1. Commits(p, d, TRUE, Drop(base, {p})) /\ cut' = IF p \in gone THEN cut \cup Text(n) ELSE cut
    BY <1>4 DEF IngestMissing
  <2>2. n \in Named(doc, p) /\ n \in doc.live
    BY <1>2, <1>4, NameFacts DEF Named
  <2> HIDE DEF n
  <2>3. /\ GoodDoc(d) /\ d.live = doc.live \ {n} /\ d.name = doc.name /\ d.text = doc.text
        /\ \A q : Named(d, q) = Named(doc, q) \ {n}
    BY <1>2, <2>2, LessDoc
  <2> HIDE DEF d
  <2>4. Committed(p, TRUE, Drop(base, {p})) /\ doc' = d
    BY <2>1, <2>3, CommitsDoes
  <2>5. Removed(n)
    BY <2>2, <2>3, <2>4 DEF Removed
  <2> QED BY <1>1, <2>1, <2>2, <2>4, <2>5 DEF n
<1> QED BY <1>3, <1>4

LEMMA EchoDoes ==
  ASSUME TypeOK, NEW p \in Paths, IngestEcho(p)
  PROVE  /\ p \in DOMAIN disk /\ ~Exists(doc, p) /\ Echo(p) /\ Committed(p, FALSE, base)
         /\ doc' = doc /\ UNCHANGED <<base, cut>>
<1>1. GoodDoc(doc)
  BY DEF TypeOK
<1>2. Committed(p, FALSE, base) /\ doc' = doc
  BY <1>1, CommitsDoes DEF IngestEcho
<1> QED BY <1>2 DEF IngestEcho, Committed

\* A batch that fails before p.
Dropped(p) ==
  /\ running /\ p \in events /\ fails < regime.fails /\ fails' = fails + 1 /\ events' = events \ {p}
  /\ missed' = missed \cup UnseenIn(doc, {p})
  /\ UNCHANGED <<regime, doc, saved, disk, base, nudged, loose, startup, running, used, cut, known, gone,
                 userOps, peerOps, stops>>

LEMMA DroppedDoes ==
  ASSUME NEW p, BatchDropped(p)
  PROVE  Dropped(p)
  BY DEF BatchDropped, Dropped, tasks

LEMMA UnseenType == \A d, S : UnseenIn(d, S) \subseteq UserEdits
  BY DEF UnseenIn, Unseen

\* An import: the document is d, and there is something to export.
Imports ==
  /\ running /\ ("peer" \in regime.racing \/ Quiet)
  /\ GoodDoc(doc') /\ known' = known \cup Kept(doc') /\ nudged' = TRUE /\ loose' = FALSE
  /\ UNCHANGED <<regime, saved, disk, base, events, startup, running, gone, missed, userOps, fails, stops>>

LEMMA ImportsDoes ==
  ASSUME NEW d, GoodDoc(d), PeerActs(d)
  PROVE  Imports /\ doc' = d
  BY DEF PeerActs, Imports

LEMMA PeerCreatesDoes ==
  ASSUME TypeOK, NEW p \in Paths, NEW e \in PeerEdits, NEW i \in 0 .. MaxNodes, PeerCreates(p, e, i)
  PROVE  \E k \in Nat :
           /\ e \notin used /\ used' = used \cup {e} /\ (regime.collisions \/ Free(p))
           /\ Imports /\ Added(k, p, {e}) /\ UNCHANGED <<cut, peerOps>>
<1> DEFINE k == Len(doc.roots) + 1
           d == [roots |-> Insert(doc.roots, i, k), live |-> doc.live \cup {k},
                 name |-> Append(doc.name, p), text |-> Append(doc.text, {e})]
<1>1. /\ i \in 0 .. Len(doc.roots) /\ e \notin used /\ used' = used \cup {e} /\ (regime.collisions \/ Free(p))
      /\ PeerActs(d) /\ UNCHANGED <<cut, peerOps>>
  BY DEF PeerCreates
<1>2. GoodDoc(doc) /\ doc.roots \in Seq(Nat) /\ Len(doc.roots) \in Nat /\ {e} \in SUBSET Edits
  BY DEF TypeOK, GoodDoc, Edits
<1>3. k \in Nat /\ k = Len(doc.roots) + 1
  BY <1>2
<1> HIDE DEF k
<1>4. PICK r : r = Insert(doc.roots, i, k)
  OBVIOUS
<1>5. Grown(doc.roots, r, k)
  BY <1>1, <1>2, <1>3, <1>4, InsertRoots
<1>6. d = With(doc, r, k, p, {e})
  BY <1>4 DEF With
<1> HIDE DEF d
<1>7. Gained(doc, d, k, p, {e})
  BY <1>2, <1>3, <1>5, <1>6, MoreDoc
<1>8. Imports /\ doc' = d
  BY <1>1, <1>7, ImportsDoes DEF Gained
<1>9. Added(k, p, {e})
  BY <1>7, <1>8 DEF Added, Gained
<1> QED BY <1>1, <1>3, <1>8, <1>9

LEMMA PeerEditsDoes ==
  ASSUME TypeOK, NEW n \in Nodes, NEW e \in PeerEdits, PeerEditsNode(n, e)
  PROVE  /\ e \notin used /\ used' = used \cup {e} /\ Imports /\ Retexted(n, Text(n) \cup {e})
         /\ UNCHANGED <<cut, peerOps>>
<1> DEFINE t == Text(n) \cup {e}
           d == [doc EXCEPT !.text[n] = t]
<1>1. GoodDoc(doc) /\ n \in doc.live /\ e \notin used /\ used' = used \cup {e} /\ UNCHANGED <<cut, peerOps>>
  BY DEF PeerEditsNode, TypeOK
<1>2. PeerActs(d)
  <2>1. doc \in [roots : Seq(Nat), live : SUBSET Nat, name : Seq(Paths), text : Seq(SUBSET Edits)]
    BY <1>1 DEF GoodDoc
  <2>2. n \in DOMAIN doc.text
    BY <1>1, NodeFacts
  <2>3. [doc EXCEPT !.text[n] = @ \cup {e}] = d
    BY <2>1, <2>2 DEF Text
  <2> QED BY <2>3 DEF PeerEditsNode
<1>3. t \in SUBSET Edits
  BY <1>1, NodeFacts DEF Text, Edits
<1> HIDE DEF t
<1>4. Texted(doc, d, n, t)
  <2>1. PICK u \in SUBSET Edits : u = t
    BY <1>3
  <2>2. Texted(doc, [doc EXCEPT !.text[n] = u], n, u)
    BY <1>1, TextDoc
  <2> QED BY <2>1, <2>2
<1> HIDE DEF d
<1>5. Imports /\ doc' = d
  BY <1>2, <1>4, ImportsDoes DEF Texted
<1>6. Retexted(n, t)
  BY <1>1, <1>4, <1>5 DEF Retexted, Texted
<1> QED BY <1>1, <1>5, <1>6 DEF t

LEMMA PeerDeletesDoes ==
  ASSUME TypeOK, NEW n \in Nodes, PeerDeletes(n)
  PROVE  /\ peerOps < regime.peerOps /\ peerOps' = peerOps + 1 /\ Imports /\ Removed(n)
         /\ cut' = cut \cup Text(n) /\ used' = used
<1> DEFINE d == [doc EXCEPT !.live = @ \ {n}]
<1>1. /\ GoodDoc(doc) /\ n \in doc.live /\ PeerActs(d) /\ cut' = cut \cup Text(n) /\ used' = used
      /\ peerOps < regime.peerOps /\ peerOps' = peerOps + 1
  BY DEF PeerDeletes, TypeOK
<1>2. /\ GoodDoc(d) /\ d.live = doc.live \ {n} /\ d.name = doc.name /\ d.text = doc.text
      /\ \A q : Named(d, q) = Named(doc, q) \ {n}
  BY <1>1, LessDoc
<1> HIDE DEF d
<1>3. Imports /\ doc' = d
  BY <1>1, <1>2, ImportsDoes
<1>4. Removed(n)
  BY <1>1, <1>2, <1>3 DEF Removed
<1> QED BY <1>1, <1>3, <1>4

LEMMA PeerRenamesDoes ==
  ASSUME TypeOK, NEW n \in Nodes, NEW p \in Paths, PeerRenames(n, p)
  PROVE  /\ peerOps < regime.peerOps /\ peerOps' = peerOps + 1 /\ (regime.collisions \/ Free(p))
         /\ Imports /\ Renamed(n, p) /\ UNCHANGED <<used, cut>>
<1> DEFINE d == [doc EXCEPT !.name[n] = p]
<1>1. /\ GoodDoc(doc) /\ n \in doc.live /\ PeerActs(d) /\ UNCHANGED <<used, cut>>
      /\ peerOps < regime.peerOps /\ peerOps' = peerOps + 1 /\ (regime.collisions \/ Free(p))
  BY DEF PeerRenames, TypeOK
<1>2. /\ GoodDoc(d) /\ d.live = doc.live /\ d.text = doc.text
      /\ d.name[n] = p /\ \A m \in doc.live : m # n => d.name[m] = doc.name[m]
  BY <1>1, NameDoc
<1> HIDE DEF d
<1>3. Imports /\ doc' = d
  BY <1>1, <1>2, ImportsDoes
<1>4. Renamed(n, p)
  BY <1>1, <1>2, <1>3 DEF Renamed
<1> QED BY <1>1, <1>3, <1>4

\* The files and bases an export leaves.
Exports ==
  /\ running /\ nudged /\ nudged' = FALSE /\ loose' = FALSE /\ saved' = doc /\ gone' = gone \ Shown(doc)
  /\ DOMAIN disk' = (DOMAIN disk \ Stale) \cup Shown(doc) /\ disk' \in [DOMAIN disk' -> SUBSET Edits]
  /\ \A p \in Shown(doc) : disk'[p] = Text(Last(doc, p))
  /\ \A p \in DOMAIN disk \ (Stale \cup Shown(doc)) : disk'[p] = disk[p]
  /\ DOMAIN base' = ((DOMAIN base \cap DOMAIN disk) \ Stale) \cup Shown(doc) /\ base' \in [DOMAIN base' -> Base]
  /\ \A p \in Shown(doc) : base'[p] = BaseAt(doc, Last(doc, p))
  /\ \A p \in DOMAIN base' \ Shown(doc) : base'[p] = base[p]
  /\ events' = events \cup Shown(doc) \cup (DOMAIN disk \ DOMAIN disk')
  /\ missed' = missed \cup UnseenIn(doc, events \cap Shown(doc))
  /\ UNCHANGED <<regime, doc, startup, running, used, cut, known, userOps, peerOps, fails, stops>>

LEMMA ShownFacts ==
  ASSUME NEW d, GoodDoc(d), NEW p, Exists(d, p)
  PROVE  /\ First(d, p) \in d.live /\ Last(d, p) \in d.live
         /\ d.text[Last(d, p)] \in SUBSET Edits /\ d.text[Last(d, p)] \subseteq Kept(d)
         /\ BaseAt(d, Last(d, p)) \in Base
<1>1. First(d, p) \in d.live /\ Last(d, p) \in d.live
  BY NameFacts DEF Named
<1>2. PICK l : l = Last(d, p)
  OBVIOUS
<1>3. d.text[l] \in SUBSET Edits /\ d.text[l] \subseteq Kept(d) /\ BaseAt(d, l) \in Base
  BY <1>1, <1>2, NodeFacts, BaseFacts
<1> QED BY <1>1, <1>2, <1>3

LEMMA ExportDoes ==
  ASSUME TypeOK, Export
  PROVE  Exports
<1> DEFINE W == Written
           B == [p \in Shown(doc) |-> BaseAt(doc, Last(doc, p))]
           T == Stale \cup (DOMAIN base \ DOMAIN disk)
           F == Over(disk, W)
           G == Drop(base, T)
<1>1. GoodDoc(doc) /\ disk \in [DOMAIN disk -> SUBSET Edits] /\ base \in [DOMAIN base -> Base]
  BY DEF TypeOK
<1>2. disk' = Drop(F, Stale) /\ base' = Over(G, B)
  BY DEF Export, Exported
<1>3. Stale \subseteq DOMAIN disk /\ Stale \cap Shown(doc) = {}
  BY DEF Stale, Shown
<1>4. \A p \in Shown(doc) : Exists(doc, p)
  BY DEF Shown
<1>5. /\ DOMAIN W = Shown(doc) /\ W \in [DOMAIN W -> SUBSET Edits]
      /\ \A p \in Shown(doc) : W[p] = Text(Last(doc, p))
  <2>1. \A p \in Shown(doc) : Text(Last(doc, p)) \in SUBSET Edits
    BY <1>1, <1>4, ShownFacts DEF Text
  <2> QED BY <2>1 DEF Written
<1>6. /\ DOMAIN B = Shown(doc) /\ B \in [DOMAIN B -> Base]
      /\ \A p \in Shown(doc) : B[p] = BaseAt(doc, Last(doc, p))
  BY <1>1, <1>4, ShownFacts
<1> HIDE DEF W, B, T
<1>7. /\ DOMAIN F = DOMAIN disk \cup Shown(doc) /\ F \in [DOMAIN F -> SUBSET Edits]
      /\ (\A p \in Shown(doc) : F[p] = W[p]) /\ \A p \in DOMAIN disk \ Shown(doc) : F[p] = disk[p]
  BY <1>1, <1>5, SMT DEF Over
<1>8. /\ DOMAIN G = DOMAIN base \ T /\ G \in [DOMAIN G -> Base] /\ \A p \in DOMAIN G : G[p] = base[p]
  BY <1>1, SMT DEF Drop
<1> HIDE DEF F, G
<1>9. /\ DOMAIN disk' = DOMAIN F \ Stale /\ disk' \in [DOMAIN disk' -> SUBSET Edits]
      /\ \A p \in DOMAIN F \ Stale : disk'[p] = F[p]
  BY <1>2, <1>7, SMT DEF Drop
<1>10. /\ DOMAIN base' = DOMAIN G \cup Shown(doc) /\ base' \in [DOMAIN base' -> Base]
       /\ (\A p \in Shown(doc) : base'[p] = B[p]) /\ \A p \in DOMAIN G \ Shown(doc) : base'[p] = G[p]
  BY <1>2, <1>6, <1>8, SMT DEF Over
<1>11. /\ running /\ nudged /\ nudged' = FALSE /\ loose' = FALSE /\ saved' = doc /\ gone' = gone \ Shown(doc)
       /\ events' = events \cup Shown(doc) \cup (DOMAIN disk \ DOMAIN disk')
       /\ missed' = missed \cup UnseenIn(doc, events \cap Shown(doc))
       /\ UNCHANGED <<regime, doc, startup, running, used, cut, known, userOps, peerOps, fails, stops>>
  BY DEF Export, bounds
<1>12. DOMAIN disk' = (DOMAIN disk \ Stale) \cup Shown(doc)
  BY <1>3, <1>7, <1>9
<1>13. DOMAIN base' = ((DOMAIN base \cap DOMAIN disk) \ Stale) \cup Shown(doc)
  BY <1>8, <1>10 DEF T
<1>14. /\ \A p \in Shown(doc) : disk'[p] = Text(Last(doc, p))
       /\ \A p \in DOMAIN disk \ (Stale \cup Shown(doc)) : disk'[p] = disk[p]
  BY <1>3, <1>5, <1>7, <1>9
<1>15. /\ \A p \in Shown(doc) : base'[p] = BaseAt(doc, Last(doc, p))
       /\ \A p \in DOMAIN base' \ Shown(doc) : base'[p] = base[p]
  BY <1>6, <1>8, <1>10
<1> QED BY <1>9, <1>10, <1>11, <1>12, <1>13, <1>14, <1>15 DEF Exports

\* A failed export leaves some of the files, W.
FailedAfter(W) ==
  /\ running /\ nudged /\ fails < regime.fails /\ fails' = fails + 1 /\ nudged' = FALSE /\ loose' = FALSE
  /\ (saved' = doc \/ saved' = saved)
  /\ W \subseteq Shown(doc) /\ DOMAIN disk' = DOMAIN disk \cup W /\ disk' \in [DOMAIN disk' -> SUBSET Edits]
  /\ (\A p \in W : disk'[p] = Text(Last(doc, p))) /\ (\A p \in DOMAIN disk \ W : disk'[p] = disk[p])
  /\ events' = events \cup W /\ gone' = gone \ W /\ missed' = missed \cup UnseenIn(doc, events \cap W)
  /\ UNCHANGED <<regime, doc, base, startup, running, used, cut, known, userOps, peerOps, stops>>

LEMMA ExportFailsDoes ==
  ASSUME TypeOK, ExportFails
  PROVE  \E W : FailedAfter(W)
<1>1. /\ running /\ nudged /\ fails < regime.fails /\ fails' = fails + 1 /\ nudged' = FALSE /\ loose' = FALSE
      /\ UNCHANGED <<regime, doc, base, startup, running, used, cut, known, userOps, peerOps, stops>>
  BY DEF ExportFails
<1>2. disk \in [DOMAIN disk -> SUBSET Edits]
  BY DEF TypeOK
<1>3. CASE UNCHANGED <<saved, disk, events, gone, missed>>
  <2>1. UnseenIn(doc, events \cap {}) = {}
    BY DEF UnseenIn
  <2>2. FailedAfter({})
    BY <1>1, <1>2, <1>3, <2>1 DEF FailedAfter
  <2> QED BY <2>2
<1>4. ASSUME saved' = doc, NEW W \in SUBSET Shown(doc), disk' = Over(disk, [p \in W |-> Written[p]]),
             events' = events \cup W, gone' = gone \ W, missed' = missed \cup UnseenIn(doc, events \cap W)
      PROVE  FailedAfter(W)
  <2> DEFINE G == [p \in W |-> Written[p]]
  <2>1. /\ DOMAIN G = W /\ G \in [DOMAIN G -> SUBSET Edits]
        /\ \A p \in W : G[p] = Text(Last(doc, p))
    <3>1. \A p \in Shown(doc) : Exists(doc, p)
      BY DEF Shown
    <3>2. \A p \in Shown(doc) : Written[p] \in SUBSET Edits
      BY <3>1, ShownFacts DEF Text, Written, TypeOK
    <3> QED BY <3>2 DEF Written
  <2>2. disk' = Over(disk, G)
    BY <1>4
  <2> HIDE DEF G
  <2>3. /\ DOMAIN disk' = DOMAIN disk \cup W /\ disk' \in [DOMAIN disk' -> SUBSET Edits]
        /\ (\A p \in W : disk'[p] = G[p]) /\ \A p \in DOMAIN disk \ W : disk'[p] = disk[p]
    BY <1>2, <2>1, <2>2, SMT DEF Over
  <2> QED BY <1>1, <1>4, <2>1, <2>3 DEF FailedAfter
<1>5. CASE ~UNCHANGED <<saved, disk, events, gone, missed>>
  <2>1. saved' = doc /\ \E W \in SUBSET Shown(doc) :
          /\ disk' = Over(disk, [p \in W |-> Written[p]]) /\ events' = events \cup W /\ gone' = gone \ W
          /\ missed' = missed \cup UnseenIn(doc, events \cap W)
    BY <1>5 DEF ExportFails
  <2> QED BY <1>4, <2>1
<1> QED BY <1>3, <1>5

\* A start: the stored document is written out.
Starts ==
  /\ ~running /\ startup = "none" /\ startup' = "bind" /\ doc' = saved /\ gone' = gone \ Shown(saved)
  /\ DOMAIN disk' = DOMAIN disk \cup Shown(saved) /\ disk' \in [DOMAIN disk' -> SUBSET Edits]
  /\ \A p \in Shown(saved) : disk'[p] = saved.text[Last(saved, p)]
  /\ \A p \in DOMAIN disk \ Shown(saved) : disk'[p] = disk[p]
  /\ UNCHANGED <<regime, saved, base, events, nudged, loose, running, used, cut, known, missed,
                 userOps, peerOps, fails, stops>>

LEMMA ServeDoes ==
  ASSUME TypeOK, Serve
  PROVE  Starts
<1> DEFINE W == [p \in Shown(saved) |-> saved.text[Last(saved, p)]]
<1>1. /\ ~running /\ startup = "none" /\ startup' = "bind" /\ doc' = saved /\ gone' = gone \ Shown(saved)
      /\ disk' = Over(disk, W)
      /\ UNCHANGED <<regime, saved, base, events, nudged, loose, running, used, cut, known, missed,
                     userOps, peerOps, fails, stops>>
  BY DEF Serve, bounds
<1>2. GoodDoc(saved) /\ disk \in [DOMAIN disk -> SUBSET Edits]
  BY DEF TypeOK
<1>3. \A p \in Shown(saved) : Exists(saved, p)
  BY DEF Shown
<1>4. /\ DOMAIN W = Shown(saved) /\ W \in [DOMAIN W -> SUBSET Edits]
      /\ \A p \in Shown(saved) : W[p] = saved.text[Last(saved, p)]
  BY <1>2, <1>3, ShownFacts
<1> HIDE DEF W
<1>5. /\ DOMAIN disk' = DOMAIN disk \cup Shown(saved) /\ disk' \in [DOMAIN disk' -> SUBSET Edits]
      /\ (\A p \in Shown(saved) : disk'[p] = W[p]) /\ \A p \in DOMAIN disk \ Shown(saved) : disk'[p] = disk[p]
  BY <1>1, <1>2, <1>4, SMT DEF Over
<1> QED BY <1>1, <1>4, <1>5 DEF Starts

\* The bases a start gives: of a node that has the text on disk.
Seeds ==
  /\ startup = "bind" /\ startup' = "seeded"
  /\ DOMAIN base' = {p \in Paths : Agreeing(p) # {}} /\ base' \in [DOMAIN base' -> Base]
  /\ \A p \in DOMAIN base' : \E n \in Agreeing(p) : base'[p] = BaseAt(doc, n)
  /\ UNCHANGED <<regime, doc, saved, disk, events, nudged, loose, running, used, cut, known, gone, missed,
                 userOps, peerOps, fails, stops>>

LEMMA SeedDoes ==
  ASSUME TypeOK, Seed
  PROVE  Seeds
<1> DEFINE B == [p \in {q \in Paths : Agreeing(q) # {}} |-> BaseAt(doc, Foremost(doc, Agreeing(p)))]
<1>1. /\ startup = "bind" /\ startup' = "seeded" /\ base' = B
      /\ UNCHANGED <<regime, doc, saved, disk, events, nudged, loose, running, used, cut, known, gone, missed,
                     userOps, peerOps, fails, stops>>
  BY DEF Seed, bounds, history
<1>2. GoodDoc(doc)
  BY DEF TypeOK
<1>3. \A p : Agreeing(p) \subseteq doc.live
  BY DEF Agreeing, Named
<1>4. ASSUME NEW p \in Paths, Agreeing(p) # {}
      PROVE  Foremost(doc, Agreeing(p)) \in Agreeing(p) /\ BaseAt(doc, Foremost(doc, Agreeing(p))) \in Base
  <2>1. PICK n : n = Foremost(doc, Agreeing(p))
    OBVIOUS
  <2>2. n \in Agreeing(p) /\ n \in doc.live
    BY <1>2, <1>3, <1>4, <2>1, EndsExist
  <2> QED BY <1>2, <2>1, <2>2, BaseFacts
<1>5. /\ DOMAIN B = {p \in Paths : Agreeing(p) # {}} /\ B \in [DOMAIN B -> Base]
      /\ \A p \in DOMAIN B : \E n \in Agreeing(p) : B[p] = BaseAt(doc, n)
  BY <1>4
<1> HIDE DEF B
<1> QED BY <1>1, <1>5 DEF Seeds

Watches ==
  /\ startup = "seeded" /\ startup' = "none" /\ running' = TRUE
  /\ UNCHANGED <<regime, doc, saved, disk, base, events, nudged, loose, used, cut, known, gone, missed,
                 userOps, peerOps, fails, stops>>

LEMMA WatchDoes ==
  ASSUME Watch
  PROVE  Watches
  BY DEF Watch, Watches, bounds, history

\* An interruption.
Stops ==
  /\ (running \/ startup # "none") /\ (regime.racing # {} \/ Quiet)
  /\ stops < regime.stops /\ stops' = stops + 1
  /\ running' = FALSE /\ startup' = "none" /\ events' = {} /\ nudged' = FALSE /\ loose' = FALSE
  /\ DOMAIN base' = {} /\ base' \in [DOMAIN base' -> Base]
  /\ missed' = missed \cup UnseenIn(saved, IF nudged \/ fails > 0 THEN Paths ELSE events)
  /\ UNCHANGED <<regime, doc, saved, disk, used, cut, known, gone, userOps, peerOps, fails>>

LEMMA StopDoes ==
  ASSUME Stop
  PROVE  Stops
<1>1. DOMAIN <<>> = {} /\ <<>> \in [{} -> Base]
  OBVIOUS
<1>2. DOMAIN base' = {} /\ base' \in [DOMAIN base' -> Base]
  BY <1>1 DEF Stop
<1> QED BY <1>2 DEF Stop, Stops

\* What any action of the user does.
Local(p) ==
  /\ running \/ regime.offline
  /\ "user" \in regime.racing \/ Quiet \/ ("careful" \in regime.racing /\ Honest(p))
  /\ events' = IF running THEN events \cup {p} ELSE events
  /\ UNCHANGED <<regime, doc, saved, base, nudged, loose, startup, running, known, peerOps, fails, stops>>

LEMMA WritesDoes ==
  ASSUME TypeOK, NEW p \in Paths, NEW e \in UserEdits, UserWrites(p, e)
  PROVE  /\ Local(p) /\ e \notin used /\ used' = used \cup {e} /\ cut' = cut /\ userOps' = userOps
         /\ (regime.collisions \/ p \in DOMAIN disk \/ Free(p)) /\ gone' = gone \ {p}
         /\ missed' = IF running THEN missed ELSE missed \cup {e}
         /\ DOMAIN disk' = DOMAIN disk \cup {p} /\ disk' \in [DOMAIN disk' -> SUBSET Edits]
         /\ disk'[p] = {e} \cup Content(p) /\ \A q \in DOMAIN disk : q # p => disk'[q] = disk[q]
<1>1. PICK v : v = {e} \cup Content(p)
  OBVIOUS
<1>2. disk' = Put(disk, p, v) /\ disk \in [DOMAIN disk -> SUBSET Edits] /\ v \in SUBSET Edits
  BY <1>1 DEF UserWrites, Content, TypeOK, Edits
<1>3. /\ DOMAIN disk' = DOMAIN disk \cup {p} /\ disk' \in [DOMAIN disk' -> SUBSET Edits]
      /\ disk'[p] = v /\ \A q \in DOMAIN disk : q # p => disk'[q] = disk[q]
  BY <1>2, SMT DEF Put
<1> QED BY <1>1, <1>3 DEF UserWrites, UserActs, Local, tasks

LEMMA TrimsDoes ==
  ASSUME TypeOK, NEW p \in Paths, NEW e \in Edits, UserTrims(p, e)
  PROVE  /\ Local(p) /\ used' = used /\ cut' = cut \cup {e} /\ userOps' = userOps + 1
         /\ gone' = gone /\ missed' = missed /\ p \in DOMAIN disk /\ e \in disk[p]
         /\ DOMAIN disk' = DOMAIN disk /\ disk' \in [DOMAIN disk' -> SUBSET Edits]
         /\ disk'[p] = disk[p] \ {e} /\ \A q \in DOMAIN disk : q # p => disk'[q] = disk[q]
<1>1. PICK v : v = disk[p] \ {e}
  OBVIOUS
<1>2. disk' = Put(disk, p, v) /\ disk \in [DOMAIN disk -> SUBSET Edits] /\ v \in SUBSET Edits /\ p \in DOMAIN disk
  BY <1>1 DEF UserTrims, TypeOK
<1>3. /\ DOMAIN disk' = DOMAIN disk /\ disk' \in [DOMAIN disk' -> SUBSET Edits]
      /\ disk'[p] = v /\ \A q \in DOMAIN disk : q # p => disk'[q] = disk[q]
  BY <1>2, SMT DEF Put
<1> QED BY <1>1, <1>3 DEF UserTrims, UserActs, Local, tasks

LEMMA DeletesDoes ==
  ASSUME TypeOK, NEW p \in Paths, UserDeletes(p)
  PROVE  /\ Local(p) /\ used' = used /\ cut' = cut \cup disk[p] /\ userOps' = userOps + 1
         /\ gone' = gone \cup {p} /\ missed' = missed /\ p \in DOMAIN disk
         /\ DOMAIN disk' = DOMAIN disk \ {p} /\ disk' \in [DOMAIN disk' -> SUBSET Edits]
         /\ \A q \in DOMAIN disk : q # p => disk'[q] = disk[q]
<1>2. disk' = Drop(disk, {p}) /\ disk \in [DOMAIN disk -> SUBSET Edits]
  BY DEF UserDeletes, TypeOK
<1>3. /\ DOMAIN disk' = DOMAIN disk \ {p} /\ disk' \in [DOMAIN disk' -> SUBSET Edits]
      /\ \A q \in DOMAIN disk : q # p => disk'[q] = disk[q]
  BY <1>2, SMT DEF Drop
<1> QED BY <1>3 DEF UserDeletes, UserActs, Local, tasks

-----------------------------------------------------------------------------
(* Types. *)

LEMMA TypesInit ==
  ASSUME Init
  PROVE  TypeOK
<1>1. DOMAIN <<>> = {} /\ \A X : <<>> \in Seq(X) /\ <<>> \in [{} -> X]
  OBVIOUS
<1>2. GoodDoc(doc)
  BY <1>1 DEF Init, GoodDoc
<1> QED BY <1>1, <1>2 DEF Init, TypeOK, Quiet

\* Bases c are those there are, with one of node n of d for p.
Based(c, p, d, n) ==
  /\ DOMAIN c = DOMAIN base \cup {p} /\ c \in [DOMAIN c -> Base]
  /\ c[p].node = n /\ c[p].view = d.text /\ n \in DOMAIN d.text
  /\ \A q \in DOMAIN base : q # p => c[q] = base[q]

LEMMA PutBase ==
  ASSUME TypeOK, NEW p, NEW d, GoodDoc(d), NEW n \in d.live
  PROVE  Based(Put(base, p, BaseAt(d, n)), p, d, n)
<1>1. PICK b \in Base : b = BaseAt(d, n) /\ b.node = n /\ b.view = d.text /\ n \in DOMAIN d.text
  BY BaseFacts
<1>2. PICK c : c = Put(base, p, b) /\ base \in [DOMAIN base -> Base]
  BY DEF TypeOK
<1>3. /\ DOMAIN c = DOMAIN base \cup {p} /\ c \in [DOMAIN c -> Base]
      /\ c[p] = b /\ \A q \in DOMAIN base : q # p => c[q] = base[q]
  BY <1>2, SMT DEF Put
<1>4. Based(c, p, d, n)
  BY <1>1, <1>3 DEF Based
<1> QED BY <1>1, <1>2, <1>4

LEMMA DropBase ==
  ASSUME TypeOK, NEW p \in Paths, NEW c, c = Drop(base, {p})
  PROVE  /\ DOMAIN c = DOMAIN base \ {p} /\ c \in [DOMAIN c -> Base]
         /\ \A q \in DOMAIN base : q # p => c[q] = base[q]
<1>1. base \in [DOMAIN base -> Base]
  BY DEF TypeOK
<1> QED BY <1>1, SMT DEF Drop

LEMMA KeptNext ==
  ASSUME GoodDoc(doc')
  PROVE  /\ Kept(doc') \in SUBSET Edits /\ \A e : e \in Kept(doc') <=> \E n \in doc'.live : e \in doc'.text[n]
<1>1. PICK d : d = doc'
  OBVIOUS
<1>2. Kept(d) \in SUBSET Edits /\ \A e : e \in Kept(d) <=> \E n \in d.live : e \in d.text[n]
  BY <1>1, KeptFacts
<1> QED BY <1>1, <1>2

LEMMA TypesLocal ==
  ASSUME TypeOK, NEW p \in Paths, Local(p), used' \subseteq Edits, cut' \subseteq Edits,
         gone' \subseteq Paths, missed' \subseteq UserEdits, userOps' \in Nat, DOMAIN disk' \subseteq Paths,
         disk' \in [DOMAIN disk' -> SUBSET Edits]
  PROVE  TypeOK'
  BY DEF TypeOK, Local, Quiet

LEMMA TypesImport ==
  ASSUME TypeOK, Imports, used' \subseteq Edits, cut' \subseteq Edits, peerOps' \in Nat
  PROVE  TypeOK'
<1>1. GoodDoc(doc') /\ Kept(doc') \in SUBSET Edits
  BY KeptNext DEF Imports
<1> QED BY <1>1 DEF TypeOK, Imports, Quiet

LEMMA TypesCommit ==
  ASSUME TypeOK, NEW p \in Paths, NEW moved \in BOOLEAN, NEW b, Committed(p, moved, b), cut' \subseteq Edits,
         DOMAIN b \subseteq Paths, b \in [DOMAIN b -> Base]
  PROVE  TypeOK'
<1>1. GoodDoc(doc') /\ Kept(doc') \in SUBSET Edits
  BY KeptNext DEF Committed
<1>2. DOMAIN base' \subseteq Paths /\ base' \in [DOMAIN base' -> Base]
  BY DEF TypeOK, Committed
<1>3. nudged' \in BOOLEAN /\ loose' \in BOOLEAN /\ (loose' => regime'.fails > 0)
  BY DEF Committed
<1>4. fails' \in Nat /\ known' \subseteq Edits /\ events' \subseteq Paths
  BY <1>1 DEF Committed, TypeOK
<1>5. running /\ UNCHANGED <<regime, saved, disk, startup, running, used, gone, missed, userOps, peerOps, stops>>
  BY DEF Committed
<1> QED BY <1>1, <1>2, <1>3, <1>4, <1>5 DEF TypeOK

\* Bases b are those there are, with one of node n for p.
LEMMA BasedNext ==
  ASSUME TypeOK, NEW p, NEW moved, NEW n \in doc'.live, Committed(p, moved, Put(base, p, BaseAt(doc', n)))
  PROVE  \E b : Committed(p, moved, b) /\ Based(b, p, doc', n)
<1>1. PICK d : d = doc' /\ GoodDoc(d) /\ n \in d.live
  BY DEF Committed
<1>2. PICK b : b = Put(base, p, BaseAt(d, n))
  OBVIOUS
<1>3. Based(b, p, d, n)
  BY <1>1, <1>2, PutBase
<1>4. Put(base, p, BaseAt(doc', n)) = b
  BY <1>1, <1>2
<1>5. Committed(p, moved, b)
  BY <1>4
<1> QED BY <1>1, <1>3, <1>5

LEMMA TypesPut ==
  ASSUME TypeOK, NEW p \in Paths, NEW moved \in BOOLEAN, NEW n \in doc'.live,
         Committed(p, moved, Put(base, p, BaseAt(doc', n))), cut' = cut
  PROVE  TypeOK'
<1>1. PICK b : Committed(p, moved, b) /\ Based(b, p, doc', n)
  BY BasedNext
<1>2. cut' \subseteq Edits /\ DOMAIN b \subseteq Paths /\ b \in [DOMAIN b -> Base]
  BY <1>1 DEF TypeOK, Based
<1> QED BY <1>1, <1>2, TypesCommit

LEMMA TypesNext ==
  ASSUME TypeOK, [Next]_vars
  PROVE  TypeOK'
<1>1. CASE UNCHANGED vars
  BY <1>1 DEF TypeOK, vars, bounds, tasks, history, Quiet
<1>2. ASSUME NEW p \in Paths, NEW e \in UserEdits, UserWrites(p, e) PROVE TypeOK'
  <2>1. Local(p) /\ used' = used \cup {e} /\ cut' = cut /\ userOps' = userOps /\ gone' = gone \ {p}
        /\ missed' = (IF running THEN missed ELSE missed \cup {e})
        /\ DOMAIN disk' = DOMAIN disk \cup {p} /\ disk' \in [DOMAIN disk' -> SUBSET Edits]
    BY <1>2, WritesDoes
  <2>2. used' \subseteq Edits /\ cut' \subseteq Edits /\ gone' \subseteq Paths /\ userOps' \in Nat
        /\ missed' \subseteq UserEdits /\ DOMAIN disk' \subseteq Paths
    BY <2>1 DEF TypeOK, Edits
  <2> QED BY <2>1, <2>2, TypesLocal
<1>3. ASSUME NEW p \in Paths, NEW e \in Edits, UserTrims(p, e) PROVE TypeOK'
  <2>1. Local(p) /\ used' = used /\ cut' = cut \cup {e} /\ userOps' = userOps + 1 /\ gone' = gone
        /\ missed' = missed /\ DOMAIN disk' = DOMAIN disk /\ disk' \in [DOMAIN disk' -> SUBSET Edits]
    BY <1>3, TrimsDoes
  <2>2. used' \subseteq Edits /\ cut' \subseteq Edits /\ gone' \subseteq Paths /\ userOps' \in Nat
        /\ missed' \subseteq UserEdits /\ DOMAIN disk' \subseteq Paths
    BY <2>1 DEF TypeOK
  <2> QED BY <2>1, <2>2, TypesLocal
<1>4. ASSUME NEW p \in Paths, UserDeletes(p) PROVE TypeOK'
  <2>1. Local(p) /\ used' = used /\ cut' = cut \cup disk[p] /\ userOps' = userOps + 1 /\ gone' = gone \cup {p}
        /\ missed' = missed /\ p \in DOMAIN disk /\ DOMAIN disk' = DOMAIN disk \ {p} /\ disk' \in [DOMAIN disk' -> SUBSET Edits]
    BY <1>4, DeletesDoes
  <2>2. used' \subseteq Edits /\ cut' \subseteq Edits /\ gone' \subseteq Paths /\ userOps' \in Nat
        /\ missed' \subseteq UserEdits /\ DOMAIN disk' \subseteq Paths
    BY <2>1 DEF TypeOK
  <2> QED BY <2>1, <2>2, TypesLocal
<1>5. ASSUME NEW p \in Paths, NEW e \in PeerEdits, NEW i \in 0..MaxNodes, PeerCreates(p, e, i) PROVE TypeOK'
  <2>1. Imports /\ used' = used \cup {e} /\ UNCHANGED <<cut, peerOps>>
    BY <1>5, PeerCreatesDoes
  <2>2. used' \subseteq Edits /\ cut' \subseteq Edits /\ peerOps' \in Nat
    BY <2>1 DEF TypeOK, Edits
  <2> QED BY <2>1, <2>2, TypesImport
<1>6. ASSUME NEW n \in Nodes, NEW e \in PeerEdits, PeerEditsNode(n, e) PROVE TypeOK'
  <2>1. Imports /\ used' = used \cup {e} /\ UNCHANGED <<cut, peerOps>>
    BY <1>6, PeerEditsDoes
  <2>2. used' \subseteq Edits /\ cut' \subseteq Edits /\ peerOps' \in Nat
    BY <2>1 DEF TypeOK, Edits
  <2> QED BY <2>1, <2>2, TypesImport
<1>7. ASSUME NEW n \in Nodes, PeerDeletes(n) PROVE TypeOK'
  <2>1. Imports /\ n \in doc.live /\ used' = used /\ cut' = cut \cup Text(n) /\ peerOps' = peerOps + 1
    BY <1>7, PeerDeletesDoes DEF Removed
  <2>2. Text(n) \in SUBSET Edits
    BY <2>1, NodeFacts DEF Text, TypeOK
  <2>3. used' \subseteq Edits /\ cut' \subseteq Edits /\ peerOps' \in Nat
    BY <2>1, <2>2 DEF TypeOK
  <2> QED BY <2>1, <2>3, TypesImport
<1>8. ASSUME NEW n \in Nodes, NEW p \in Paths, PeerRenames(n, p) PROVE TypeOK'
  <2>1. Imports /\ UNCHANGED <<used, cut>> /\ peerOps' = peerOps + 1
    BY <1>8, PeerRenamesDoes
  <2>2. used' \subseteq Edits /\ cut' \subseteq Edits /\ peerOps' \in Nat
    BY <2>1 DEF TypeOK
  <2> QED BY <2>1, <2>2, TypesImport
<1>9. ASSUME NEW p \in Paths, IngestEdit(p) PROVE TypeOK'
  <2>1. PICK n \in Named(doc, p) :
          /\ Retexted(n, NewText(p, n)) /\ cut' = cut
          /\ Committed(p, disk[p] # Text(n) /\ disk[p] # OldText(p, n), Put(base, p, BaseAt(doc', n)))
    BY <1>9, EditDoes
  <2>2. PICK moved \in BOOLEAN : Committed(p, moved, Put(base, p, BaseAt(doc', n)))
    BY <2>1
  <2>3. n \in doc'.live
    BY <2>1 DEF Retexted
  <2> QED BY <2>1, <2>2, <2>3, TypesPut
<1>10. ASSUME NEW p \in Paths, IngestNew(p) PROVE TypeOK'
  <2>1. PICK k : doc'.live = doc.live \cup {k} /\ cut' = cut /\ Committed(p, TRUE, Put(base, p, BaseAt(doc', k)))
    BY <1>10, NewDoes DEF Added
  <2> QED BY <2>1, TypesPut
<1>11. ASSUME NEW p \in Paths, IngestEcho(p) PROVE TypeOK'
  <2>1. Committed(p, FALSE, base) /\ cut' = cut
    BY <1>11, EchoDoes
  <2>2. cut' \subseteq Edits /\ DOMAIN base \subseteq Paths /\ base \in [DOMAIN base -> Base]
    BY <2>1 DEF TypeOK
  <2> QED BY <2>1, <2>2, TypesCommit
<1>12. ASSUME NEW p \in Paths, IngestMissing(p) PROVE TypeOK'
  <2>1. PICK moved \in BOOLEAN :
          \E b : /\ b = Drop(base, {p}) /\ Committed(p, moved, b)
                 /\ cut' = cut \/ \E n \in doc.live : cut' = cut \cup Text(n)
    BY <1>12, MissingDoes DEF Named
  <2>2. PICK b :
          /\ b = Drop(base, {p}) /\ Committed(p, moved, b)
          /\ cut' = cut \/ \E n \in doc.live : cut' = cut \cup Text(n)
    BY <2>1
  <2>3. DOMAIN b = DOMAIN base \ {p} /\ b \in [DOMAIN b -> Base]
    BY <2>2, DropBase
  <2>4. \A n \in doc.live : Text(n) \in SUBSET Edits
    BY NodeFacts DEF Text, TypeOK
  <2>5. cut' \subseteq Edits /\ DOMAIN b \subseteq Paths
    BY <2>2, <2>3, <2>4 DEF TypeOK
  <2> QED BY <2>2, <2>3, <2>5, TypesCommit
<1>13. ASSUME NEW p \in Paths, BatchDropped(p) PROVE TypeOK'
  <2>1. /\ running /\ events' = events \ {p} /\ fails' = fails + 1 /\ missed' = missed \cup UnseenIn(doc, {p})
        /\ UNCHANGED <<regime, doc, saved, disk, base, nudged, loose, startup, running, used, cut, known, gone,
                       userOps, peerOps, stops>>
    BY <1>13, DroppedDoes DEF Dropped
  <2>2. fails' \in Nat /\ missed' \subseteq UserEdits
    BY <2>1, UnseenType DEF TypeOK
  <2> QED BY <2>1, <2>2 DEF TypeOK
<1>14. CASE Export
  <2>1. Exports
    BY <1>14, ExportDoes
  <2>2. Shown(doc) \subseteq Paths
    BY DEF Shown
  <2> QED BY <2>1, <2>2, UnseenType DEF Exports, TypeOK, Quiet
<1>15. CASE ExportFails
  <2>1. PICK W : FailedAfter(W)
    BY <1>15, ExportFailsDoes
  <2>2. Shown(doc) \subseteq Paths
    BY DEF Shown
  <2>3. DOMAIN disk' \subseteq Paths /\ events' \subseteq Paths /\ gone' \subseteq Paths /\ missed' \subseteq UserEdits
    BY <2>1, <2>2, UnseenType DEF FailedAfter, TypeOK
  <2>4. /\ disk' \in [DOMAIN disk' -> SUBSET Edits] /\ nudged' = FALSE /\ loose' = FALSE /\ fails' = fails + 1
        /\ (saved' = doc \/ saved' = saved) /\ running
        /\ UNCHANGED <<regime, doc, base, startup, running, used, cut, known, userOps, peerOps, stops>>
    BY <2>1 DEF FailedAfter
  <2>5. fails' \in Nat /\ GoodDoc(saved')
    BY <2>4 DEF TypeOK
  <2> QED BY <2>3, <2>4, <2>5 DEF TypeOK
<1>16. CASE Stop
  BY <1>16, StopDoes, UnseenType DEF Stops, TypeOK, Quiet
<1>17. CASE Serve
  <2>1. Starts
    BY <1>17, ServeDoes
  <2>2. Shown(saved) \subseteq Paths
    BY DEF Shown
  <2> QED BY <2>1, <2>2 DEF Starts, TypeOK, Quiet
<1>18. CASE Seed
  BY <1>18, SeedDoes DEF Seeds, TypeOK, Quiet
<1>19. CASE Watch
  BY <1>19, WatchDoes DEF Watches, TypeOK, Quiet
<1> QED BY <1>1, <1>2, <1>3, <1>4, <1>5, <1>6, <1>7, <1>8, <1>9, <1>10, <1>11, <1>12, <1>13, <1>14, <1>15, <1>16,
           <1>17, <1>18, <1>19 DEF Next

\* Every variable of a behaviour keeps its type.
THEOREM TypeCorrect == Spec => []TypeOK
<1>1. Init => TypeOK
  BY TypesInit
<1>2. TypeOK /\ [Next]_vars => TypeOK'
  BY TypesNext
<1> QED BY <1>1, <1>2, PTL DEF Spec

-----------------------------------------------------------------------------
(* What a base records. *)

LEMMA RecordedCommit ==
  ASSUME TypeOK, Recorded, NEW p \in Paths, NEW moved, NEW b, Committed(p, moved, b), DOMAIN b \subseteq DOMAIN base \cup {p},
         \A q \in DOMAIN b : q # p => b[q] = base[q],
         p \in DOMAIN b => b[p].view[b[p].node] \subseteq known'
  PROVE  Recorded'
<1>1. known \subseteq known' /\ Kept(doc') \subseteq known' /\ saved' = saved /\ (base' = b \/ base' = base)
  BY DEF Committed
<1>2. \A q \in DOMAIN base : base[q].view[base[q].node] \subseteq known'
  BY <1>1 DEF Recorded
<1>3. \A q \in DOMAIN b : b[q].view[b[q].node] \subseteq known'
  BY <1>2
<1> QED BY <1>1, <1>2, <1>3 DEF Recorded

LEMMA RecordedPut ==
  ASSUME TypeOK, Recorded, NEW p \in Paths, NEW moved, NEW n \in doc'.live,
         Committed(p, moved, Put(base, p, BaseAt(doc', n)))
  PROVE  Recorded'
<1>1. PICK b : Committed(p, moved, b) /\ Based(b, p, doc', n)
  BY BasedNext
<1>2. PICK d : d = doc' /\ GoodDoc(d) /\ n \in d.live
  BY <1>1 DEF Committed
<1>3. d.text[n] \subseteq Kept(d)
  BY <1>2, NodeFacts
<1>4. b[p].view[b[p].node] \subseteq known'
  BY <1>1, <1>2, <1>3 DEF Committed, Based
<1>5. DOMAIN b \subseteq DOMAIN base \cup {p} /\ \A q \in DOMAIN b : q # p => b[q] = base[q]
  BY <1>1 DEF Based
<1> QED BY <1>1, <1>4, <1>5, RecordedCommit

LEMMA RecordedNext ==
  ASSUME TypeOK, Recorded, [Next]_vars
  PROVE  Recorded'
<1>1. CASE UNCHANGED vars
  BY <1>1 DEF Recorded, vars, history, Kept
<1>2. ASSUME NEW p \in Paths, Local(p) PROVE Recorded'
  BY <1>2 DEF Recorded, Local, Kept
<1>3. ASSUME Imports PROVE Recorded'
  <2>1. known \subseteq known' /\ Kept(doc') \subseteq known' /\ saved' = saved /\ base' = base
    BY <1>3 DEF Imports
  <2> QED BY <2>1 DEF Recorded
<1>4. ASSUME NEW p \in Paths, NEW e \in UserEdits, UserWrites(p, e) PROVE Recorded'
  BY <1>2, <1>4, WritesDoes
<1>5. ASSUME NEW p \in Paths, NEW e \in Edits, UserTrims(p, e) PROVE Recorded'
  BY <1>2, <1>5, TrimsDoes
<1>6. ASSUME NEW p \in Paths, UserDeletes(p) PROVE Recorded'
  BY <1>2, <1>6, DeletesDoes
<1>7. ASSUME NEW p \in Paths, NEW e \in PeerEdits, NEW i \in 0..MaxNodes, PeerCreates(p, e, i) PROVE Recorded'
  BY <1>3, <1>7, PeerCreatesDoes
<1>8. ASSUME NEW n \in Nodes, NEW e \in PeerEdits, PeerEditsNode(n, e) PROVE Recorded'
  BY <1>3, <1>8, PeerEditsDoes
<1>9. ASSUME NEW n \in Nodes, PeerDeletes(n) PROVE Recorded'
  BY <1>3, <1>9, PeerDeletesDoes
<1>10. ASSUME NEW n \in Nodes, NEW p \in Paths, PeerRenames(n, p) PROVE Recorded'
  BY <1>3, <1>10, PeerRenamesDoes
<1>11. ASSUME NEW p \in Paths, IngestEdit(p) PROVE Recorded'
  <2>1. PICK n : n \in doc'.live /\ \E moved : Committed(p, moved, Put(base, p, BaseAt(doc', n)))
    BY <1>11, EditDoes DEF Retexted
  <2> QED BY <2>1, RecordedPut
<1>12. ASSUME NEW p \in Paths, IngestNew(p) PROVE Recorded'
  <2>1. PICK k : k \in doc'.live /\ Committed(p, TRUE, Put(base, p, BaseAt(doc', k)))
    BY <1>12, NewDoes DEF Added
  <2> QED BY <2>1, RecordedPut
<1>13. ASSUME NEW p \in Paths, IngestEcho(p) PROVE Recorded'
  <2>1. Committed(p, FALSE, base)
    BY <1>13, EchoDoes
  <2>2. p \in DOMAIN base => base[p].view[base[p].node] \subseteq known'
    BY <2>1 DEF Recorded, Committed
  <2> QED BY <2>1, <2>2, RecordedCommit
<1>14. ASSUME NEW p \in Paths, IngestMissing(p) PROVE Recorded'
  <2>1. PICK b, moved : b = Drop(base, {p}) /\ Committed(p, moved, b)
    BY <1>14, MissingDoes
  <2>2. DOMAIN b = DOMAIN base \ {p} /\ \A q \in DOMAIN base : q # p => b[q] = base[q]
    BY <2>1, DropBase
  <2> QED BY <2>1, <2>2, RecordedCommit
<1>15. CASE Export
  <2>1. Exports
    BY <1>15, ExportDoes
  <2>2. ASSUME NEW p \in DOMAIN base' PROVE base'[p].view[base'[p].node] \subseteq known
    <3>1. CASE p \in Shown(doc)
      <4>1. PICK l : l = Last(doc, p)
        OBVIOUS
      <4>2. l \in doc.live /\ GoodDoc(doc) /\ base'[p] = BaseAt(doc, l)
        BY <2>1, <3>1, <4>1, ShownFacts DEF Shown, TypeOK, Exports
      <4>3. base'[p].view[base'[p].node] = doc.text[l] /\ doc.text[l] \subseteq Kept(doc)
        BY <4>2, BaseFacts, NodeFacts
      <4> QED BY <4>3 DEF Recorded
    <3>2. CASE p \notin Shown(doc)
      BY <2>1, <3>2 DEF Exports, Recorded
    <3> QED BY <3>1, <3>2
  <2> QED BY <2>1, <2>2 DEF Exports, Recorded
<1>16. CASE ExportFails
  <2>1. PICK W : FailedAfter(W)
    BY <1>16, ExportFailsDoes
  <2> QED BY <2>1 DEF FailedAfter, Recorded
<1>17. CASE Stop
  BY <1>17, StopDoes DEF Stops, Recorded, Kept
<1>18. CASE Serve
  BY <1>18, ServeDoes DEF Starts, Recorded
<1>19. CASE Seed
  <2>1. Seeds
    BY <1>19, SeedDoes
  <2>2. ASSUME NEW p \in DOMAIN base' PROVE base'[p].view[base'[p].node] \subseteq known
    <3>1. PICK n \in doc.live : base'[p] = BaseAt(doc, n) /\ GoodDoc(doc)
      BY <2>1 DEF Seeds, Agreeing, Named, TypeOK
    <3>2. base'[p].view[base'[p].node] = doc.text[n] /\ doc.text[n] \subseteq Kept(doc)
      BY <3>1, BaseFacts, NodeFacts
    <3> QED BY <3>2 DEF Recorded
  <2> QED BY <2>1, <2>2 DEF Seeds, Recorded
<1>20. CASE Watch
  BY <1>20, WatchDoes DEF Watches, Recorded, Kept
<1>21. ASSUME NEW p \in Paths, BatchDropped(p) PROVE Recorded'
  BY <1>21, DroppedDoes DEF Dropped, Recorded, Kept
<1> QED BY <1>1, <1>4, <1>5, <1>6, <1>7, <1>8, <1>9, <1>10, <1>11, <1>12, <1>13, <1>14, <1>15, <1>16, <1>17, <1>18,
           <1>19, <1>20, <1>21 DEF Next

LEMMA RecordedHolds == Spec => [](TypeOK /\ Recorded)
<1>1. Init => Recorded
  BY DEF Init, Recorded, Kept
<1>2. Recorded /\ TypeOK /\ [Next]_vars => Recorded'
  BY RecordedNext
<1> QED BY <1>1, <1>2, TypeCorrect, PTL DEF Spec

\* A file eg takes away holds only what the document has had: prune removes a
\* file only while it is what its base recorded (is_echo_of), and every base was
\* taken of a document.
THEOREM PrunesRecoverable == Spec => PruneRecoverable
<1>1. ASSUME TypeOK, Recorded, [Next]_vars, running, userOps' = userOps, NEW p \in DOMAIN disk \ DOMAIN disk'
      PROVE  disk[p] \subseteq known
  <2>1. userOps \in Nat /\ userOps + 1 # userOps
    BY <1>1 DEF TypeOK
  <2>2. CASE UNCHANGED vars
    BY <1>1, <2>2 DEF vars
  <2>3. ASSUME NEW q \in Paths, NEW e \in UserEdits, UserWrites(q, e) PROVE FALSE
    BY <1>1, <2>3, WritesDoes
  <2>4. ASSUME NEW q \in Paths, NEW e \in Edits, UserTrims(q, e) PROVE FALSE
    BY <1>1, <2>1, <2>4, TrimsDoes
  <2>5. ASSUME NEW q \in Paths, UserDeletes(q) PROVE FALSE
    BY <1>1, <2>1, <2>5, DeletesDoes
  <2>6. ASSUME disk' = disk PROVE FALSE
    BY <1>1, <2>6
  <2>7. ASSUME NEW q \in Paths, NEW e \in PeerEdits, NEW i \in 0..MaxNodes, PeerCreates(q, e, i) PROVE FALSE
    BY <1>1, <2>6, <2>7, PeerCreatesDoes DEF Imports
  <2>8. ASSUME NEW n \in Nodes, NEW e \in PeerEdits, PeerEditsNode(n, e) PROVE FALSE
    BY <1>1, <2>6, <2>8, PeerEditsDoes DEF Imports
  <2>9. ASSUME NEW n \in Nodes, PeerDeletes(n) PROVE FALSE
    BY <1>1, <2>6, <2>9, PeerDeletesDoes DEF Imports
  <2>10. ASSUME NEW n \in Nodes, NEW q \in Paths, PeerRenames(n, q) PROVE FALSE
    BY <1>1, <2>6, <2>10, PeerRenamesDoes DEF Imports
  <2>11. ASSUME NEW q \in Paths, IngestEdit(q) PROVE FALSE
    BY <1>1, <2>6, <2>11, EditDoes DEF Committed
  <2>12. ASSUME NEW q \in Paths, IngestNew(q) PROVE FALSE
    BY <1>1, <2>6, <2>12, NewDoes DEF Committed
  <2>13. ASSUME NEW q \in Paths, IngestEcho(q) PROVE FALSE
    BY <1>1, <2>6, <2>13, EchoDoes DEF Committed
  <2>14. ASSUME NEW q \in Paths, IngestMissing(q) PROVE FALSE
    BY <1>1, <2>6, <2>14, MissingDoes DEF Committed
  <2>15. CASE Export
    <3>1. p \in Stale
      BY <1>1, <2>15, ExportDoes DEF Exports
    <3> QED BY <1>1, <3>1 DEF Stale, Echo, Recorded
  <2>16. CASE ExportFails
    BY <1>1, <2>16, ExportFailsDoes DEF FailedAfter
  <2>17. CASE Stop
    BY <1>1, <2>17 DEF Stop
  <2>18. CASE Serve
    BY <1>1, <2>18 DEF Serve
  <2>19. CASE Seed \/ Watch
    BY <1>1, <2>19 DEF Seed, Watch
  <2>20. ASSUME NEW q \in Paths, BatchDropped(q) PROVE FALSE
    BY <1>1, <2>20 DEF BatchDropped
  <2> QED BY <1>1, <2>2, <2>3, <2>4, <2>5, <2>7, <2>8, <2>9, <2>10, <2>11, <2>12, <2>13, <2>14,
             <2>15, <2>16, <2>17, <2>18, <2>19, <2>20 DEF Next
<1>2. TypeOK /\ Recorded /\ [Next]_vars =>
        [running /\ userOps' = userOps => \A p \in DOMAIN disk \ DOMAIN disk' : disk[p] \subseteq known]_vars
  BY <1>1
<1> QED BY <1>2, RecordedHolds, PTL DEF Spec, PruneRecoverable

-----------------------------------------------------------------------------
(* Taking turns. *)

\* Files f are what document d says.
Mirrors(f, d) == \A p \in Paths : (p \in DOMAIN f <=> Exists(d, p)) /\ \A n \in Named(d, p) : f[p] = d.text[n]

LEMMA MirrorFacts ==
  ASSUME NEW d, GoodDoc(d), Alone(d), NEW f, DOMAIN f \subseteq Paths, Mirrors(f, d)
  PROVE  /\ Kept(d) = UNION {f[p] : p \in DOMAIN f}
         /\ (\A p, q \in DOMAIN f : p # q => f[p] \cap f[q] = {}) <=> Apart(d)
<1>1. \A n \in d.live : d.name[n] \in DOMAIN f /\ f[d.name[n]] = d.text[n]
  <2>1. ASSUME NEW n \in d.live PROVE d.name[n] \in DOMAIN f /\ f[d.name[n]] = d.text[n]
    <3>1. d.name[n] \in Paths /\ n \in Named(d, d.name[n])
      BY NodeFacts
    <3>2. Exists(d, d.name[n])
      BY <3>1 DEF Exists
    <3> QED BY <3>1, <3>2 DEF Mirrors
  <2> QED BY <2>1
<1>2. \A p \in DOMAIN f : \E n \in d.live : d.name[n] = p /\ f[p] = d.text[n]
  BY DEF Mirrors, Exists, Named
<1>3. Kept(d) = UNION {f[p] : p \in DOMAIN f}
  <2>1. ASSUME NEW e \in Kept(d) PROVE e \in UNION {f[p] : p \in DOMAIN f}
    BY <1>1, KeptFacts
  <2>2. ASSUME NEW e \in UNION {f[p] : p \in DOMAIN f} PROVE e \in Kept(d)
    <3>1. PICK p \in DOMAIN f : e \in f[p]
      OBVIOUS
    <3>2. PICK n \in d.live : f[p] = d.text[n]
      BY <1>2
    <3> QED BY <3>1, <3>2, KeptFacts
  <2> QED BY <2>1, <2>2
<1>4. ASSUME \A p, q \in DOMAIN f : p # q => f[p] \cap f[q] = {} PROVE Apart(d)
  BY <1>1, <1>4 DEF Apart, Alone
<1>5. ASSUME Apart(d), NEW p \in DOMAIN f, NEW q \in DOMAIN f, p # q PROVE f[p] \cap f[q] = {}
  <2>1. PICK m \in d.live : d.name[m] = p /\ f[p] = d.text[m]
    BY <1>2
  <2>2. PICK n \in d.live : d.name[n] = q /\ f[q] = d.text[n]
    BY <1>2
  <2> QED BY <1>5, <2>1, <2>2 DEF Apart
<1> QED BY <1>3, <1>4, <1>5

\* Where nothing fails a batch does all it does.
LEMMA CommitsAll ==
  ASSUME NEW p, NEW moved, NEW b, Committed(p, moved, b), regime.fails = 0
  PROVE  base' = b /\ Committed(p, moved, base') /\ nudged' = (nudged \/ moved)
<1>1. base' = b /\ nudged' = (nudged \/ moved)
  BY DEF Committed
<1>2. Committed(p, moved, base')
  BY <1>1
<1> QED BY <1>1, <1>2

LEMMA PutsAll ==
  ASSUME TypeOK, NEW p, NEW moved, NEW n \in doc'.live, Committed(p, moved, Put(base, p, BaseAt(doc', n))), regime.fails = 0
  PROVE  Committed(p, moved, base') /\ nudged' = (nudged \/ moved) /\ Based(base', p, doc', n)
<1>1. PICK b : Committed(p, moved, b) /\ Based(b, p, doc', n)
  BY BasedNext
<1>2. base' = b /\ Committed(p, moved, base') /\ nudged' = (nudged \/ moved)
  BY <1>1, CommitsAll
<1> QED BY <1>1, <1>2

\* With nobody under way, the two copies are one.
LEMMA AtRest ==
  ASSUME TypeOK, Turns, TakingTurns, Quiet
  PROVE  /\ Resting /\ Mirrors(disk, doc) /\ Kept(doc) = OnDisk /\ Apart(doc)
         /\ running => DOMAIN base = DOMAIN disk /\ \A p \in DOMAIN disk : Echo(p)
<1>1. Alone(doc) /\ Resting /\ GoodDoc(doc) /\ DOMAIN disk \subseteq Paths /\ DOMAIN base \subseteq Paths
  BY DEF Turns, Quiet, TypeOK
<1>2. \A p \in Paths : Synced(p)
  BY <1>1 DEF Resting, Quiet
<1>3. Mirrors(disk, doc)
  BY <1>2 DEF Mirrors, Synced, Text
<1>4. Kept(doc) = OnDisk /\ Apart(doc)
  BY <1>1, <1>3, MirrorFacts DEF OnDisk, Resting, FilesApart
<1>5. ASSUME running, NEW p \in Paths
      PROVE  (p \in DOMAIN base <=> p \in DOMAIN disk) /\ (p \in DOMAIN disk => Echo(p))
  <2>1. Tracked(p) /\ Synced(p)
    BY <1>1, <1>2, <1>5 DEF Resting
  <2> QED BY <2>1 DEF Tracked, Synced, Echo, Exists
<1>6. running => DOMAIN base = DOMAIN disk
  BY <1>1, <1>5
<1>7. running => \A p \in DOMAIN disk : Echo(p)
  BY <1>1, <1>5
<1> QED BY <1>1, <1>3, <1>4, <1>6, <1>7

\* A user's step: only file p differs from the document.
LEMMA TurnsLocal ==
  ASSUME TypeOK, Turns, TakingTurns, NEW p \in Paths, Local(p), NEW S,
         \A q \in Paths : q # p => (q \in DOMAIN disk' <=> q \in DOMAIN disk),
         \A q \in DOMAIN disk : q # p => disk'[q] = disk[q],
         p \in DOMAIN disk' => disk'[p] = S, p \notin DOMAIN disk' => S = {}, DOMAIN disk' \subseteq Paths,
         used \subseteq used', cut \subseteq cut', Content(p) \ S \subseteq cut', S \subseteq used',
         S \cap Content(p) \cap cut' = {}, S \cap (used \cup cut') \subseteq Content(p), cut' \subseteq used',
         \A q \in DOMAIN disk : q # p => disk[q] \cap cut' = {}, used' \ cut' \subseteq used \cup S,
         (used' \cap PeerEdits) \ cut' \subseteq (used \cap PeerEdits) \ cut
  PROVE  Turns'
<1>1. /\ TakingTurns' /\ running /\ Quiet /\ events' = {p} /\ ~nudged'
      /\ UNCHANGED <<regime, doc, saved, base, nudged, startup, running>>
  BY DEF TakingTurns, Local, Quiet
<1>2. Resting /\ Mirrors(disk, doc) /\ Kept(doc) = OnDisk /\ Alone(doc)
  BY <1>1, AtRest DEF Turns
<1>3. DOMAIN disk \subseteq Paths
  BY DEF TypeOK
<1>4. \A q \in DOMAIN disk' : q # p => (q \in DOMAIN disk /\ disk'[q] = disk[q])
  OBVIOUS
<1>5. \A e : e \in OnDisk <=> \E q \in DOMAIN disk : e \in disk[q]
  BY DEF OnDisk
<1>6. \A e : e \in OnDisk' <=> \E q \in DOMAIN disk' : e \in disk'[q]
  BY DEF OnDisk
<1>7. FilesApart'
  <2>1. ASSUME NEW q \in DOMAIN disk, q # p PROVE disk[q] \cap S = {}
    <3>1. disk[q] \subseteq used
      BY <1>5 DEF Turns
    <3>2. p \in DOMAIN disk => disk[q] \cap disk[p] = {}
      BY <1>2, <2>1 DEF Resting, FilesApart
    <3> QED BY <3>1, <3>2 DEF Content
  <2>2. ASSUME NEW q \in DOMAIN disk', NEW r \in DOMAIN disk', q # r PROVE disk'[q] \cap disk'[r] = {}
    <3>1. CASE q = p
      BY <1>4, <2>1, <2>2, <3>1
    <3>2. CASE r = p
      BY <1>4, <2>1, <2>2, <3>2
    <3>3. CASE q # p /\ r # p
      BY <1>2, <1>4, <2>2, <3>3 DEF Resting, FilesApart
    <3> QED BY <3>1, <3>2, <3>3
  <2> QED BY <2>2 DEF FilesApart
<1>8. cut' \cap OnDisk' = {}
  <2>1. S \cap cut' = {}
    OBVIOUS
  <2>2. \A q \in DOMAIN disk' : disk'[q] \cap cut' = {}
    BY <1>4, <2>1
  <2> QED BY <1>6, <2>2
<1>9. used' \ cut' \subseteq OnDisk'
  <2>1. ASSUME NEW e \in used', e \notin cut' PROVE e \in OnDisk'
    <3>1. CASE e \in S
      <4>1. p \in DOMAIN disk'
        BY <3>1
      <4> QED BY <1>6, <3>1, <4>1
    <3>2. CASE e \in used /\ e \notin S
      <4>1. PICK q \in DOMAIN disk : e \in disk[q]
        BY <1>2, <1>5, <2>1, <3>2 DEF Resting
      <4>2. q # p
        BY <2>1, <3>2, <4>1 DEF Content
      <4>3. q \in DOMAIN disk' /\ disk'[q] = disk[q]
        BY <1>3, <4>1, <4>2
      <4> QED BY <1>6, <4>1, <4>3
    <3> QED BY <2>1, <3>1, <3>2
  <2> QED BY <2>1
<1>10. ASSUME NEW q \in Paths PROVE Synced(q)' \/ (running' /\ events' = {q})
  <2>1. CASE q = p
    BY <1>1, <2>1
  <2>2. CASE q # p
    <3>1. Synced(q)
      BY <1>1, <1>2 DEF Resting, Quiet
    <3>2. q \in DOMAIN disk' <=> q \in DOMAIN disk
      BY <2>2
    <3>3. Named(doc', q) = Named(doc, q) /\ (Exists(doc', q) <=> Exists(doc, q)) /\ doc' = doc
      BY <1>1
    <3>4. \A n \in Named(doc', q) : disk'[q] = doc'.text[n]
      BY <2>2, <3>1, <3>3 DEF Synced, Text, Exists
    <3> QED BY <3>1, <3>2, <3>3, <3>4 DEF Synced, Text
  <2> QED BY <2>1, <2>2
<1>11. ASSUME NEW q \in Paths PROVE Tracked(q)'
  <2>1. Tracked(q) /\ Synced(q)
    BY <1>1, <1>2 DEF Resting, Quiet
  <2>2. \A n \in Named(doc, q) : Text(n) \ Content(q)' \subseteq cut'
    <3>1. CASE q = p
      <4>1. \A n \in Named(doc, p) : Text(n) = Content(p)
        BY <2>1, <3>1 DEF Synced, Content, Exists
      <4>2. Content(p)' = S
        BY DEF Content
      <4> QED BY <3>1, <4>1, <4>2
    <3>2. CASE q # p
      <4>1. Content(q)' = Content(q)
        BY <3>2 DEF Content
      <4> QED BY <2>1, <4>1 DEF Tracked
    <3> QED BY <3>1, <3>2
  <2> QED BY <1>1, <2>1, <2>2 DEF Tracked, Text, Exists, Named
<1>12. Resting'
  <2>1. saved' = doc' /\ running'
    BY <1>1, <1>2 DEF Resting
  <2> QED BY <1>7, <1>8, <1>9, <1>10, <1>11, <2>1 DEF Resting
<1>13. Kept(doc') \cup OnDisk' \cup cut' \subseteq used'
  <2>1. Kept(doc') \subseteq used' /\ OnDisk \subseteq used
    BY <1>1 DEF Turns
  <2>2. \A q \in DOMAIN disk' : disk'[q] \subseteq used'
    BY <1>4, <1>5, <2>1
  <2> QED BY <1>6, <2>1, <2>2
<1>14. NoPeerEditLost'
  BY <1>1 DEF Turns, NoPeerEditLost
<1>15. Alone(doc')
  BY <1>1, <1>2
<1> QED BY <1>1, <1>12, <1>13, <1>14, <1>15 DEF Turns

LEMMA TurnsUser ==
  ASSUME TypeOK, Turns, TakingTurns, NEW p \in Paths,
         (\E e \in UserEdits : UserWrites(p, e)) \/ (\E e \in Edits : UserTrims(p, e)) \/ UserDeletes(p)
  PROVE  Turns'
<1>1. Local(p)
  BY WritesDoes, TrimsDoes, DeletesDoes
<1>2. Quiet
  BY <1>1 DEF Local, TakingTurns
<1>3. Resting /\ OnDisk \cup cut \subseteq used
  BY <1>2, AtRest DEF Turns
<1>4. \A q \in DOMAIN disk : disk[q] \cap cut = {} /\ disk[q] \subseteq used
  BY <1>3 DEF Resting, OnDisk
<1>5. Content(p) \cap cut = {} /\ Content(p) \subseteq used
  BY <1>4 DEF Content
<1>6. \A q \in DOMAIN disk : q # p => disk[q] \cap Content(p) = {}
  BY <1>3 DEF Content, Resting, FilesApart
<1>7. DOMAIN disk \subseteq Paths
  BY DEF TypeOK
<1>8. ASSUME NEW e \in UserEdits, UserWrites(p, e) PROVE Turns'
  <2>1. PICK S : S = {e} \cup Content(p)
    OBVIOUS
  <2>2. /\ e \notin used /\ used' = used \cup {e} /\ cut' = cut /\ DOMAIN disk' = DOMAIN disk \cup {p} /\ disk'[p] = S
        /\ \A q \in DOMAIN disk : q # p => disk'[q] = disk[q]
    BY <1>8, <2>1, WritesDoes
  <2>3. e \notin PeerEdits
    BY EditsAssumption
  <2>4. /\ \A q \in Paths : q # p => (q \in DOMAIN disk' <=> q \in DOMAIN disk)
        /\ p \in DOMAIN disk' /\ DOMAIN disk' \subseteq Paths
    BY <1>7, <2>2
  <2>5. /\ used \subseteq used' /\ cut \subseteq cut' /\ Content(p) \ S \subseteq cut' /\ S \subseteq used'
        /\ S \cap Content(p) \cap cut' = {} /\ S \cap (used \cup cut') \subseteq Content(p) /\ cut' \subseteq used'
        /\ used' \ cut' \subseteq used \cup S /\ (used' \cap PeerEdits) \ cut' \subseteq (used \cap PeerEdits) \ cut
    BY <1>3, <1>5, <2>1, <2>2, <2>3
  <2>6. \A q \in DOMAIN disk : q # p => disk[q] \cap cut' = {}
    BY <1>4, <2>2
  <2> QED BY <1>1, <2>2, <2>4, <2>5, <2>6, TurnsLocal
<1>9. ASSUME NEW e \in Edits, UserTrims(p, e) PROVE Turns'
  <2>1. PICK S : S = Content(p) \ {e}
    OBVIOUS
  <2>2. /\ p \in DOMAIN disk /\ e \in Content(p) /\ used' = used /\ cut' = cut \cup {e} /\ DOMAIN disk' = DOMAIN disk
        /\ disk'[p] = S /\ \A q \in DOMAIN disk : q # p => disk'[q] = disk[q]
    BY <1>9, <2>1, TrimsDoes DEF Content
  <2>4. /\ \A q \in Paths : q # p => (q \in DOMAIN disk' <=> q \in DOMAIN disk)
        /\ p \in DOMAIN disk' /\ DOMAIN disk' \subseteq Paths
    BY <1>7, <2>2
  <2>5. /\ used \subseteq used' /\ cut \subseteq cut' /\ Content(p) \ S \subseteq cut' /\ S \subseteq used'
        /\ S \cap Content(p) \cap cut' = {} /\ S \cap (used \cup cut') \subseteq Content(p) /\ cut' \subseteq used'
        /\ used' \ cut' \subseteq used \cup S /\ (used' \cap PeerEdits) \ cut' \subseteq (used \cap PeerEdits) \ cut
    BY <1>3, <1>5, <2>1, <2>2
  <2>6. \A q \in DOMAIN disk : q # p => disk[q] \cap cut' = {}
    BY <1>4, <1>6, <2>2
  <2> QED BY <1>1, <2>2, <2>4, <2>5, <2>6, TurnsLocal
<1>10. ASSUME UserDeletes(p) PROVE Turns'
  <2>1. PICK S : S = {}
    OBVIOUS
  <2>2. /\ p \in DOMAIN disk /\ used' = used /\ cut' = cut \cup Content(p) /\ DOMAIN disk' = DOMAIN disk \ {p}
        /\ \A q \in DOMAIN disk : q # p => disk'[q] = disk[q]
    BY <1>10, DeletesDoes DEF Content
  <2>4. /\ \A q \in Paths : q # p => (q \in DOMAIN disk' <=> q \in DOMAIN disk)
        /\ p \notin DOMAIN disk' /\ DOMAIN disk' \subseteq Paths
    BY <1>7, <2>2
  <2>5. /\ used \subseteq used' /\ cut \subseteq cut' /\ Content(p) \ S \subseteq cut' /\ S \subseteq used'
        /\ S \cap Content(p) \cap cut' = {} /\ S \cap (used \cup cut') \subseteq Content(p) /\ cut' \subseteq used'
        /\ used' \ cut' \subseteq used \cup S /\ (used' \cap PeerEdits) \ cut' \subseteq (used \cap PeerEdits) \ cut
    BY <1>3, <1>5, <2>1, <2>2
  <2>6. \A q \in DOMAIN disk : q # p => disk[q] \cap cut' = {}
    BY <1>4, <1>6, <2>2
  <2> QED BY <1>1, <2>1, <2>2, <2>4, <2>5, <2>6, TurnsLocal
<1> QED BY <1>8, <1>9, <1>10

\* A peer's step: the document moved, and every file is as the bases say.
LEMMA TurnsImport ==
  ASSUME TypeOK, Turns, TakingTurns, Imports, Alone(doc'), Apart(doc'), cut' \cap Kept(doc') = {},
         used' \ cut' \subseteq Kept(doc'), Kept(doc') \cup cut' \subseteq used', used \subseteq used'
  PROVE  Turns'
<1>1. /\ TakingTurns' /\ running /\ Quiet /\ nudged' = TRUE /\ running' /\ events' = {}
      /\ UNCHANGED <<disk, base>>
  BY DEF TakingTurns, Imports, Quiet
<1>2. DOMAIN base = DOMAIN disk /\ \A p \in DOMAIN disk : Echo(p)
  BY <1>1, AtRest
<1>3. Exporting'
  BY <1>1, <1>2 DEF Exporting, Echo
<1>4. OnDisk' \subseteq used'
  BY <1>1 DEF OnDisk, Turns
<1>5. NoPeerEditLost'
  BY DEF NoPeerEditLost
<1> QED BY <1>1, <1>3, <1>4, <1>5 DEF Turns

LEMMA TurnsPeer ==
  ASSUME TypeOK, Turns, TakingTurns,
         \/ \E p \in Paths, e \in PeerEdits, i \in 0..MaxNodes : PeerCreates(p, e, i)
         \/ \E n \in Nodes, e \in PeerEdits : PeerEditsNode(n, e)
         \/ \E n \in Nodes : PeerDeletes(n)
         \/ \E n \in Nodes, p \in Paths : PeerRenames(n, p)
  PROVE  Turns'
<1>1. Imports
  BY PeerCreatesDoes, PeerEditsDoes, PeerDeletesDoes, PeerRenamesDoes
<1>2. Quiet
  BY <1>1 DEF Imports, TakingTurns
<1>3. /\ Alone(doc) /\ Apart(doc) /\ Kept(doc) \cup cut \subseteq used /\ cut \cap Kept(doc) = {}
      /\ used \ cut \subseteq Kept(doc)
  BY <1>2, AtRest DEF Turns, Resting
<1>4. GoodDoc(doc) /\ GoodDoc(doc')
  BY <1>1 DEF TypeOK, Imports
<1>5. /\ \A n \in doc.live : doc.text[n] \subseteq Kept(doc)
      /\ \A x : x \in Kept(doc) => \E n \in doc.live : x \in doc.text[n]
  BY <1>4, KeptFacts
<1>6. \A x : x \in Kept(doc') <=> \E n \in doc'.live : x \in doc'.text[n]
  BY <1>4, KeptNext
<1>7. ASSUME NEW p \in Paths, NEW e \in PeerEdits, NEW i \in 0..MaxNodes, PeerCreates(p, e, i) PROVE Turns'
  <2>1. PICK k \in Nat : e \notin used /\ used' = used \cup {e} /\ (regime.collisions \/ Free(p))
                         /\ Added(k, p, {e}) /\ UNCHANGED <<cut, peerOps>>
    BY <1>7, PeerCreatesDoes
  <2>2. \A m \in doc.live : doc.name[m] # p
    BY <2>1 DEF TakingTurns, Free, Exists, Named
  <2>3. Alone(doc')
    BY <1>3, <2>1, <2>2 DEF Alone, Added
  <2>4. Apart(doc')
    BY <1>3, <1>5, <2>1 DEF Apart, Added
  <2>5. Kept(doc') = Kept(doc) \cup {e}
    <3>1. ASSUME NEW x \in Kept(doc') PROVE x \in Kept(doc) \cup {e}
      BY <1>5, <1>6, <2>1 DEF Added
    <3>2. ASSUME NEW x \in Kept(doc) PROVE x \in Kept(doc')
      BY <1>5, <1>6, <2>1 DEF Added
    <3>3. e \in Kept(doc')
      BY <1>6, <2>1 DEF Added
    <3> QED BY <3>1, <3>2, <3>3
  <2>6. /\ cut' \cap Kept(doc') = {} /\ used' \ cut' \subseteq Kept(doc') /\ Kept(doc') \cup cut' \subseteq used'
        /\ used \subseteq used'
    BY <1>3, <2>1, <2>5
  <2> QED BY <1>1, <2>3, <2>4, <2>6, TurnsImport
<1>8. ASSUME NEW n \in Nodes, NEW e \in PeerEdits, PeerEditsNode(n, e) PROVE Turns'
  <2>1. e \notin used /\ used' = used \cup {e} /\ Retexted(n, Text(n) \cup {e}) /\ UNCHANGED <<cut, peerOps>>
    BY <1>8, PeerEditsDoes
  <2>3. Alone(doc')
    BY <1>3, <2>1 DEF Alone, Retexted
  <2>4. Apart(doc')
    BY <1>3, <1>5, <2>1 DEF Apart, Retexted, Text
  <2>5. Kept(doc') = Kept(doc) \cup {e}
    <3>1. ASSUME NEW x \in Kept(doc') PROVE x \in Kept(doc) \cup {e}
      BY <1>5, <1>6, <2>1 DEF Retexted, Text
    <3>2. ASSUME NEW x \in Kept(doc) PROVE x \in Kept(doc')
      BY <1>5, <1>6, <2>1 DEF Retexted, Text
    <3>3. e \in Kept(doc')
      BY <1>6, <2>1 DEF Retexted
    <3> QED BY <3>1, <3>2, <3>3
  <2>6. /\ cut' \cap Kept(doc') = {} /\ used' \ cut' \subseteq Kept(doc') /\ Kept(doc') \cup cut' \subseteq used'
        /\ used \subseteq used'
    BY <1>3, <2>1, <2>5
  <2> QED BY <1>1, <2>3, <2>4, <2>6, TurnsImport
<1>9. ASSUME NEW n \in Nodes, PeerDeletes(n) PROVE Turns'
  <2>1. Removed(n) /\ cut' = cut \cup Text(n) /\ used' = used
    BY <1>9, PeerDeletesDoes
  <2>3. Alone(doc') /\ Apart(doc')
    BY <1>3, <2>1 DEF Alone, Apart, Removed
  <2>5. Kept(doc') = Kept(doc) \ Text(n)
    <3>1. ASSUME NEW x \in Kept(doc') PROVE x \in Kept(doc) \ Text(n)
      BY <1>3, <1>5, <1>6, <2>1 DEF Removed, Text, Apart
    <3>2. ASSUME NEW x \in Kept(doc), x \notin Text(n) PROVE x \in Kept(doc')
      BY <1>5, <1>6, <2>1, <3>2 DEF Removed, Text
    <3> QED BY <3>1, <3>2
  <2>6. Text(n) \subseteq Kept(doc)
    BY <1>5, <2>1 DEF Removed, Text
  <2>7. /\ cut' \cap Kept(doc') = {} /\ used' \ cut' \subseteq Kept(doc') /\ Kept(doc') \cup cut' \subseteq used'
        /\ used \subseteq used'
    BY <1>3, <2>1, <2>5, <2>6
  <2> QED BY <1>1, <2>3, <2>7, TurnsImport
<1>10. ASSUME NEW n \in Nodes, NEW p \in Paths, PeerRenames(n, p) PROVE Turns'
  <2>1. (regime.collisions \/ Free(p)) /\ Renamed(n, p) /\ UNCHANGED <<used, cut>>
    BY <1>10, PeerRenamesDoes
  <2>2. \A m \in doc.live : doc.name[m] # p
    BY <2>1 DEF TakingTurns, Free, Exists, Named
  <2>3. Alone(doc') /\ Apart(doc')
    BY <1>3, <2>1, <2>2 DEF Alone, Apart, Renamed
  <2>5. Kept(doc') = Kept(doc)
    BY <2>1 DEF Renamed, Kept
  <2>7. /\ cut' \cap Kept(doc') = {} /\ used' \ cut' \subseteq Kept(doc') /\ Kept(doc') \cup cut' \subseteq used'
        /\ used \subseteq used'
    BY <1>3, <2>1, <2>5
  <2> QED BY <1>1, <2>3, <2>7, TurnsImport
<1> QED BY <1>7, <1>8, <1>9, <1>10

\* An ingest that moves the document to what the files are.
LEMMA TurnsIngest ==
  ASSUME TypeOK, Turns, TakingTurns, Resting, NEW p \in Paths, Committed(p, TRUE, base'), nudged', events = {p}, cut' = cut,
         Alone(doc'), Mirrors(disk, doc'), DOMAIN base' = DOMAIN disk,
         p \in DOMAIN disk => disk[p] = base'[p].view[base'[p].node],
         \A q \in Paths : (q # p /\ q \in DOMAIN disk) => base'[q] = base[q]
  PROVE  Turns'
<1>1. /\ TakingTurns' /\ running /\ running' /\ nudged' /\ events' = {} /\ UNCHANGED <<disk, used, cut>>
      /\ GoodDoc(doc') /\ DOMAIN disk \subseteq Paths
  BY DEF TakingTurns, Committed, TypeOK
<1>2. PICK d : d = doc'
  OBVIOUS
<1>3. FilesApart /\ cut \cap OnDisk = {} /\ used \ cut \subseteq OnDisk
  BY DEF Resting
<1>4. Kept(d) = OnDisk /\ Apart(d)
  BY <1>1, <1>2, <1>3, MirrorFacts DEF OnDisk, FilesApart
<1>5. OnDisk' = OnDisk
  BY <1>1 DEF OnDisk
<1>6. ASSUME NEW q \in DOMAIN disk PROVE Echo(q)'
  <2>1. CASE q = p
    BY <1>1, <2>1 DEF Echo
  <2>2. CASE q # p
    <3>1. Tracked(q) /\ Synced(q)
      BY <1>1, <2>2 DEF Resting
    <3>2. Echo(q)
      BY <3>1 DEF Tracked, Synced, Exists, Echo
    <3> QED BY <1>1, <2>2, <3>2 DEF Echo
  <2> QED BY <2>1, <2>2
<1>7. Exporting'
  BY <1>1, <1>2, <1>3, <1>4, <1>6 DEF Exporting
<1>8. Kept(doc') \cup OnDisk' \cup cut' \subseteq used'
  BY <1>1, <1>2, <1>4, <1>5 DEF Turns
<1>9. NoPeerEditLost'
  BY <1>1, <1>2, <1>3, <1>4 DEF NoPeerEditLost
<1> QED BY <1>1, <1>7, <1>8, <1>9 DEF Turns

\* One that finds the two the same.
LEMMA TurnsConfirm ==
  ASSUME TypeOK, Turns, TakingTurns, Resting, NEW p \in Paths, Committed(p, FALSE, base'), ~nudged, ~nudged', Synced(p), doc' = doc, cut' = cut,
         \A q \in Paths : q # p => (q \in DOMAIN base' <=> q \in DOMAIN base),
         \A q \in Paths : (q # p /\ q \in DOMAIN base) => base'[q] = base[q],
         Tracked(p)'
  PROVE  Turns'
<1>1. /\ TakingTurns' /\ running /\ running' /\ ~nudged' /\ UNCHANGED <<saved, disk, used, cut, doc>> /\ p \in events
  BY DEF TakingTurns, Committed
<1>2. \A q \in Paths : Synced(q)
  BY <1>1 DEF Resting
<1>3. \A q \in Paths : Synced(q)'
  BY <1>1, <1>2 DEF Synced, Text, Exists, Named
<1>4. ASSUME NEW q \in Paths PROVE Tracked(q)'
  <2>1. CASE q # p
    <3>1. Tracked(q)
      BY <1>1 DEF Resting
    <3>2. (q \in DOMAIN base' <=> q \in DOMAIN base) /\ (q \in DOMAIN base => base'[q] = base[q])
      BY <2>1
    <3>3. Content(q)' = Content(q) /\ Named(doc', q) = Named(doc, q)
      BY <1>1 DEF Content
    <3> QED BY <1>1, <3>1, <3>2, <3>3 DEF Tracked, Text, Exists
  <2> QED BY <2>1
<1>5. Resting'
  BY <1>1, <1>3, <1>4 DEF Resting, FilesApart, OnDisk
<1>6. Alone(doc') /\ Kept(doc') \cup OnDisk' \cup cut' \subseteq used' /\ NoPeerEditLost'
  BY <1>1 DEF Turns, OnDisk, NoPeerEditLost
<1> QED BY <1>1, <1>5, <1>6 DEF Turns

LEMMA TurnsEdit ==
  ASSUME TypeOK, Turns, TakingTurns, NEW p \in Paths, IngestEdit(p)
  PROVE  Turns'
<1>1. PICK n \in Named(doc, p) :
        /\ p \in DOMAIN disk /\ Retexted(n, NewText(p, n)) /\ (NewText(p, n) = Text(n) => doc' = doc)
        /\ Committed(p, disk[p] # Text(n) /\ disk[p] # OldText(p, n), Put(base, p, BaseAt(doc', n)))
        /\ cut' = cut
  BY EditDoes
<1>2. p \in events /\ running /\ GoodDoc(doc')
  BY <1>1 DEF Committed
<1>3. Resting /\ ~nudged /\ Alone(doc)
  BY <1>2 DEF Turns, Exporting
<1>4. Tracked(p)
  BY <1>2, <1>3 DEF Resting
<1>5. OldText(p, n) = Text(n)
  BY <1>4 DEF OldText, Tracked
<1>6. NewText(p, n) = disk[p]
  BY <1>5 DEF NewText, Merge
<1>7. n \in doc'.live /\ regime.fails = 0
  BY <1>1 DEF Retexted, TakingTurns
<1>8. /\ DOMAIN base' = DOMAIN base \cup {p} /\ base'[p].node = n /\ base'[p].view = doc'.text
      /\ \A q \in DOMAIN base : q # p => base'[q] = base[q]
      /\ Committed(p, disk[p] # Text(n) /\ disk[p] # OldText(p, n), base')
      /\ nudged' = (nudged \/ (disk[p] # Text(n) /\ disk[p] # OldText(p, n)))
  BY <1>1, <1>7, PutsAll DEF Based
<1>9. doc'.text[n] = disk[p]
  BY <1>1, <1>6 DEF Retexted
<1>10. \A m \in Named(doc, p) : m = n
  BY <1>3 DEF Alone, Named
<1>11. CASE disk[p] = Text(n)
  <2>1. doc' = doc /\ Committed(p, FALSE, base') /\ ~nudged'
    BY <1>1, <1>3, <1>6, <1>8, <1>11
  <2>2. Synced(p)
    BY <1>1, <1>10, <1>11 DEF Synced, Exists
  <2>3. Content(p)' = disk[p]
    BY <1>1, <2>1 DEF Content, Committed
  <2>4. Tracked(p)'
    BY <1>1, <1>8, <1>9, <1>10, <2>1, <2>3 DEF Tracked, Text, Exists
  <2>5. /\ \A q \in Paths : q # p => (q \in DOMAIN base' <=> q \in DOMAIN base)
        /\ \A q \in Paths : (q # p /\ q \in DOMAIN base) => base'[q] = base[q]
    BY <1>8
  <2> QED BY <1>1, <1>3, <2>1, <2>2, <2>4, <2>5, TurnsConfirm
<1>12. CASE disk[p] # Text(n)
  <2>1. Committed(p, TRUE, base') /\ nudged'
    BY <1>5, <1>8, <1>12
  <2>2. ~Synced(p)
    BY <1>12 DEF Synced
  <2>3. events = {p} /\ \A q \in Paths : q # p => Synced(q)
    <3>1. events = {p}
      BY <1>3, <2>2 DEF Resting
    <3> QED BY <1>3, <3>1 DEF Resting
  <2>4. Alone(doc')
    BY <1>1, <1>3 DEF Alone, Retexted
  <2>5. ASSUME NEW q \in Paths
        PROVE  (q \in DOMAIN disk <=> Exists(doc', q)) /\ \A m \in Named(doc', q) : disk[q] = doc'.text[m]
    <3>1. Named(doc', q) = Named(doc, q)
      BY <1>1 DEF Retexted
    <3>2. CASE q = p
      BY <1>1, <1>9, <1>10, <3>1, <3>2 DEF Exists
    <3>3. CASE q # p
      <4>1. \A m \in Named(doc, q) : m # n /\ m \in doc.live
        BY <3>3 DEF Named
      <4> QED BY <1>1, <2>3, <3>1, <3>3, <4>1 DEF Synced, Exists, Text, Retexted
    <3> QED BY <3>2, <3>3
  <2>6. Mirrors(disk, doc')
    BY <2>5 DEF Mirrors
  <2>7. DOMAIN base' = DOMAIN disk
    <3>1. \A q \in Paths : q # p => (q \in DOMAIN base <=> q \in DOMAIN disk)
      BY <1>2, <1>3, <2>3 DEF Synced, Tracked, Resting
    <3> QED BY <1>1, <1>8, <3>1 DEF TypeOK
  <2>8. disk[p] = base'[p].view[base'[p].node]
    BY <1>8, <1>9
  <2>9. \A q \in Paths : (q # p /\ q \in DOMAIN disk) => base'[q] = base[q]
    BY <1>8, <2>7
  <2> QED BY <1>1, <1>3, <2>1, <2>3, <2>4, <2>6, <2>7, <2>8, <2>9, TurnsIngest
<1> QED BY <1>11, <1>12

LEMMA TurnsNew ==
  ASSUME TypeOK, Turns, TakingTurns, NEW p \in Paths, IngestNew(p)
  PROVE  Turns'
<1>1. PICK k \in Nat :
        /\ p \in DOMAIN disk /\ ~Exists(doc, p) /\ Added(k, p, disk[p])
        /\ Committed(p, TRUE, Put(base, p, BaseAt(doc', k))) /\ cut' = cut
  BY NewDoes
<1>2. p \in events /\ running /\ GoodDoc(doc')
  BY <1>1 DEF Committed
<1>3. Resting /\ Alone(doc)
  BY <1>2 DEF Turns, Exporting
<1>4. ~Synced(p)
  BY <1>1 DEF Synced
<1>5. events = {p} /\ \A q \in Paths : q # p => Synced(q)
  <2>1. events = {p}
    BY <1>3, <1>4 DEF Resting
  <2> QED BY <1>3, <2>1 DEF Resting
<1>6. k \in doc'.live /\ regime.fails = 0
  BY <1>1 DEF Added, TakingTurns
<1>7. /\ DOMAIN base' = DOMAIN base \cup {p} /\ base'[p].node = k /\ base'[p].view = doc'.text
      /\ \A q \in DOMAIN base : q # p => base'[q] = base[q]
      /\ Committed(p, TRUE, base') /\ nudged'
  BY <1>1, <1>6, PutsAll DEF Based
<1>8. \A q : Named(doc', q) = IF q = p THEN {k} ELSE Named(doc, q)
  BY <1>1 DEF Added, Named, Exists
<1>9. Alone(doc')
  BY <1>1, <1>3 DEF Alone, Added, Exists, Named
<1>10. ASSUME NEW q \in Paths
       PROVE  (q \in DOMAIN disk <=> Exists(doc', q)) /\ \A m \in Named(doc', q) : disk[q] = doc'.text[m]
  <2>1. CASE q = p
    BY <1>1, <1>8, <2>1 DEF Added, Exists
  <2>2. CASE q # p
    <3>1. Named(doc', q) = Named(doc, q)
      BY <1>8, <2>2
    <3>2. \A m \in Named(doc, q) : m \in doc.live
      BY DEF Named
    <3> QED BY <1>1, <1>5, <2>2, <3>1, <3>2 DEF Synced, Exists, Text, Added
  <2> QED BY <2>1, <2>2
<1>11. Mirrors(disk, doc')
  BY <1>10 DEF Mirrors
<1>12. DOMAIN base' = DOMAIN disk
  <2>1. \A q \in Paths : q # p => (q \in DOMAIN base <=> q \in DOMAIN disk)
    BY <1>2, <1>3, <1>5 DEF Synced, Tracked, Resting
  <2> QED BY <1>1, <1>7, <2>1 DEF TypeOK
<1>13. disk[p] = base'[p].view[base'[p].node]
  BY <1>1, <1>7 DEF Added
<1>14. \A q \in Paths : (q # p /\ q \in DOMAIN disk) => base'[q] = base[q]
  BY <1>7, <1>12
<1> QED BY <1>1, <1>3, <1>5, <1>7, <1>9, <1>11, <1>12, <1>13, <1>14, TurnsIngest

LEMMA TurnsMissing ==
  ASSUME TypeOK, Turns, TakingTurns, NEW p \in Paths, IngestMissing(p)
  PROVE  Turns'
<1>0. regime.fails = 0
  BY DEF TakingTurns
<1>1. p \notin DOMAIN disk /\ base' = Drop(base, {p})
  BY <1>0, MissingDoes, CommitsAll
<1>2. p \in events /\ running /\ GoodDoc(doc')
  BY MissingDoes DEF Committed
<1>3. Resting /\ Alone(doc) /\ ~nudged
  BY <1>2 DEF Turns, Exporting
<1>4. Tracked(p)
  BY <1>2, <1>3 DEF Resting
<1>5. DOMAIN base' = DOMAIN base \ {p} /\ \A q \in DOMAIN base : q # p => base'[q] = base[q]
  BY <1>1, DropBase
<1>6. CASE ~Exists(doc, p)
  <2>1. Committed(p, FALSE, Drop(base, {p})) /\ doc' = doc /\ cut' = cut
    BY <1>6, MissingDoes DEF Exists
  <2>0. Committed(p, FALSE, base') /\ ~nudged'
    BY <1>0, <1>3, <2>1, CommitsAll
  <2>2. Synced(p)
    BY <1>1, <1>6 DEF Synced, Exists
  <2>3. Tracked(p)'
    BY <1>5, <1>6, <2>1 DEF Tracked, Exists
  <2>4. /\ \A q \in Paths : q # p => (q \in DOMAIN base' <=> q \in DOMAIN base)
        /\ \A q \in Paths : (q # p /\ q \in DOMAIN base) => base'[q] = base[q]
    BY <1>5
  <2> QED BY <1>3, <2>0, <2>1, <2>2, <2>3, <2>4, TurnsConfirm
<1>7. CASE Exists(doc, p)
  <2>1. PICK n \in Named(doc, p) : /\ Removed(n) /\ Committed(p, TRUE, Drop(base, {p}))
                                   /\ cut' = IF p \in gone THEN cut \cup Text(n) ELSE cut
    BY <1>7, MissingDoes
  <2>0. Committed(p, TRUE, base') /\ nudged'
    BY <1>0, <2>1, CommitsAll
  <2>2. ~Synced(p)
    BY <1>1, <1>7 DEF Synced
  <2>3. events = {p} /\ \A q \in Paths : q # p => Synced(q)
    <3>1. events = {p}
      BY <1>3, <2>2 DEF Resting
    <3> QED BY <1>3, <3>1 DEF Resting
  <2>4. cut' = cut
    <3>1. Text(n) \subseteq cut
      BY <1>1, <1>4 DEF Tracked, Content
    <3> QED BY <2>1, <3>1
  <2>5. Alone(doc')
    BY <1>3, <2>1 DEF Alone, Removed
  <2>6. ASSUME NEW q \in Paths
        PROVE  (q \in DOMAIN disk <=> Exists(doc', q)) /\ \A m \in Named(doc', q) : disk[q] = doc'.text[m]
    <3>1. Named(doc', q) = Named(doc, q) \ {n}
      BY <2>1 DEF Removed
    <3>2. CASE q = p
      <4>1. Named(doc', p) = {}
        BY <1>3, <3>1, <3>2 DEF Alone, Named
      <4> QED BY <1>1, <3>2, <4>1 DEF Exists
    <3>3. CASE q # p
      <4>1. Named(doc', q) = Named(doc, q)
        BY <3>1, <3>3 DEF Named
      <4> QED BY <2>1, <2>3, <3>3, <4>1 DEF Synced, Exists, Text, Removed
    <3> QED BY <3>2, <3>3
  <2>7. Mirrors(disk, doc')
    BY <2>6 DEF Mirrors
  <2>8. DOMAIN base' = DOMAIN disk
    <3>1. \A q \in Paths : q # p => (q \in DOMAIN base <=> q \in DOMAIN disk)
      BY <1>2, <1>3, <2>3 DEF Synced, Tracked, Resting
    <3> QED BY <1>1, <1>5, <3>1 DEF TypeOK
  <2>9. \A q \in Paths : (q # p /\ q \in DOMAIN disk) => base'[q] = base[q]
    BY <1>5, <2>8
  <2> QED BY <1>1, <1>3, <2>0, <2>1, <2>3, <2>4, <2>5, <2>7, <2>8, <2>9, TurnsIngest
<1> QED BY <1>6, <1>7

\* A state in which the files are the document's and so are the bases.
LEMMA TurnsSettled ==
  ASSUME TypeOK', TakingTurns', ~nudged', saved' = doc', Alone(doc'), Mirrors(disk', doc'),
         (running' \/ startup' = "seeded") => \A p \in Paths : p \in DOMAIN base' <=> Exists(doc', p),
         (running' \/ startup' = "seeded") =>
           \A p \in Paths : \A n \in Named(doc', p) : base'[p].node = n /\ base'[p].view[n] = doc'.text[n],
         Apart(doc'), cut' \cap Kept(doc') = {}, used' \ cut' \subseteq Kept(doc'), Kept(doc') \cup cut' \subseteq used'
  PROVE  Turns'
<1>1. PICK d, f : d = doc' /\ f = disk' /\ GoodDoc(d) /\ DOMAIN f \subseteq Paths
  BY DEF TypeOK
<1>2. /\ Kept(d) = UNION {f[p] : p \in DOMAIN f}
      /\ \A p, q \in DOMAIN f : p # q => f[p] \cap f[q] = {}
  BY <1>1, MirrorFacts
<1>3. OnDisk' = Kept(doc') /\ FilesApart'
  BY <1>1, <1>2 DEF OnDisk, FilesApart
<1>4. ASSUME NEW p \in Paths PROVE Synced(p)' /\ (running' \/ startup' = "seeded" => Tracked(p)')
  <2>1. Synced(p)'
    BY DEF Mirrors, Synced, Text
  <2>2. \A n \in Named(doc', p) : Content(p)' = doc'.text[n]
    BY DEF Mirrors, Content, Exists
  <2>3. running' \/ startup' = "seeded" => Tracked(p)'
    BY <2>2 DEF Tracked, Text
  <2> QED BY <2>1, <2>3
<1>5. Resting'
  BY <1>3, <1>4 DEF Resting
<1>6. NoPeerEditLost'
  BY DEF NoPeerEditLost
<1>7. (~running => Quiet)'
  BY DEF TypeOK
<1> QED BY <1>3, <1>5, <1>6, <1>7 DEF Turns

LEMMA TurnsExport ==
  ASSUME TypeOK, TypeOK', Turns, TakingTurns, Export
  PROVE  Turns'
<1>1. Exports
  BY ExportDoes
<1>2. /\ TakingTurns' /\ running' /\ ~nudged' /\ saved' = doc' /\ UNCHANGED <<doc, used, cut>>
  BY <1>1 DEF Exports, TakingTurns
<1>3. Exporting /\ Alone(doc) /\ GoodDoc(doc) /\ Kept(doc) \cup cut \subseteq used
  BY <1>1 DEF Turns, Exports, TypeOK
<1>4. DOMAIN disk \ Stale \subseteq Shown(doc)
  BY <1>3 DEF Exporting, Stale, Shown, TypeOK
<1>5. DOMAIN disk' = Shown(doc) /\ DOMAIN base' = Shown(doc)
  BY <1>1, <1>3, <1>4 DEF Exports, Exporting
<1>6. ASSUME NEW p \in Paths
      PROVE  /\ p \in DOMAIN disk' <=> Exists(doc, p)
             /\ \A n \in Named(doc, p) : disk'[p] = doc.text[n] /\ base'[p].node = n /\ base'[p].view[n] = doc.text[n]
  <2>1. p \in Shown(doc) <=> Exists(doc, p)
    BY DEF Shown
  <2>2. ASSUME NEW n \in Named(doc, p)
        PROVE  disk'[p] = doc.text[n] /\ base'[p].node = n /\ base'[p].view[n] = doc.text[n]
    <3>1. Exists(doc, p) /\ n \in doc.live
      BY DEF Exists, Named
    <3>2. Last(doc, p) = n
      BY <1>3, <3>1, NameFacts
    <3>3. disk'[p] = doc.text[n] /\ base'[p] = BaseAt(doc, n)
      BY <1>1, <2>1, <3>1, <3>2 DEF Exports, Text
    <3> QED BY <1>3, <3>1, <3>3, BaseFacts
  <2> QED BY <1>5, <2>1, <2>2
<1>7. Mirrors(disk', doc')
  BY <1>2, <1>6 DEF Mirrors
<1>8. \A p \in Paths : p \in DOMAIN base' <=> Exists(doc', p)
  BY <1>2, <1>5, <1>6
<1>9. \A p \in Paths : \A n \in Named(doc', p) : base'[p].node = n /\ base'[p].view[n] = doc'.text[n]
  BY <1>2, <1>6
<1>10. /\ Alone(doc') /\ Apart(doc') /\ cut' \cap Kept(doc') = {} /\ used' \ cut' \subseteq Kept(doc')
       /\ Kept(doc') \cup cut' \subseteq used'
  BY <1>2, <1>3 DEF Exporting
<1> QED BY <1>2, <1>7, <1>8, <1>9, <1>10, TurnsSettled

LEMMA TurnsServe ==
  ASSUME TypeOK, TypeOK', Turns, TakingTurns, Serve
  PROVE  Turns'
<1>1. Starts
  BY ServeDoes
<1>2. Quiet
  BY <1>1 DEF Turns, Starts
<1>3. /\ Resting /\ saved = doc /\ Mirrors(disk, doc) /\ Kept(doc) = OnDisk /\ Apart(doc) /\ Alone(doc) /\ GoodDoc(doc)
      /\ Kept(doc) \cup cut \subseteq used
  BY <1>2, AtRest DEF Turns, Resting, TypeOK
<1>4. /\ TakingTurns' /\ ~running' /\ startup' = "bind" /\ ~nudged' /\ saved' = doc' /\ UNCHANGED <<doc, used, cut>>
  BY <1>1, <1>2, <1>3 DEF Starts, TakingTurns, Quiet
<1>5. ASSUME NEW p \in Paths
      PROVE  (p \in DOMAIN disk' <=> Exists(doc, p)) /\ \A n \in Named(doc, p) : disk'[p] = doc.text[n]
  <2>1. p \in Shown(doc) <=> Exists(doc, p)
    BY DEF Shown
  <2>2. ASSUME NEW n \in Named(doc, p) PROVE disk'[p] = doc.text[n]
    <3>1. Exists(doc, p) /\ n \in doc.live
      BY DEF Exists, Named
    <3>2. Last(doc, p) = n
      BY <1>3, <3>1, NameFacts
    <3> QED BY <1>1, <1>3, <2>1, <3>1, <3>2 DEF Starts
  <2>3. p \in DOMAIN disk' <=> Exists(doc, p)
    BY <1>1, <1>3, <2>1 DEF Starts, Mirrors
  <2> QED BY <2>2, <2>3
<1>6. Mirrors(disk', doc')
  BY <1>4, <1>5 DEF Mirrors
<1>9. /\ Alone(doc') /\ Apart(doc') /\ cut' \cap Kept(doc') = {} /\ used' \ cut' \subseteq Kept(doc')
      /\ Kept(doc') \cup cut' \subseteq used'
  BY <1>3, <1>4 DEF Resting
<1> QED BY <1>4, <1>6, <1>9, TurnsSettled

LEMMA TurnsSeed ==
  ASSUME TypeOK, TypeOK', Turns, TakingTurns, Seed
  PROVE  Turns'
<1>1. Seeds
  BY SeedDoes
<1>2. ~running /\ Quiet
  BY <1>1 DEF Seeds, TypeOK
<1>3. /\ Resting /\ saved = doc /\ Mirrors(disk, doc) /\ Kept(doc) = OnDisk /\ Apart(doc) /\ Alone(doc) /\ GoodDoc(doc)
      /\ Kept(doc) \cup cut \subseteq used
  BY <1>2, AtRest DEF Turns, Resting, TypeOK
<1>4. /\ TakingTurns' /\ ~nudged' /\ saved' = doc' /\ UNCHANGED <<doc, disk, used, cut>>
  BY <1>1, <1>2, <1>3 DEF Seeds, TakingTurns, Quiet
<1>5. \A p \in Paths : Agreeing(p) = Named(doc, p)
  BY <1>3 DEF Mirrors, Agreeing, Exists, Text
<1>6. ASSUME NEW p \in Paths
      PROVE  /\ p \in DOMAIN base' <=> Exists(doc, p)
             /\ \A n \in Named(doc, p) : base'[p].node = n /\ base'[p].view[n] = doc.text[n]
  <2>1. p \in DOMAIN base' <=> Exists(doc, p)
    BY <1>1, <1>5 DEF Seeds, Exists
  <2>2. ASSUME NEW n \in Named(doc, p) PROVE base'[p].node = n /\ base'[p].view[n] = doc.text[n]
    <3>1. p \in DOMAIN base' /\ n \in doc.live /\ \A m \in Named(doc, p) : m = n
      BY <1>3, <2>1 DEF Exists, Named, Alone
    <3>2. base'[p] = BaseAt(doc, n)
      BY <1>1, <1>5, <3>1 DEF Seeds
    <3> QED BY <1>3, <3>1, <3>2, BaseFacts
  <2> QED BY <2>1, <2>2
<1>7. Mirrors(disk', doc')
  BY <1>3, <1>4
<1>8. \A p \in Paths : p \in DOMAIN base' <=> Exists(doc', p)
  BY <1>4, <1>6
<1>9. \A p \in Paths : \A n \in Named(doc', p) : base'[p].node = n /\ base'[p].view[n] = doc'.text[n]
  BY <1>4, <1>6
<1>10. /\ Alone(doc') /\ Apart(doc') /\ cut' \cap Kept(doc') = {} /\ used' \ cut' \subseteq Kept(doc')
       /\ Kept(doc') \cup cut' \subseteq used'
  BY <1>3, <1>4 DEF Resting
<1> QED BY <1>4, <1>7, <1>8, <1>9, <1>10, TurnsSettled

LEMMA TurnsWatch ==
  ASSUME TypeOK, Turns, TakingTurns, Watch
  PROVE  Turns'
<1>1. /\ startup = "seeded" /\ running' /\ TakingTurns' /\ ~running /\ Quiet
      /\ UNCHANGED <<regime, doc, saved, disk, base, events, nudged, used, cut>>
  BY WatchDoes DEF Watches, TypeOK, TakingTurns
<1>2. Resting /\ (\A p \in Paths : Synced(p)) /\ \A p \in Paths : Tracked(p)
  BY <1>1 DEF Turns, Resting, Quiet
<1>3. \A p \in Paths : Synced(p)' /\ Tracked(p)'
  BY <1>1, <1>2 DEF Synced, Tracked, Content, Text
<1>4. Resting'
  BY <1>1, <1>2, <1>3 DEF Resting, FilesApart, OnDisk
<1> QED BY <1>1, <1>4 DEF Turns, Quiet, OnDisk, NoPeerEditLost

LEMMA TurnsStop ==
  ASSUME TypeOK, Turns, TakingTurns, Stop
  PROVE  Turns'
<1>1. /\ Quiet /\ TakingTurns' /\ ~running' /\ startup' = "none" /\ events' = {} /\ ~nudged'
      /\ UNCHANGED <<doc, saved, disk, used, cut>>
  BY StopDoes DEF Stops, TakingTurns
<1>2. Resting /\ \A p \in Paths : Synced(p)
  <2>1. Resting
    BY <1>1, AtRest
  <2> QED BY <1>1, <2>1 DEF Resting, Quiet
<1>3. \A p \in Paths : Synced(p)'
  BY <1>1, <1>2 DEF Synced, Text
<1>4. Resting'
  BY <1>1, <1>2, <1>3 DEF Resting, FilesApart, OnDisk
<1> QED BY <1>1, <1>4 DEF Turns, Quiet, OnDisk, NoPeerEditLost

LEMMA RegimeFixed ==
  ASSUME [Next]_vars
  PROVE  regime' = regime
<1>1. CASE UNCHANGED vars
  BY <1>1 DEF vars
<1>2. CASE Next
  BY <1>2 DEF Next, UserWrites, UserTrims, UserDeletes, UserActs, PeerCreates, PeerEditsNode, PeerDeletes,
              PeerRenames, PeerActs, IngestEdit, IngestNew, IngestEcho, IngestMissing, Commits, BatchDropped, Export,
              ExportFails, Stop, Serve, Seed, Watch
<1> QED BY <1>1, <1>2

LEMMA TurnsNext ==
  ASSUME TypeOK, TypeOK', Turns, [Next]_vars
  PROVE  Turns'
<1>0. TakingTurns' => TakingTurns
  BY RegimeFixed DEF TakingTurns
<1> SUFFICES ASSUME TakingTurns PROVE Turns'
  BY <1>0 DEF Turns
<1>1. CASE UNCHANGED vars
  BY <1>1 DEF vars, tasks, history, Turns, TakingTurns, Quiet, Exporting, Resting, FilesApart, OnDisk, Synced, Tracked, Content,
              Text, NoPeerEditLost, Echo
<1>2. ASSUME NEW p \in Paths,
             (\E e \in UserEdits : UserWrites(p, e)) \/ (\E e \in Edits : UserTrims(p, e)) \/ UserDeletes(p)
      PROVE  Turns'
  BY <1>2, TurnsUser
<1>3. ASSUME \/ \E p \in Paths, e \in PeerEdits, i \in 0..MaxNodes : PeerCreates(p, e, i)
             \/ \E n \in Nodes, e \in PeerEdits : PeerEditsNode(n, e)
             \/ \E n \in Nodes : PeerDeletes(n)
             \/ \E n \in Nodes, p \in Paths : PeerRenames(n, p)
      PROVE  Turns'
  BY <1>3, TurnsPeer
<1>4. ASSUME NEW p \in Paths, IngestEdit(p) PROVE Turns'
  BY <1>4, TurnsEdit
<1>5. ASSUME NEW p \in Paths, IngestNew(p) PROVE Turns'
  BY <1>5, TurnsNew
<1>6. ASSUME NEW p \in Paths, IngestEcho(p) PROVE Turns'
  <2>1. ~Exists(doc, p) /\ p \in DOMAIN base /\ p \in events /\ running
    BY <1>6, EchoDoes DEF Echo, Committed
  <2>2. Tracked(p)
    BY <2>1 DEF Turns, Exporting, Resting
  <2> QED BY <2>1, <2>2 DEF Tracked
<1>7. ASSUME NEW p \in Paths, IngestMissing(p) PROVE Turns'
  BY <1>7, TurnsMissing
<1>8. CASE Export
  BY <1>8, TurnsExport
<1>9. CASE ExportFails
  BY <1>9 DEF ExportFails, TakingTurns, TypeOK
<1>10. CASE Stop
  BY <1>10, TurnsStop
<1>11. CASE Serve
  BY <1>11, TurnsServe
<1>12. CASE Seed
  BY <1>12, TurnsSeed
<1>13. CASE Watch
  BY <1>13, TurnsWatch
<1>14. ASSUME NEW p \in Paths, BatchDropped(p) PROVE Turns'
  BY <1>14 DEF BatchDropped, TakingTurns, TypeOK
<1> QED BY <1>1, <1>2, <1>3, <1>4, <1>5, <1>6, <1>7, <1>8, <1>9, <1>10, <1>11, <1>12, <1>13,
           <1>14 DEF Next

LEMMA TurnsHold == Spec => [](TypeOK /\ Turns)
<1>1. Init => Turns
  <2> SUFFICES ASSUME Init PROVE Turns
    OBVIOUS
  <2>1. DOMAIN <<>> = {}
    OBVIOUS
  <2>2. OnDisk = {} /\ Kept(doc) = {} /\ \A p : Named(doc, p) = {}
    BY <2>1 DEF Init, OnDisk, Kept, Named
  <2>3. \A p \in Paths : Synced(p) /\ Tracked(p)
    BY <2>1, <2>2 DEF Init, Synced, Tracked, Exists
  <2>4. Resting /\ Alone(doc) /\ NoPeerEditLost
    BY <2>1, <2>2, <2>3 DEF Resting, Init, FilesApart, Alone, NoPeerEditLost
  <2> QED BY <2>2, <2>4 DEF Turns, Init
<1>2. TypeOK /\ TypeOK' /\ Turns /\ [Next]_vars => Turns'
  BY TurnsNext
<1> QED BY <1>1, <1>2, TypeCorrect, PTL DEF Spec

\* When everybody takes turns the files and the document are the same at rest,
\* and nothing that was removed is in either.
THEOREM AgreesWhenQuiet == Spec => []AgreeWhenQuiet
<1>1. ASSUME TypeOK, Turns, TakingTurns, running, Quiet
      PROVE  disk = Written /\ cut \cap (Kept(doc) \cup OnDisk) = {}
  <2>1. Resting /\ Mirrors(disk, doc) /\ Kept(doc) = OnDisk
    BY <1>1, AtRest
  <2>2. GoodDoc(doc) /\ DOMAIN disk \subseteq Paths /\ disk \in [DOMAIN disk -> SUBSET Edits]
    BY <1>1 DEF TypeOK
  <2>3. DOMAIN disk = Shown(doc)
    BY <2>1, <2>2 DEF Mirrors, Shown
  <2>4. \A p \in Shown(doc) : disk[p] = Text(Last(doc, p))
    <3>1. ASSUME NEW p \in Shown(doc) PROVE disk[p] = Text(Last(doc, p))
      <4>1. p \in Paths /\ Last(doc, p) \in Named(doc, p)
        BY <2>2, NameFacts DEF Shown
      <4> QED BY <2>1, <4>1 DEF Mirrors, Text
    <3> QED BY <3>1
  <2>5. disk = Written
    BY <2>2, <2>3, <2>4 DEF Written
  <2> QED BY <2>1, <2>5 DEF Resting
<1>2. TypeOK /\ Turns => AgreeWhenQuiet
  BY <1>1 DEF AgreeWhenQuiet
<1> QED BY <1>2, TurnsHold, PTL

-----------------------------------------------------------------------------
(* A careful user. *)

\* A path that a step does not touch.
LEMMA CarefulKept ==
  ASSUME NEW q \in Paths, Careful(q), base'[q] = base[q], Named(doc', q) = Named(doc, q),
         ~nudged' => ~nudged, \A n \in Named(doc, q) : ~nudged' => doc'.text[n] = doc.text[n],
         q \in DOMAIN disk' => (q \in DOMAIN disk /\ disk'[q] = disk[q]), q \in events' => q \in events, cut \subseteq cut'
  PROVE  Careful(q)'
<1>1. PICK n \in Named(doc, q) :
        /\ base[q].node = n /\ n \in DOMAIN base[q].view
        /\ ~nudged => Text(n) \cap PeerEdits \subseteq base[q].view[n]
        /\ q \in DOMAIN disk /\ (q \in events \/ ~nudged)
             => (base[q].view[n] \cap PeerEdits) \ disk[q] \subseteq cut
  BY DEF Careful
<1>2. ~nudged' => doc'.text[n] \cap PeerEdits \subseteq base'[q].view[n]
  BY <1>1 DEF Text
<1>3. q \in DOMAIN disk' /\ (q \in events' \/ ~nudged') => (base'[q].view[n] \cap PeerEdits) \ disk'[q] \subseteq cut'
  BY <1>1
<1>4. n \in Named(doc', q) /\ base'[q].node = n /\ n \in DOMAIN base'[q].view
  BY <1>1
<1> QED BY <1>2, <1>3, <1>4 DEF Careful, Text

LEMMA CareLocal ==
  ASSUME TypeOK, Care, CarefulUser, NEW p \in Paths, Local(p),
         \A q \in Paths : q # p => (q \in DOMAIN disk' <=> q \in DOMAIN disk),
         \A q \in DOMAIN disk : q # p => disk'[q] = disk[q], DOMAIN disk' \subseteq Paths,
         p \in DOMAIN disk' => (p \in DOMAIN disk \/ ~Exists(doc, p)),
         (p \in DOMAIN disk' /\ p \in DOMAIN disk) => disk[p] \ disk'[p] \subseteq cut',
         cut \subseteq cut', gone \ {p} \subseteq gone', p \in DOMAIN disk' \cup gone',
         (used' \cap PeerEdits) \ cut' \subseteq (used \cap PeerEdits) \ cut
  PROVE  Care'
<1>1. /\ running /\ running' /\ UNCHANGED <<doc, base, nudged>> /\ events' = events \cup {p}
  BY DEF Local, Care
<1>2. ~nudged \/ Honest(p)
  BY DEF Local, CarefulUser, Quiet
<1>3. ASSUME NEW q \in DOMAIN base' PROVE Careful(q)'
  <2>1. q \in Paths /\ Careful(q)
    BY <1>1 DEF Care, TypeOK
  <2>2. CASE q # p
    <3>1. q \in DOMAIN disk' => (q \in DOMAIN disk /\ disk'[q] = disk[q])
      BY <2>1, <2>2
    <3> QED BY <1>1, <2>1, <2>2, <3>1, CarefulKept
  <2>3. CASE q = p
    <3>1. PICK n \in Named(doc, p) :
            /\ base[p].node = n /\ n \in DOMAIN base[p].view
            /\ ~nudged => Text(n) \cap PeerEdits \subseteq base[p].view[n]
            /\ p \in DOMAIN disk /\ (p \in events \/ ~nudged)
                 => (base[p].view[n] \cap PeerEdits) \ disk[p] \subseteq cut
      BY <2>1, <2>3 DEF Careful
    <3>2. ASSUME p \in DOMAIN disk' PROVE (base[p].view[n] \cap PeerEdits) \ disk'[p] \subseteq cut'
      <4>1. p \in DOMAIN disk
        BY <3>1, <3>2 DEF Exists
      <4>2. (base[p].view[n] \cap PeerEdits) \ disk[p] \subseteq cut
        BY <1>2, <3>1, <4>1 DEF Honest, Echo
      <4>3. disk[p] \ disk'[p] \subseteq cut'
        BY <3>2, <4>1
      <4> QED BY <4>2, <4>3
    <3>3. ~nudged' => doc'.text[n] \cap PeerEdits \subseteq base'[p].view[n]
      BY <1>1, <3>1 DEF Text
    <3>4. base'[p].node = n /\ n \in DOMAIN base'[p].view /\ n \in Named(doc', p)
      BY <1>1, <3>1
    <3>5. p \in DOMAIN disk' /\ (p \in events' \/ ~nudged') => (base'[p].view[n] \cap PeerEdits) \ disk'[p] \subseteq cut'
      BY <1>1, <3>2
    <3> QED BY <2>3, <3>3, <3>4, <3>5 DEF Careful, Text
  <2> QED BY <2>2, <2>3
<1>4. ASSUME NEW q \in DOMAIN disk' PROVE q \in DOMAIN base' \/ ~Exists(doc', q)
  BY <1>1 DEF Care
<1>5. events' \subseteq DOMAIN disk' \cup gone'
  <2>1. ASSUME NEW q \in events', q # p PROVE q \in DOMAIN disk' \cup gone'
    <3>1. q \in DOMAIN disk \cup gone /\ q \in Paths
      BY <1>1, <2>1 DEF Care, TypeOK
    <3> QED BY <2>1, <3>1
  <2> QED BY <2>1
<1>6. NoPeerEditLost' /\ Alone(doc')
  BY <1>1 DEF Care, NoPeerEditLost
<1> QED BY <1>1, <1>3, <1>4, <1>5, <1>6 DEF Care

LEMMA CareUser ==
  ASSUME TypeOK, Care, CarefulUser, NEW p \in Paths,
         (\E e \in UserEdits : UserWrites(p, e)) \/ (\E e \in Edits : UserTrims(p, e)) \/ UserDeletes(p)
  PROVE  Care'
<1>1. DOMAIN disk \subseteq Paths
  BY DEF TypeOK
<1>2. ASSUME NEW e \in UserEdits, UserWrites(p, e) PROVE Care'
  <2>1. /\ Local(p) /\ used' = used \cup {e} /\ cut' = cut /\ (p \in DOMAIN disk \/ Free(p)) /\ gone' = gone \ {p}
        /\ DOMAIN disk' = DOMAIN disk \cup {p} /\ disk'[p] = {e} \cup Content(p)
        /\ \A q \in DOMAIN disk : q # p => disk'[q] = disk[q]
    BY <1>2, WritesDoes DEF CarefulUser
  <2>2. e \notin PeerEdits
    BY EditsAssumption
  <2>3. p \in DOMAIN disk \/ ~Exists(doc, p)
    BY <2>1 DEF Free
  <2>4. p \in DOMAIN disk => disk[p] \ disk'[p] \subseteq cut'
    BY <2>1 DEF Content
  <2>5. \A q \in Paths : q # p => (q \in DOMAIN disk' <=> q \in DOMAIN disk)
    BY <2>1
  <2>6. /\ DOMAIN disk' \subseteq Paths /\ cut \subseteq cut' /\ gone \ {p} \subseteq gone' /\ p \in DOMAIN disk' \cup gone'
        /\ (used' \cap PeerEdits) \ cut' \subseteq (used \cap PeerEdits) \ cut
    BY <1>1, <2>1, <2>2
  <2> QED BY <2>1, <2>3, <2>4, <2>5, <2>6, CareLocal
<1>3. ASSUME NEW e \in Edits, UserTrims(p, e) PROVE Care'
  <2>1. /\ Local(p) /\ used' = used /\ cut' = cut \cup {e} /\ gone' = gone /\ p \in DOMAIN disk
        /\ DOMAIN disk' = DOMAIN disk /\ disk'[p] = disk[p] \ {e}
        /\ \A q \in DOMAIN disk : q # p => disk'[q] = disk[q]
    BY <1>3, TrimsDoes
  <2>2. \A q \in Paths : q # p => (q \in DOMAIN disk' <=> q \in DOMAIN disk)
    BY <2>1
  <2>3. /\ DOMAIN disk' \subseteq Paths /\ cut \subseteq cut' /\ gone \ {p} \subseteq gone' /\ p \in DOMAIN disk' \cup gone'
        /\ (used' \cap PeerEdits) \ cut' \subseteq (used \cap PeerEdits) \ cut /\ disk[p] \ disk'[p] \subseteq cut'
    BY <1>1, <2>1
  <2> QED BY <2>1, <2>2, <2>3, CareLocal
<1>4. ASSUME UserDeletes(p) PROVE Care'
  <2>1. /\ Local(p) /\ used' = used /\ cut' = cut \cup disk[p] /\ gone' = gone \cup {p}
        /\ DOMAIN disk' = DOMAIN disk \ {p} /\ \A q \in DOMAIN disk : q # p => disk'[q] = disk[q]
    BY <1>4, DeletesDoes
  <2>2. \A q \in Paths : q # p => (q \in DOMAIN disk' <=> q \in DOMAIN disk)
    BY <2>1
  <2>3. /\ DOMAIN disk' \subseteq Paths /\ cut \subseteq cut' /\ gone \ {p} \subseteq gone' /\ p \in DOMAIN disk' \cup gone'
        /\ (used' \cap PeerEdits) \ cut' \subseteq (used \cap PeerEdits) \ cut /\ p \notin DOMAIN disk'
    BY <1>1, <2>1
  <2> QED BY <2>1, <2>2, <2>3, CareLocal
<1> QED BY <1>2, <1>3, <1>4

LEMMA CareImport ==
  ASSUME TypeOK, Care, CarefulUser, Imports, NEW e, used' = used \cup {e}, cut' = cut, Kept(doc) \cup {e} \subseteq Kept(doc'),
         Alone(doc'), \A q \in DOMAIN base \cup DOMAIN disk : Named(doc', q) = Named(doc, q)
  PROVE  Care'
<1>1. running /\ running' /\ nudged' = TRUE /\ UNCHANGED <<disk, base, events, gone>>
  BY DEF Imports
<1>2. ASSUME NEW q \in DOMAIN base' PROVE Careful(q)'
  <2>1. q \in Paths /\ Careful(q) /\ q \in DOMAIN base /\ Named(doc', q) = Named(doc, q)
    BY <1>1 DEF Care, TypeOK
  <2> QED BY <1>1, <2>1, CarefulKept
<1>3. ASSUME NEW q \in DOMAIN disk' PROVE q \in DOMAIN base' \/ ~Exists(doc', q)
  BY <1>1 DEF Care, Exists
<1>4. NoPeerEditLost'
  BY DEF Care, NoPeerEditLost
<1> QED BY <1>1, <1>2, <1>3, <1>4 DEF Care

LEMMA CarePeer ==
  ASSUME TypeOK, Care, CarefulUser,
         \/ \E p \in Paths, e \in PeerEdits, i \in 0..MaxNodes : PeerCreates(p, e, i)
         \/ \E n \in Nodes, e \in PeerEdits : PeerEditsNode(n, e)
         \/ \E n \in Nodes : PeerDeletes(n)
         \/ \E n \in Nodes, p \in Paths : PeerRenames(n, p)
  PROVE  Care'
<1>1. Imports /\ GoodDoc(doc) /\ GoodDoc(doc')
  BY PeerCreatesDoes, PeerEditsDoes, PeerDeletesDoes, PeerRenamesDoes DEF Imports, TypeOK
<1>2. \A x : x \in Kept(doc) <=> \E n \in doc.live : x \in doc.text[n]
  BY <1>1, KeptFacts
<1>3. \A x : x \in Kept(doc') <=> \E n \in doc'.live : x \in doc'.text[n]
  BY <1>1, KeptNext
<1>4. Alone(doc)
  BY DEF Care
<1>5. ASSUME NEW p \in Paths, NEW e \in PeerEdits, NEW i \in 0..MaxNodes, PeerCreates(p, e, i) PROVE Care'
  <2>1. PICK k \in Nat : used' = used \cup {e} /\ Free(p) /\ Added(k, p, {e}) /\ cut' = cut
    BY <1>5, PeerCreatesDoes DEF CarefulUser
  <2>2. \A m \in doc.live : doc.name[m] # p
    BY <2>1 DEF Free, Exists, Named
  <2>3. Alone(doc')
    BY <1>4, <2>1, <2>2 DEF Alone, Added
  <2>4. Kept(doc) \cup {e} \subseteq Kept(doc')
    BY <1>2, <1>3, <2>1 DEF Added
  <2>5. \A q : q # p => Named(doc', q) = Named(doc, q)
    BY <2>1 DEF Added, Named
  <2>6. p \notin DOMAIN base /\ p \notin DOMAIN disk
    BY <2>1 DEF Care, Careful, Free, Exists
  <2>7. \A q \in DOMAIN base \cup DOMAIN disk : Named(doc', q) = Named(doc, q)
    BY <2>5, <2>6
  <2> QED BY <1>1, <2>1, <2>3, <2>4, <2>7, CareImport
<1>6. ASSUME NEW n \in Nodes, NEW e \in PeerEdits, PeerEditsNode(n, e) PROVE Care'
  <2>1. used' = used \cup {e} /\ Retexted(n, Text(n) \cup {e}) /\ cut' = cut
    BY <1>6, PeerEditsDoes
  <2>2. Alone(doc')
    BY <1>4, <2>1 DEF Alone, Retexted
  <2>3. Kept(doc) \cup {e} \subseteq Kept(doc')
    <3>1. ASSUME NEW x \in Kept(doc) PROVE x \in Kept(doc')
      BY <1>2, <1>3, <2>1 DEF Retexted, Text
    <3>2. e \in Kept(doc')
      BY <1>3, <2>1 DEF Retexted
    <3> QED BY <3>1, <3>2
  <2>4. \A q \in DOMAIN base \cup DOMAIN disk : Named(doc', q) = Named(doc, q)
    BY <2>1 DEF Retexted, TypeOK
  <2> QED BY <1>1, <2>1, <2>2, <2>3, <2>4, CareImport
<1>7. ASSUME NEW n \in Nodes, PeerDeletes(n) PROVE FALSE
  BY <1>7 DEF PeerDeletes, CarefulUser, TypeOK
<1>8. ASSUME NEW n \in Nodes, NEW p \in Paths, PeerRenames(n, p) PROVE FALSE
  BY <1>8 DEF PeerRenames, CarefulUser, TypeOK
<1> QED BY <1>5, <1>6, <1>7, <1>8

\* An ingest of path p: what it leaves of p, and that it leaves the other nodes.
LEMMA CareCommit ==
  ASSUME TypeOK, Care, CarefulUser, NEW p \in Paths, NEW moved \in BOOLEAN, Committed(p, moved, base'), cut \subseteq cut',
         Alone(doc'), NoPeerEditLost', DOMAIN base \ {p} = DOMAIN base' \ {p},
         \A q \in DOMAIN base : q # p => base'[q] = base[q],
         \A q \in Paths : q # p => Named(doc', q) = Named(doc, q),
         \A q \in Paths : \A n \in Named(doc, q) : q # p => doc'.text[n] = doc.text[n],
         p \in DOMAIN base' => Careful(p)', (p \in DOMAIN disk /\ Exists(doc', p)) => p \in DOMAIN base'
  PROVE  Care'
<1>0. nudged' = (nudged \/ moved)
  BY CommitsAll DEF CarefulUser
<1>1. /\ running /\ running' /\ (~nudged' => ~nudged) /\ UNCHANGED <<disk, gone>> /\ events' \subseteq events
  BY <1>0 DEF Committed
<1>2. ASSUME NEW q \in DOMAIN base' PROVE Careful(q)'
  <2>1. CASE q # p
    <3>1. q \in DOMAIN base /\ q \in Paths /\ Careful(q)
      BY <2>1 DEF Care, TypeOK
    <3>2. base'[q] = base[q] /\ Named(doc', q) = Named(doc, q) /\ \A n \in Named(doc, q) : doc'.text[n] = doc.text[n]
      BY <2>1, <3>1
    <3> QED BY <1>1, <3>1, <3>2, CarefulKept
  <2> QED BY <2>1
<1>3. ASSUME NEW q \in DOMAIN disk' PROVE q \in DOMAIN base' \/ ~Exists(doc', q)
  <2>1. CASE q # p
    <3>1. q \in Paths /\ q \in DOMAIN disk
      BY <1>1 DEF TypeOK
    <3>2. q \in DOMAIN base \/ ~Exists(doc, q)
      BY <3>1 DEF Care
    <3>3. Named(doc', q) = Named(doc, q)
      BY <2>1, <3>1
    <3> QED BY <2>1, <3>2, <3>3 DEF Exists
  <2> QED BY <1>1, <2>1
<1>4. events' \subseteq DOMAIN disk' \cup gone'
  BY <1>1 DEF Care
<1> QED BY <1>1, <1>2, <1>3, <1>4 DEF Care

LEMMA CareEdit ==
  ASSUME TypeOK, Care, CarefulUser, NEW p \in Paths, IngestEdit(p)
  PROVE  Care'
<1>1. PICK n \in Named(doc, p) :
        /\ p \in DOMAIN disk /\ Retexted(n, NewText(p, n))
        /\ Committed(p, disk[p] # Text(n) /\ disk[p] # OldText(p, n), Put(base, p, BaseAt(doc', n)))
        /\ cut' = cut
  BY EditDoes
<1>0. n \in doc'.live /\ regime.fails = 0
  BY <1>1 DEF Retexted, CarefulUser
<1>6. /\ Committed(p, disk[p] # Text(n) /\ disk[p] # OldText(p, n), base') /\ Based(base', p, doc', n)
      /\ nudged' = (nudged \/ (disk[p] # Text(n) /\ disk[p] # OldText(p, n)))
  BY <1>0, <1>1, PutsAll
<1>2. p \in events /\ p \notin events' /\ GoodDoc(doc') /\ GoodDoc(doc) /\ UNCHANGED <<disk, used>>
  BY <1>1 DEF Committed, TypeOK
<1>3. p \in DOMAIN base /\ Alone(doc)
  BY <1>1 DEF Care, Exists
<1>4. \A m \in Named(doc, p) : m = n
  BY <1>3 DEF Alone, Named
<1>5. /\ n \in DOMAIN base[p].view /\ OldText(p, n) = base[p].view[n]
      /\ ~nudged => Text(n) \cap PeerEdits \subseteq base[p].view[n]
      /\ (base[p].view[n] \cap PeerEdits) \ disk[p] \subseteq cut
  BY <1>1, <1>2, <1>3, <1>4 DEF Care, Careful, OldText
<1>7. /\ DOMAIN base' = DOMAIN base \cup {p} /\ base'[p].node = n /\ base'[p].view = doc'.text /\ n \in DOMAIN doc'.text
      /\ \A q \in DOMAIN base : q # p => base'[q] = base[q]
  BY <1>6 DEF Based
<1>8. doc'.text[n] = NewText(p, n) /\ \A m \in doc.live : m # n => doc'.text[m] = doc.text[m]
  BY <1>1 DEF Retexted
<1>9. (Text(n) \cap PeerEdits) \ cut \subseteq NewText(p, n)
  BY <1>5 DEF NewText, Merge
<1>10. NoPeerEditLost'
  <2>1. ASSUME NEW e \in (used \cap PeerEdits) \ cut PROVE e \in Kept(doc')
    <3>1. e \in Kept(doc)
      BY DEF Care, NoPeerEditLost
    <3>2. PICK m \in doc.live : e \in doc.text[m]
      BY <1>2, <3>1, KeptFacts
    <3>3. e \in doc'.text[m] /\ m \in doc'.live
      BY <1>1, <1>8, <1>9, <3>2 DEF Retexted, Text
    <3> QED BY <1>2, <3>3, KeptNext
  <2> QED BY <1>1, <1>2, <2>1 DEF NoPeerEditLost
<1>11. Careful(p)'
  <2>1. ASSUME ~nudged' PROVE (doc'.text[n] \cap PeerEdits) \ disk[p] \subseteq cut
    <3>1. ~nudged /\ (disk[p] = Text(n) \/ disk[p] = base[p].view[n])
      BY <1>5, <1>6, <2>1
    <3>2. NewText(p, n) = Text(n)
      BY <1>5, <3>1 DEF NewText, Merge
    <3> QED BY <1>5, <1>8, <3>1, <3>2
  <2>2. n \in Named(doc', p)
    BY <1>1 DEF Retexted
  <2> QED BY <1>1, <1>2, <1>7, <2>1, <2>2 DEF Careful, Text
<1>12. Alone(doc')
  BY <1>1, <1>3 DEF Alone, Retexted
<1>13. /\ \A q \in Paths : q # p => Named(doc', q) = Named(doc, q)
       /\ \A q \in Paths : \A m \in Named(doc, q) : q # p => doc'.text[m] = doc.text[m]
  <2>1. \A q \in Paths : q # p => Named(doc', q) = Named(doc, q)
    BY <1>1 DEF Retexted
  <2>2. ASSUME NEW q \in Paths, NEW m \in Named(doc, q), q # p PROVE doc'.text[m] = doc.text[m]
    <3>1. m \in doc.live /\ m # n
      BY <2>2 DEF Named
    <3> QED BY <1>8, <3>1
  <2> QED BY <2>1, <2>2
<1>14. DOMAIN base \ {p} = DOMAIN base' \ {p} /\ p \in DOMAIN base'
  BY <1>7
<1>15. PICK moved \in BOOLEAN : Committed(p, moved, base')
  BY <1>6
<1> QED BY <1>1, <1>7, <1>10, <1>11, <1>12, <1>13, <1>14, <1>15, CareCommit

LEMMA CareNew ==
  ASSUME TypeOK, Care, CarefulUser, NEW p \in Paths, IngestNew(p)
  PROVE  Care'
<1>1. PICK k \in Nat :
        /\ p \in DOMAIN disk /\ ~Exists(doc, p) /\ Added(k, p, disk[p])
        /\ Committed(p, TRUE, Put(base, p, BaseAt(doc', k))) /\ cut' = cut
  BY NewDoes
<1>0. k \in doc'.live /\ regime.fails = 0
  BY <1>1 DEF Added, CarefulUser
<1>4. Committed(p, TRUE, base') /\ nudged' /\ Based(base', p, doc', k)
  BY <1>0, <1>1, PutsAll
<1>2. p \notin events' /\ GoodDoc(doc') /\ GoodDoc(doc) /\ UNCHANGED <<disk, used>>
  BY <1>1 DEF Committed, TypeOK
<1>3. Alone(doc)
  BY DEF Care
<1>5. /\ DOMAIN base' = DOMAIN base \cup {p} /\ base'[p].node = k /\ base'[p].view = doc'.text /\ k \in DOMAIN doc'.text
      /\ \A q \in DOMAIN base : q # p => base'[q] = base[q]
  BY <1>4 DEF Based
<1>6. Alone(doc') /\ \A q \in Paths : q # p => Named(doc', q) = Named(doc, q)
  BY <1>1, <1>3 DEF Alone, Added, Exists, Named
<1>7. NoPeerEditLost'
  <2>1. ASSUME NEW e \in (used \cap PeerEdits) \ cut PROVE e \in Kept(doc')
    <3>1. PICK m \in doc.live : e \in doc.text[m]
      BY <1>2, KeptFacts DEF Care, NoPeerEditLost
    <3>2. e \in doc'.text[m] /\ m \in doc'.live
      BY <1>1, <3>1 DEF Added
    <3> QED BY <1>2, <3>2, KeptNext
  <2> QED BY <1>1, <1>2, <2>1 DEF NoPeerEditLost
<1>8. Careful(p)'
  <2>1. k \in Named(doc', p)
    BY <1>1 DEF Named, Added
  <2> QED BY <1>2, <1>4, <1>5, <2>1 DEF Careful
<1>9. \A q \in Paths : \A m \in Named(doc, q) : q # p => doc'.text[m] = doc.text[m]
  BY <1>1 DEF Added, Named
<1>10. DOMAIN base \ {p} = DOMAIN base' \ {p} /\ p \in DOMAIN base'
  BY <1>5
<1> QED BY <1>1, <1>4, <1>5, <1>6, <1>7, <1>8, <1>9, <1>10, CareCommit

LEMMA CareMissing ==
  ASSUME TypeOK, Care, CarefulUser, NEW p \in Paths, IngestMissing(p)
  PROVE  Care'
<1>0. regime.fails = 0
  BY DEF CarefulUser
<1>1. p \notin DOMAIN disk /\ base' = Drop(base, {p})
  BY <1>0, MissingDoes, CommitsAll
<1>2. p \in events /\ GoodDoc(doc') /\ GoodDoc(doc) /\ UNCHANGED <<disk, used>>
  BY MissingDoes DEF Committed, TypeOK
<1>3. DOMAIN base' = DOMAIN base \ {p} /\ \A q \in DOMAIN base : q # p => base'[q] = base[q]
  BY <1>1, DropBase
<1>4. DOMAIN base \ {p} = DOMAIN base' \ {p} /\ p \notin DOMAIN base'
  BY <1>3
<1>5. p \in gone /\ Alone(doc)
  BY <1>1, <1>2 DEF Care
<1>6. CASE ~Exists(doc, p)
  <2>1. Committed(p, FALSE, base') /\ doc' = doc /\ cut' = cut
    BY <1>0, <1>6, MissingDoes, CommitsAll DEF Exists
  <2>2. Alone(doc') /\ NoPeerEditLost'
    BY <1>2, <1>5, <2>1 DEF Care, NoPeerEditLost
  <2>3. /\ \A q \in Paths : q # p => Named(doc', q) = Named(doc, q)
        /\ \A q \in Paths : \A m \in Named(doc, q) : q # p => doc'.text[m] = doc.text[m]
    BY <2>1
  <2> QED BY <1>1, <1>3, <1>4, <2>1, <2>2, <2>3, CareCommit
<1>7. CASE Exists(doc, p)
  <2>1. PICK n \in Named(doc, p) : Removed(n) /\ Committed(p, TRUE, base') /\ cut' = cut \cup Text(n)
    BY <1>0, <1>5, <1>7, MissingDoes, CommitsAll
  <2>2. Alone(doc')
    BY <1>5, <2>1 DEF Alone, Removed
  <2>3. NoPeerEditLost'
    <3>1. ASSUME NEW e \in (used \cap PeerEdits) \ cut' PROVE e \in Kept(doc')
      <4>1. PICK m \in doc.live : e \in doc.text[m]
        BY <1>2, <2>1, KeptFacts DEF Care, NoPeerEditLost
      <4>2. e \in doc'.text[m] /\ m \in doc'.live
        BY <2>1, <4>1 DEF Removed, Text
      <4> QED BY <1>2, <4>2, KeptNext
    <3> QED BY <1>2, <3>1 DEF NoPeerEditLost
  <2>4. \A q \in Paths : q # p => Named(doc', q) = Named(doc, q)
    BY <2>1 DEF Removed, Named
  <2>5. \A q \in Paths : \A m \in Named(doc, q) : q # p => doc'.text[m] = doc.text[m]
    BY <2>1 DEF Removed
  <2> QED BY <1>1, <1>3, <1>4, <2>1, <2>2, <2>3, <2>4, <2>5, CareCommit
<1> QED BY <1>6, <1>7

LEMMA CareExport ==
  ASSUME TypeOK, Care, CarefulUser, Export
  PROVE  Care'
<1>1. Exports
  BY ExportDoes
<1>2. running' /\ UNCHANGED <<doc, used, cut>> /\ GoodDoc(doc) /\ Alone(doc) /\ DOMAIN base \subseteq Paths
  BY <1>1 DEF Exports, TypeOK, Care
<1>3. DOMAIN base \subseteq Shown(doc)
  BY <1>2 DEF Care, Careful, Shown, Exists
<1>4. Stale = {}
  BY <1>3 DEF Stale, Shown
<1>5. DOMAIN base' = Shown(doc) /\ DOMAIN disk' = DOMAIN disk \cup Shown(doc)
  BY <1>1, <1>3, <1>4 DEF Exports
<1>6. ASSUME NEW p \in DOMAIN base' PROVE Careful(p)'
  <2>1. PICK n : n = Last(doc, p)
    OBVIOUS
  <2>2. Exists(doc, p) /\ n \in Named(doc, p) /\ n \in doc.live
    BY <1>2, <1>5, <2>1, NameFacts DEF Shown, Named
  <2>3. disk'[p] = doc.text[n] /\ base'[p] = BaseAt(doc, n)
    BY <1>1, <1>5, <2>1 DEF Exports, Text
  <2>4. base'[p].node = n /\ base'[p].view[n] = doc.text[n] /\ n \in DOMAIN base'[p].view
    BY <1>2, <2>2, <2>3, BaseFacts
  <2> QED BY <1>2, <2>2, <2>3, <2>4 DEF Careful, Text
<1>7. ASSUME NEW p \in DOMAIN disk' PROVE p \in DOMAIN base' \/ ~Exists(doc', p)
  <2>1. p \in Paths
    BY <1>5 DEF TypeOK, Shown
  <2> QED BY <1>2, <1>5, <2>1 DEF Shown
<1>8. events' \subseteq DOMAIN disk' \cup gone'
  BY <1>1, <1>5 DEF Exports, Care
<1>9. Alone(doc') /\ NoPeerEditLost'
  BY <1>2 DEF Care, NoPeerEditLost
<1> QED BY <1>2, <1>6, <1>7, <1>8, <1>9 DEF Care

LEMMA CareNext ==
  ASSUME TypeOK, Care, [Next]_vars
  PROVE  Care'
<1>0. CarefulUser' => CarefulUser
  BY RegimeFixed DEF CarefulUser
<1> SUFFICES ASSUME CarefulUser PROVE Care'
  BY <1>0 DEF Care
<1>1. CASE UNCHANGED vars
  BY <1>1 DEF vars, tasks, history, Care, CarefulUser, Careful, Text, NoPeerEditLost
<1>2. ASSUME NEW p \in Paths,
             (\E e \in UserEdits : UserWrites(p, e)) \/ (\E e \in Edits : UserTrims(p, e)) \/ UserDeletes(p)
      PROVE  Care'
  BY <1>2, CareUser
<1>3. ASSUME \/ \E p \in Paths, e \in PeerEdits, i \in 0..MaxNodes : PeerCreates(p, e, i)
             \/ \E n \in Nodes, e \in PeerEdits : PeerEditsNode(n, e)
             \/ \E n \in Nodes : PeerDeletes(n)
             \/ \E n \in Nodes, p \in Paths : PeerRenames(n, p)
      PROVE  Care'
  BY <1>3, CarePeer
<1>4. ASSUME NEW p \in Paths, IngestEdit(p) PROVE Care'
  BY <1>4, CareEdit
<1>5. ASSUME NEW p \in Paths, IngestNew(p) PROVE Care'
  BY <1>5, CareNew
<1>6. ASSUME NEW p \in Paths, IngestEcho(p) PROVE Care'
  <2>1. ~Exists(doc, p) /\ p \in DOMAIN base
    BY <1>6, EchoDoes DEF Echo
  <2> QED BY <2>1 DEF Care, Careful, Exists
<1>7. ASSUME NEW p \in Paths, IngestMissing(p) PROVE Care'
  BY <1>7, CareMissing
<1>8. CASE Export
  BY <1>8, CareExport
<1>9. CASE ExportFails
  BY <1>9 DEF ExportFails, CarefulUser, TypeOK
<1>10. CASE Stop
  BY <1>10 DEF Stop, CarefulUser, TypeOK
<1>11. CASE Serve
  BY <1>11 DEF Serve, Care
<1>12. CASE Seed \/ Watch
  BY <1>12, SeedDoes, WatchDoes DEF Seeds, Watches, Care, TypeOK
<1>13. ASSUME NEW p \in Paths, BatchDropped(p) PROVE Care'
  BY <1>13 DEF BatchDropped, CarefulUser, TypeOK
<1> QED BY <1>1, <1>2, <1>3, <1>4, <1>5, <1>6, <1>7, <1>8, <1>9, <1>10, <1>11, <1>12,
           <1>13 DEF Next

\* A peer's edit that nobody removed is in the document: when everybody takes
\* turns, and when the user edits only files that match their bases, wherever
\* the imports fall between the ingest and the export.
THEOREM PeerEditsKept == Spec => []PeerEditsSurvive
<1>1. Init => Care
  BY DEF Init, Care, Alone, NoPeerEditLost
<1>2. TypeOK /\ Care /\ [Next]_vars => Care'
  BY CareNext
<1>3. Turns /\ Care => PeerEditsSurvive
  BY DEF Turns, Care, PeerEditsSurvive
<1> QED BY <1>1, <1>2, <1>3, TurnsHold, PTL DEF Spec

-----------------------------------------------------------------------------
(* A hasty user. *)

LEMMA Missing ==
  ASSUME NEW d, NEW S, missed' = missed \cup UnseenIn(d, S), NEW e, e \in Alive', NEW p \in DOMAIN disk, p \in S, e \in disk[p]
  PROVE  \E n \in Named(d, p) : e \in d.text[n]
<1>1. e \in UserEdits /\ e \notin UnseenIn(d, S)
  BY DEF Alive
<1>2. e \notin Unseen(d, p)
  BY <1>1 DEF UnseenIn
<1> QED BY <1>1, <1>2 DEF Unseen

LEMMA Outlives ==
  ASSUME cut \subseteq cut', missed \subseteq missed'
  PROVE  Alive' \subseteq Alive
  BY DEF Alive

\* The nodes keep their names and what counts in them; one that goes had none.
Continues ==
  /\ DOMAIN doc.text \subseteq DOMAIN doc'.text
  /\ \A n \in DOMAIN doc.text \cap doc'.live :
       n \in doc.live /\ doc'.name[n] = doc.name[n] /\ doc.text[n] \cap Alive' \subseteq doc'.text[n]
  /\ \A n \in doc.live \ doc'.live : doc.text[n] \cap Alive' = {}

LEMMA BackedOn ==
  ASSUME GoodDoc(doc), Continues, Alive' \subseteq Alive, NEW q, Backed(q), base'[q] = base[q]
  PROVE  Backed(q)'
<1>1. PICK v, m : v = base[q].view /\ m = base[q].node
  OBVIOUS
<1>2. /\ m \in DOMAIN v /\ DOMAIN v \subseteq DOMAIN doc.text
      /\ \A n \in DOMAIN v \cap doc.live : v[n] \cap Alive \subseteq doc.text[n]
      /\ v[m] \cap Alive # {} => m \in Named(doc, q)
  BY <1>1 DEF Backed
<1>3. DOMAIN v \subseteq DOMAIN doc'.text
  BY <1>2 DEF Continues
<1>4. ASSUME NEW n \in DOMAIN v \cap doc'.live PROVE v[n] \cap Alive' \subseteq doc'.text[n]
  <2>1. n \in doc.live /\ doc.text[n] \cap Alive' \subseteq doc'.text[n]
    BY <1>2 DEF Continues
  <2>2. v[n] \cap Alive \subseteq doc.text[n]
    BY <1>2, <2>1
  <2> QED BY <2>1, <2>2
<1>5. ASSUME v[m] \cap Alive' # {} PROVE m \in Named(doc', q)
  <2>1. m \in Named(doc, q) /\ m \in doc.live /\ doc.name[m] = q
    BY <1>2, <1>5 DEF Named
  <2>2. v[m] \cap Alive \subseteq doc.text[m]
    BY <1>2, <2>1
  <2>3. m \in doc'.live
    BY <1>5, <2>1, <2>2 DEF Continues
  <2>4. doc'.name[m] = doc.name[m]
    BY <1>2, <2>3 DEF Continues
  <2> QED BY <2>1, <2>3, <2>4 DEF Named
<1>6. base'[q].view = v /\ base'[q].node = m
  BY <1>1
<1> QED BY <1>2, <1>3, <1>4, <1>5, <1>6 DEF Backed

LEMMA BackedNew ==
  ASSUME GoodDoc(doc), NEW q, NEW n \in Named(doc, q), NEW b, b.node = n, b.view = doc.text, base[q] = b
  PROVE  Backed(q)
<1>1. n \in doc.live /\ n \in DOMAIN doc.text
  BY NodeFacts DEF Named
<1> QED BY <1>1 DEF Backed

\* A step of the running tasks that leaves the files alone.
LEMMA HasteStep ==
  ASSUME TypeOK, Hastes, running, running', UNCHANGED <<disk, startup>>, Alive' \subseteq Alive, used' \cap Alive' \subseteq used,
         Alone(doc'), Alone(saved'), Continues,
         \A n \in doc'.live : \/ n \in doc.live /\ doc'.name[n] = doc.name[n] /\ doc'.text[n] \cap Alive' \subseteq doc.text[n]
                              \/ doc'.text[n] \cap Alive' \subseteq Content(doc'.name[n]),
         \A q \in DOMAIN base' : (q \in DOMAIN base /\ base'[q] = base[q]) \/ Backed(q)',
         \A q \in DOMAIN disk \ events' : q \notin events \/ \A e \in Alive' \cap disk[q] : \E n \in Named(doc', q) : e \in doc'.text[n],
         ~nudged' /\ fails' = 0 => saved' = doc'
  PROVE  Hastes'
<1>1. Up /\ Up' /\ startup' = "none" /\ GoodDoc(doc)
  BY DEF Up, TypeOK
<1>2. ASSUME NEW q \in DOMAIN base' PROVE Backed(q)'
  BY <1>1, BackedOn DEF Hastes
<1>3. ASSUME NEW n \in doc'.live PROVE doc'.text[n] \cap Alive' \subseteq Content(doc'.name[n])
  <2>1. n \in doc.live => doc.text[n] \cap Alive \subseteq Content(doc.name[n])
    BY <1>1 DEF Hastes, Shelved, Text
  <2> QED BY <2>1
<1>4. Shelved'
  BY <1>3 DEF Shelved, Text, Content
<1>5. \A e \in used' \cap Alive' : \E p \in DOMAIN disk' : e \in disk'[p]
  BY DEF Hastes
<1>6. ASSUME NEW q \in DOMAIN disk \ events', NEW e \in Alive' \cap disk[q] PROVE \E n \in Named(doc', q) : e \in doc'.text[n]
  <2>1. CASE q \notin events
    <3>1. PICK n \in Named(doc, q) : e \in doc.text[n]
      BY <1>1, <2>1 DEF Hastes, Looked
    <3>2. n \in doc.live /\ n \in DOMAIN doc.text /\ doc.name[n] = q
      BY <1>1, NodeFacts DEF Named
    <3>3. n \in doc'.live
      BY <3>1, <3>2 DEF Continues
    <3>4. doc'.name[n] = q /\ e \in doc'.text[n]
      BY <3>1, <3>2, <3>3 DEF Continues
    <3> QED BY <3>3, <3>4 DEF Named
  <2> QED BY <2>1
<1>7. Looked(doc)'
  BY <1>6 DEF Looked
<1> QED BY <1>1, <1>2, <1>4, <1>5, <1>7 DEF Hastes

LEMMA HasteLocal ==
  ASSUME TypeOK, Hastes, NEW p \in Paths, Local(p), Alive' \subseteq Alive, DOMAIN disk' \subseteq Paths,
         \A q \in Paths : q # p => (q \in DOMAIN disk' <=> q \in DOMAIN disk),
         \A q \in DOMAIN disk : q # p => disk'[q] = disk[q],
         Content(p) \cap Alive' \subseteq Content(p)', used' \cap Alive' \subseteq used \cup Content(p)',
         ~running => Content(p)' \cap Alive' \subseteq Content(p)
  PROVE  Hastes'
<1>1. UNCHANGED <<doc, saved, base, nudged, startup, running, fails>> /\ (Up' <=> Up)
      /\ events' = IF running THEN events \cup {p} ELSE events
  BY DEF Local, Up
<1>2. GoodDoc(doc) /\ DOMAIN disk \subseteq Paths
  BY DEF TypeOK
<1>3. \A q \in DOMAIN base : Backed(q)'
  <2> SUFFICES ASSUME NEW q \in DOMAIN base PROVE Backed(q)'
    OBVIOUS
  <2>1. Backed(q) /\ base'[q] = base[q]
    BY <1>1 DEF Hastes
  <2>2. Continues
    BY <1>1 DEF Continues, GoodDoc, TypeOK
  <2> QED BY <1>2, <2>1, <2>2, BackedOn
<1>4. \A q : Content(q) \cap Alive' \subseteq Content(q)'
  <2> SUFFICES ASSUME NEW q, q # p PROVE Content(q) \subseteq Content(q)'
    OBVIOUS
  <2> QED BY <1>2 DEF Content
<1>5. ASSUME Up PROVE Shelved'
  <2>1. ASSUME NEW n \in doc.live, NEW q, q = doc.name[n] PROVE Text(n) \cap Alive' \subseteq Content(q)'
    BY <1>4, <1>5, <2>1 DEF Hastes, Shelved
  <2> QED BY <1>1, <2>1 DEF Shelved, Text, Content
<1>6. ASSUME NEW e \in used' \cap Alive' PROVE \E q \in DOMAIN disk' : e \in disk'[q]
  <2>1. \E q : e \in Content(q)'
    <3>1. CASE e \in used
      <4>1. PICK q \in DOMAIN disk : e \in disk[q]
        BY <3>1 DEF Hastes
      <4>2. e \in Content(q)
        BY <4>1 DEF Content
      <4> QED BY <1>4, <4>2
    <3> QED BY <3>1
  <2> QED BY <2>1 DEF Content
<1>7. ASSUME NEW d, Looked(d) PROVE \A q \in DOMAIN disk' \ events' : \A e \in Alive' \cap disk'[q] : \E n \in Named(d, q) : e \in d.text[n]
  <2> SUFFICES ASSUME NEW q \in DOMAIN disk' \ events', NEW e \in Alive' \cap disk'[q] PROVE \E n \in Named(d, q) : e \in d.text[n]
    OBVIOUS
  <2>1. q \notin events /\ (q = p => ~running)
    BY <1>1
  <2>2. e \in Content(q)
    <3>1. CASE q = p
      BY <2>1, <3>1 DEF Content
    <3>2. CASE q # p
      BY <1>2, <3>2 DEF Content
    <3> QED BY <3>1, <3>2
  <2>3. q \in DOMAIN disk /\ e \in disk[q]
    BY <2>2 DEF Content
  <2> QED BY <1>7, <2>1, <2>3 DEF Looked
<1>8. IF Up THEN Looked(doc)' ELSE Looked(saved)'
  <2>1. ASSUME Looked(doc) PROVE Looked(doc)'
    BY <1>1, <1>7, <2>1 DEF Looked
  <2>2. ASSUME Looked(saved) PROVE Looked(saved)'
    BY <1>1, <1>7, <2>2 DEF Looked
  <2> QED BY <2>1, <2>2 DEF Hastes
<1>9. Alone(doc') /\ Alone(saved') /\ (~Up' => DOMAIN base' = {})
  BY <1>1 DEF Hastes
<1>10. (Up' /\ ~nudged' /\ fails' = 0 => saved' = doc') /\ (startup' # "none" => saved' = doc')
  BY <1>1 DEF Hastes
<1>11. Up' => Shelved'
  BY <1>1, <1>5
<1>12. \A q \in DOMAIN base' : Backed(q)'
  BY <1>1, <1>3
<1>13. IF Up' THEN Looked(doc)' ELSE Looked(saved)'
  BY <1>1, <1>8
<1> QED BY <1>6, <1>9, <1>10, <1>11, <1>12, <1>13 DEF Hastes

LEMMA HasteUser ==
  ASSUME TypeOK, Hastes, NEW p \in Paths,
         (\E e \in UserEdits : UserWrites(p, e)) \/ (\E e \in Edits : UserTrims(p, e)) \/ UserDeletes(p)
  PROVE  Hastes'
<1>1. DOMAIN disk \subseteq Paths
  BY DEF TypeOK
<1>2. ASSUME NEW e \in UserEdits, UserWrites(p, e) PROVE Hastes'
  <2>1. /\ Local(p) /\ used' = used \cup {e} /\ cut' = cut /\ missed' = IF running THEN missed ELSE missed \cup {e}
        /\ DOMAIN disk' = DOMAIN disk \cup {p} /\ disk'[p] = {e} \cup Content(p)
        /\ \A q \in DOMAIN disk : q # p => disk'[q] = disk[q]
    BY <1>2, WritesDoes
  <2>2. Content(p)' = {e} \cup Content(p)
    BY <2>1 DEF Content
  <2>3. Alive' \subseteq Alive /\ (~running => e \notin Alive')
    BY <2>1 DEF Alive
  <2>4. /\ DOMAIN disk' \subseteq Paths /\ \A q \in Paths : q # p => (q \in DOMAIN disk' <=> q \in DOMAIN disk)
    BY <1>1, <2>1
  <2>5. /\ Content(p) \cap Alive' \subseteq Content(p)' /\ used' \cap Alive' \subseteq used \cup Content(p)'
        /\ ~running => Content(p)' \cap Alive' \subseteq Content(p)
    BY <2>1, <2>2, <2>3
  <2> QED BY <2>1, <2>3, <2>4, <2>5, HasteLocal
<1>3. ASSUME NEW e \in Edits, UserTrims(p, e) PROVE Hastes'
  <2>1. /\ Local(p) /\ used' = used /\ cut' = cut \cup {e} /\ missed' = missed /\ p \in DOMAIN disk
        /\ DOMAIN disk' = DOMAIN disk /\ disk'[p] = disk[p] \ {e}
        /\ \A q \in DOMAIN disk : q # p => disk'[q] = disk[q]
    BY <1>3, TrimsDoes
  <2>2. Content(p)' = Content(p) \ {e}
    BY <2>1 DEF Content
  <2>3. Alive' \subseteq Alive /\ e \notin Alive'
    BY <2>1 DEF Alive
  <2>4. /\ DOMAIN disk' \subseteq Paths /\ \A q \in Paths : q # p => (q \in DOMAIN disk' <=> q \in DOMAIN disk)
    BY <1>1, <2>1
  <2>5. /\ Content(p) \cap Alive' \subseteq Content(p)' /\ used' \cap Alive' \subseteq used \cup Content(p)'
        /\ ~running => Content(p)' \cap Alive' \subseteq Content(p)
    BY <2>1, <2>2, <2>3
  <2> QED BY <2>1, <2>3, <2>4, <2>5, HasteLocal
<1>4. ASSUME UserDeletes(p) PROVE Hastes'
  <2>1. /\ Local(p) /\ used' = used /\ cut' = cut \cup disk[p] /\ missed' = missed /\ p \in DOMAIN disk
        /\ DOMAIN disk' = DOMAIN disk \ {p} /\ \A q \in DOMAIN disk : q # p => disk'[q] = disk[q]
    BY <1>4, DeletesDoes
  <2>2. Content(p)' = {} /\ Content(p) = disk[p]
    BY <2>1 DEF Content
  <2>3. Alive' \subseteq Alive /\ Content(p) \cap Alive' = {}
    BY <2>1, <2>2 DEF Alive
  <2>4. /\ DOMAIN disk' \subseteq Paths /\ \A q \in Paths : q # p => (q \in DOMAIN disk' <=> q \in DOMAIN disk)
    BY <1>1, <2>1
  <2>5. /\ Content(p) \cap Alive' \subseteq Content(p)' /\ used' \cap Alive' \subseteq used \cup Content(p)'
        /\ ~running => Content(p)' \cap Alive' \subseteq Content(p)
    BY <2>1, <2>2, <2>3
  <2> QED BY <2>1, <2>3, <2>4, <2>5, HasteLocal
<1> QED BY <1>2, <1>3, <1>4

\* What the changes of a document keep.
LEMMA GoesOn ==
  ASSUME GoodDoc(doc), Alone(doc), NEW k, NEW p, NEW t
  PROVE  /\ Added(k, p, t) /\ ~Exists(doc, p) => Alone(doc') /\ Continues
         /\ Retexted(k, t) /\ Text(k) \cap Alive' \subseteq t => Alone(doc') /\ Continues
         /\ Removed(k) /\ Text(k) \cap Alive' = {} => Alone(doc') /\ Continues
<1>1. \A n \in doc.live : n \in DOMAIN doc.text
  BY NodeFacts
<1>2. ASSUME Added(k, p, t), ~Exists(doc, p) PROVE Alone(doc') /\ Continues
  <2>1. \A n \in doc.live : doc.name[n] # p
    BY <1>2 DEF Exists, Named
  <2>2. Alone(doc')
    BY <1>2, <2>1 DEF Added, Alone
  <2>3. Continues
    BY <1>2 DEF Added, Continues
  <2> QED BY <2>2, <2>3
<1>3. ASSUME Retexted(k, t), Text(k) \cap Alive' \subseteq t PROVE Alone(doc') /\ Continues
  BY <1>3 DEF Retexted, Alone, Continues, Text
<1>4. ASSUME Removed(k), Text(k) \cap Alive' = {} PROVE Alone(doc') /\ Continues
  BY <1>4 DEF Removed, Alone, Continues, Text
<1> QED BY <1>2, <1>3, <1>4

LEMMA HasteImport ==
  ASSUME TypeOK, Hastes, Imports, cut' = cut, NEW e \in PeerEdits, used' = used \cup {e}, NEW k, NEW p \in Paths,
         (Added(k, p, {e}) /\ Free(p)) \/ Retexted(k, Text(k) \cup {e})
  PROVE  Hastes'
<1>1. Alive' = Alive /\ e \notin Alive'
  BY EditsAssumption DEF Imports, Alive
<1>2. GoodDoc(doc) /\ Alone(doc) /\ Alone(saved)
  BY DEF TypeOK, Hastes
<1>3. Alone(doc') /\ Continues
  BY <1>2, GoesOn DEF Free
<1>4. /\ running /\ running' /\ UNCHANGED <<disk, startup>> /\ saved' = saved /\ base' = base /\ events' = events
      /\ ~(~nudged' /\ fails' = 0)
  BY DEF Imports, TypeOK
<1>5. ASSUME NEW n \in doc'.live
      PROVE  \/ n \in doc.live /\ doc'.name[n] = doc.name[n] /\ doc'.text[n] \cap Alive' \subseteq doc.text[n]
             \/ doc'.text[n] \cap Alive' \subseteq Content(doc'.name[n])
  <2>1. CASE Added(k, p, {e})
    BY <1>1, <2>1 DEF Added
  <2>2. CASE Retexted(k, Text(k) \cup {e})
    BY <1>1, <2>2 DEF Retexted, Text
  <2> QED BY <2>1, <2>2
<1>6. used' \cap Alive' \subseteq used /\ Alive' \subseteq Alive
  BY <1>1
<1> QED BY <1>2, <1>3, <1>4, <1>5, <1>6, HasteStep

LEMMA HastePeer ==
  ASSUME TypeOK, HastyUser, Hastes,
         \/ \E p \in Paths, e \in PeerEdits, i \in 0 .. MaxNodes : PeerCreates(p, e, i)
         \/ \E n \in Nodes, e \in PeerEdits : PeerEditsNode(n, e)
         \/ \E n \in Nodes : PeerDeletes(n)
         \/ \E n \in Nodes, p \in Paths : PeerRenames(n, p)
  PROVE  Hastes'
<1>1. ~regime.collisions /\ peerOps \in Nat /\ ~(peerOps < regime.peerOps)
  <2>1. regime.peerOps = 0 /\ peerOps \in Nat
    BY DEF HastyUser, TypeOK
  <2>2. ~(peerOps < regime.peerOps)
    BY <2>1
  <2> QED BY <2>1, <2>2 DEF HastyUser
<1>2. ASSUME NEW p \in Paths, NEW e \in PeerEdits, NEW i \in 0 .. MaxNodes, PeerCreates(p, e, i) PROVE Hastes'
  <2>1. PICK k \in Nat : used' = used \cup {e} /\ Free(p) /\ Imports /\ Added(k, p, {e}) /\ cut' = cut
    BY <1>1, <1>2, PeerCreatesDoes
  <2> QED BY <2>1, HasteImport
<1>3. ASSUME NEW n \in Nodes, NEW e \in PeerEdits, PeerEditsNode(n, e) PROVE Hastes'
  <2>1. used' = used \cup {e} /\ Imports /\ Retexted(n, Text(n) \cup {e}) /\ cut' = cut
    BY <1>3, PeerEditsDoes
  <2>2. PICK p \in Paths : p = doc.name[n]
    BY <2>1, NodeFacts DEF Retexted, TypeOK
  <2> QED BY <2>1, HasteImport
<1>4. \A n \in Nodes : ~PeerDeletes(n)
  BY <1>1 DEF PeerDeletes
<1>5. \A n \in Nodes, p \in Paths : ~PeerRenames(n, p)
  BY <1>1 DEF PeerRenames
<1> QED BY <1>2, <1>3, <1>4, <1>5

\* A path ingested: what is on disk there is in the document.
LEMMA HasteCommit ==
  ASSUME TypeOK, Hastes, NEW p \in Paths, NEW moved \in BOOLEAN, NEW b, Committed(p, moved, b), cut \subseteq cut',
         Alone(doc'), Continues, ~moved => doc' = doc,
         \A n \in doc'.live : \/ n \in doc.live /\ doc'.name[n] = doc.name[n] /\ doc'.text[n] \cap Alive' \subseteq doc.text[n]
                              \/ doc'.text[n] \cap Alive' \subseteq Content(doc'.name[n]),
         base' = b => \A q \in DOMAIN base' : (q \in DOMAIN base /\ base'[q] = base[q]) \/ Backed(q)',
         p \in DOMAIN disk => \A e \in Alive' \cap disk[p] : \E n \in Named(doc', p) : e \in doc'.text[n]
  PROVE  Hastes'
<1>1. /\ running /\ running' /\ UNCHANGED <<disk, startup>> /\ saved' = saved /\ used' = used /\ missed' = missed
      /\ events' = events \ {p} /\ (base' = b \/ base' = base)
      /\ (~nudged' /\ fails' = 0 => ~nudged /\ ~moved /\ fails = 0)
  BY DEF Committed, TypeOK
<1>2. Alive' \subseteq Alive
  BY <1>1, Outlives
<1>3. Alone(saved') /\ used' \cap Alive' \subseteq used
  BY <1>1 DEF Hastes
<1>4. ~nudged' /\ fails' = 0 => saved' = doc'
  BY <1>1 DEF Hastes, Up
<1>5. \A q \in DOMAIN base' : (q \in DOMAIN base /\ base'[q] = base[q]) \/ Backed(q)'
  BY <1>1
<1>6. \A q \in DOMAIN disk \ events' : q \notin events \/ \A e \in Alive' \cap disk[q] : \E n \in Named(doc', q) : e \in doc'.text[n]
  BY <1>1
<1> QED BY <1>1, <1>2, <1>3, <1>4, <1>5, <1>6, HasteStep

LEMMA BasedBacked ==
  ASSUME GoodDoc(doc'), NEW p, NEW n, n \in Named(doc', p), Based(base', p, doc', n)
  PROVE  \A q \in DOMAIN base' : (q \in DOMAIN base /\ base'[q] = base[q]) \/ Backed(q)'
<1>1. DOMAIN base' = DOMAIN base \cup {p} /\ \A q \in DOMAIN base : q # p => base'[q] = base[q]
  BY DEF Based
<1>2. Backed(p)'
  <2>1. n \in doc'.live /\ n \in DOMAIN doc'.text
    BY NodeFacts DEF Named
  <2>2. base'[p].node = n /\ base'[p].view = doc'.text
    BY DEF Based
  <2> QED BY <2>1, <2>2 DEF Backed
<1> QED BY <1>1, <1>2

LEMMA HasteEdit ==
  ASSUME TypeOK, Hastes, NEW p \in Paths, IngestEdit(p)
  PROVE  Hastes'
<1>1. PICK n \in Named(doc, p) :
        /\ p \in DOMAIN disk /\ NewText(p, n) \in SUBSET Edits
        /\ Retexted(n, NewText(p, n)) /\ (NewText(p, n) = Text(n) => doc' = doc)
        /\ Committed(p, disk[p] # Text(n) /\ disk[p] # OldText(p, n), Put(base, p, BaseAt(doc', n))) /\ cut' = cut
  BY EditDoes
<1>2. Alive' = Alive /\ running /\ GoodDoc(doc) /\ GoodDoc(doc')
  BY <1>1 DEF Committed, Alive, TypeOK
<1>3. n \in doc.live /\ doc.name[n] = p
  BY DEF Named
<1>4. Text(n) \cap Alive \subseteq disk[p]
  BY <1>1, <1>2, <1>3 DEF Hastes, Shelved, Up, Content
<1>5. OldText(p, n) \cap Alive \subseteq Text(n)
  <2>1. CASE p \in DOMAIN base /\ n \in DOMAIN base[p].view
    BY <1>3, <2>1 DEF Hastes, Backed, OldText, Text
  <2>2. CASE ~(p \in DOMAIN base /\ n \in DOMAIN base[p].view)
    BY <2>2 DEF OldText
  <2> QED BY <2>1, <2>2
<1>6. /\ Text(n) \cap Alive \subseteq NewText(p, n) /\ NewText(p, n) \cap Alive \subseteq disk[p]
      /\ disk[p] \cap Alive \subseteq NewText(p, n)
  BY <1>4, <1>5 DEF NewText, Merge
<1>7. Alone(doc') /\ Continues
  BY <1>1, <1>2, <1>6, GoesOn DEF Hastes
<1>8. PICK moved \in BOOLEAN : moved = (disk[p] # Text(n) /\ disk[p] # OldText(p, n))
  OBVIOUS
<1>9. ~moved => doc' = doc
  <2>1. CASE disk[p] = Text(n)
    BY <1>1, <2>1 DEF NewText
  <2>2. CASE disk[p] = OldText(p, n)
    BY <1>1, <2>2 DEF NewText, Merge
  <2> QED BY <1>8, <2>1, <2>2
<1>10. Named(doc', p) = Named(doc, p)
  BY <1>1 DEF Retexted
<1>11. base' = Put(base, p, BaseAt(doc', n)) => \A q \in DOMAIN base' : (q \in DOMAIN base /\ base'[q] = base[q]) \/ Backed(q)'
  <2>1. Based(Put(base, p, BaseAt(doc', n)), p, doc', n)
    BY <1>2, <1>10, PutBase DEF Named
  <2> QED BY <1>2, <1>10, <2>1, BasedBacked
<1>12. \A m \in doc'.live : \/ m \in doc.live /\ doc'.name[m] = doc.name[m] /\ doc'.text[m] \cap Alive' \subseteq doc.text[m]
                            \/ doc'.text[m] \cap Alive' \subseteq Content(doc'.name[m])
  BY <1>1, <1>2, <1>3, <1>6 DEF Retexted, Content
<1>13. \A e \in Alive' \cap disk[p] : \E m \in Named(doc', p) : e \in doc'.text[m]
  BY <1>1, <1>2, <1>6, <1>10 DEF Retexted
<1>14. Committed(p, moved, Put(base, p, BaseAt(doc', n))) /\ cut \subseteq cut'
  BY <1>1, <1>8
<1> QED BY <1>7, <1>9, <1>11, <1>12, <1>13, <1>14, HasteCommit

LEMMA HasteNew ==
  ASSUME TypeOK, Hastes, NEW p \in Paths, IngestNew(p)
  PROVE  Hastes'
<1>1. PICK k \in Nat :
        /\ p \in DOMAIN disk /\ ~Exists(doc, p) /\ Added(k, p, disk[p])
        /\ Committed(p, TRUE, Put(base, p, BaseAt(doc', k))) /\ cut' = cut
  BY NewDoes
<1>2. GoodDoc(doc) /\ GoodDoc(doc') /\ k \in Named(doc', p) /\ k \in doc'.live
  BY <1>1 DEF Committed, TypeOK, Added, Named
<1>3. Alone(doc') /\ Continues
  BY <1>1, <1>2, GoesOn DEF Hastes
<1>4. base' = Put(base, p, BaseAt(doc', k)) => \A q \in DOMAIN base' : (q \in DOMAIN base /\ base'[q] = base[q]) \/ Backed(q)'
  <2>1. Based(Put(base, p, BaseAt(doc', k)), p, doc', k)
    BY <1>2, PutBase
  <2> QED BY <1>2, <2>1, BasedBacked
<1>5. \A m \in doc'.live : \/ m \in doc.live /\ doc'.name[m] = doc.name[m] /\ doc'.text[m] \cap Alive' \subseteq doc.text[m]
                           \/ doc'.text[m] \cap Alive' \subseteq Content(doc'.name[m])
  BY <1>1 DEF Added, Content
<1>6. \A e \in Alive' \cap disk[p] : \E m \in Named(doc', p) : e \in doc'.text[m]
  BY <1>1, <1>2 DEF Added
<1> QED BY <1>1, <1>3, <1>4, <1>5, <1>6, HasteCommit

LEMMA HasteMissing ==
  ASSUME TypeOK, Hastes, NEW p \in Paths, IngestMissing(p)
  PROVE  Hastes'
<1>1. /\ p \notin DOMAIN disk
      /\ \/ \E n \in Named(doc, p) :
              /\ Removed(n) /\ Committed(p, TRUE, Drop(base, {p}))
              /\ cut' = IF p \in gone THEN cut \cup Text(n) ELSE cut
         \/ Committed(p, FALSE, Drop(base, {p})) /\ doc' = doc /\ cut' = cut
  BY MissingDoes
<1>2. GoodDoc(doc) /\ Alone(doc)
  BY DEF TypeOK, Hastes
<1>3. base' = Drop(base, {p}) => \A q \in DOMAIN base' : q \in DOMAIN base /\ base'[q] = base[q]
  BY DEF Drop
<1>4. ASSUME NEW n \in Named(doc, p), Removed(n), Committed(p, TRUE, Drop(base, {p})),
             cut' = IF p \in gone THEN cut \cup Text(n) ELSE cut
      PROVE  Hastes'
  <2>1. cut \subseteq cut' /\ missed' = missed /\ running
    BY <1>4 DEF Committed
  <2>2. Alive' \subseteq Alive
    BY <2>1, Outlives
  <2>3. Text(n) \cap Alive = {}
    BY <1>1, <2>1 DEF Hastes, Shelved, Up, Content, Named
  <2>4. Alone(doc') /\ Continues
    BY <1>2, <1>4, <2>2, <2>3, GoesOn
  <2>5. \A m \in doc'.live : m \in doc.live /\ doc'.name[m] = doc.name[m] /\ doc'.text[m] \cap Alive' \subseteq doc.text[m]
    BY <1>4 DEF Removed
  <2> QED BY <1>1, <1>3, <1>4, <2>1, <2>4, <2>5, HasteCommit
<1>5. ASSUME Committed(p, FALSE, Drop(base, {p})), doc' = doc, cut' = cut PROVE Hastes'
  <2>1. Continues
    BY <1>5 DEF Continues
  <2> QED BY <1>1, <1>2, <1>3, <1>5, <2>1, HasteCommit
<1> QED BY <1>1, <1>4, <1>5

LEMMA HasteEcho ==
  ASSUME TypeOK, Hastes, NEW p \in Paths, IngestEcho(p)
  PROVE  Hastes'
<1>1. /\ p \in DOMAIN disk /\ ~Exists(doc, p) /\ Echo(p) /\ Committed(p, FALSE, base)
      /\ doc' = doc /\ UNCHANGED <<base, cut>>
  BY EchoDoes
<1>2. GoodDoc(doc) /\ Alone(doc) /\ Alive' = Alive
  BY <1>1 DEF TypeOK, Hastes, Committed, Alive
<1>3. disk[p] \cap Alive = {}
  BY <1>1 DEF Echo, Hastes, Backed, Exists
<1>4. Continues
  BY <1>1 DEF Continues
<1> QED BY <1>1, <1>2, <1>3, <1>4, HasteCommit

LEMMA HasteDropped ==
  ASSUME TypeOK, Hastes, NEW p \in Paths, BatchDropped(p)
  PROVE  Hastes'
<1>1. Dropped(p)
  BY DroppedDoes
<1>2. /\ running /\ running' /\ UNCHANGED <<disk, startup, doc, saved, used, base, cut>> /\ events' = events \ {p}
      /\ missed' = missed \cup UnseenIn(doc, {p})
  BY <1>1 DEF Dropped, TypeOK
<1>3. fails' # 0
  BY <1>1 DEF Dropped, TypeOK
<1>4. Alive' \subseteq Alive
  BY <1>2, Outlives
<1>5. Continues
  BY <1>2 DEF Continues
<1>6. p \in DOMAIN disk => \A e \in Alive' \cap disk[p] : \E n \in Named(doc, p) : e \in doc.text[n]
  BY <1>2, Missing
<1>7. Alone(doc') /\ Alone(saved')
  BY <1>2 DEF Hastes
<1> QED BY <1>2, <1>3, <1>4, <1>5, <1>6, <1>7, HasteStep

\* Files W written from the document and files R, with nothing that counts,
\* removed.
LEMMA HasteWrite ==
  ASSUME TypeOK, Hastes, NEW W \in SUBSET Shown(doc), NEW R,
         running, running', UNCHANGED <<startup, doc, cut, used>>, \A p \in R : disk[p] \cap Alive = {},
         DOMAIN disk' = (DOMAIN disk \ R) \cup W, \A p \in W : disk'[p] = Text(Last(doc, p)),
         \A p \in DOMAIN disk \ (R \cup W) : disk'[p] = disk[p],
         events \cup W \subseteq events', missed' = missed \cup UnseenIn(doc, events \cap W),
         saved' = doc \/ (saved' = saved /\ fails' # 0),
         \A q \in DOMAIN base' : \/ q \in DOMAIN base /\ base'[q] = base[q]
                                 \/ q \in Shown(doc) /\ base'[q] = BaseAt(doc, Last(doc, q))
  PROVE  Hastes'
<1>1. GoodDoc(doc) /\ Alone(doc) /\ Alone(saved) /\ Alive' \subseteq Alive /\ Up /\ Up' /\ startup' = "none"
  BY Outlives DEF TypeOK, Hastes, Up
<1>2. \A p \in Shown(doc) : Last(doc, p) \in Named(doc, p) /\ \A n \in Named(doc, p) : Last(doc, p) = n
  BY <1>1, NameFacts DEF Shown
<1>3. \A q \in DOMAIN base' : Backed(q)'
  <2>1. Continues
    BY <1>1 DEF Continues
  <2>2. ASSUME NEW q \in Shown(doc), base'[q] = BaseAt(doc, Last(doc, q)) PROVE Backed(q)'
    <3>1. PICK n \in Named(doc, q) : n = Last(doc, q)
      BY <1>2
    <3>2. n \in doc.live /\ n \in DOMAIN doc.text
      BY <1>1, NodeFacts DEF Named
    <3>3. base'[q].node = n /\ base'[q].view = doc.text
      BY <2>2, <3>1 DEF BaseAt
    <3> QED BY <3>1, <3>2, <3>3 DEF Backed
  <2>3. ASSUME NEW q \in DOMAIN base, base'[q] = base[q] PROVE Backed(q)'
    BY <1>1, <2>1, <2>3, BackedOn DEF Hastes
  <2> QED BY <2>2, <2>3
<1>4. ASSUME NEW n \in doc.live, NEW p, p = doc.name[n] PROVE Text(n) \cap Alive' \subseteq Content(p)'
  <2>1. Text(n) \cap Alive \subseteq Content(p) /\ n \in Named(doc, p)
    BY <1>1, <1>4 DEF Hastes, Shelved, Named
  <2>2. CASE p \in W
    BY <1>2, <2>1, <2>2 DEF Content
  <2>3. CASE p \notin W
    BY <1>1, <2>1, <2>3 DEF Content
  <2> QED BY <2>2, <2>3
<1>5. Shelved'
  BY <1>4 DEF Shelved, Text, Content
<1>6. ASSUME NEW e \in used' \cap Alive' PROVE \E p \in DOMAIN disk' : e \in disk'[p]
  <2>1. PICK p \in DOMAIN disk : e \in disk[p]
    BY <1>1 DEF Hastes
  <2>2. p \notin R
    BY <1>1, <2>1
  <2>3. CASE p \notin W
    BY <2>1, <2>2, <2>3
  <2>4. CASE p \in W
    <3>1. \E n \in Named(doc, p) : e \in doc.text[n]
      <4>1. CASE p \in events
        <5>1. p \in events \cap W
          BY <2>4, <4>1
        <5> QED BY <2>1, <5>1, Missing
      <4>2. CASE p \notin events
        BY <1>1, <2>1, <4>2 DEF Hastes, Looked
      <4> QED BY <4>1, <4>2
    <3>2. e \in Text(Last(doc, p))
      BY <1>2, <2>4, <3>1 DEF Text
    <3> QED BY <2>4, <3>2
  <2> QED BY <2>3, <2>4
<1>7. ASSUME NEW q \in DOMAIN disk' \ events', NEW e \in Alive' \cap disk'[q] PROVE \E n \in Named(doc, q) : e \in doc.text[n]
  <2>1. q \in DOMAIN disk \ events /\ disk'[q] = disk[q]
    BY <1>7
  <2> QED BY <1>1, <2>1 DEF Hastes, Looked
<1>8. Looked(doc)'
  BY <1>7 DEF Looked
<1>9. Alone(doc') /\ Alone(saved') /\ (~nudged' /\ fails' = 0 => saved' = doc')
  BY <1>1
<1> QED BY <1>1, <1>3, <1>5, <1>6, <1>8, <1>9 DEF Hastes

LEMMA HasteExport ==
  ASSUME TypeOK, Hastes, Export
  PROVE  Hastes'
<1>1. Exports
  BY ExportDoes
<1>2. ASSUME NEW p \in Stale PROVE disk[p] \cap Alive = {}
  <2>1. p \in DOMAIN base /\ Named(doc, p) = {} /\ disk[p] = base[p].view[base[p].node]
    BY DEF Stale, Echo, Exists
  <2>2. base[p].view[base[p].node] \cap Alive # {} => base[p].node \in Named(doc, p)
    BY <2>1 DEF Hastes, Backed
  <2> QED BY <2>1, <2>2
<1>3. running /\ running' /\ UNCHANGED <<startup, doc, cut, used>> /\ saved' = doc
  BY <1>1 DEF Exports, TypeOK
<1>4. /\ DOMAIN disk' = (DOMAIN disk \ Stale) \cup Shown(doc) /\ \A p \in Shown(doc) : disk'[p] = Text(Last(doc, p))
      /\ \A p \in DOMAIN disk \ (Stale \cup Shown(doc)) : disk'[p] = disk[p]
      /\ events \cup Shown(doc) \subseteq events' /\ missed' = missed \cup UnseenIn(doc, events \cap Shown(doc))
  BY <1>1 DEF Exports
<1>5. \A q \in DOMAIN base' : \/ q \in DOMAIN base /\ base'[q] = base[q]
                              \/ q \in Shown(doc) /\ base'[q] = BaseAt(doc, Last(doc, q))
  BY <1>1 DEF Exports
<1> QED BY <1>2, <1>3, <1>4, <1>5, HasteWrite, SMTT(30)

LEMMA HasteExportFails ==
  ASSUME TypeOK, Hastes, ExportFails
  PROVE  Hastes'
<1>1. PICK W : FailedAfter(W)
  BY ExportFailsDoes
<1>2. W \in SUBSET Shown(doc)
  BY <1>1 DEF FailedAfter
<1>3. running /\ running' /\ UNCHANGED <<startup, doc, cut, used, base>> /\ (saved' = doc \/ (saved' = saved /\ fails' # 0))
  BY <1>1 DEF FailedAfter, TypeOK
<1>4. /\ DOMAIN disk' = (DOMAIN disk \ {}) \cup W /\ \A p \in W : disk'[p] = Text(Last(doc, p))
      /\ \A p \in DOMAIN disk \ ({} \cup W) : disk'[p] = disk[p]
      /\ events \cup W \subseteq events' /\ missed' = missed \cup UnseenIn(doc, events \cap W)
  BY <1>1 DEF FailedAfter
<1> QED BY <1>2, <1>3, <1>4, HasteWrite

LEMMA HasteStop ==
  ASSUME TypeOK, Hastes, Stop
  PROVE  Hastes'
<1>1. Stops
  BY StopDoes
<1>2. /\ UNCHANGED <<doc, saved, disk, used, cut, fails>> /\ ~Up' /\ startup' = "none" /\ DOMAIN base' = {} /\ Up
      /\ missed' = missed \cup UnseenIn(saved, IF nudged \/ fails > 0 THEN Paths ELSE events)
  BY <1>1 DEF Stops, Up
<1>3. Alive' \subseteq Alive /\ DOMAIN disk \subseteq Paths /\ fails \in Nat
  BY <1>2, Outlives DEF TypeOK
<1>4. ASSUME NEW p \in DOMAIN disk, NEW e \in Alive' \cap disk[p] PROVE \E n \in Named(saved, p) : e \in saved.text[n]
  <2>1. CASE nudged \/ fails > 0
    <3>1. missed' = missed \cup UnseenIn(saved, Paths) /\ p \in Paths
      BY <1>2, <1>3, <2>1
    <3> QED BY <3>1, Missing
  <2>2. CASE ~(nudged \/ fails > 0)
    <3>1. missed' = missed \cup UnseenIn(saved, events)
      BY <1>2, <2>2
    <3>2. CASE p \in events
      BY <3>1, <3>2, Missing
    <3>3. CASE p \notin events
      <4>1. fails = 0
        BY <1>3, <2>2
      <4>2. saved = doc /\ Looked(doc)
        BY <1>2, <2>2, <4>1 DEF Hastes
      <4> QED BY <1>3, <3>3, <4>2 DEF Looked
    <3> QED BY <3>2, <3>3
  <2> QED BY <2>1, <2>2
<1>5. Looked(saved)'
  BY <1>2, <1>4 DEF Looked
<1>6. \A e \in used' \cap Alive' : \E p \in DOMAIN disk' : e \in disk'[p]
  BY <1>2, <1>3 DEF Hastes
<1>7. Alone(doc') /\ Alone(saved')
  BY <1>2 DEF Hastes
<1> QED BY <1>2, <1>5, <1>6, <1>7 DEF Hastes

LEMMA HasteServe ==
  ASSUME TypeOK, Hastes, Serve
  PROVE  Hastes'
<1>1. Starts
  BY ServeDoes
<1>2. /\ UNCHANGED <<used, cut, missed, base, events>> /\ doc' = saved /\ saved' = saved /\ ~Up /\ Up' /\ Alive' = Alive
  BY <1>1 DEF Starts, Up, Alive
<1>3. GoodDoc(saved) /\ Alone(saved) /\ Looked(saved) /\ events = {} /\ DOMAIN base = {} /\ DOMAIN disk \subseteq Paths
  BY <1>2 DEF TypeOK, Hastes, Up, Quiet
<1>4. \A p \in Shown(saved) : Last(saved, p) \in Named(saved, p) /\ \A n \in Named(saved, p) : Last(saved, p) = n
  BY <1>3, NameFacts DEF Shown
<1>5. ASSUME NEW n \in saved.live, NEW p, p = saved.name[n] PROVE saved.text[n] \subseteq Content(p)'
  <2>1. n \in Named(saved, p) /\ p \in Shown(saved)
    BY <1>3, <1>5, NodeFacts DEF Shown, Exists
  <2>2. disk'[p] = saved.text[Last(saved, p)] /\ p \in DOMAIN disk' /\ Last(saved, p) = n
    BY <1>1, <1>4, <2>1 DEF Starts
  <2>3. disk'[p] = saved.text[n]
    BY <2>2
  <2> QED BY <2>2, <2>3 DEF Content
<1>6. Shelved'
  BY <1>2, <1>5 DEF Shelved, Text, Content
<1>7. ASSUME NEW e \in used' \cap Alive' PROVE \E p \in DOMAIN disk' : e \in disk'[p]
  <2>1. PICK p \in DOMAIN disk : e \in disk[p]
    BY <1>2 DEF Hastes
  <2>2. CASE p \notin Shown(saved)
    BY <1>1, <2>1, <2>2 DEF Starts
  <2>3. CASE p \in Shown(saved)
    <3>1. \E n \in Named(saved, p) : e \in saved.text[n]
      BY <1>2, <1>3, <2>1 DEF Looked
    <3>2. e \in saved.text[Last(saved, p)]
      BY <1>4, <2>3, <3>1
    <3> QED BY <1>1, <2>3, <3>2 DEF Starts
  <2> QED BY <2>2, <2>3
<1>8. ASSUME NEW q \in DOMAIN disk', NEW e \in Alive \cap disk'[q] PROVE \E n \in Named(saved, q) : e \in saved.text[n]
  <2>1. CASE q \in Shown(saved)
    <3>1. disk'[q] = saved.text[Last(saved, q)] /\ Last(saved, q) \in Named(saved, q)
      BY <1>1, <1>4, <2>1 DEF Starts
    <3> QED BY <3>1
  <2>2. CASE q \notin Shown(saved)
    <3>1. q \in DOMAIN disk \ events /\ disk'[q] = disk[q]
      BY <1>1, <1>3, <2>2 DEF Starts
    <3> QED BY <1>3, <3>1 DEF Looked
  <2> QED BY <2>1, <2>2
<1>9. Looked(doc)'
  BY <1>2, <1>8 DEF Looked
<1> QED BY <1>2, <1>3, <1>6, <1>7, <1>9 DEF Hastes

\* A start goes on: bases or not, nothing else changes.
LEMMA HasteUp ==
  ASSUME TypeOK, Hastes, startup # "none", Up', UNCHANGED <<doc, saved, disk, events, used, cut, missed>>,
         \A q \in DOMAIN base' : Backed(q)'
  PROVE  Hastes'
<1>1. Up /\ Alive' = Alive /\ saved = doc
  BY DEF Up, Alive, Hastes
<1>2. Shelved' /\ Looked(doc)'
  BY <1>1 DEF Hastes, Shelved, Looked, Content, Text
<1> QED BY <1>1, <1>2 DEF Hastes

LEMMA HasteSeed ==
  ASSUME TypeOK, Hastes, Seed
  PROVE  Hastes'
<1>1. Seeds
  BY SeedDoes
<1>2. startup # "none" /\ Up' /\ UNCHANGED <<doc, saved, disk, events, used, cut, missed>> /\ GoodDoc(doc)
  BY <1>1 DEF Seeds, Up, TypeOK
<1>3. ASSUME NEW q \in DOMAIN base' PROVE Backed(q)'
  <2>1. PICK n \in Agreeing(q) : base'[q] = BaseAt(doc, n)
    BY <1>1 DEF Seeds
  <2>2. n \in Named(doc, q) /\ n \in doc.live /\ n \in DOMAIN doc.text
    BY <1>2, NodeFacts DEF Agreeing, Named
  <2>3. base'[q].node = n /\ base'[q].view = doc.text
    BY <2>1 DEF BaseAt
  <2> QED BY <1>2, <2>2, <2>3 DEF Backed
<1> QED BY <1>2, <1>3, HasteUp

LEMMA HasteWatch ==
  ASSUME TypeOK, Hastes, Watch
  PROVE  Hastes'
<1>1. Watches
  BY WatchDoes
<1>2. startup # "none" /\ Up' /\ UNCHANGED <<doc, saved, disk, events, used, cut, missed, base>>
  BY <1>1 DEF Watches, Up
<1>3. Continues /\ GoodDoc(doc) /\ Alive' \subseteq Alive
  BY <1>2, Outlives DEF Continues, TypeOK
<1>4. \A q \in DOMAIN base' : Backed(q)'
  BY <1>2, <1>3, BackedOn DEF Hastes
<1> QED BY <1>2, <1>4, HasteUp

LEMMA HasteNext ==
  ASSUME TypeOK, Haste, [Next]_vars
  PROVE  Haste'
<1> SUFFICES ASSUME HastyUser PROVE Hastes'
  BY RegimeFixed DEF Haste, HastyUser
<1>1. Hastes
  BY DEF Haste
<1>2. ASSUME NEW p \in Paths, NEW e \in UserEdits, UserWrites(p, e) PROVE Hastes'
  BY <1>1, <1>2, HasteUser
<1>3. ASSUME NEW p \in Paths, NEW e \in Edits, UserTrims(p, e) PROVE Hastes'
  BY <1>1, <1>3, HasteUser
<1>4. ASSUME NEW p \in Paths, UserDeletes(p) PROVE Hastes'
  BY <1>1, <1>4, HasteUser
<1>5. ASSUME \/ \E p \in Paths, e \in PeerEdits, i \in 0 .. MaxNodes : PeerCreates(p, e, i)
             \/ \E n \in Nodes, e \in PeerEdits : PeerEditsNode(n, e)
             \/ \E n \in Nodes : PeerDeletes(n)
             \/ \E n \in Nodes, p \in Paths : PeerRenames(n, p)
      PROVE  Hastes'
  BY <1>1, <1>5, HastePeer
<1>6. ASSUME NEW p \in Paths, IngestEdit(p) PROVE Hastes'
  BY <1>1, <1>6, HasteEdit
<1>7. ASSUME NEW p \in Paths, IngestNew(p) PROVE Hastes'
  BY <1>1, <1>7, HasteNew
<1>8. ASSUME NEW p \in Paths, IngestEcho(p) PROVE Hastes'
  BY <1>1, <1>8, HasteEcho
<1>9. ASSUME NEW p \in Paths, IngestMissing(p) PROVE Hastes'
  BY <1>1, <1>9, HasteMissing
<1>10. ASSUME NEW p \in Paths, BatchDropped(p) PROVE Hastes'
  BY <1>1, <1>10, HasteDropped
<1>11. ASSUME Export PROVE Hastes'
  BY <1>1, <1>11, HasteExport
<1>12. ASSUME ExportFails PROVE Hastes'
  BY <1>1, <1>12, HasteExportFails
<1>13. ASSUME Stop PROVE Hastes'
  BY <1>1, <1>13, HasteStop
<1>14. ASSUME Serve PROVE Hastes'
  BY <1>1, <1>14, HasteServe
<1>15. ASSUME Seed PROVE Hastes'
  BY <1>1, <1>15, HasteSeed
<1>16. ASSUME Watch PROVE Hastes'
  BY <1>1, <1>16, HasteWatch
<1>17. ASSUME UNCHANGED vars PROVE Hastes'
  <2>1. UNCHANGED <<doc, saved, disk, base, events, nudged, startup, running, used, cut, missed, fails>>
    BY <1>17 DEF vars, tasks, history, bounds
  <2>2. Alive' = Alive /\ Up' = Up
    BY <2>1 DEF Alive, Up
  <2>3. Continues /\ GoodDoc(doc) /\ Alive' \subseteq Alive
    BY <2>1, <2>2 DEF Continues, TypeOK
  <2>4. \A q \in DOMAIN base' : Backed(q)'
    BY <1>1, <2>1, <2>3, BackedOn DEF Hastes
  <2>5. Up' => Shelved'
    BY <1>1, <2>1, <2>2 DEF Hastes, Shelved, Content, Text
  <2>6. IF Up' THEN Looked(doc)' ELSE Looked(saved)'
    BY <1>1, <2>1, <2>2 DEF Hastes, Looked
  <2>7. \A e \in used' \cap Alive' : \E p \in DOMAIN disk' : e \in disk'[p]
    BY <1>1, <2>1, <2>2 DEF Hastes
  <2>8. /\ Alone(doc') /\ Alone(saved') /\ (~Up' => DOMAIN base' = {})
        /\ (Up' /\ ~nudged' /\ fails' = 0 => saved' = doc') /\ (startup' # "none" => saved' = doc')
    BY <1>1, <2>1, <2>2 DEF Hastes
  <2> QED BY <2>4, <2>5, <2>6, <2>7, <2>8 DEF Hastes
<1> QED BY <1>2, <1>3, <1>4, <1>5, <1>6, <1>7, <1>8, <1>9, <1>10, <1>11, <1>12, <1>13, <1>14, <1>15, <1>16, <1>17 DEF Next

LEMMA HasteHolds == Spec => []Haste
<1>1. Init => Haste
  <2>1. DOMAIN <<>> = {}
    OBVIOUS
  <2> SUFFICES ASSUME Init PROVE Hastes
    BY DEF Haste
  <2>2. doc.live = {} /\ saved = doc /\ DOMAIN disk = {} /\ DOMAIN base = {} /\ used = {} /\ running /\ startup = "none"
    BY <2>1 DEF Init
  <2> QED BY <2>2 DEF Hastes, Alone, Shelved, Looked, Up
<1>2. TypeOK /\ Haste /\ [Next]_vars => Haste'
  BY HasteNext
<1> QED BY <1>1, <1>2, TypeCorrect, PTL DEF Spec

\* A local edit is in its file or in the document until somebody removes it: when
\* everybody takes turns without exception; with a hasty user, failures, failed
\* saves and restarts all but those eg never looked at (GoesThrough, Export).
THEOREM LocalEditsKept == Spec => []LocalEditsSurvive
<1>1. ASSUME TypeOK, Turns, TakingTurns PROVE \A e \in (used \cap UserEdits) \ cut : e \in Kept(doc) \cup OnDisk
  BY <1>1 DEF Turns, Resting, Exporting
<1>2. ASSUME Haste, HastyUser PROVE \A e \in (used \cap UserEdits) \ (cut \cup missed) : e \in OnDisk
  BY <1>2 DEF Haste, Hastes, Alive, OnDisk
<1>3. TypeOK /\ Turns /\ Haste => LocalEditsSurvive
  BY <1>1, <1>2 DEF LocalEditsSurvive
<1> QED BY <1>3, TurnsHold, HasteHolds, PTL

=============================================================================
