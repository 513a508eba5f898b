---------------------------- MODULE DocFsProofs -----------------------------
(***************************************************************************)
(* Theorems about DocFs, for any names and any number of nodes: the nodes   *)
(* stay one tree, the two ways between nodes and paths agree, and the path  *)
(* operations keep names unique and take nothing with them.                 *)
(***************************************************************************)
EXTENDS DocFs, WellFoundedInduction, SequenceTheorems, TLAPS

USE BoundsAssumption

-----------------------------------------------------------------------------
(* Subtrees, for any parents. *)

\* A subtree has its top, and with a node its children.
LEMMA SubtreeHas ==
  ASSUME NEW par, NEW p
  PROVE  /\ p \in Subtree(par, p) /\ Subtree(par, p) \subseteq DOMAIN par \cup {p}
         /\ Closed(par, Subtree(par, p))
<1> DEFINE All == DOMAIN par \cup {p}
<1>1. p \in Subtree(par, p) /\ Subtree(par, p) \subseteq All
  BY DEF Subtree
<1>2. ASSUME NEW n \in DOMAIN par, par[n] \in Subtree(par, p) PROVE n \in Subtree(par, p)
  <2>1. ASSUME NEW S \in SUBSET All, p \in S, Closed(par, S) PROVE n \in S
    <3>1. par[n] \in S
      BY <1>2, <2>1 DEF Subtree
    <3> QED BY <2>1, <3>1 DEF Closed
  <2> QED BY <2>1 DEF Subtree
<1> QED BY <1>1, <1>2 DEF Closed

\* It is the smallest set that does.
LEMMA SubtreeLeast ==
  ASSUME NEW par, NEW p, NEW S, p \in S, Closed(par, S)
  PROVE  Subtree(par, p) \subseteq S
<1> DEFINE All == DOMAIN par \cup {p}
           T == S \cap All
<1>1. T \in SUBSET All /\ p \in T
  OBVIOUS
<1>2. Closed(par, T)
  BY DEF Closed
<1>3. ASSUME NEW n \in Subtree(par, p) PROVE n \in T
  BY <1>1, <1>2, <1>3 DEF Subtree
<1> QED BY <1>3

\* What is in it but its top has its parent in it, and is not its own parent.
LEMMA SubtreeUp ==
  ASSUME NEW par, NEW p, NEW n \in Subtree(par, p), n # p
  PROVE  n \in DOMAIN par /\ par[n] \in Subtree(par, p) /\ par[n] # n
<1> DEFINE S == Subtree(par, p) \ {n}
<1>1. p \in S /\ n \in DOMAIN par /\ Closed(par, Subtree(par, p))
  BY SubtreeHas
<1>2. ~Closed(par, S)
  BY <1>1, SubtreeLeast
<1>3. PICK m \in DOMAIN par : par[m] \in S /\ m \notin S
  BY <1>2 DEF Closed
<1>4. m = n
  BY <1>1, <1>3 DEF Closed
<1> QED BY <1>1, <1>3, <1>4

\* Nodes are moved: at most one, x, to a place that is not below it, the others
\* under d.  What hung from r or d still does.
LEMMA StillHangs ==
  ASSUME NEW par, NEW new, DOMAIN par \subseteq DOMAIN new, NEW r, NEW d, NEW x,
         \A n \in DOMAIN par :
           \/ new[n] = par[n] \/ new[n] = d
           \/ n = x /\ new[n] \in (Subtree(par, r) \cup Subtree(par, d)) \ Subtree(par, x)
  PROVE  Subtree(par, r) \cup Subtree(par, d) \subseteq Subtree(new, r) \cup Subtree(new, d)
<1> DEFINE Old == Subtree(par, r) \cup Subtree(par, d)
           New == Subtree(new, r) \cup Subtree(new, d)
           B == Subtree(par, x)
<1>1. x \in B /\ Closed(par, B)
  BY SubtreeHas
<1>2. r \in New /\ d \in New /\ Closed(new, New)
  BY SubtreeHas DEF Closed
<1>3. ASSUME NEW S, r \in S, d \in S, Closed(par, S) PROVE Old \subseteq S
  BY <1>3, SubtreeLeast
<1> HIDE DEF Old, New, B
<1>4. Closed(par, New \cup B)
  <2> SUFFICES ASSUME NEW n \in DOMAIN par, par[n] \in New \cup B, n \notin B PROVE n \in New
    BY DEF Closed
  <2>1. par[n] \in New /\ n # x
    BY <1>1 DEF Closed
  <2>2. new[n] \in New
    BY <1>2, <2>1
  <2> QED BY <1>2, <2>2 DEF Closed
<1>5. Old \subseteq New \cup B
  BY <1>2, <1>3, <1>4
<1>6. Closed(par, New)
  <2> SUFFICES ASSUME NEW n \in DOMAIN par, par[n] \in New PROVE n \in New
    BY DEF Closed
  <2>1. n = x => new[n] \in New
    BY <1>2, <1>5 DEF Old, B
  <2>2. new[n] \in New
    BY <1>2, <2>1
  <2> QED BY <1>2, <2>2 DEF Closed
<1>7. Old \subseteq New
  BY <1>2, <1>3, <1>6
<1> QED BY <1>7 DEF Old, New

\* Of a subtree with one node moved to a place that is not below it, and others
\* without children taken away, the rest is left.
Moved(par, new, r, d, x, p, G) ==
  /\ DOMAIN par \subseteq DOMAIN new
  /\ \A n \in DOMAIN par :
       new[n] = (IF n = x THEN p ELSE IF n \in G THEN d ELSE par[n]) /\ par[n] \notin G
  /\ p \in Subtree(par, r) /\ p \notin Subtree(par, x) /\ p \notin G

LEMMA OnlyThoseGo ==
  ASSUME NEW par, NEW new, NEW r, NEW d, NEW x, NEW p, NEW G, Moved(par, new, r, d, x, p, G)
  PROVE  Subtree(par, r) \subseteq Subtree(new, r) \cup G
<1>0. /\ DOMAIN par \subseteq DOMAIN new
      /\ \A n \in DOMAIN par :
           new[n] = (IF n = x THEN p ELSE IF n \in G THEN d ELSE par[n]) /\ par[n] \notin G
      /\ p \in Subtree(par, r) /\ p \notin Subtree(par, x) /\ p \notin G
  BY DEF Moved
<1> DEFINE New == Subtree(new, r)
           B == Subtree(par, x)
<1>1. x \in B /\ Closed(par, B)
  BY SubtreeHas
<1>2. r \in New /\ Closed(new, New)
  BY SubtreeHas
<1> HIDE DEF New, B
<1>3. Closed(par, New \cup B \cup G)
  <2> SUFFICES ASSUME NEW n \in DOMAIN par, par[n] \in New \cup B, n \notin B, n \notin G PROVE n \in New
    BY <1>0 DEF Closed
  <2>1. par[n] \in New /\ n # x
    BY <1>1 DEF Closed
  <2> QED BY <1>0, <1>2, <2>1 DEF Closed
<1>4. Subtree(par, r) \subseteq New \cup B \cup G
  BY <1>2, <1>3, SubtreeLeast
<1>5. p \in New
  BY <1>0, <1>4 DEF B
<1>6. Closed(par, New \cup G)
  <2> SUFFICES ASSUME NEW n \in DOMAIN par, par[n] \in New, n \notin G PROVE n \in New
    BY <1>0 DEF Closed
  <2>1. new[n] \in New
    BY <1>0, <1>5
  <2> QED BY <1>0, <1>2, <2>1 DEF Closed
<1>7. Subtree(par, r) \subseteq New \cup G
  BY <1>2, <1>6, SubtreeLeast
<1> QED BY <1>7 DEF New
-----------------------------------------------------------------------------
(* Induction, and the order of siblings. *)

\* Some numbers have a least one.
LEMMA LeastOf ==
  ASSUME NEW I \in SUBSET Nat, I # {}
  PROVE  \E k \in I : \A j \in I : k <= j
<1>1. PICK k \in I : \A j \in I : ~(<<j, k>> \in OpToRel(<, Nat))
  BY NatLessThanWellFounded, WFMin
<1>2. ASSUME NEW j \in I PROVE k <= j
  <2>1. <<j, k>> \in Nat \X Nat /\ <<j, k>>[1] = j /\ <<j, k>>[2] = k
    OBVIOUS
  <2>2. ~(j < k)
    BY <1>1, <2>1 DEF OpToRel
  <2> QED BY <2>2
<1> QED BY <1>2

\* A set that has 0 and with a number the next one has them all.
LEMMA Onward ==
  ASSUME NEW S, 0 \in S, \A k \in Nat : k \in S => k + 1 \in S
  PROVE  \A k \in Nat : k \in S
<1> SUFFICES ASSUME Nat \ S # {} PROVE FALSE
  OBVIOUS
<1>1. PICK k \in Nat \ S : \A j \in Nat \ S : k <= j
  BY LeastOf
<1>2. k # 0 /\ k - 1 \in Nat /\ k - 1 \in S
  BY <1>1
<1> QED BY <1>1, <1>2

\* Root and deleted are no nodes; every node has its place in the order.
LEMMA Places ==
  TypeOK => /\ Root \notin Born /\ Deleted \notin Born /\ Root # Deleted
            /\ \A n \in Born : Place(n) \in DOMAIN order /\ order[Place(n)] = n
<1> SUFFICES ASSUME TypeOK, NEW n \in Born
             PROVE  Place(n) \in DOMAIN order /\ order[Place(n)] = n
  BY DEF TypeOK, Born, ToSet, Nodes, Root, Deleted
<1>1. \E i \in DOMAIN order : order[i] = n
  BY DEF Born, ToSet
<1> QED BY <1>1 DEF Place

\* Of some nodes there is one that comes first.
LEMMA FirstFacts ==
  TypeOK => \A S \in SUBSET Born :
    /\ First(S) \subseteq S /\ (\A m, n \in First(S) : m = n)
    /\ S # {} => First(S) # {}
<1> SUFFICES ASSUME TypeOK, NEW S \in SUBSET Born
             PROVE  /\ First(S) \subseteq S /\ (\A m, n \in First(S) : m = n)
                    /\ S # {} => First(S) # {}
  OBVIOUS
<1>1. \A n \in S : Place(n) \in Nat /\ order[Place(n)] = n
  BY Places DEF TypeOK
<1>2. ASSUME NEW m \in First(S), NEW n \in First(S) PROVE m = n
  <2>1. Place(m) <= Place(n) /\ Place(n) <= Place(m) /\ m \in S /\ n \in S
    BY DEF First
  <2>2. Place(m) = Place(n)
    BY <1>1, <2>1
  <2> QED BY <1>1, <2>1, <2>2
<1>3. ASSUME S # {} PROVE First(S) # {}
  <2> DEFINE I == {Place(n) : n \in S}
  <2>1. I \in SUBSET Nat /\ I # {}
    BY <1>1, <1>3
  <2>2. PICK k \in I : \A j \in I : k <= j
    BY <2>1, LeastOf
  <2>3. PICK n \in S : k = Place(n)
    BY <2>2
  <2>4. n \in First(S)
    BY <2>2, <2>3 DEF First
  <2> QED BY <2>4
<1> QED BY <1>2, <1>3 DEF First

\* child_named finds one child of that name, if there is any.
LEMMA ChildFacts ==
  TypeOK => \A p, nm :
    /\ \A n \in ChildNamed(p, nm) : n \in Born /\ parent[n] = p /\ name[n] = nm
    /\ \A m, n \in ChildNamed(p, nm) : m = n
    /\ \A n \in Born : parent[n] = p /\ name[n] = nm => ChildNamed(p, nm) # {}
<1> SUFFICES ASSUME TypeOK, NEW p, NEW nm
             PROVE  /\ \A n \in ChildNamed(p, nm) : n \in Born /\ parent[n] = p /\ name[n] = nm
                    /\ \A m, n \in ChildNamed(p, nm) : m = n
                    /\ \A n \in Born : parent[n] = p /\ name[n] = nm => ChildNamed(p, nm) # {}
  OBVIOUS
<1> DEFINE S == {n \in Children(p) : name[n] = nm}
<1>1. S \in SUBSET Born /\ \A n \in Born : n \in S <=> parent[n] = p /\ name[n] = nm
  BY DEF Children
<1>2. /\ ChildNamed(p, nm) \subseteq S /\ (\A m, n \in ChildNamed(p, nm) : m = n)
      /\ S # {} => ChildNamed(p, nm) # {}
  BY <1>1, FirstFacts DEF ChildNamed
<1> QED BY <1>1, <1>2

-----------------------------------------------------------------------------
(* Walks down. *)

\* g is the walk along the first m components of a path.
Stages(path, m, g) == g = [k \in 0..m |-> IF k = 0 THEN At(Root) ELSE Down(g[k - 1], path[k])]

\* There is such a walk, for any path.
LEMMA StagesExist == \A path : \A m \in Nat : \E g : Stages(path, m, g)
<1> SUFFICES ASSUME NEW path PROVE \A m \in Nat : \E g : Stages(path, m, g)
  OBVIOUS
<1> DEFINE S == {m \in Nat : \E g : Stages(path, m, g)}
<1>1. 0 \in S
  <2> DEFINE g == [k \in 0..0 |-> At(Root)]
  <2>1. Stages(path, 0, g)
    BY DEF Stages
  <2> QED BY <2>1
<1>2. ASSUME NEW m \in Nat, m \in S PROVE m + 1 \in S
  <2>1. PICK g : Stages(path, m, g)
    BY <1>2
  <2> DEFINE h == [k \in 0..(m + 1) |-> IF k <= m THEN g[k] ELSE Down(g[m], path[m + 1])]
  <2>2. Stages(path, m + 1, h)
    <3>1. \A k \in 0..m : h[k] = g[k] /\ g[k] = IF k = 0 THEN At(Root) ELSE Down(g[k - 1], path[k])
      BY <2>1 DEF Stages
    <3>2. \A k \in 0..(m + 1) : h[k] = IF k = 0 THEN At(Root) ELSE Down(h[k - 1], path[k])
      <4> TAKE k \in 0..(m + 1)
      <4>1. CASE k = 0
        <5>1. 0 \in 0..m
          OBVIOUS
        <5> HIDE DEF h
        <5> QED BY <3>1, <4>1, <5>1
      <4>2. CASE k \in 1..m
        <5>1. k - 1 \in 0..m /\ k \in 0..m /\ k # 0
          BY <4>2
        <5> HIDE DEF h
        <5> QED BY <3>1, <5>1
      <4>3. CASE k = m + 1
        <5>1. h[k] = Down(g[m], path[m + 1]) /\ m \in 0..m /\ k - 1 = m /\ k # 0
          BY <4>3
        <5> HIDE DEF h
        <5> QED BY <3>1, <4>3, <5>1
      <4> QED BY <4>1, <4>2, <4>3
    <3>3. h = [k \in 0..(m + 1) |-> h[k]]
      OBVIOUS
    <3> HIDE DEF h
    <3> QED BY <3>2, <3>3 DEF Stages
  <2> HIDE DEF h
  <2> QED BY <2>2
<1> HIDE DEF S
<1>3. \A m \in Nat : m \in S
  BY <1>1, <1>2, Onward
<1> QED BY <1>3 DEF S

\* Walks that begin alike get to the same node.
LEMMA StagesSame ==
  \A p, q, g, h : \A l, m \in Nat :
    Stages(p, l, g) /\ Stages(q, m, h) /\ (\A i \in 1..l : i <= m => p[i] = q[i])
    => \A k \in Nat : k <= l /\ k <= m => g[k] = h[k]
<1> SUFFICES ASSUME NEW p, NEW q, NEW g, NEW h, NEW l \in Nat, NEW m \in Nat,
                    Stages(p, l, g), Stages(q, m, h), \A i \in 1..l : i <= m => p[i] = q[i]
             PROVE  \A k \in Nat : k <= l /\ k <= m => g[k] = h[k]
  OBVIOUS
<1> DEFINE S == {k \in Nat : k <= l /\ k <= m => g[k] = h[k]}
<1>1. /\ \A k \in 0..l : g[k] = IF k = 0 THEN At(Root) ELSE Down(g[k - 1], p[k])
      /\ \A k \in 0..m : h[k] = IF k = 0 THEN At(Root) ELSE Down(h[k - 1], q[k])
  BY DEF Stages
<1>2. 0 \in S
  BY <1>1
<1>3. ASSUME NEW k \in Nat, k \in S PROVE k + 1 \in S
  <2> SUFFICES ASSUME k + 1 <= l, k + 1 <= m PROVE g[k + 1] = h[k + 1]
    OBVIOUS
  <2>1. /\ k + 1 \in 0..l /\ k + 1 \in 0..m /\ k + 1 # 0 /\ (k + 1) - 1 = k
        /\ k + 1 \in 1..l /\ g[k] = h[k]
    BY <1>3
  <2>2. p[k + 1] = q[k + 1]
    BY <2>1
  <2> QED BY <1>1, <2>1, <2>2
<1> HIDE DEF S
<1>4. \A k \in Nat : k \in S
  BY <1>2, <1>3, Onward
<1> QED BY <1>4 DEF S

\* resolve walks along all components.
LEMMA WalksStages ==
  \A path : Len(path) \in Nat => \E g : Stages(path, Len(path), g) /\ Walks(path) = g[Len(path)]
<1> SUFFICES ASSUME NEW path, Len(path) \in Nat
             PROVE  \E g : Stages(path, Len(path), g) /\ Walks(path) = g[Len(path)]
  OBVIOUS
<1> DEFINE at[k \in 0..Len(path)] == IF k = 0 THEN At(Root) ELSE Down(at[k - 1], path[k])
<1>1. \E g : g = [k \in 0..Len(path) |-> IF k = 0 THEN At(Root) ELSE Down(g[k - 1], path[k])]
  BY StagesExist DEF Stages
<1>2. at = [k \in 0..Len(path) |-> IF k = 0 THEN At(Root) ELSE Down(at[k - 1], path[k])]
  BY <1>1, Zenon DEF at
<1>3. Walks(path) = at[Len(path)]
  BY DEF Walks
<1> HIDE DEF at
<1> QED BY <1>2, <1>3 DEF Stages

\* The empty walk stays at the root.
LEMMA WalksNothing == Walks(<<>>) = At(Root)
<1>1. Len(<<>>) = 0
  OBVIOUS
<1>2. PICK g : Stages(<<>>, 0, g) /\ Walks(<<>>) = g[0]
  BY <1>1, WalksStages
<1> QED BY <1>2 DEF Stages

\* A walk along one component more goes one step down.
LEMMA WalksOn ==
  \A X : \A path \in Seq(X), nm \in X : Walks(Append(path, nm)) = Down(Walks(path), nm)
<1> SUFFICES ASSUME NEW X, NEW path \in Seq(X), NEW nm \in X
             PROVE  Walks(Append(path, nm)) = Down(Walks(path), nm)
  OBVIOUS
<1> DEFINE q == Append(path, nm)
           m == Len(path)
<1>1. /\ m \in Nat /\ Len(q) = m + 1 /\ q[m + 1] = nm /\ \A i \in 1..m : q[i] = path[i]
  BY AppendProperties
<1> HIDE DEF q, m
<1>2. PICK g : Stages(path, m, g) /\ Walks(path) = g[m]
  BY <1>1, WalksStages DEF m
<1>3. PICK h : Stages(q, m + 1, h) /\ Walks(q) = h[m + 1]
  BY <1>1, WalksStages
<1>4. m + 1 \in 0..(m + 1) /\ m + 1 # 0 /\ (m + 1) - 1 = m /\ m + 1 \in Nat /\ m <= m + 1 /\ m <= m
  BY <1>1
<1>5. h[m + 1] = Down(h[m], q[m + 1])
  BY <1>3, <1>4 DEF Stages
<1>6. g[m] = h[m]
  BY <1>1, <1>2, <1>3, <1>4, StagesSame
<1> QED BY <1>1, <1>2, <1>3, <1>5, <1>6 DEF q

\* Where a walk ended, if it did not fail, is one of these nodes.
Went(a, S) == a.err = "" => \E n \in S : a = At(n)

LEMMA AtFacts == \A n : At(n).err = "" /\ At(n).node = n
  BY DEF At

LEMMA FailsFacts == \A e : Fails(e).err = e
  BY DEF Fails

\* A step down from a node either fails or finds its child of that name.
LEMMA DownFacts ==
  /\ \A a, nm : a.err # "" => Down(a, nm) = a
  /\ \A p, nm : Down(At(p), nm).err = "" =>
       IsDir(p) /\ \E n \in ChildNamed(p, nm) : Down(At(p), nm) = At(n)
  /\ \A p, nm : IsDir(p) /\ ChildNamed(p, nm) # {} =>
       \E n \in ChildNamed(p, nm) : Down(At(p), nm) = At(n)
<1>1. ASSUME NEW a, NEW nm, a.err # "" PROVE Down(a, nm) = a
  BY <1>1, Zenon DEF Down
<1>2. ASSUME NEW p, NEW nm
      PROVE  /\ ~IsDir(p) => Down(At(p), nm) = Fails("NotADirectory")
             /\ IsDir(p) /\ ChildNamed(p, nm) = {} => Down(At(p), nm) = Fails("NotFound")
             /\ IsDir(p) /\ ChildNamed(p, nm) # {} =>
                  Down(At(p), nm) = At(CHOOSE n \in ChildNamed(p, nm) : TRUE)
  <2> DEFINE a == At(p)
  <2>1. a.err = "" /\ a.node = p
    BY AtFacts
  <2> HIDE DEF a
  <2>2. ~IsDir(a.node) => Down(a, nm) = Fails("NotADirectory")
    BY <2>1, Zenon DEF Down
  <2>3. IsDir(a.node) /\ ChildNamed(a.node, nm) = {} => Down(a, nm) = Fails("NotFound")
    BY <2>1, Zenon DEF Down
  <2>4. IsDir(a.node) /\ ChildNamed(a.node, nm) # {} =>
          Down(a, nm) = At(CHOOSE n \in ChildNamed(a.node, nm) : TRUE)
    BY <2>1, Zenon DEF Down
  <2> QED BY <2>1, <2>2, <2>3, <2>4, Zenon DEF a
<1>3. Fails("NotADirectory").err # "" /\ Fails("NotFound").err # ""
  <2>1. \A e, f : e # f => Fails(e).err # f
    BY FailsFacts, Zenon
  <2>2. "NotADirectory" # "" /\ "NotFound" # ""
    OBVIOUS
  <2>3. Fails("NotADirectory").err # ""
    BY <2>1, <2>2
  <2>4. Fails("NotFound").err # ""
    BY <2>1, <2>2
  <2> QED BY <2>3, <2>4
<1>4. ASSUME NEW C, C # {} PROVE (CHOOSE n \in C : TRUE) \in C
  BY <1>4
<1>5. ASSUME NEW p, NEW nm, IsDir(p), ChildNamed(p, nm) # {}
      PROVE  \E n \in ChildNamed(p, nm) : Down(At(p), nm) = At(n)
  BY <1>2, <1>4, <1>5, Zenon
<1>6. ASSUME NEW p, NEW nm, Down(At(p), nm).err = ""
      PROVE  IsDir(p) /\ \E n \in ChildNamed(p, nm) : Down(At(p), nm) = At(n)
  BY <1>2, <1>3, <1>5, <1>6, Zenon
<1> QED BY <1>1, <1>5, <1>6, Zenon

\* A step down from what hangs from the root stays there.
LEMMA WentDown ==
  TypeOK => \A a, nm : Went(a, Below(Root)) =>
    /\ Went(Down(a, nm), Below(Root))
    /\ a.err = "" => Went(Down(a, nm), Alive)
<1> SUFFICES ASSUME TypeOK, NEW a, NEW nm, Went(a, Below(Root))
             PROVE  /\ Went(Down(a, nm), Below(Root))
                    /\ a.err = "" => Went(Down(a, nm), Alive)
  OBVIOUS
<1>1. CASE a.err # ""
  BY <1>1, DownFacts, Zenon DEF Went
<1>2. CASE a.err = ""
  <2>1. PICK p \in Below(Root) : a = At(p)
    BY <1>2, Zenon DEF Went
  <2>2. ASSUME Down(a, nm).err = "" PROVE \E n \in Alive : Down(a, nm) = At(n)
    <3>1. PICK n \in ChildNamed(p, nm) : Down(At(p), nm) = At(n)
      BY <2>1, <2>2, DownFacts, Zenon
    <3>2. n \in Born /\ parent[n] = p
      BY ChildFacts
    <3>3. Closed(parent, Below(Root)) /\ DOMAIN parent = Born
      BY SubtreeHas DEF Below, TypeOK
    <3>4. n \in Below(Root) /\ n # Root
      BY <3>2, <3>3, Places DEF Closed
    <3>5. n \in Alive
      BY <3>4 DEF Alive
    <3> QED BY <2>1, <3>1, <3>5, Zenon
  <2>3. \A n \in Alive : n \in Below(Root)
    BY DEF Alive
  <2> QED BY <2>2, <2>3, Zenon DEF Went
<1> QED BY <1>1, <1>2, Zenon

\* What a walk reaches hangs from the root; a walk along a path gets below it.
LEMMA Reached ==
  TypeOK => \A path : Len(path) \in Nat =>
    Went(Walks(path), Below(Root)) /\ (Len(path) > 0 => Went(Walks(path), Alive))
<1> SUFFICES ASSUME TypeOK, NEW path, NEW l \in Nat, l = Len(path)
             PROVE  Went(Walks(path), Below(Root)) /\ (l > 0 => Went(Walks(path), Alive))
  OBVIOUS
<1>1. PICK g : Stages(path, l, g) /\ Walks(path) = g[l]
  BY WalksStages
<1>2. \A k \in 0..l : g[k] = IF k = 0 THEN At(Root) ELSE Down(g[k - 1], path[k])
  BY <1>1 DEF Stages
<1>3. ASSUME NEW k \in Nat, k + 1 <= l PROVE g[k + 1] = Down(g[k], path[k + 1])
  <2>1. k + 1 \in 0..l /\ k + 1 # 0 /\ (k + 1) - 1 = k
    BY <1>3
  <2> QED BY <1>2, <2>1
<1>4. Went(g[0], Below(Root))
  <2>1. Root \in Below(Root) /\ 0 \in 0..l
    BY SubtreeHas DEF Below
  <2>2. g[0] = At(Root)
    BY <1>2, <2>1
  <2> QED BY <2>1, <2>2, Zenon DEF Went
<1> DEFINE R == Below(Root)
           S == {k \in Nat : k <= l => Went(g[k], R) /\ (k > 0 => Went(g[k], Alive))}
<1> HIDE DEF R
<1>5. 0 \in S
  BY <1>4 DEF R
<1>6. ASSUME NEW k \in Nat, k \in S PROVE k + 1 \in S
  <2> SUFFICES ASSUME k + 1 <= l PROVE Went(g[k + 1], R) /\ Went(g[k + 1], Alive)
    OBVIOUS
  <2>1. Went(g[k], R) /\ (k > 0 => Went(g[k], Alive))
    BY <1>6
  <2>2. g[k + 1] = Down(g[k], path[k + 1])
    BY <1>3
  <2>3. Went(g[k + 1], R) /\ (g[k].err = "" => Went(g[k + 1], Alive))
    BY <2>1, <2>2, WentDown, Zenon DEF R
  <2>4. CASE g[k].err # ""
    <3>1. g[k + 1] = g[k]
      BY <2>2, <2>4, DownFacts, Zenon
    <3>2. Went(g[k + 1], Alive)
      BY <2>4, <3>1, Zenon DEF Went
    <3> QED BY <2>3, <3>2, Zenon
  <2> QED BY <2>3, <2>4, Zenon
<1> HIDE DEF S
<1>7. \A k \in Nat : k \in S
  BY <1>5, <1>6, Onward
<1>8. l \in S /\ l <= l
  BY <1>7
<1>9. Went(g[l], R) /\ (l > 0 => Went(g[l], Alive))
  BY <1>8 DEF S
<1> QED BY <1>1, <1>9, Zenon DEF R

-----------------------------------------------------------------------------
(* Levels of the walk up and of the walk down. *)

\* u[k][n] are the paths of n found within k levels.
Ups(m, u) == u = [k \in 0..m |-> [n \in Born |-> IF k = 0 THEN {} ELSE Up(u[k - 1], n)]]
\* w[k] is what is listed within k levels.
Listed(L) == L \cup UNION {Entries(d) : d \in {e \in L : IsDir(e[1])}}
Lists(m, w) == w = [k \in 0..m |-> IF k = 0 THEN {<<Root, <<>>>>} ELSE Listed(w[k - 1])]

\* There are such levels, of both.
LEMMA UpsExist == \A m \in Nat : \E u : Ups(m, u)
<1> DEFINE S == {m \in Nat : \E u : Ups(m, u)}
<1>1. 0 \in S
  <2> DEFINE u == [k \in 0..0 |-> [n \in Born |-> {}]]
  <2>1. Ups(0, u)
    BY DEF Ups
  <2> QED BY <2>1
<1>2. ASSUME NEW m \in Nat, m \in S PROVE m + 1 \in S
  <2>1. PICK u : Ups(m, u)
    BY <1>2
  <2> DEFINE v == [k \in 0..(m + 1) |-> IF k <= m THEN u[k] ELSE [n \in Born |-> Up(u[m], n)]]
  <2>2. Ups(m + 1, v)
    <3>1. \A k \in 0..m : v[k] = u[k] /\ u[k] = [n \in Born |-> IF k = 0 THEN {} ELSE Up(u[k - 1], n)]
      <4>1. \A k \in 0..m : k \in 0..(m + 1) /\ k <= m
        OBVIOUS
      <4>2. \A k \in 0..m : v[k] = u[k]
        BY <4>1
      <4> HIDE DEF v
      <4> QED BY <2>1, <4>2 DEF Ups
    <3>2. \A k \in 0..(m + 1) : v[k] = [n \in Born |-> IF k = 0 THEN {} ELSE Up(v[k - 1], n)]
      <4> TAKE k \in 0..(m + 1)
      <4>1. CASE k = 0
        <5>1. 0 \in 0..m
          OBVIOUS
        <5> HIDE DEF v
        <5> QED BY <3>1, <4>1, <5>1
      <4>2. CASE k \in 1..m
        <5>1. k - 1 \in 0..m /\ k \in 0..m /\ k # 0
          BY <4>2
        <5> HIDE DEF v
        <5> QED BY <3>1, <5>1
      <4>3. CASE k = m + 1
        <5>1. v[k] = [n \in Born |-> Up(u[m], n)] /\ m \in 0..m /\ k - 1 = m /\ k # 0
          BY <4>3
        <5> HIDE DEF v
        <5> QED BY <3>1, <4>3, <5>1
      <4> QED BY <4>1, <4>2, <4>3
    <3>3. v = [k \in 0..(m + 1) |-> v[k]]
      OBVIOUS
    <3> HIDE DEF v
    <3> QED BY <3>2, <3>3 DEF Ups
  <2> HIDE DEF v
  <2> QED BY <2>2
<1> HIDE DEF S
<1>3. \A m \in Nat : m \in S
  BY <1>1, <1>2, Onward
<1> QED BY <1>3 DEF S

LEMMA ListsExist == \A m \in Nat : \E w : Lists(m, w)
<1> DEFINE S == {m \in Nat : \E w : Lists(m, w)}
<1>1. 0 \in S
  <2> DEFINE w == [k \in 0..0 |-> {<<Root, <<>>>>}]
  <2>1. Lists(0, w)
    BY DEF Lists
  <2> QED BY <2>1
<1>2. ASSUME NEW m \in Nat, m \in S PROVE m + 1 \in S
  <2>1. PICK w : Lists(m, w)
    BY <1>2
  <2> DEFINE v == [k \in 0..(m + 1) |-> IF k <= m THEN w[k] ELSE Listed(w[m])]
  <2>2. Lists(m + 1, v)
    <3>1. \A k \in 0..m : v[k] = w[k] /\ w[k] = IF k = 0 THEN {<<Root, <<>>>>} ELSE Listed(w[k - 1])
      <4>1. \A k \in 0..m : k \in 0..(m + 1) /\ k <= m
        OBVIOUS
      <4>2. \A k \in 0..m : v[k] = w[k]
        BY <4>1
      <4> HIDE DEF v
      <4> QED BY <2>1, <4>2 DEF Lists
    <3>2. \A k \in 0..(m + 1) : v[k] = IF k = 0 THEN {<<Root, <<>>>>} ELSE Listed(v[k - 1])
      <4> TAKE k \in 0..(m + 1)
      <4>1. CASE k = 0
        <5>1. 0 \in 0..m
          OBVIOUS
        <5> HIDE DEF v
        <5> QED BY <3>1, <4>1, <5>1
      <4>2. CASE k \in 1..m
        <5>1. k - 1 \in 0..m /\ k \in 0..m /\ k # 0
          BY <4>2
        <5> HIDE DEF v
        <5> QED BY <3>1, <5>1
      <4>3. CASE k = m + 1
        <5>1. v[k] = Listed(w[m]) /\ m \in 0..m /\ k - 1 = m /\ k # 0
          BY <4>3
        <5> HIDE DEF v
        <5> QED BY <3>1, <4>3, <5>1
      <4> QED BY <4>1, <4>2, <4>3
    <3>3. v = [k \in 0..(m + 1) |-> v[k]]
      OBVIOUS
    <3> HIDE DEF v
    <3> QED BY <3>2, <3>3 DEF Lists
  <2> HIDE DEF v
  <2> QED BY <2>2
<1> HIDE DEF S
<1>3. \A m \in Nat : m \in S
  BY <1>1, <1>2, Onward
<1> QED BY <1>3 DEF S

\* path_of is what is found within as many levels as there can be nodes.
LEMMA PathLevels == \E u : Ups(MaxNodes, u) /\ \A n : PathOf(n) = u[MaxNodes][n]
<1> DEFINE up[k \in 0..MaxNodes] == [n \in Born |-> IF k = 0 THEN {} ELSE Up(up[k - 1], n)]
<1>1. \E u : u = [k \in 0..MaxNodes |-> [n \in Born |-> IF k = 0 THEN {} ELSE Up(u[k - 1], n)]]
  BY UpsExist DEF Ups
<1>2. up = [k \in 0..MaxNodes |-> [n \in Born |-> IF k = 0 THEN {} ELSE Up(up[k - 1], n)]]
  BY <1>1, Zenon DEF up
<1>3. \A n : PathOf(n) = up[MaxNodes][n]
  BY DEF PathOf
<1> HIDE DEF up
<1> QED BY <1>2, <1>3 DEF Ups

\* So is walk.
LEMMA WalkLevels == \E w : Lists(MaxNodes, w) /\ Walk = w[MaxNodes] \ {<<Root, <<>>>>}
<1> DEFINE down[k \in 0..MaxNodes] ==
             IF k = 0 THEN {<<Root, <<>>>>}
             ELSE down[k - 1] \cup UNION {Entries(d) : d \in {e \in down[k - 1] : IsDir(e[1])}}
<1>1. \E w : w = [k \in 0..MaxNodes |->
                   IF k = 0 THEN {<<Root, <<>>>>}
                   ELSE w[k - 1] \cup UNION {Entries(d) : d \in {e \in w[k - 1] : IsDir(e[1])}}]
  BY ListsExist DEF Lists, Listed
<1>2. down = [k \in 0..MaxNodes |->
                IF k = 0 THEN {<<Root, <<>>>>}
                ELSE down[k - 1] \cup UNION {Entries(d) : d \in {e \in down[k - 1] : IsDir(e[1])}}]
  BY <1>1, Zenon DEF down
<1>3. Walk = down[MaxNodes] \ {<<Root, <<>>>>}
  BY DEF Walk
<1> HIDE DEF down
<1> QED BY <1>2, <1>3 DEF Lists, Listed

-----------------------------------------------------------------------------
(* Paths of nodes. *)

\* What a node hangs from.
LEMMA ParentFacts ==
  OneTree => \A n \in Born :
    /\ parent[n] \in Born \cup {Root, Deleted} /\ parent[n] # n
    /\ parent[n] \in Born \cup {Root} => IsDir(parent[n])
    /\ parent[n] \in Below(Root) => n \in Alive
    /\ n \in Alive => parent[n] \in Below(Root) /\ parent[n] # Deleted
<1> SUFFICES ASSUME OneTree, NEW n \in Born
             PROVE  /\ parent[n] \in Born \cup {Root, Deleted} /\ parent[n] # n
                    /\ parent[n] \in Born \cup {Root} => IsDir(parent[n])
                    /\ parent[n] \in Below(Root) => n \in Alive
                    /\ n \in Alive => parent[n] \in Below(Root) /\ parent[n] # Deleted
  OBVIOUS
<1>1. /\ TypeOK /\ DOMAIN parent = Born
      /\ Root \notin Born /\ Deleted \notin Born /\ Root # Deleted
  BY Places DEF OneTree, TypeOK
<1>2. \A p : Below(p) \subseteq Born \cup {p} /\ Closed(parent, Below(p))
  BY <1>1, SubtreeHas DEF Below
<1>3. \A p : n \in Below(p) /\ n # p => parent[n] \in Below(p) /\ parent[n] # n
  BY SubtreeUp DEF Below
<1>4. \E p \in {Root, Deleted} : n \in Below(p) /\ n # p
  BY <1>1 DEF OneTree
<1>5. parent[n] \in Born \cup {Root, Deleted} /\ parent[n] # n
  BY <1>2, <1>3, <1>4
<1>6. parent[n] \in Born \cup {Root} => IsDir(parent[n])
  BY <1>1 DEF TypeOK, IsDir, Born, ToSet, Root
<1>7. parent[n] \in Below(Root) => n \in Alive
  BY <1>1, <1>2 DEF Closed, Alive
<1>8. n \in Alive => parent[n] \in Below(Root) /\ parent[n] # Deleted
  BY <1>1, <1>2, <1>3 DEF Alive
<1> QED BY <1>5, <1>6, <1>7, <1>8

\* One level more of path_of is one step up.
LEMMA UpsOn ==
  \A u : \A m \in Nat : Ups(m, u) =>
    /\ \A n \in Born : u[0][n] = {}
    /\ \A k \in Nat : k + 1 <= m => \A n \in Born : u[k + 1][n] = Up(u[k], n)
<1> SUFFICES ASSUME NEW u, NEW m \in Nat, Ups(m, u)
             PROVE  /\ \A n \in Born : u[0][n] = {}
                    /\ \A k \in Nat : k + 1 <= m => \A n \in Born : u[k + 1][n] = Up(u[k], n)
  OBVIOUS
<1>1. \A k \in 0..m : u[k] = [n \in Born |-> IF k = 0 THEN {} ELSE Up(u[k - 1], n)]
  BY DEF Ups
<1>2. \A n \in Born : u[0][n] = {}
  <2>1. 0 \in 0..m
    OBVIOUS
  <2> QED BY <1>1, <2>1
<1>3. ASSUME NEW k \in Nat, k + 1 <= m, NEW n \in Born PROVE u[k + 1][n] = Up(u[k], n)
  <2>1. k + 1 \in 0..m /\ k + 1 # 0 /\ (k + 1) - 1 = k
    BY <1>3
  <2>2. u[k + 1] = [a \in Born |-> IF k + 1 = 0 THEN {} ELSE Up(u[(k + 1) - 1], a)]
    BY <1>1, <2>1
  <2> QED BY <1>3, <2>1, <2>2
<1> QED BY <1>2, <1>3

\* What path_of finds a level up: the name below the root, or a path of the
\* parent and the name.
LEMMA UpFacts ==
  OneTree => \A paths : \A n \in Born : \A p \in Up(paths, n) :
    /\ name[n] \in Names /\ parent[n] # Deleted
    /\ \/ parent[n] = Root /\ p = <<name[n]>>
       \/ parent[n] \in Born /\ \E q \in paths[parent[n]] : p = Append(q, name[n])
<1> SUFFICES ASSUME OneTree, NEW paths, NEW n \in Born, NEW p \in Up(paths, n)
             PROVE  /\ name[n] \in Names /\ parent[n] # Deleted
                    /\ \/ parent[n] = Root /\ p = <<name[n]>>
                       \/ parent[n] \in Born /\ \E q \in paths[parent[n]] : p = Append(q, name[n])
  OBVIOUS
<1>1. ~(name[n] \in BadNames \/ parent[n] = Deleted)
  BY DEF Up
<1>2. name[n] \in Names \cup BadNames
  BY DEF OneTree, TypeOK
<1>3. parent[n] = Root => p = <<name[n]>>
  BY <1>1 DEF Up
<1>4. parent[n] # Root => \E q \in paths[parent[n]] : p = Append(q, name[n])
  BY <1>1 DEF Up
<1> QED BY <1>1, <1>2, <1>3, <1>4, ParentFacts

\* What is found stays found, and belongs to a node that hangs from the root.
LEMMA UpsGrow ==
  OneTree => \A u : \A m \in Nat : Ups(m, u) =>
    \A k \in Nat : k + 1 <= m => \A n \in Born : u[k][n] \subseteq u[k + 1][n]
<1> SUFFICES ASSUME OneTree, NEW u, NEW m \in Nat, Ups(m, u)
             PROVE  \A k \in Nat : k + 1 <= m => \A n \in Born : u[k][n] \subseteq u[k + 1][n]
  OBVIOUS
<1> DEFINE S == {k \in Nat : k + 1 <= m => \A n \in Born : u[k][n] \subseteq u[k + 1][n]}
<1>1. 0 \in S
  BY UpsOn
<1>2. ASSUME NEW k \in Nat, k \in S PROVE k + 1 \in S
  <2> SUFFICES ASSUME (k + 1) + 1 <= m, NEW n \in Born, NEW p \in u[k + 1][n]
               PROVE  p \in u[(k + 1) + 1][n]
    OBVIOUS
  <2>1. /\ k + 1 <= m /\ k + 1 \in Nat /\ u[k + 1][n] = Up(u[k], n)
        /\ u[(k + 1) + 1][n] = Up(u[k + 1], n)
    <3>1. k + 1 <= m /\ k + 1 \in Nat
      OBVIOUS
    <3> QED BY <3>1, UpsOn
  <2>2. \A a \in Born : u[k][a] \subseteq u[k + 1][a]
    BY <1>2, <2>1
  <2>3. /\ name[n] \in Names /\ parent[n] # Deleted /\ ~(name[n] \in BadNames)
        /\ \/ parent[n] = Root /\ p = <<name[n]>>
           \/ parent[n] \in Born /\ \E q \in u[k][parent[n]] : p = Append(q, name[n])
    BY <2>1, UpFacts, NamesAssumption
  <2>4. p \in Up(u[k + 1], n)
    <3>1. CASE parent[n] = Root
      BY <2>3, <3>1, Places DEF Up, OneTree
    <3>2. CASE parent[n] \in Born /\ parent[n] # Root
      <4>1. PICK q \in u[k][parent[n]] : p = Append(q, name[n])
        BY <2>3, <3>2
      <4>2. q \in u[k + 1][parent[n]]
        BY <2>2, <3>2
      <4> QED BY <2>3, <3>2, <4>1, <4>2 DEF Up
    <3> QED BY <2>3, <3>1, <3>2
  <2> QED BY <2>1, <2>4
<1> HIDE DEF S
<1>3. \A k \in Nat : k \in S
  BY <1>1, <1>2, Onward
<1> QED BY <1>3 DEF S

\* A path with a name at its end.
LEMMA AppendFacts ==
  \A X : \A q \in Seq(X), x \in X :
    /\ Append(q, x) \in Seq(X) /\ Len(Append(q, x)) \in Nat /\ Len(Append(q, x)) > 0
    /\ Append(q, x) # <<>> /\ Front(Append(q, x)) = q /\ Last(Append(q, x)) = x
<1> SUFFICES ASSUME NEW X, NEW q \in Seq(X), NEW x \in X
             PROVE  /\ Append(q, x) \in Seq(X) /\ Len(Append(q, x)) \in Nat /\ Len(Append(q, x)) > 0
                    /\ Append(q, x) # <<>> /\ Front(Append(q, x)) = q /\ Last(Append(q, x)) = x
  OBVIOUS
<1> DEFINE p == Append(q, x)
<1>1. /\ p \in Seq(X) /\ Len(p) = Len(q) + 1 /\ Len(q) \in Nat /\ p[Len(q) + 1] = x
      /\ \A i \in 1..Len(q) : p[i] = q[i]
  BY AppendProperties
<1> HIDE DEF p
<1>2. Last(p) = x /\ p # <<>> /\ Len(p) > 0 /\ Len(p) \in Nat
  BY <1>1 DEF Last
<1>3. Front(p) = q
  <2>1. Front(p) \in Seq(X) /\ Len(Front(p)) = Len(q) /\ \A i \in 1..Len(q) : Front(p)[i] = p[i]
    BY <1>1 DEF Front
  <2> QED BY <1>1, <2>1, SeqEqual
<1> QED BY <1>1, <1>2, <1>3 DEF p

LEMMA OneName == \A x : <<x>> = Append(<<>>, x) /\ \A X : <<>> \in Seq(X)
  OBVIOUS

\* A path of a node is one of valid names; and where names are unique, it leads
\* to that node.
PathFor(n, p) ==
  /\ p \in Seq(Names) /\ p # <<>> /\ Len(p) > 0 /\ n \in Alive
  /\ Unique => Walks(p) = At(n)

\* Where names are unique, the name of a node leads down to it.
LEMMA NameLeads ==
  OneTree /\ Unique => \A n \in Alive : Down(At(parent[n]), name[n]) = At(n)
<1> SUFFICES ASSUME OneTree, Unique, NEW n \in Alive PROVE Down(At(parent[n]), name[n]) = At(n)
  OBVIOUS
<1>1. TypeOK /\ n \in Born
  <2>1. TypeOK /\ Below(Root) \subseteq Born \cup {Root}
    BY SubtreeHas DEF OneTree, TypeOK, Below
  <2> QED BY <2>1 DEF Alive
<1>2. IsDir(parent[n]) /\ parent[n] \in Below(Root)
  <2>1. parent[n] \in Below(Root) /\ parent[n] \in Born \cup {Root}
    BY <1>1, ParentFacts
  <2> QED BY <1>1, <2>1, ParentFacts
<1>3. ChildNamed(parent[n], name[n]) # {}
  BY <1>1, ChildFacts
<1>4. PICK c \in ChildNamed(parent[n], name[n]) : Down(At(parent[n]), name[n]) = At(c)
  BY <1>2, <1>3, DownFacts
<1>5. c \in Born /\ parent[c] = parent[n] /\ name[c] = name[n]
  BY <1>1, ChildFacts
<1>6. c \in Alive
  BY <1>2, <1>5, ParentFacts
<1>7. c = n
  BY <1>5, <1>6 DEF Unique
<1> QED BY <1>4, <1>7

\* What hangs right from the root, or from a node with a path, has one.
LEMMA PathForOn ==
  OneTree => \A n \in Born : \A q : name[n] \in Names =>
    /\ parent[n] = Root => PathFor(n, <<name[n]>>)
    /\ parent[n] \in Born /\ PathFor(parent[n], q) => PathFor(n, Append(q, name[n]))
<1> SUFFICES ASSUME OneTree, NEW n \in Born, name[n] \in Names
             PROVE  /\ parent[n] = Root => PathFor(n, <<name[n]>>)
                    /\ \A q : parent[n] \in Born /\ PathFor(parent[n], q) => PathFor(n, Append(q, name[n]))
  OBVIOUS
<1>1. ASSUME NEW q \in Seq(Names), parent[n] \in Below(Root), Unique => Walks(q) = At(parent[n])
      PROVE  PathFor(n, Append(q, name[n]))
  <2>1. n \in Alive
    BY <1>1, ParentFacts
  <2>2. Unique => Down(At(parent[n]), name[n]) = At(n)
    BY <2>1, NameLeads
  <2>3. Walks(Append(q, name[n])) = Down(Walks(q), name[n])
    BY WalksOn
  <2>4. Unique => Walks(Append(q, name[n])) = At(n)
    BY <1>1, <2>2, <2>3
  <2>5. Append(q, name[n]) \in Seq(Names) /\ Append(q, name[n]) # <<>> /\ Len(Append(q, name[n])) > 0
    BY AppendFacts
  <2> QED BY <2>1, <2>4, <2>5 DEF PathFor
<1>2. ASSUME parent[n] = Root PROVE PathFor(n, <<name[n]>>)
  <2>1. <<>> \in Seq(Names) /\ <<name[n]>> = Append(<<>>, name[n])
    BY OneName
  <2>2. parent[n] \in Below(Root) /\ Walks(<<>>) = At(parent[n])
    BY <1>2, WalksNothing, SubtreeHas DEF Below
  <2>3. PathFor(n, Append(<<>>, name[n]))
    BY <1>1, <2>1, <2>2
  <2> QED BY <2>1, <2>3
<1>3. ASSUME NEW q, parent[n] \in Born, PathFor(parent[n], q) PROVE PathFor(n, Append(q, name[n]))
  <2>1. q \in Seq(Names) /\ parent[n] \in Alive /\ (Unique => Walks(q) = At(parent[n]))
    BY <1>3 DEF PathFor
  <2>2. parent[n] \in Below(Root)
    BY <2>1 DEF Alive
  <2> QED BY <1>1, <2>1, <2>2
<1> QED BY <1>2, <1>3

LEMMA UpsFor ==
  OneTree => \A u : \A m \in Nat : Ups(m, u) =>
    \A k \in Nat : k <= m => \A n \in Born : \A p \in u[k][n] : PathFor(n, p)
<1> SUFFICES ASSUME OneTree, NEW u, NEW m \in Nat, Ups(m, u)
             PROVE  \A k \in Nat : k <= m => \A n \in Born : \A p \in u[k][n] : PathFor(n, p)
  OBVIOUS
<1> DEFINE S == {k \in Nat : k <= m => \A n \in Born : \A p \in u[k][n] : PathFor(n, p)}
<1>1. 0 \in S
  BY UpsOn
<1>2. ASSUME NEW k \in Nat, k \in S PROVE k + 1 \in S
  <2> SUFFICES ASSUME k + 1 <= m, NEW n \in Born, NEW p \in u[k + 1][n] PROVE PathFor(n, p)
    OBVIOUS
  <2>1. k <= m /\ p \in Up(u[k], n)
    BY UpsOn
  <2>2. \A a \in Born : \A q \in u[k][a] : PathFor(a, q)
    BY <1>2, <2>1
  <2>3. /\ name[n] \in Names
        /\ \/ parent[n] = Root /\ p = <<name[n]>>
           \/ parent[n] \in Born /\ \E q \in u[k][parent[n]] : p = Append(q, name[n])
    BY <2>1, UpFacts
  <2>4. CASE parent[n] = Root /\ p = <<name[n]>>
    BY <2>3, <2>4, PathForOn
  <2>5. CASE parent[n] \in Born /\ \E q \in u[k][parent[n]] : p = Append(q, name[n])
    BY <2>2, <2>3, <2>5, PathForOn
  <2> QED BY <2>3, <2>4, <2>5
<1> HIDE DEF S
<1>3. \A k \in Nat : k \in S
  BY <1>1, <1>2, Onward
<1> QED BY <1>3 DEF S

\* What path_of returns is a path of its node.
LEMMA PathOfFor == OneTree => \A n \in Born : \A p \in PathOf(n) : PathFor(n, p)
<1> SUFFICES ASSUME OneTree PROVE \A n \in Born : \A p \in PathOf(n) : PathFor(n, p)
  OBVIOUS
<1>1. PICK u : Ups(MaxNodes, u) /\ \A n : PathOf(n) = u[MaxNodes][n]
  BY PathLevels
<1>2. \A n \in Born : \A p \in u[MaxNodes][n] : PathFor(n, p)
  BY <1>1, UpsFor
<1> QED BY <1>1, <1>2

\* The path the mount makes of a directory and a name has that name at its end,
\* and in front of it, where names are unique, the way to the directory.
LEMMA ChildPathFacts ==
  OneTree => \A d \in Inodes, nm \in Names : \A p \in ChildPath(d, nm) :
    /\ p \in Seq(Names) /\ p # <<>> /\ Len(p) \in Nat /\ Len(p) > 0
    /\ Last(p) = nm /\ Front(p) \in Seq(Names) /\ Len(Front(p)) \in Nat
    /\ p = Append(Front(p), nm)
    /\ Unique => Walks(Front(p)) = At(d)
<1> SUFFICES ASSUME OneTree, NEW d \in Inodes, NEW nm \in Names, NEW p \in ChildPath(d, nm)
             PROVE  \E q \in Seq(Names) : p = Append(q, nm) /\ (Unique => Walks(q) = At(d))
  <2>1. ASSUME NEW d \in Inodes, NEW nm \in Names, NEW p \in ChildPath(d, nm),
               NEW q \in Seq(Names), p = Append(q, nm), Unique => Walks(q) = At(d)
        PROVE  /\ p \in Seq(Names) /\ p # <<>> /\ Len(p) \in Nat /\ Len(p) > 0
               /\ Last(p) = nm /\ Front(p) \in Seq(Names) /\ Len(Front(p)) \in Nat
               /\ p = Append(Front(p), nm)
               /\ Unique => Walks(Front(p)) = At(d)
    <3>1. /\ p \in Seq(Names) /\ p # <<>> /\ Len(p) \in Nat /\ Len(p) > 0
          /\ Last(p) = nm /\ Front(p) = q
      BY <2>1, AppendFacts
    <3>2. Len(q) \in Nat
      OBVIOUS
    <3> QED BY <2>1, <3>1, <3>2
  <2> QED BY <2>1
<1>1. CASE d = Root
  <2>1. <<>> \in Seq(Names) /\ <<nm>> = Append(<<>>, nm) /\ p = <<nm>>
    BY <1>1, OneName DEF ChildPath
  <2> QED BY <1>1, <2>1, WalksNothing
<1>2. CASE d # Root
  <2>1. d \in Born
    BY <1>2 DEF Inodes
  <2>2. PICK q \in PathOf(d) : p = Append(q, nm)
    BY <1>2 DEF ChildPath
  <2>3. PathFor(d, q)
    BY <2>1, PathOfFor
  <2> QED BY <2>2, <2>3 DEF PathFor
<1> QED BY <1>1, <1>2

-----------------------------------------------------------------------------
(* The walk from the top finds what the walks from the bottom do. *)

Top == <<Root, <<>>>>

\* One level more of walk lists the entries of all directories so far.
LEMMA ListsOn ==
  \A w : \A m \in Nat : Lists(m, w) =>
    /\ w[0] = {Top}
    /\ \A k \in Nat : k + 1 <= m => w[k + 1] = Listed(w[k])
<1> SUFFICES ASSUME NEW w, NEW m \in Nat, Lists(m, w)
             PROVE  w[0] = {Top} /\ \A k \in Nat : k + 1 <= m => w[k + 1] = Listed(w[k])
  OBVIOUS
<1>1. \A k \in 0..m : w[k] = IF k = 0 THEN {Top} ELSE Listed(w[k - 1])
  BY DEF Lists, Top
<1>2. w[0] = {Top}
  <2>1. 0 \in 0..m
    OBVIOUS
  <2> QED BY <1>1, <2>1
<1>3. ASSUME NEW k \in Nat, k + 1 <= m PROVE w[k + 1] = Listed(w[k])
  <2>1. k + 1 \in 0..m /\ k + 1 # 0 /\ (k + 1) - 1 = k
    BY <1>3
  <2> QED BY <1>1, <2>1
<1> QED BY <1>2, <1>3

\* The top, and the nodes with the paths they are given.
Known(paths) == {Top} \cup UNION {{<<n, p>> : p \in paths[n]} : n \in Born}

\* A level of walk lists what a level of path_of knows.
LEMMA KnownOn ==
  OneTree => \A u, v : (\A n \in Born : u[n] \subseteq v[n] /\ v[n] = Up(u, n))
    => Listed(Known(u)) = Known(v)
<1> SUFFICES ASSUME OneTree, NEW u, NEW v, \A n \in Born : u[n] \subseteq v[n] /\ v[n] = Up(u, n)
             PROVE  Listed(Known(u)) = Known(v)
  OBVIOUS
<1>0. TypeOK /\ Root \notin Born /\ Deleted \notin Born
  BY Places DEF OneTree
<1>a. \A n \in Born : \A p \in v[n] : <<n, p>> \in Known(v)
  BY DEF Known
<1>1. ASSUME NEW e \in Listed(Known(u)) PROVE e \in Known(v)
  <2>1. CASE e \in Known(u)
    BY <2>1 DEF Known
  <2>2. CASE e \notin Known(u)
    <3>1. PICK d \in Known(u) : e \in Entries(d)
      BY <2>2 DEF Listed
    <3>2. PICK n \in Children(d[1]) : name[n] \notin BadNames /\ e = <<n, Append(d[2], name[n])>>
      BY <3>1 DEF Entries
    <3>3. n \in Born /\ parent[n] = d[1]
      BY <3>2 DEF Children
    <3>4. CASE d = Top
      <4>1. d[1] = Root /\ d[2] = <<>>
        BY <3>4 DEF Top
      <4>2. Append(d[2], name[n]) = <<name[n]>> /\ parent[n] = Root /\ Root # Deleted
        BY <1>0, <3>3, <4>1, OneName, Places
      <4>3. Append(d[2], name[n]) \in v[n]
        BY <3>2, <3>3, <4>2 DEF Up
      <4> QED BY <1>a, <3>2, <3>3, <4>3
    <3>5. CASE d # Top
      <4>1. PICK m \in Born : \E q \in u[m] : d = <<m, q>>
        BY <3>5 DEF Known
      <4>2. PICK q \in u[m] : d = <<m, q>> /\ d[1] = m /\ d[2] = q
        BY <4>1
      <4>3. parent[n] = m /\ m # Root /\ m # Deleted
        BY <1>0, <3>3, <4>2
      <4>4. v[n] = {Append(a, name[n]) : a \in u[m]}
        BY <3>2, <3>3, <4>3 DEF Up
      <4>5. Append(q, name[n]) \in v[n]
        BY <4>2, <4>4
      <4> QED BY <1>a, <3>2, <3>3, <4>2, <4>5
    <3> QED BY <3>4, <3>5
  <2> QED BY <2>1, <2>2
<1>2. ASSUME NEW e \in Known(v) PROVE e \in Listed(Known(u))
  <2>1. CASE e = Top
    BY <2>1 DEF Known, Listed
  <2>2. CASE e # Top
    <3>0. PICK n \in Born : \E p \in v[n] : e = <<n, p>>
      BY <1>2, <2>2 DEF Known
    <3>1. PICK p \in v[n] : e = <<n, p>>
      BY <3>0
    <3>2. /\ name[n] \notin BadNames /\ parent[n] # Deleted
          /\ \/ parent[n] = Root /\ p = <<name[n]>>
             \/ parent[n] \in Born /\ \E q \in u[parent[n]] : p = Append(q, name[n])
      <4>1. p \in Up(u, n)
        BY <3>1
      <4> QED BY <4>1, UpFacts, NamesAssumption
    <3>3. \E d \in Known(u) : d[1] = parent[n] /\ p = Append(d[2], name[n])
      <4>1. CASE parent[n] = Root /\ p = <<name[n]>>
        <5>1. Top \in Known(u) /\ Top[1] = Root /\ Top[2] = <<>>
          BY DEF Known, Top
        <5> QED BY <4>1, <5>1, OneName
      <4>2. CASE parent[n] \in Born /\ \E q \in u[parent[n]] : p = Append(q, name[n])
        <5>1. PICK q \in u[parent[n]] : p = Append(q, name[n])
          BY <4>2
        <5>2. <<parent[n], q>> \in Known(u)
          BY <4>2 DEF Known
        <5> QED BY <5>1, <5>2
      <4> QED BY <3>2, <4>1, <4>2
    <3>4. PICK d \in Known(u) : d[1] = parent[n] /\ p = Append(d[2], name[n])
      BY <3>3
    <3>5. n \in Children(d[1]) /\ e \in Entries(d)
      BY <3>1, <3>2, <3>4 DEF Children, Entries
    <3>6. IsDir(d[1])
      BY <3>1, <3>2, <3>4, ParentFacts
    <3> QED BY <3>4, <3>5, <3>6 DEF Listed
  <2> QED BY <2>1, <2>2
<1> QED BY <1>1, <1>2

\* walk lists every node with each of its paths.
LEMMA WalkFindsPaths ==
  OneTree => Walk = UNION {{<<n, p>> : p \in PathOf(n)} : n \in Born}
<1> SUFFICES ASSUME OneTree PROVE Walk = UNION {{<<n, p>> : p \in PathOf(n)} : n \in Born}
  OBVIOUS
<1>1. PICK u : Ups(MaxNodes, u) /\ \A n : PathOf(n) = u[MaxNodes][n]
  BY PathLevels
<1>2. PICK w : Lists(MaxNodes, w) /\ Walk = w[MaxNodes] \ {Top}
  BY WalkLevels DEF Top
<1> DEFINE S == {k \in Nat : k <= MaxNodes => w[k] = Known(u[k])}
<1>3. 0 \in S
  <2>1. w[0] = {Top} /\ \A n \in Born : u[0][n] = {}
    BY <1>1, <1>2, ListsOn, UpsOn
  <2> QED BY <2>1 DEF Known
<1>4. ASSUME NEW k \in Nat, k \in S PROVE k + 1 \in S
  <2> SUFFICES ASSUME k + 1 <= MaxNodes PROVE w[k + 1] = Known(u[k + 1])
    OBVIOUS
  <2>1. w[k] = Known(u[k])
    BY <1>4
  <2>2. w[k + 1] = Listed(w[k])
    BY <1>2, ListsOn
  <2>3. \A n \in Born : u[k][n] \subseteq u[k + 1][n] /\ u[k + 1][n] = Up(u[k], n)
    BY <1>1, UpsOn, UpsGrow
  <2>4. Listed(Known(u[k])) = Known(u[k + 1])
    BY <2>3, KnownOn
  <2> QED BY <2>1, <2>2, <2>4
<1> HIDE DEF S
<1>5. \A k \in Nat : k \in S
  BY <1>3, <1>4, Onward
<1>6. w[MaxNodes] = Known(u[MaxNodes])
  BY <1>5 DEF S
<1>7. Top \notin UNION {{<<n, p>> : p \in PathOf(n)} : n \in Born}
  BY Places DEF Top, OneTree
<1>8. Known(u[MaxNodes]) = {Top} \cup UNION {{<<n, p>> : p \in PathOf(n)} : n \in Born}
  BY <1>1 DEF Known
<1> QED BY <1>2, <1>6, <1>7, <1>8

\* In one tree the two ways agree.
LEMMA TreeAgrees == OneTree => PathsAgree
<1> SUFFICES ASSUME OneTree PROVE PathsAgree
  OBVIOUS
<1>1. ASSUME Unique, NEW d \in Inodes, NEW nm \in Names, NEW p \in ChildPath(d, nm), IsDir(d)
      PROVE  SplitParent(p) = At(d)
  <2>1. Walks(Front(p)) = At(d)
    BY <1>1, ChildPathFacts
  <2>2. IsDir(At(d).node)
    BY <1>1, AtFacts, Zenon
  <2> QED BY <2>1, <2>2, Zenon DEF SplitParent
<1> QED BY <1>1, WalkFindsPaths DEF PathsAgree

-----------------------------------------------------------------------------
(* The order of siblings holds every node once, whatever is done to it. *)

Once(o, l) ==
  /\ o \in Seq(Nodes) /\ Len(o) = l /\ ToSet(o) = 1..l
  /\ \A i, j \in 1..l : o[i] = o[j] => i = j

\* A listing of 1..l that leaves none out and has none twice.
LEMMA OnceFor ==
  ASSUME NEW l \in 0..MaxNodes, NEW o, DOMAIN o = 1..l, o = [i \in 1..l |-> o[i]],
         \A i \in 1..l : o[i] \in 1..l,
         \A m \in 1..l : \E i \in 1..l : o[i] = m,
         \A i, j \in 1..l : o[i] = o[j] => i = j
  PROVE  Once(o, l)
<1>1. \A i \in 1..l : o[i] \in Nodes
  BY DEF Nodes
<1>2. o \in [1..l -> Nodes] /\ l \in Nat
  BY <1>1
<1>3. o \in Seq(Nodes)
  BY <1>2, SeqDef
<1>4. Len(o) = l
  BY <1>2, <1>3, LenProperties
<1>5. ToSet(o) = 1..l
  BY DEF ToSet
<1> QED BY <1>3, <1>4, <1>5 DEF Once

\* The order of a well-typed tree is such a listing.
LEMMA OrderIsOnce ==
  TypeOK => /\ Once(order, Len(order)) /\ DOMAIN order = 1..Len(order)
            /\ Len(order) \in 0..MaxNodes /\ Born = 1..Len(order)
            /\ \A i \in 1..Len(order) : order[i] \in 1..Len(order)
            /\ \A m \in 1..Len(order) : \E i \in 1..Len(order) : order[i] = m
            /\ \A i, j \in 1..Len(order) : order[i] = order[j] => i = j
<1> SUFFICES ASSUME TypeOK
             PROVE  /\ Once(order, Len(order)) /\ DOMAIN order = 1..Len(order)
                    /\ Len(order) \in 0..MaxNodes /\ Born = 1..Len(order)
                    /\ \A i \in 1..Len(order) : order[i] \in 1..Len(order)
                    /\ \A m \in 1..Len(order) : \E i \in 1..Len(order) : order[i] = m
                    /\ \A i, j \in 1..Len(order) : order[i] = order[j] => i = j
  OBVIOUS
<1>1. order \in Seq(Nodes) /\ DOMAIN order = 1..Len(order) /\ Len(order) \in Nat
  BY DEF TypeOK
<1>2. Born = 1..Len(order) /\ \A i, j \in 1..Len(order) : order[i] = order[j] => i = j
  BY <1>1 DEF TypeOK
<1>3. Born = {order[i] : i \in 1..Len(order)}
  BY <1>1 DEF Born, ToSet
<1>4. /\ \A i \in 1..Len(order) : order[i] \in 1..Len(order) /\ order[i] \in Nodes
      /\ \A m \in 1..Len(order) : \E i \in 1..Len(order) : order[i] = m
  BY <1>1, <1>2, <1>3
<1>5. Len(order) <= MaxNodes
  <2>1. CASE Len(order) = 0
    BY <2>1
  <2>2. CASE Len(order) > 0
    <3>0. Len(order) \in 1..Len(order)
      BY <1>1, <2>2
    <3>1. PICK i \in 1..Len(order) : order[i] = Len(order)
      BY <1>4, <3>0
    <3> QED BY <1>4, <3>1 DEF Nodes
  <2> QED BY <1>1, <2>1, <2>2
<1> QED BY <1>1, <1>2, <1>3, <1>4, <1>5 DEF Once, Born

\* mov keeps every node in the order, once.
LEMMA ToEndOnce == TypeOK => \A n \in Born : Once(ToEnd(n), Len(order))
<1> SUFFICES ASSUME TypeOK, NEW n \in Born PROVE Once(ToEnd(n), Len(order))
  OBVIOUS
<1> DEFINE l == Len(order)
           r == Place(n)
           t == ToEnd(n)
           was(i) == IF i = l THEN r ELSE IF i < r THEN i ELSE i + 1
<1>1. DOMAIN order = 1..l /\ l \in 0..MaxNodes /\ l \in Nat
  BY OrderIsOnce
<1>2. \A i \in 1..l : order[i] \in 1..l
  BY OrderIsOnce
<1>3. \A m \in 1..l : \E i \in 1..l : order[i] = m
  BY OrderIsOnce
<1>4. \A i, j \in 1..l : order[i] = order[j] => i = j
  BY OrderIsOnce
<1>5. r \in 1..l /\ order[r] = n
  BY <1>1, Places
<1>6. t = [i \in 1..l |-> IF i = l THEN n ELSE IF i < r THEN order[i] ELSE order[i + 1]]
  BY <1>1 DEF ToEnd
<1> HIDE DEF t, r, l
<1>7. DOMAIN t = 1..l /\ t = [i \in 1..l |-> t[i]]
  BY <1>6
<1>8. \A i \in 1..l : t[i] = order[was(i)]
  BY <1>5, <1>6
<1>9. \A i \in 1..l : was(i) \in 1..l
  BY <1>1, <1>5
<1>10. \A i, j \in 1..l : was(i) = was(j) => i = j
  BY <1>1, <1>5
<1>11. \A j \in 1..l : \E i \in 1..l : was(i) = j
  <2> TAKE j \in 1..l
  <2>1. CASE j < r
    <3>1. j \in 1..l /\ was(j) = j
      BY <1>1, <1>5, <2>1
    <3> QED BY <3>1
  <2>2. CASE j = r
    <3>1. l \in 1..l /\ was(l) = j
      BY <1>1, <1>5, <2>2
    <3> QED BY <3>1
  <2>3. CASE j > r
    <3>1. j - 1 \in 1..l /\ was(j - 1) = j
      BY <1>1, <1>5, <2>3
    <3> QED BY <3>1
  <2> QED BY <1>1, <1>5, <2>1, <2>2, <2>3
<1> HIDE DEF was
<1>12. \A i \in 1..l : t[i] \in 1..l
  BY <1>2, <1>8, <1>9
<1>13. ASSUME NEW m \in 1..l PROVE \E i \in 1..l : t[i] = m
  <2>1. PICK j \in 1..l : order[j] = m
    BY <1>3
  <2>2. PICK i \in 1..l : was(i) = j
    BY <1>11
  <2> QED BY <1>8, <2>1, <2>2
<1>14. ASSUME NEW i \in 1..l, NEW j \in 1..l, t[i] = t[j] PROVE i = j
  <2>1. was(i) = was(j)
    BY <1>4, <1>8, <1>9, <1>14
  <2> QED BY <1>10, <2>1
<1> QED BY <1>1, <1>7, <1>12, <1>13, <1>14, OnceFor DEF t, l

\* A new node comes into the order once.
LEMMA InsertOnce ==
  TypeOK /\ Len(order) < MaxNodes =>
    /\ \A i \in 0..Len(order) : Once(Insert(i, Len(order) + 1), Len(order) + 1)
    /\ Once(Append(order, Len(order) + 1), Len(order) + 1)
<1> SUFFICES ASSUME TypeOK, Len(order) < MaxNodes
             PROVE  /\ \A i \in 0..Len(order) : Once(Insert(i, Len(order) + 1), Len(order) + 1)
                    /\ Once(Append(order, Len(order) + 1), Len(order) + 1)
  OBVIOUS
<1> DEFINE l == Len(order)
           n == l + 1
<1>1. DOMAIN order = 1..l /\ l \in 0..MaxNodes /\ l \in Nat /\ n \in 0..MaxNodes
  BY OrderIsOnce
<1>2. ASSUME NEW i \in 0..l PROVE Once(Insert(i, n), n)
  <2> DEFINE t == Insert(i, n)
             was(k) == IF k <= i THEN k ELSE k - 1
  <2>1. \A k \in 1..l : order[k] \in 1..l
    BY OrderIsOnce
  <2>2. \A m \in 1..l : \E k \in 1..l : order[k] = m
    BY OrderIsOnce
  <2>3. \A j, k \in 1..l : order[j] = order[k] => j = k
    BY OrderIsOnce
  <2>4. t = [k \in 1..(l + 1) |-> IF k <= i THEN order[k] ELSE IF k = i + 1 THEN n ELSE order[k - 1]]
    BY DEF Insert
  <2> HIDE DEF t, l
  <2>5. DOMAIN t = 1..n /\ t = [k \in 1..n |-> t[k]]
    BY <2>4
  <2>6. i + 1 \in 1..n /\ t[i + 1] = n
    BY <1>1, <2>4
  <2>7. \A k \in 1..n : k # i + 1 => t[k] = order[was(k)]
    BY <1>1, <2>4
  <2>8. \A k \in 1..n : k # i + 1 => was(k) \in 1..l
    BY <1>1
  <2>9. \A j, k \in 1..n : j # i + 1 /\ k # i + 1 /\ was(j) = was(k) => j = k
    BY <1>1
  <2>10. \A j \in 1..l : \E k \in 1..n : k # i + 1 /\ was(k) = j
    <3> TAKE j \in 1..l
    <3>1. CASE j <= i
      <4>1. j \in 1..n /\ j # i + 1 /\ was(j) = j
        BY <1>1, <3>1
      <4> QED BY <4>1
    <3>2. CASE j > i
      <4>1. j + 1 \in 1..n /\ j + 1 # i + 1 /\ was(j + 1) = j
        BY <1>1, <3>2
      <4> QED BY <4>1
    <3> QED BY <1>1, <3>1, <3>2
  <2>11. n \in 1..n /\ n \notin 1..l /\ (\A m \in 1..l : m \in 1..n) /\ \A m \in 1..n : m = n \/ m \in 1..l
    BY <1>1
  <2> HIDE DEF was, n
  <2>12. \A k \in 1..n : k # i + 1 => t[k] \in 1..l
    BY <2>1, <2>7, <2>8
  <2>13. \A k \in 1..n : t[k] \in 1..n
    BY <2>6, <2>11, <2>12
  <2>14. ASSUME NEW m \in 1..n PROVE \E k \in 1..n : t[k] = m
    <3>1. CASE m = n
      BY <2>6, <3>1
    <3>2. CASE m \in 1..l
      <4>1. PICK j \in 1..l : order[j] = m
        BY <2>2, <3>2
      <4>2. PICK k \in 1..n : k # i + 1 /\ was(k) = j
        BY <2>10
      <4> QED BY <2>7, <4>1, <4>2
    <3> QED BY <2>11, <3>1, <3>2
  <2>15. ASSUME NEW j \in 1..n, NEW k \in 1..n, t[j] = t[k] PROVE j = k
    <3>1. CASE j = i + 1 \/ k = i + 1
      BY <2>6, <2>11, <2>12, <2>15, <3>1
    <3>2. CASE j # i + 1 /\ k # i + 1
      <4>1. was(j) = was(k)
        BY <2>3, <2>7, <2>8, <2>15, <3>2
      <4> QED BY <2>9, <3>2, <4>1
    <3> QED BY <3>1, <3>2
  <2> QED BY <1>1, <2>5, <2>13, <2>14, <2>15, OnceFor DEF t
<1>3. Append(order, n) = Insert(l, n)
  <2>1. order \in Seq(Nodes) /\ n \in Nodes
    BY <1>1 DEF TypeOK, Nodes
  <2>2. Append(order, n) \in Seq(Nodes) /\ Insert(l, n) \in Seq(Nodes) /\ Len(Insert(l, n)) = l + 1
    BY <1>1, <1>2, <2>1 DEF Once
  <2>3. /\ Len(Append(order, n)) = l + 1 /\ Append(order, n)[l + 1] = n
        /\ \A k \in 1..l : Append(order, n)[k] = order[k]
    BY <2>1, AppendProperties
  <2>4. \A k \in 1..(l + 1) : Insert(l, n)[k] = IF k <= l THEN order[k] ELSE n
    BY <1>1 DEF Insert
  <2>5. \A k \in 1..(l + 1) : Append(order, n)[k] = Insert(l, n)[k]
    <3> HIDE DEF l
    <3> QED BY <1>1, <2>3, <2>4
  <2> QED BY <2>2, <2>3, <2>5, SeqEqual
<1>4. l \in 0..l
  BY <1>1
<1> QED BY <1>2, <1>3, <1>4

-----------------------------------------------------------------------------
(* One tree stays one tree. *)

MayGrow(f, l, S, x) == l \in Nat /\ f \in [1..l -> S] /\ x \in S
Grown(f, l, S, x) ==
  /\ Append(f, x) \in [1..(l + 1) -> S] /\ Append(f, x)[l + 1] = x
  /\ \A n \in 1..l : Append(f, x)[n] = f[n]

\* A function on 1..l with one value more at its end.
LEMMA OneMore == ASSUME NEW f, NEW l, NEW S, NEW x, MayGrow(f, l, S, x) PROVE Grown(f, l, S, x)
<1>1. l \in Nat /\ f \in [1..l -> S] /\ x \in S
  BY DEF MayGrow
<1>2. f \in Seq(S)
  BY <1>1, SeqDef
<1>3. Len(f) = l
  BY <1>1, <1>2, LenProperties
<1>4. /\ Append(f, x) \in Seq(S) /\ Len(Append(f, x)) = l + 1 /\ Append(f, x)[l + 1] = x
      /\ \A n \in 1..l : Append(f, x)[n] = f[n]
  BY <1>1, <1>2, <1>3, AppendProperties
<1> QED BY <1>4, LenProperties DEF Grown

\* A new node, in a directory that hangs from the root.
Adds(p, nm, k, o) ==
  /\ Len(order) < MaxNodes /\ p \in Below(Root) /\ IsDir(p)
  /\ nm \in Names \cup BadNames /\ k \in {"file", "dir"}
  /\ Once(o, Len(order) + 1) /\ order' = o
  /\ parent' = Append(parent, p) /\ name' = Append(name, nm) /\ kind' = Append(kind, k)

\* What a new node changes.
LEMMA AddsFacts ==
  ASSUME TypeOK, NEW p, NEW nm, NEW k, NEW o, Adds(p, nm, k, o), NEW l, l = Len(order)
  PROVE  /\ l \in Nat /\ Born = 1..l /\ l + 1 \in Nodes /\ l + 1 \notin Born
         /\ Born' = Born \cup {l + 1} /\ Len(order') = l + 1 /\ Born' = 1..(l + 1)
         /\ p \in Born \cup {Root}
         /\ parent' \in [Born' -> 0..Deleted] /\ name' \in [Born' -> Names \cup BadNames]
         /\ kind' \in [Born' -> {"file", "dir"}]
         /\ \A n \in Born : parent'[n] = parent[n] /\ name'[n] = name[n] /\ kind'[n] = kind[n]
         /\ parent'[l + 1] = p /\ name'[l + 1] = nm /\ kind'[l + 1] = k
<1>1. l \in 0..MaxNodes /\ l \in Nat /\ Born = 1..l /\ l < MaxNodes
  BY OrderIsOnce DEF Adds
<1>2. l + 1 \in Nodes /\ l + 1 \notin Born /\ 1..(l + 1) = Born \cup {l + 1}
  BY <1>1 DEF Nodes
<1>3. Born' = 1..(l + 1) /\ Len(order') = l + 1
  BY DEF Adds, Once, Born
<1>4. p \in Born \cup {Root}
  BY DEF Adds, IsDir
<1>5. p \in 0..Deleted
  BY <1>1, <1>4 DEF Root, Deleted
<1>6. parent' \in [Born' -> 0..Deleted] /\ parent'[l + 1] = p /\ \A n \in Born : parent'[n] = parent[n]
  <2>1. MayGrow(parent, l, 0..Deleted, p) /\ parent' = Append(parent, p)
    BY <1>1, <1>5 DEF Adds, TypeOK, MayGrow
  <2>2. Grown(parent, l, 0..Deleted, p)
    BY <2>1, OneMore
  <2> QED BY <1>1, <1>3, <2>1, <2>2 DEF Grown
<1>7. name' \in [Born' -> Names \cup BadNames] /\ name'[l + 1] = nm /\ \A n \in Born : name'[n] = name[n]
  <2>1. MayGrow(name, l, Names \cup BadNames, nm) /\ name' = Append(name, nm)
    BY <1>1, <1>5 DEF Adds, TypeOK, MayGrow
  <2>2. Grown(name, l, Names \cup BadNames, nm)
    BY <2>1, OneMore
  <2> QED BY <1>1, <1>3, <2>1, <2>2 DEF Grown
<1>8. kind' \in [Born' -> {"file", "dir"}] /\ kind'[l + 1] = k /\ \A n \in Born : kind'[n] = kind[n]
  <2>1. MayGrow(kind, l, {"file", "dir"}, k) /\ kind' = Append(kind, k)
    BY <1>1, <1>5 DEF Adds, TypeOK, MayGrow
  <2>2. Grown(kind, l, {"file", "dir"}, k)
    BY <2>1, OneMore
  <2> QED BY <1>1, <1>3, <2>1, <2>2 DEF Grown
<1> QED BY <1>1, <1>2, <1>3, <1>4, <1>6, <1>7, <1>8

\* A tree with a new node in one of its directories is one.
LEMMA AddsTree ==
  ASSUME OneTree, NEW p, NEW nm, NEW k, NEW o, Adds(p, nm, k, o), peerOps' \in 0..MaxPeerOps
  PROVE  OneTree'
<1>0. TypeOK
  BY DEF OneTree
<1>l. PICK l : l = Len(order)
  OBVIOUS
<1>1. /\ l \in Nat /\ Born = 1..l /\ l + 1 \in Nodes /\ l + 1 \notin Born
      /\ Born' = Born \cup {l + 1} /\ Len(order') = l + 1 /\ Born' = 1..(l + 1)
      /\ p \in Born \cup {Root}
      /\ parent' \in [Born' -> 0..Deleted] /\ name' \in [Born' -> Names \cup BadNames]
      /\ kind' \in [Born' -> {"file", "dir"}]
      /\ \A n \in Born : parent'[n] = parent[n] /\ name'[n] = name[n] /\ kind'[n] = kind[n]
      /\ parent'[l + 1] = p /\ name'[l + 1] = nm /\ kind'[l + 1] = k
  BY <1>0, <1>l, AddsFacts
<1>2. order' \in Seq(Nodes) /\ \A i, j \in DOMAIN order' : order'[i] = order'[j] => i = j
  <2>1. order' \in Seq(Nodes) /\ Len(order') = l + 1 /\ \A i, j \in 1..(l + 1) : order'[i] = order'[j] => i = j
    BY <1>l DEF Adds, Once
  <2>2. DOMAIN order' = 1..(l + 1)
    BY <2>1, LenProperties
  <2> QED BY <2>1, <2>2
<1>3. ASSUME NEW n \in Born', parent'[n] \in Nodes PROVE kind'[parent'[n]] = "dir"
  <2>1. CASE n = l + 1
    <3>1. p \in Nodes /\ IsDir(p)
      BY <1>1, <1>3, <2>1 DEF Adds
    <3>2. p # Root
      BY <3>1 DEF Root, Nodes
    <3>3. p \in Born /\ kind[p] = "dir"
      BY <3>1, <3>2 DEF IsDir
    <3> QED BY <1>1, <2>1, <3>3
  <2>2. CASE n \in Born
    <3>1. parent[n] \in Nodes /\ parent[n] \in Born
      <4>1. parent[n] \in Nodes /\ parent[n] \in Born \cup {Root, Deleted}
        BY <1>1, <1>3, <2>2, ParentFacts
      <4> QED BY <4>1 DEF Root, Deleted, Nodes
    <3>2. kind[parent[n]] = "dir"
      BY <1>0, <2>2, <3>1 DEF TypeOK
    <3> QED BY <1>1, <2>2, <3>1, <3>2
  <2> QED BY <1>1, <2>1, <2>2
<1>4. TypeOK'
  BY <1>1, <1>2, <1>3 DEF TypeOK
<1>5. DOMAIN parent = Born /\ DOMAIN parent' = Born'
  BY <1>0, <1>1 DEF TypeOK
<1>6. Below(Root) \cup Below(Deleted) \subseteq Subtree(parent', Root) \cup Subtree(parent', Deleted)
  <2>1. \A n \in DOMAIN parent : parent'[n] = parent[n]
    BY <1>1, <1>5
  <2>2. DOMAIN parent \subseteq DOMAIN parent'
    BY <1>1, <1>5
  <2> QED BY <2>1, <2>2, StillHangs DEF Below
<1>7. l + 1 \in Subtree(parent', Root) \cup Subtree(parent', Deleted)
  <2>1. p \in Subtree(parent', Root) \cup Subtree(parent', Deleted)
    BY <1>6 DEF Adds
  <2>2. l + 1 \in DOMAIN parent' /\ parent'[l + 1] = p
    BY <1>1, <1>5
  <2> QED BY <2>1, <2>2, SubtreeHas DEF Closed
<1>8. Born' \subseteq Subtree(parent', Root) \cup Subtree(parent', Deleted)
  BY <1>1, <1>6, <1>7 DEF OneTree
<1> QED BY <1>4, <1>8 DEF OneTree, Below

\* Parents change, at most one node's to one that is not below it.
Rehangs(n, p, G, new) ==
  /\ n \in Alive /\ p \in Below(Root) /\ IsDir(p) /\ p \notin Below(n)
  /\ new = [m \in Born |-> IF m = n THEN p ELSE IF m \in G THEN Deleted ELSE parent[m]]

\* So is one whose nodes were moved or deleted like that.
LEMMA RehangsTree ==
  ASSUME OneTree, NEW n, NEW p, NEW G,
         \/ Rehangs(n, p, G, parent')
         \/ parent' = [m \in Born |-> IF m \in G THEN Deleted ELSE parent[m]],
         Once(order', Len(order)), name' \in [Born -> Names \cup BadNames], kind' = kind,
         peerOps' \in 0..MaxPeerOps
  PROVE  OneTree'
<1> DEFINE l == Len(order)
<1>0. /\ TypeOK /\ l \in Nat /\ Born = 1..l /\ parent \in [Born -> 0..Deleted]
      /\ DOMAIN parent = Born
  BY OrderIsOnce DEF OneTree, TypeOK
<1>1. Born' = Born /\ Len(order') = l
  BY <1>0 DEF Once, Born
<1>2. order' \in Seq(Nodes) /\ \A i, j \in DOMAIN order' : order'[i] = order'[j] => i = j
  <2>1. order' \in Seq(Nodes) /\ Len(order') = l /\ \A i, j \in 1..l : order'[i] = order'[j] => i = j
    BY DEF Once
  <2>2. DOMAIN order' = 1..l
    BY <2>1, LenProperties
  <2> QED BY <2>1, <2>2
<1> HIDE DEF l
<1>3. /\ DOMAIN parent' = Born
      /\ \A m \in Born : \/ parent'[m] = parent[m] \/ parent'[m] = Deleted
                         \/ m = n /\ parent'[m] = p /\ p \in Below(Root) /\ IsDir(p) /\ p \notin Below(n)
  BY DEF Rehangs
<1>4. ASSUME NEW m \in Born PROVE parent'[m] \in 0..Deleted /\ (parent'[m] \in Nodes => kind[parent'[m]] = "dir")
  <2>1. CASE parent'[m] = parent[m]
    <3>1. parent[m] \in 0..Deleted /\ (parent[m] \in Nodes => kind[parent[m]] = "dir")
      BY <1>0 DEF TypeOK
    <3> QED BY <2>1, <3>1
  <2>2. CASE parent'[m] = Deleted
    BY <2>2 DEF Deleted, Nodes
  <2>3. CASE parent'[m] = p /\ IsDir(p)
    <3>1. p = Root \/ (p \in Born /\ kind[p] = "dir")
      BY <2>3 DEF IsDir
    <3>2. Root \in 0..Deleted /\ Root \notin Nodes /\ Born \subseteq 0..Deleted
      <4>1. l \in 0..MaxNodes
        BY <1>0, OrderIsOnce DEF l
      <4> QED BY <1>0, <4>1 DEF Root, Deleted, Nodes
    <3> QED BY <2>3, <3>1, <3>2
  <2> QED BY <1>3, <2>1, <2>2, <2>3
<1>5. parent' \in [Born -> 0..Deleted]
  <2>1. parent' = [m \in Born |-> parent'[m]]
    BY DEF Rehangs
  <2> QED BY <1>4, <2>1
<1>6. TypeOK'
  <2>1. kind \in [Born -> {"file", "dir"}]
    BY <1>0 DEF TypeOK
  <2> QED BY <1>0, <1>1, <1>2, <1>4, <1>5, <2>1 DEF TypeOK
<1>7. Below(Root) \cup Below(Deleted) \subseteq Subtree(parent', Root) \cup Subtree(parent', Deleted)
  <2>1. \A m \in DOMAIN parent :
          \/ parent'[m] = parent[m] \/ parent'[m] = Deleted
          \/ m = n /\ parent'[m] \in (Subtree(parent, Root) \cup Subtree(parent, Deleted)) \ Subtree(parent, n)
    BY <1>0, <1>3 DEF Below
  <2>2. DOMAIN parent \subseteq DOMAIN parent'
    BY <1>0, <1>3
  <2> QED BY <2>1, <2>2, StillHangs DEF Below
<1>8. Born' \subseteq Subtree(parent', Root) \cup Subtree(parent', Deleted)
  BY <1>1, <1>7 DEF OneTree
<1> QED BY <1>6, <1>8 DEF OneTree, Below

-----------------------------------------------------------------------------
(* What the path operations do to the tree. *)

\* What resolve and split_parent reach.
LEMMA Arrives ==
  OneTree => \A d \in Inodes, nm \in Names : \A path \in ChildPath(d, nm) :
    /\ Last(path) = nm
    /\ Resolve(path).err = "" => \E n \in Alive : Resolve(path) = At(n)
    /\ SplitParent(path).err = "" =>
         \E p \in Below(Root) : IsDir(p) /\ SplitParent(path) = At(p)
<1> SUFFICES ASSUME OneTree, NEW d \in Inodes, NEW nm \in Names, NEW path \in ChildPath(d, nm)
             PROVE  /\ Last(path) = nm
                    /\ Resolve(path).err = "" => \E n \in Alive : Resolve(path) = At(n)
                    /\ SplitParent(path).err = "" =>
                         \E p \in Below(Root) : IsDir(p) /\ SplitParent(path) = At(p)
  OBVIOUS
<1>1. /\ path # <<>> /\ Len(path) \in Nat /\ Len(path) > 0 /\ Last(path) = nm
      /\ Len(Front(path)) \in Nat
  BY ChildPathFacts
<1>2. Went(Walks(path), Alive) /\ Went(Walks(Front(path)), Below(Root))
  BY <1>1, Reached DEF OneTree
<1>3. Resolve(path) = Walks(path)
  BY <1>1, Zenon DEF Resolve
<1>4. Resolve(path).err = "" => \E n \in Alive : Resolve(path) = At(n)
  BY <1>2, <1>3, Zenon DEF Went
<1>5. ASSUME SplitParent(path).err = ""
      PROVE  \E p \in Below(Root) : IsDir(p) /\ SplitParent(path) = At(p)
  <2> DEFINE at == Walks(Front(path))
  <2>1. Fails("NotADirectory").err # ""
    <3>1. \A e, f : e # f => Fails(e).err # f
      BY FailsFacts, Zenon
    <3>2. "NotADirectory" # ""
      OBVIOUS
    <3> QED BY <3>1, <3>2
  <2>2. ~(at.err = "" /\ ~IsDir(at.node)) /\ SplitParent(path) = at
    BY <1>5, <2>1, Zenon DEF SplitParent
  <2>3. at.err = ""
    BY <1>5, <2>2, Zenon
  <2>4. PICK p \in Below(Root) : at = At(p)
    BY <1>2, <2>3, Zenon DEF Went
  <2>5. IsDir(p)
    BY <2>2, <2>3, <2>4, AtFacts, Zenon
  <2> QED BY <2>2, <2>4, <2>5, Zenon
<1> QED BY <1>1, <1>4, <1>5

Creates(p, nm, k) ==
  /\ Adds(p, nm, k, Append(order, Len(order) + 1))
  /\ nm \in Names /\ ChildNamed(p, nm) = {} /\ peerOps' = peerOps

Takes(n) ==
  /\ n \in Alive /\ Children(n) = {}
  /\ parent' = [parent EXCEPT ![n] = Deleted]
  /\ UNCHANGED <<order, name, kind, peerOps>>

Moves(n, p, nm) ==
  /\ n \in Alive /\ p \in Below(Root) /\ IsDir(p) /\ p \notin Below(n) /\ nm \in Names
  /\ \A d \in Displaced(n, p, nm) : MayReplace(n, d)
  /\ TakesPlace(n, p, nm, Displaced(n, p, nm))

\* create_file and create_dir add a node to a directory that has none of that name.
LEMMA CreateForm ==
  ASSUME OneTree, NEW d \in Inodes, NEW nm \in Names, NEW k \in {"file", "dir"},
         NEW path \in ChildPath(d, nm), Create(path, k)
  PROVE  \E p : Creates(p, nm, k)
<1> DEFINE at == SplitParent(path)
<1>1. at.err = "" /\ ChildNamed(at.node, Last(path)) = {} /\ Len(order) < MaxNodes
  BY Zenon DEF Create, MayCreate
<1>2. /\ order' = Append(order, Len(order) + 1) /\ parent' = Append(parent, at.node)
      /\ name' = Append(name, Last(path)) /\ kind' = Append(kind, k) /\ UNCHANGED peerOps
  BY Zenon DEF Create
<1>3. Last(path) = nm
  BY Arrives
<1>4. PICK p \in Below(Root) : IsDir(p) /\ at = At(p)
  BY <1>1, Arrives, Zenon
<1>5. at.node = p
  BY <1>4, AtFacts, Zenon
<1>6. ChildNamed(p, nm) = {}
  BY <1>1, <1>3, <1>5, Zenon
<1>7. parent' = Append(parent, p) /\ name' = Append(name, nm)
  BY <1>2, <1>3, <1>5, Zenon
<1>8. Once(Append(order, Len(order) + 1), Len(order) + 1)
  <2>1. TypeOK /\ Len(order) < MaxNodes
    BY <1>1, Zenon DEF OneTree
  <2> QED BY <2>1, InsertOnce
<1>9. Len(order) < MaxNodes /\ order' = Append(order, Len(order) + 1) /\ kind' = Append(kind, k) /\ peerOps' = peerOps
  BY <1>1, <1>2, Zenon
<1> HIDE DEF at
<1>10. Adds(p, nm, k, Append(order, Len(order) + 1))
  BY <1>4, <1>7, <1>8, <1>9 DEF Adds
<1> QED BY <1>6, <1>9, <1>10 DEF Creates

\* remove_file and remove_dir take a node without children away.
LEMMA RemoveForm ==
  ASSUME OneTree, NEW d \in Inodes, NEW nm \in Names,
         NEW path \in ChildPath(d, nm), RemoveFile(path) \/ RemoveDir(path)
  PROVE  \E n : Takes(n)
<1> DEFINE at == Resolve(path)
<1>1. at.err = "" /\ (~IsDir(at.node) \/ Children(at.node) = {}) /\ Removes(at)
  BY Zenon DEF RemoveFile, RemoveDir, MayRemoveDir
<1>2. PICK n \in Alive : at = At(n)
  BY <1>1, Arrives, Zenon
<1>3. at.node = n
  BY <1>2, AtFacts, Zenon
<1>4. ~IsDir(n) \/ Children(n) = {}
  BY <1>1, <1>3, Zenon
<1>5. parent' = [parent EXCEPT ![n] = Deleted] /\ UNCHANGED <<order, name, kind, peerOps>>
  BY <1>1, <1>3, Zenon DEF Removes
<1> HIDE DEF at
<1>6. Children(n) = {}
  <2> SUFFICES ASSUME ~IsDir(n), NEW c \in Children(n) PROVE FALSE
    BY <1>4
  <2>1. c \in Born /\ parent[c] = n
    BY DEF Children
  <2>2. n \in Born
    BY SubtreeHas DEF Alive, Below, OneTree, TypeOK
  <2> QED BY <2>1, <2>2, ParentFacts
<1> QED BY <1>5, <1>6 DEF Takes

\* rename moves a node, for which what it may replace is taken away.
LEMMA RenameForm ==
  ASSUME OneTree, NEW d \in Inodes, NEW nm \in Names, NEW from \in ChildPath(d, nm),
         NEW newd \in Inodes, NEW newnm \in Names, NEW to \in ChildPath(newd, newnm),
         Rename(from, to)
  PROVE  \E n, p : Moves(n, p, newnm)
<1> DEFINE at == Resolve(from)
           under == SplitParent(to)
<1>1. at.err = "" /\ under.err = "" /\ CanMove(at.node, under.node)
  BY Zenon DEF Rename
<1>2. \A e \in Displaced(at.node, under.node, Last(to)) : MayReplace(at.node, e)
  BY Zenon DEF Rename
<1>3. TakesPlace(at.node, under.node, Last(to), Displaced(at.node, under.node, Last(to)))
  BY Zenon DEF Rename
<1>4. PICK n \in Alive : at = At(n)
  BY <1>1, Arrives, Zenon
<1>5. PICK p \in Below(Root) : IsDir(p) /\ under = At(p)
  BY <1>1, Arrives, Zenon
<1>6. at.node = n /\ under.node = p /\ Last(to) = newnm
  BY <1>4, <1>5, AtFacts, Arrives, Zenon
<1>7. p \notin Below(n)
  BY <1>1, <1>6, Zenon DEF CanMove
<1>8. \A e \in Displaced(n, p, newnm) : MayReplace(n, e)
  BY <1>2, <1>6, Zenon
<1>9. TakesPlace(n, p, newnm, Displaced(n, p, newnm))
  BY <1>3, <1>6, Zenon
<1> HIDE DEF at, under
<1> QED BY <1>5, <1>7, <1>8, <1>9 DEF Moves

\* So much for the path operations.
LocalStep ==
  \/ \E p, nm, k : Creates(p, nm, k)
  \/ \E n : Takes(n)
  \/ \E n, p, nm : Moves(n, p, nm)

\* Every handler of the mount makes one of these changes.
LEMMA LocalForm ==
  ASSUME OneTree,
         \/ \E d \in Inodes, nm \in Names : CreateHere(d, nm)
         \/ \E d \in Inodes, nm \in Names : Mkdir(d, nm)
         \/ \E d \in Inodes, nm \in Names : Unlink(d, nm)
         \/ \E d \in Inodes, nm \in Names : Rmdir(d, nm)
         \/ \E d, newd \in Inodes, nm, newnm \in Names, noreplace \in BOOLEAN :
              RenameHere(d, nm, newd, newnm, noreplace)
  PROVE  LocalStep
<1>1. CASE \E d \in Inodes, nm \in Names : CreateHere(d, nm)
  BY <1>1, CreateForm DEF CreateHere, LocalStep
<1>2. CASE \E d \in Inodes, nm \in Names : Mkdir(d, nm)
  BY <1>2, CreateForm DEF Mkdir, LocalStep
<1>3. CASE \E d \in Inodes, nm \in Names : Unlink(d, nm)
  BY <1>3, RemoveForm DEF Unlink, LocalStep
<1>4. CASE \E d \in Inodes, nm \in Names : Rmdir(d, nm)
  BY <1>4, RemoveForm DEF Rmdir, LocalStep
<1>5. CASE \E d, newd \in Inodes, nm, newnm \in Names, noreplace \in BOOLEAN :
             RenameHere(d, nm, newd, newnm, noreplace)
  <2>1. PICK d \in Inodes, newd \in Inodes, nm \in Names, newnm \in Names, noreplace \in BOOLEAN :
          RenameHere(d, nm, newd, newnm, noreplace)
    BY <1>5
  <2>2. PICK from \in ChildPath(d, nm), to \in ChildPath(newd, newnm) : Rename(from, to)
    BY <2>1, Zenon DEF RenameHere
  <2>3. \E n, p : Moves(n, p, newnm)
    BY <2>2, RenameForm
  <2> QED BY <2>3 DEF LocalStep
<1> QED BY <1>1, <1>2, <1>3, <1>4, <1>5

LEMMA AliveBorn == TypeOK => Alive \subseteq Born /\ Alive \subseteq Below(Root) /\ DOMAIN parent = Born
  BY SubtreeHas DEF Alive, Below, TypeOK

\* What the move of a node changes.
LEMMA MovesFacts ==
  ASSUME TypeOK, NEW n, NEW p, NEW nm, Moves(n, p, nm)
  PROVE  /\ Rehangs(n, p, Displaced(n, p, nm), parent') /\ n \in Born
         /\ Once(order', Len(order)) /\ Born' = Born
         /\ name' \in [Born -> Names \cup BadNames] /\ kind' = kind /\ peerOps' = peerOps
         /\ name'[n] = nm /\ (\A m \in Born : m # n => name'[m] = name[m])
         /\ parent'[n] = p
         /\ \A m \in Born : m # n /\ m \notin Displaced(n, p, nm) => parent'[m] = parent[m]
         /\ \A m \in Displaced(n, p, nm) : m # n /\ m \in Born /\ parent'[m] = Deleted
<1>1. n \in Born /\ DOMAIN parent = Born
  BY AliveBorn DEF Moves
<1>2. \A m \in Displaced(n, p, nm) : m # n /\ m \in Born
  BY ChildFacts DEF Displaced
<1>3. /\ order' = ToEnd(n) /\ name' = [name EXCEPT ![n] = nm] /\ kind' = kind /\ peerOps' = peerOps
      /\ parent' = [m \in DOMAIN parent |->
           IF m = n THEN p ELSE IF m \in Displaced(n, p, nm) THEN Deleted ELSE parent[m]]
  BY DEF Moves, TakesPlace, Renamed
<1>4. Rehangs(n, p, Displaced(n, p, nm), parent')
  BY <1>1, <1>3 DEF Moves, Rehangs
<1>5. Once(order', Len(order))
  BY <1>1, <1>3, ToEndOnce
<1>6. Born' = Born
  BY <1>5 DEF Once, Born, TypeOK
<1>7. /\ name' \in [Born -> Names \cup BadNames] /\ name'[n] = nm
      /\ \A m \in Born : m # n => name'[m] = name[m]
  <2>1. name \in [Born -> Names \cup BadNames] /\ nm \in Names
    BY DEF TypeOK, Moves
  <2> QED BY <1>1, <1>3, <2>1
<1>8. /\ parent'[n] = p
      /\ \A m \in Born : m # n /\ m \notin Displaced(n, p, nm) => parent'[m] = parent[m]
      /\ \A m \in Displaced(n, p, nm) : parent'[m] = Deleted
  BY <1>1, <1>2, <1>3
<1> QED BY <1>1, <1>2, <1>3, <1>4, <1>5, <1>6, <1>7, <1>8

\* What a deletion changes.
LEMMA TakesFacts ==
  ASSUME TypeOK, NEW n \in Alive, parent' = [parent EXCEPT ![n] = Deleted], order' = order
  PROVE  /\ n \in Born /\ Born' = Born /\ parent'[n] = Deleted
         /\ \A m \in Born : m # n => parent'[m] = parent[m]
         /\ parent' = [m \in Born |-> IF m \in {n} THEN Deleted ELSE parent[m]]
<1>1. n \in Born /\ parent \in [Born -> 0..Deleted]
  BY AliveBorn DEF TypeOK
<1>2. Born' = Born
  BY DEF Born
<1> QED BY <1>1, <1>2

\* Every step, imports included, leaves one tree.
LEMMA StepTree == OneTree /\ [Next]_vars => OneTree'
<1> SUFFICES ASSUME OneTree, [Next]_vars PROVE OneTree'
  OBVIOUS
<1>0. TypeOK /\ peerOps \in 0..MaxPeerOps /\ name \in [Born -> Names \cup BadNames]
  BY DEF OneTree, TypeOK
<1>1. Once(order, Len(order))
  BY <1>0, OrderIsOnce
<1>2. ASSUME NEW n \in Alive, parent' = [parent EXCEPT ![n] = Deleted],
             UNCHANGED <<order, name, kind>>, peerOps' \in 0..MaxPeerOps
      PROVE  OneTree'
  <2>1. parent' = [m \in Born |-> IF m \in {n} THEN Deleted ELSE parent[m]]
    BY <1>0, <1>2, TakesFacts
  <2>2. Once(order', Len(order)) /\ name' \in [Born -> Names \cup BadNames] /\ kind' = kind
    BY <1>0, <1>1, <1>2
  <2> QED BY <1>2, <2>1, <2>2, RehangsTree
<1>3. CASE LocalStep
  <2>1. ASSUME NEW p, NEW nm, NEW k, Creates(p, nm, k) PROVE OneTree'
    BY <1>0, <2>1, AddsTree DEF Creates
  <2>2. ASSUME NEW n, Takes(n) PROVE OneTree'
    BY <1>0, <1>2, <2>2 DEF Takes
  <2>3. ASSUME NEW n, NEW p, NEW nm, Moves(n, p, nm) PROVE OneTree'
    <3>1. /\ Rehangs(n, p, Displaced(n, p, nm), parent') /\ Once(order', Len(order))
          /\ name' \in [Born -> Names \cup BadNames] /\ kind' = kind /\ peerOps' = peerOps
      BY <1>0, <2>3, MovesFacts
    <3> QED BY <1>0, <3>1, RehangsTree
  <2> QED BY <1>3, <2>1, <2>2, <2>3 DEF LocalStep
<1>4. Imports => peerOps' \in 0..MaxPeerOps
  BY <1>0 DEF Imports
<1>5. ASSUME NEW p, NEW nm \in Names \cup BadNames, NEW k \in {"file", "dir"}, NEW i, PeerCreates(p, nm, k, i)
      PROVE  OneTree'
  <2>1. /\ Imports /\ Len(order) + 1 <= MaxNodes /\ p \in Alive \cup {Root} /\ IsDir(p)
        /\ i \in 0..Len(order) /\ order' = Insert(i, Len(order) + 1)
        /\ parent' = Append(parent, p) /\ name' = Append(name, nm) /\ kind' = Append(kind, k)
    BY <1>5 DEF PeerCreates
  <2>2. Len(order) < MaxNodes
    BY <1>0, <2>1, OrderIsOnce
  <2>3. p \in Below(Root)
    BY <2>1, SubtreeHas DEF Alive, Below
  <2>4. Once(Insert(i, Len(order) + 1), Len(order) + 1)
    BY <1>0, <2>1, <2>2, InsertOnce
  <2>5. Adds(p, nm, k, Insert(i, Len(order) + 1))
    BY <1>5, <2>1, <2>2, <2>3, <2>4 DEF Adds
  <2> QED BY <1>4, <2>1, <2>5, AddsTree
<1>6. ASSUME NEW n, NEW p, NEW nm \in Names, PeerMoves(n, p, nm) PROVE OneTree'
  <2>1. /\ Imports /\ n \in Alive /\ p \in Alive \cup {Root} /\ IsDir(p) /\ p \notin Below(n)
        /\ order' = ToEnd(n) /\ parent' = [parent EXCEPT ![n] = p]
        /\ name' = [name EXCEPT ![n] = nm] /\ kind' = kind
    BY <1>6 DEF PeerMoves
  <2>2. n \in Born /\ parent \in [Born -> 0..Deleted] /\ p \in Below(Root)
    BY <1>0, <2>1, AliveBorn, SubtreeHas DEF TypeOK, Alive, Below
  <2>3. parent' = [m \in Born |-> IF m = n THEN p ELSE IF m \in {} THEN Deleted ELSE parent[m]]
    BY <2>1, <2>2
  <2>4. Rehangs(n, p, {}, parent')
    BY <2>1, <2>2, <2>3 DEF Rehangs
  <2>5. Once(order', Len(order))
    BY <1>0, <2>1, <2>2, ToEndOnce
  <2>6. name' \in [Born -> Names \cup BadNames]
    BY <1>0, <1>6, <2>1, <2>2
  <2> QED BY <1>4, <2>1, <2>4, <2>5, <2>6, RehangsTree
<1>7. ASSUME NEW n, PeerDeletes(n) PROVE OneTree'
  BY <1>2, <1>4, <1>7 DEF PeerDeletes
<1>8. CASE UNCHANGED vars
  <2>1. order' = order /\ parent' = parent /\ name' = name /\ kind' = kind /\ peerOps' = peerOps
    BY <1>8 DEF vars
  <2> QED BY <2>1 DEF OneTree, TypeOK, Born, Below
<1> QED BY <1>3, <1>5, <1>6, <1>7, <1>8, LocalForm DEF Next

\* The nodes stay one tree, in which only directories have children.
THEOREM TreeStaysOne == Spec => []OneTree
<1>1. Init => OneTree
  <2> SUFFICES ASSUME Init PROVE OneTree
    OBVIOUS
  <2>1. order = <<>> /\ parent = <<>> /\ name = <<>> /\ kind = <<>> /\ peerOps = 0
    BY DEF Init
  <2>2. Born = {} /\ Len(order) = 0 /\ DOMAIN order = {} /\ 1..0 = {}
    BY <2>1 DEF Born, ToSet
  <2>3. order \in Seq(Nodes)
    BY <2>1
  <2>4. <<>> \in [Born -> 0..Deleted] /\ <<>> \in [Born -> Names \cup BadNames] /\ <<>> \in [Born -> {"file", "dir"}]
    BY <2>2
  <2>5. TypeOK
    BY <2>1, <2>2, <2>3, <2>4 DEF TypeOK
  <2> QED BY <2>2, <2>5 DEF OneTree
<1> QED BY <1>1, StepTree, PTL DEF Spec

\* In every state, walk and path_of give the same nodes the same paths, and
\* where names are unique, a path made of an inode leads back to its node.
THEOREM PathsAlwaysAgree == Spec => []PathsAgree
  BY TreeStaysOne, TreeAgrees, PTL

-----------------------------------------------------------------------------
(* The path operations keep names unique, and what they do not replace. *)

\* Only nodes that hung from the root do afterwards, but for a new one.
LEMMA CreatesAlive ==
  ASSUME OneTree, NEW p, NEW nm, NEW k, Creates(p, nm, k)
  PROVE  /\ Alive' \subseteq Alive \cup {Len(order) + 1} /\ Len(order) + 1 \notin Born
         /\ \A n \in Born : parent'[n] = parent[n] /\ name'[n] = name[n]
         /\ parent'[Len(order) + 1] = p /\ name'[Len(order) + 1] = nm
         /\ Below(Root) \subseteq Below(Root)'
<1>0. TypeOK /\ Adds(p, nm, k, Append(order, Len(order) + 1))
  BY DEF OneTree, Creates
<1>l. PICK l : l = Len(order)
  OBVIOUS
<1>1. /\ l \in Nat /\ l + 1 \in Nodes /\ l + 1 \notin Born /\ Born' = Born \cup {l + 1}
      /\ parent' \in [Born' -> 0..Deleted]
      /\ \A n \in Born : parent'[n] = parent[n] /\ name'[n] = name[n]
      /\ parent'[l + 1] = p /\ name'[l + 1] = nm
  BY <1>0, <1>l, AddsFacts
<1>2. DOMAIN parent = Born /\ DOMAIN parent' = Born' /\ Root \notin Born /\ l + 1 # Root /\ l + 1 # Deleted
  BY <1>0, <1>1, AliveBorn, Places DEF Root, Deleted, Nodes
<1>3. Root \in Below(Root) /\ Closed(parent, Below(Root))
  BY SubtreeHas DEF Below
<1>4. Closed(parent', Below(Root) \cup {l + 1})
  <2> SUFFICES ASSUME NEW n \in Born, parent'[n] \in Below(Root) \cup {l + 1} PROVE n \in Below(Root)
    BY <1>1, <1>2 DEF Closed
  <2>1. parent[n] # l + 1
    BY <1>1, <1>2, ParentFacts
  <2>2. parent[n] \in Below(Root)
    BY <1>1, <2>1
  <2> QED BY <1>2, <1>3, <2>2 DEF Closed
<1>5. Below(Root)' \subseteq Below(Root) \cup {l + 1}
  BY <1>3, <1>4, SubtreeLeast DEF Below
<1>6. Alive' \subseteq Alive \cup {l + 1}
  BY <1>5 DEF Alive
<1>7. Below(Root) \subseteq Below(Root)'
  <2>1. Root \in Subtree(parent', Root) /\ Closed(parent', Subtree(parent', Root))
    BY SubtreeHas
  <2>2. Closed(parent, Subtree(parent', Root))
    BY <1>1, <1>2, <2>1 DEF Closed
  <2> QED BY <2>1, <2>2, SubtreeLeast DEF Below
<1> QED BY <1>l, <1>1, <1>6, <1>7

\* A move: what is gone was empty, is not the directory moved into, and nothing
\* else goes.
LEMMA MovesAlive ==
  ASSUME OneTree, NEW n, NEW p, NEW nm, Moves(n, p, nm), NEW G, G = Displaced(n, p, nm)
  PROVE  /\ Alive' \subseteq Alive \ G /\ Alive \subseteq Alive' \cup G
         /\ \A m \in Born : parent[m] \notin G
         /\ \A a, b \in G : a = b
         /\ \A a \in G : Children(a) = {} /\ parent[a] = p /\ name[a] = nm
         /\ p \notin G
<1>0. TypeOK
  BY DEF OneTree
<1>1. /\ n \in Born /\ Born' = Born /\ parent'[n] = p
      /\ \A m \in Born : m # n /\ m \notin G => parent'[m] = parent[m]
      /\ \A m \in G : m # n /\ m \in Born /\ parent'[m] = Deleted
      /\ parent' = [m \in Born |-> IF m = n THEN p ELSE IF m \in G THEN Deleted ELSE parent[m]]
  BY <1>0, MovesFacts DEF Rehangs
<1>2. n \in Alive /\ p \in Below(Root) /\ p \notin Below(n)
  BY DEF Moves
<1>3. /\ (\A a, b \in G : a = b) /\ \A a \in G : a \in Born /\ parent[a] = p /\ name[a] = nm
  BY <1>0, ChildFacts DEF Displaced
<1>4. \A a \in G : Children(a) = {}
  <2> TAKE a \in G
  <2>1. CASE IsDir(a)
    BY <2>1 DEF Moves, MayReplace
  <2>2. CASE ~IsDir(a)
    <3> SUFFICES ASSUME NEW c \in Children(a) PROVE FALSE
      OBVIOUS
    <3>1. c \in Born /\ parent[c] = a
      BY DEF Children
    <3> QED BY <1>3, <2>2, <3>1, ParentFacts
  <2> QED BY <2>1, <2>2
<1>5. \A m \in Born : parent[m] \notin G
  BY <1>4 DEF Children
<1>6. p \notin G
  <2> SUFFICES ASSUME p \in G PROVE FALSE
    OBVIOUS
  <2>1. p \in Born /\ parent[p] = p
    BY <1>3
  <2> QED BY <2>1, ParentFacts
<1>7. DOMAIN parent = Born /\ DOMAIN parent' = Born /\ Root \notin Born /\ Deleted \notin Born /\ Root # Deleted
  BY <1>0, <1>1, AliveBorn, Places
<1>8. Root \in Below(Root) /\ Closed(parent, Below(Root)) /\ Deleted \notin Below(Root)
  BY <1>7, SubtreeHas DEF Below
<1>9. Below(Root)' \subseteq Below(Root) \ G
  <2>1. Closed(parent', Below(Root) \ G)
    <3> SUFFICES ASSUME NEW m \in Born, parent'[m] \in Below(Root) \ G PROVE m \in Below(Root) \ G
      BY <1>7 DEF Closed
    <3>1. m \notin G
      BY <1>1, <1>8
    <3>2. CASE m = n
      BY <1>2, <3>1, <3>2 DEF Alive
    <3>3. CASE m # n
      BY <1>1, <1>7, <1>8, <3>1, <3>3 DEF Closed
    <3> QED BY <3>2, <3>3
  <2>2. Root \in Below(Root) \ G
    BY <1>3, <1>7, <1>8
  <2> QED BY <2>1, <2>2, SubtreeLeast DEF Below
<1>10. Below(Root) \subseteq Below(Root)' \cup G
  <2>1. \A m \in DOMAIN parent :
          parent'[m] = (IF m = n THEN p ELSE IF m \in G THEN Deleted ELSE parent[m]) /\ parent[m] \notin G
    BY <1>1, <1>5, <1>7
  <2>2. Moved(parent, parent', Root, Deleted, n, p, G)
    BY <1>2, <1>6, <1>7, <2>1 DEF Below, Moved
  <2>5. Subtree(parent, Root) \subseteq Subtree(parent', Root) \cup G
    BY <2>2, OnlyThoseGo
  <2> QED BY <2>5 DEF Below
<1> QED BY <1>3, <1>4, <1>5, <1>6, <1>9, <1>10 DEF Alive

\* A removal: the one node goes.
LEMMA TakesAlive ==
  ASSUME OneTree, NEW n, Takes(n)
  PROVE  Alive' \subseteq Alive \ {n} /\ Alive \subseteq Alive' \cup {n}
<1>0. TypeOK
  BY DEF OneTree
<1>1. /\ n \in Born /\ Born' = Born /\ parent'[n] = Deleted
      /\ \A m \in Born : m # n => parent'[m] = parent[m]
      /\ parent' = [m \in Born |-> IF m \in {n} THEN Deleted ELSE parent[m]]
  BY <1>0, TakesFacts DEF Takes
<1>2. DOMAIN parent = Born /\ DOMAIN parent' = Born /\ Root \notin Born /\ Deleted \notin Born /\ Root # Deleted
  BY <1>0, <1>1, AliveBorn, Places
<1>3. Root \in Below(Root) /\ Closed(parent, Below(Root)) /\ Deleted \notin Below(Root)
  BY <1>2, SubtreeHas DEF Below
<1>4. \A m \in Born : parent[m] # n
  BY DEF Takes, Children
<1>5. Below(Root)' \subseteq Below(Root) \ {n}
  <2>1. Closed(parent', Below(Root) \ {n})
    BY <1>1, <1>2, <1>3 DEF Closed
  <2>2. Root \in Below(Root) \ {n}
    BY <1>1, <1>2, <1>3
  <2> QED BY <2>1, <2>2, SubtreeLeast DEF Below
<1>6. Below(Root) \subseteq Below(Root)' \cup {n}
  <2>1. Root \in Subtree(parent', Root) /\ Closed(parent', Subtree(parent', Root))
    BY SubtreeHas
  <2>2. Closed(parent, Subtree(parent', Root) \cup {n})
    BY <1>1, <1>2, <1>4, <2>1 DEF Closed
  <2> QED BY <2>1, <2>2, SubtreeLeast DEF Below
<1> QED BY <1>5, <1>6 DEF Alive

\* Where names are unique, they are after a path operation.
LEMMA LocalUnique == OneTree /\ Unique /\ LocalStep => Unique'
<1> SUFFICES ASSUME OneTree, Unique, LocalStep PROVE Unique'
  OBVIOUS
<1>0. TypeOK /\ Alive \subseteq Born
  BY AliveBorn DEF OneTree
<1>1. ASSUME NEW p, NEW nm, NEW k, Creates(p, nm, k) PROVE Unique'
  <2> DEFINE x == Len(order) + 1
  <2>1. /\ Alive' \subseteq Alive \cup {x} /\ x \notin Born
        /\ \A n \in Born : parent'[n] = parent[n] /\ name'[n] = name[n]
        /\ parent'[x] = p /\ name'[x] = nm
    BY <1>1, CreatesAlive
  <2> HIDE DEF x
  <2>2. \A n \in Born : ~(parent[n] = p /\ name[n] = nm)
    BY <1>0, <1>1, ChildFacts DEF Creates
  <2>3. ASSUME NEW m \in Alive', NEW n \in Alive', m # n, parent'[m] = parent'[n], name'[m] = name'[n]
        PROVE  FALSE
    <3>1. CASE m = x \/ n = x
      BY <1>0, <2>1, <2>2, <2>3, <3>1
    <3>2. CASE m # x /\ n # x
      BY <1>0, <2>1, <2>3, <3>2 DEF Unique
    <3> QED BY <3>1, <3>2
  <2> QED BY <2>3 DEF Unique
<1>2. ASSUME NEW n, Takes(n) PROVE Unique'
  <2>1. Alive' \subseteq Alive \ {n} /\ name' = name
    BY <1>2, TakesAlive DEF Takes
  <2>2. \A m \in Born : m # n => parent'[m] = parent[m]
    BY <1>0, <1>2, TakesFacts DEF Takes
  <2>3. \A m \in Alive' : m \in Alive /\ parent'[m] = parent[m]
    BY <1>0, <2>1, <2>2
  <2> QED BY <2>1, <2>3 DEF Unique
<1>3. ASSUME NEW n, NEW p, NEW nm, Moves(n, p, nm) PROVE Unique'
  <2>g. PICK G : G = Displaced(n, p, nm)
    OBVIOUS
  <2>1. Alive' \subseteq Alive \ G
    BY <1>3, <2>g, MovesAlive
  <2>2. /\ name'[n] = nm /\ (\A m \in Born : m # n => name'[m] = name[m]) /\ parent'[n] = p
        /\ \A m \in Born : m # n /\ m \notin G => parent'[m] = parent[m]
    BY <1>0, <1>3, <2>g, MovesFacts
  <2>3. ASSUME NEW b \in Alive, b # n, parent[b] = p, name[b] = nm PROVE b \in G
    <3>1. PICK c : c \in ChildNamed(p, nm)
      BY <1>0, <2>3, ChildFacts
    <3>2. c \in Born /\ parent[c] = p /\ name[c] = nm
      BY <1>0, <3>1, ChildFacts
    <3>3. c \in Alive
      BY <1>3, <3>2, ParentFacts DEF Moves, Alive
    <3>4. c = b
      BY <2>3, <3>2, <3>3 DEF Unique
    <3> QED BY <2>3, <2>g, <3>1, <3>4 DEF Displaced
  <2>4. ASSUME NEW a \in Alive', NEW b \in Alive', a # b, parent'[a] = parent'[b], name'[a] = name'[b]
        PROVE  FALSE
    <3>1. a \in Born /\ b \in Born /\ a \in Alive /\ b \in Alive /\ a \notin G /\ b \notin G
      BY <1>0, <2>1
    <3>2. CASE a = n
      BY <2>2, <2>3, <2>4, <3>1, <3>2
    <3>3. CASE b = n
      BY <2>2, <2>3, <2>4, <3>1, <3>3
    <3>4. CASE a # n /\ b # n
      BY <2>2, <2>4, <3>1, <3>4 DEF Unique
    <3> QED BY <3>2, <3>3, <3>4
  <2> QED BY <2>4 DEF Unique
<1> QED BY <1>1, <1>2, <1>3 DEF LocalStep

\* A step that is not an import's is one of the path operations', or none.
LEMMA LocalSteps == OneTree /\ [Next]_vars /\ Local => LocalStep \/ UNCHANGED vars
<1> SUFFICES ASSUME OneTree, Next, Local PROVE LocalStep
  OBVIOUS
<1>1. ~Imports
  BY DEF Imports, Local, OneTree, TypeOK
<1>2. \A p, nm, k, i : ~PeerCreates(p, nm, k, i)
  BY <1>1 DEF PeerCreates
<1>3. \A n, p, nm : ~PeerMoves(n, p, nm)
  BY <1>1 DEF PeerMoves
<1>4. \A n : ~PeerDeletes(n)
  BY <1>1 DEF PeerDeletes
<1> QED BY <1>2, <1>3, <1>4, LocalForm DEF Next

\* No path operation makes two entries of one directory share a name.
THEOREM UniqueIsKept == Spec => KeepsUnique
<1>1. OneTree /\ [Next]_vars => [Local /\ Unique => Unique']_vars
  BY LocalSteps, LocalUnique
<1> QED BY <1>1, TreeStaysOne, PTL DEF Spec, KeepsUnique

\* The facts about paths, of the state after a step.
LEMMA PathOfForNext == (OneTree => \A n \in Born : \A p \in PathOf(n) : PathFor(n, p))'
  BY PathOfFor, PTL

LEMMA UpsOnNext ==
  (\A u : \A m \in Nat : Ups(m, u) =>
     /\ \A n \in Born : u[0][n] = {}
     /\ \A k \in Nat : k + 1 <= m => \A n \in Born : u[k + 1][n] = Up(u[k], n))'
  BY UpsOn, PTL

LEMMA PathLevelsNext == (\E u : Ups(MaxNodes, u) /\ \A n : PathOf(n) = u[MaxNodes][n])'
  BY PathLevels, PTL

\* A move leaves the paths of what is not below the moved node alone.
LEMMA PathsElsewhere ==
  ASSUME OneTree, NEW n, NEW p, NEW nm, Moves(n, p, nm), NEW G, G = Displaced(n, p, nm),
         NEW u, Ups(MaxNodes, u), NEW v, Ups(MaxNodes, v)'
  PROVE  \A k \in Nat : k <= MaxNodes =>
           \A y \in Born : y \notin Below(n) /\ y \notin G => u[k][y] \subseteq v[k][y]
<1>0. TypeOK
  BY DEF OneTree
<1>1. /\ n \in Born /\ Born' = Born
      /\ \A m \in Born : m # n => name'[m] = name[m]
      /\ \A m \in Born : m # n /\ m \notin G => parent'[m] = parent[m]
  BY <1>0, MovesFacts
<1>2. \A m \in Born : parent[m] \notin G
  BY MovesAlive
<1>3. n \in Below(n) /\ \A m \in Born : parent[m] \in Below(n) => m \in Below(n)
  BY <1>0, AliveBorn, SubtreeHas DEF Below, Closed
<1>4. /\ \A y \in Born : u[0][y] = {}
      /\ \A k \in Nat : k + 1 <= MaxNodes => \A y \in Born : u[k + 1][y] = Up(u[k], y)
  BY UpsOn
<1>5. \A k \in Nat : k + 1 <= MaxNodes => \A y \in Born : v[k + 1][y] = Up(v[k], y)'
  BY <1>1, UpsOnNext
<1> DEFINE S == {k \in Nat : k <= MaxNodes =>
                   \A y \in Born : y \notin Below(n) /\ y \notin G => u[k][y] \subseteq v[k][y]}
<1>6. 0 \in S
  BY <1>4
<1>7. ASSUME NEW k \in Nat, k \in S PROVE k + 1 \in S
  <2> SUFFICES ASSUME k + 1 <= MaxNodes, NEW y \in Born, y \notin Below(n), y \notin G, NEW q \in u[k + 1][y]
               PROVE  q \in v[k + 1][y]
    OBVIOUS
  <2>1. \A z \in Born : z \notin Below(n) /\ z \notin G => u[k][z] \subseteq v[k][z]
    BY <1>7
  <2>2. y # n /\ parent'[y] = parent[y] /\ name'[y] = name[y]
    BY <1>1, <1>3
  <2>3. q \in Up(u[k], y)
    BY <1>4
  <2>4. /\ name[y] \in Names /\ name[y] \notin BadNames /\ parent[y] # Deleted
        /\ \/ parent[y] = Root /\ q = <<name[y]>>
           \/ parent[y] \in Born /\ \E r \in u[k][parent[y]] : q = Append(r, name[y])
    BY <2>3, UpFacts, NamesAssumption
  <2>5. q \in Up(v[k], y)'
    <3>1. CASE parent[y] = Root /\ q = <<name[y]>>
      BY <2>2, <2>4, <3>1 DEF Up
    <3>2. CASE parent[y] \in Born /\ \E r \in u[k][parent[y]] : q = Append(r, name[y])
      <4>1. PICK r \in u[k][parent[y]] : q = Append(r, name[y])
        BY <3>2
      <4>2. r \in v[k][parent[y]]
        BY <1>2, <1>3, <2>1, <3>2
      <4>3. parent[y] # Root
        BY <1>0, <3>2, Places
      <4> QED BY <2>2, <2>4, <4>1, <4>2, <4>3 DEF Up
    <3> QED BY <2>4, <3>1, <3>2
  <2> QED BY <1>5, <2>5
<1> HIDE DEF S
<1>8. \A k \in Nat : k \in S
  BY <1>6, <1>7, Onward
<1> QED BY <1>8 DEF S

\* What takes the place of a node is found where that was.
LEMMA FoundInPlace ==
  ASSUME OneTree, OneTree', Unique, NEW n, NEW p, NEW nm, Moves(n, p, nm),
         NEW e \in Displaced(n, p, nm), NEW q \in PathOf(e)
  PROVE  Resolve(q)' = At(n)
<1>0. TypeOK
  BY DEF OneTree
<1>g. PICK G : G = Displaced(n, p, nm)
  OBVIOUS
<1>1. n \in Born /\ Born' = Born /\ name'[n] = nm /\ parent'[n] = p
  BY <1>0, MovesFacts
<1>2. p \notin G /\ parent[e] = p /\ name[e] = nm
  BY <1>g, MovesAlive
<1>3. e \in Born /\ p \notin Below(n)
  BY <1>0, MovesFacts DEF Moves
<1>4. PICK u : Ups(MaxNodes, u) /\ \A m : PathOf(m) = u[MaxNodes][m]
  BY PathLevels
<1>5. PICK v : Ups(MaxNodes, v)' /\ \A m : PathOf(m)' = v[MaxNodes][m]
  BY PathLevelsNext
<1>6. PICK k \in Nat : MaxNodes = k + 1
  <2>1. MaxNodes >= 1
    BY <1>0, <1>3, OrderIsOnce
  <2>2. MaxNodes - 1 \in Nat /\ MaxNodes = (MaxNodes - 1) + 1
    BY <2>1
  <2> QED BY <2>2
<1>7. k + 1 <= MaxNodes /\ k <= MaxNodes
  BY <1>6
<1>8. q \in Up(u[k], e)
  BY <1>3, <1>4, <1>6, <1>7, UpsOn
<1>9. v[MaxNodes][n] = Up(v[k], n)'
  BY <1>1, <1>5, <1>6, <1>7, UpsOnNext
<1>10. /\ name[e] \in Names /\ name[e] \notin BadNames /\ parent[e] # Deleted
       /\ \/ parent[e] = Root /\ q = <<name[e]>>
          \/ parent[e] \in Born /\ \E r \in u[k][parent[e]] : q = Append(r, name[e])
  BY <1>3, <1>8, UpFacts, NamesAssumption
<1>11. q \in Up(v[k], n)'
  <2>1. CASE p = Root /\ q = <<nm>>
    BY <1>1, <1>2, <1>10, <2>1 DEF Up
  <2>2. CASE p \in Born /\ \E r \in u[k][p] : q = Append(r, nm)
    <3>1. PICK r \in u[k][p] : q = Append(r, nm)
      BY <2>2
    <3>2. r \in v[k][p]
      BY <1>g, <1>2, <1>3, <1>4, <1>5, <1>7, <2>2, PathsElsewhere
    <3>3. p # Root
      BY <1>0, <2>2, Places
    <3> QED BY <1>1, <1>2, <1>10, <3>1, <3>2, <3>3 DEF Up
  <2> QED BY <1>2, <1>10, <2>1, <2>2
<1>12. q \in PathOf(n)'
  BY <1>5, <1>9, <1>11
<1>13. PathFor(n, q)'
  BY <1>1, <1>12, PathOfForNext
<1>14. Unique'
  BY LocalUnique DEF LocalStep
<1>15. q # <<>> /\ Walks(q)' = At(n)
  BY <1>13, <1>14 DEF PathFor
<1> QED BY <1>15, Zenon DEF Resolve

\* What a path operation may do.
LEMMA LocalReplaces ==
  ASSUME OneTree, OneTree', LocalStep
  PROVE  /\ \A m, n \in Alive \ Alive' : m = n
         /\ \A n \in Alive \ Alive' :
              /\ Children(n) = {}
              /\ Unique => \A m \in Alive :
                   m # n /\ parent'[m] # Deleted /\ <<parent[m], name[m]>> # <<parent'[m], name'[m]>>
                   => \A p \in PathOf(n) : Resolve(p)' = At(m)
<1>0. TypeOK /\ Alive \subseteq Born
  BY AliveBorn DEF OneTree
<1>1. ASSUME NEW p, NEW nm, NEW k, Creates(p, nm, k) PROVE Alive \ Alive' = {}
  BY <1>1, CreatesAlive DEF Alive
<1>2. ASSUME NEW n, Takes(n)
      PROVE  /\ Alive \ Alive' \subseteq {n} /\ Children(n) = {}
             /\ \A m \in Alive : m # n => <<parent[m], name[m]>> = <<parent'[m], name'[m]>>
  <2>1. Alive \ Alive' \subseteq {n} /\ Children(n) = {} /\ name' = name
    BY <1>2, TakesAlive DEF Takes
  <2>2. \A m \in Born : m # n => parent'[m] = parent[m]
    BY <1>0, <1>2, TakesFacts DEF Takes
  <2> QED BY <1>0, <2>1, <2>2
<1>3. ASSUME NEW n, NEW p, NEW nm, Moves(n, p, nm), NEW G, G = Displaced(n, p, nm)
      PROVE  /\ Alive \ Alive' \subseteq G /\ (\A a, b \in G : a = b)
             /\ \A a \in G : Children(a) = {}
             /\ \A m \in Alive : m # n => parent'[m] = Deleted \/ <<parent[m], name[m]>> = <<parent'[m], name'[m]>>
             /\ Unique => \A a \in G : \A q \in PathOf(a) : Resolve(q)' = At(n)
  <2>1. Alive \ Alive' \subseteq G /\ (\A a, b \in G : a = b) /\ \A a \in G : Children(a) = {}
    BY <1>3, MovesAlive
  <2>2. /\ \A m \in Born : m # n => name'[m] = name[m]
        /\ \A m \in Born : m # n /\ m \notin G => parent'[m] = parent[m]
        /\ \A m \in G : parent'[m] = Deleted
    BY <1>0, <1>3, MovesFacts
  <2>3. Unique => \A a \in G : \A q \in PathOf(a) : Resolve(q)' = At(n)
    BY <1>3, FoundInPlace
  <2>4. \A m \in Alive : m # n => parent'[m] = Deleted \/ <<parent[m], name[m]>> = <<parent'[m], name'[m]>>
    BY <1>0, <2>2
  <2> QED BY <2>1, <2>3, <2>4
<1>4. CASE \E p, nm, k : Creates(p, nm, k)
  BY <1>1, <1>4
<1>5. CASE \E n : Takes(n)
  BY <1>2, <1>5
<1>6. CASE \E n, p, nm : Moves(n, p, nm)
  <2>1. PICK n, p, nm : Moves(n, p, nm)
    BY <1>6
  <2>2. PICK G : G = Displaced(n, p, nm)
    OBVIOUS
  <2>3. /\ Alive \ Alive' \subseteq G /\ (\A a, b \in G : a = b)
        /\ \A a \in G : Children(a) = {}
        /\ \A m \in Alive : m # n => parent'[m] = Deleted \/ <<parent[m], name[m]>> = <<parent'[m], name'[m]>>
        /\ Unique => \A a \in G : \A q \in PathOf(a) : Resolve(q)' = At(n)
    BY <1>3, <2>1, <2>2
  <2>4. \A a, b \in Alive \ Alive' : a = b
    BY <2>3
  <2>5. ASSUME NEW a \in Alive \ Alive', Unique, NEW m \in Alive, parent'[m] # Deleted,
               <<parent[m], name[m]>> # <<parent'[m], name'[m]>>, NEW q \in PathOf(a)
        PROVE  Resolve(q)' = At(m)
    <3>1. m = n /\ a \in G
      BY <2>3, <2>5
    <3> QED BY <2>3, <2>5, <3>1
  <2> QED BY <2>3, <2>4, <2>5
<1> QED BY <1>4, <1>5, <1>6 DEF LocalStep

\* No path operation takes more than one node away, nor one with children; and
\* what took its place is at its path.
THEOREM OnlyReplaced == Spec => Replaces
<1>1. OneTree /\ OneTree' /\ [Next]_vars =>
       [Local =>
          /\ \A m, n \in Alive \ Alive' : m = n
          /\ \A n \in Alive \ Alive' :
               /\ Children(n) = {}
               /\ Unique => \A m \in Alive :
                    m # n /\ parent'[m] # Deleted /\ <<parent[m], name[m]>> # <<parent'[m], name'[m]>>
                    => \A p \in PathOf(n) : Resolve(p)' = At(m)]_vars
  BY LocalSteps, LocalReplaces
<1> QED BY <1>1, TreeStaysOne, PTL DEF Spec, Replaces
=============================================================================
