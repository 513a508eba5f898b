------------------------------- MODULE DocFs --------------------------------
(***************************************************************************)
(* The namespace of a document: the path view of okayeg's fs.rs over its    *)
(* file tree, while imports change the tree under it.                       *)
(*                                                                          *)
(* The tree operations of a mount are its callers.  The kernel names a      *)
(* directory by an inode it has had for long: the mount makes a path of the *)
(* node, wherever that is by now, and the path view walks it down again.    *)
(* An operation that fails changes nothing and is no step.                  *)
(***************************************************************************)
EXTENDS Naturals, Sequences, SequencesExt

CONSTANTS
  Names,       \* valid names
  BadNames,    \* names that break valid_name; only peers have them
  MaxNodes,    \* nodes ever created
  MaxPeerOps   \* changes by peers

ASSUME NamesAssumption == Names \cap BadNames = {}
ASSUME BoundsAssumption == MaxNodes \in Nat /\ MaxPeerOps \in Nat

Nodes == 1..MaxNodes
Root == 0
Deleted == MaxNodes + 1

VARIABLES
  order,    \* the nodes there have been; siblings are in this order
  parent, name, kind,   \* of each of them
  peerOps

vars == <<order, parent, name, kind, peerOps>>

Born == ToSet(order)

-----------------------------------------------------------------------------
(* The tree. *)

Children(p) == {n \in Born : parent[n] = p}
IsDir(n) == n = Root \/ (n \in Born /\ kind[n] = "dir")

\* p and what is below it, with the nodes' parents as in par: the smallest set
\* that has p and with a node its children.
Closed(par, S) == \A n \in DOMAIN par : par[n] \in S => n \in S
Subtree(par, p) ==
  LET All == DOMAIN par \cup {p}
  IN {n \in All : \A S \in SUBSET All : p \in S /\ Closed(par, S) => n \in S}
Below(p) == Subtree(parent, p)
Alive == Below(Root) \ {Root}

\* No two children of one directory have one name.
Unique ==
  \A m, n \in Alive : m # n /\ parent[m] = parent[n] => name[m] # name[n]

\* Move a node to the end of a directory; refused into its own subtree.
M_MovAnywhere(n, p) == TRUE
CanMove(n, p) == p \notin Below(n)
Place(n) == CHOOSE i \in DOMAIN order : order[i] = n
ToEnd(n) ==
  [i \in DOMAIN order |->
     IF i = Len(order) THEN n ELSE IF i < Place(n) THEN order[i] ELSE order[i + 1]]

-----------------------------------------------------------------------------
(* Between paths and nodes.  "None" is the empty set. *)

\* child_named: the first child of that name.
First(S) == {n \in S : \A m \in S : Place(n) <= Place(m)}
M_NamedAnywhere(p, nm) == First({n \in Born : name[n] = nm})
ChildNamed(p, nm) == First({n \in Children(p) : name[n] = nm})

\* resolve and split_parent walk down from the root: the node reached, or why
\* there is none.
At(n) == [err |-> "", node |-> n]
Fails(e) == [err |-> e, node |-> Root]
Down(at, nm) ==
  IF at.err # "" THEN at
  ELSE IF ~IsDir(at.node) THEN Fails("NotADirectory")
  ELSE IF ChildNamed(at.node, nm) = {} THEN Fails("NotFound")
  ELSE At(CHOOSE n \in ChildNamed(at.node, nm) : TRUE)
Walks(path) ==
  LET at[k \in 0..Len(path)] == IF k = 0 THEN At(Root) ELSE Down(at[k - 1], path[k])
  IN at[Len(path)]

Resolve(path) == IF path = <<>> THEN Fails("NotFound") ELSE Walks(path)

SplitParent(path) ==
  LET at == Walks(Front(path))
  IN IF at.err = "" /\ ~IsDir(at.node) THEN Fails("NotADirectory") ELSE at

\* path_of walks up; up[k][n] is found within k levels.
Up(paths, n) ==
  IF name[n] \in BadNames \/ parent[n] = Deleted THEN {}
  ELSE IF parent[n] = Root THEN {<<name[n]>>}
  ELSE {Append(q, name[n]) : q \in paths[parent[n]]}
PathOf(node) ==
  LET up[k \in 0..MaxNodes] == [n \in Born |-> IF k = 0 THEN {} ELSE Up(up[k - 1], n)]
  IN up[MaxNodes][node]

\* child_path: that of a name in the directory behind an inode.
ChildPath(d, nm) ==
  IF d = Root THEN {<<nm>>} ELSE {Append(q, nm) : q \in PathOf(d)}

\* walk: every path there is, with its node, from the top.
Entries(d) ==
  {<<n, Append(d[2], name[n])>> : n \in {c \in Children(d[1]) : name[c] \notin BadNames}}
Walk ==
  LET down[k \in 0..MaxNodes] ==
        IF k = 0 THEN {<<Root, <<>>>>}
        ELSE down[k - 1] \cup UNION {Entries(d) : d \in {e \in down[k - 1] : IsDir(e[1])}}
  IN down[MaxNodes] \ {<<Root, <<>>>>}

-----------------------------------------------------------------------------
Init ==
  /\ order = <<>> /\ parent = <<>> /\ name = <<>> /\ kind = <<>>
  /\ peerOps = 0

\* create_file and create_dir: the parent exists, the name is free.
MayCreate(at, nm) == at.err = "" /\ ChildNamed(at.node, nm) = {}

Create(path, k) ==
  LET at == SplitParent(path) IN
  /\ Len(order) < MaxNodes
  /\ MayCreate(at, Last(path))
  /\ order' = Append(order, Len(order) + 1)
  /\ parent' = Append(parent, at.node)
  /\ name' = Append(name, Last(path))
  /\ kind' = Append(kind, k)
  /\ UNCHANGED peerOps

\* remove_file and remove_dir.
Removes(at) ==
  /\ parent' = [parent EXCEPT ![at.node] = Deleted]
  /\ UNCHANGED <<order, name, kind, peerOps>>

RemoveFile(path) ==
  LET at == Resolve(path) IN
  /\ at.err = "" /\ ~IsDir(at.node)
  /\ Removes(at)

MayRemoveDir(at) == at.err = "" /\ IsDir(at.node) /\ Children(at.node) = {}

RemoveDir(path) ==
  LET at == Resolve(path) IN
  /\ MayRemoveDir(at)
  /\ Removes(at)

\* rename: what sits at the destination, and may the node take its place?
M_DisplacedNone(n, p, nm) == {}
Displaced(n, p, nm) == ChildNamed(p, nm) \ {n}

MayReplace(n, d) ==
  /\ IsDir(d) => IsDir(n) /\ Children(d) = {}
  /\ ~IsDir(d) => ~IsDir(n)

M_Renamed(n, nm) == name
Renamed(n, nm) == [name EXCEPT ![n] = nm]

\* The node takes the place of what is gone.
TakesPlace(n, p, nm, gone) ==
  /\ order' = ToEnd(n)
  /\ parent' = [m \in DOMAIN parent |->
       IF m = n THEN p ELSE IF m \in gone THEN Deleted ELSE parent[m]]
  /\ name' = Renamed(n, nm)
  /\ UNCHANGED <<kind, peerOps>>

Rename(from, to) ==
  LET at == Resolve(from)
      under == SplitParent(to)
      gone == Displaced(at.node, under.node, Last(to))
  IN
  /\ at.err = "" /\ under.err = ""
  /\ \A d \in gone : MayReplace(at.node, d)
  /\ CanMove(at.node, under.node)
  /\ TakesPlace(at.node, under.node, Last(to), gone)

-----------------------------------------------------------------------------
(* The handlers of the mount, for the inodes of any node there has been. *)

Inodes == Born \cup {Root}

CreateHere(d, nm) == \E path \in ChildPath(d, nm) : Create(path, "file")
Mkdir(d, nm) == \E path \in ChildPath(d, nm) : Create(path, "dir")
Unlink(d, nm) == \E path \in ChildPath(d, nm) : RemoveFile(path)
Rmdir(d, nm) == \E path \in ChildPath(d, nm) : RemoveDir(path)

RenameHere(d, nm, newd, newnm, noreplace) ==
  \E from \in ChildPath(d, nm), to \in ChildPath(newd, newnm) :
    /\ noreplace => Resolve(to).err # ""
    /\ Rename(from, to)

-----------------------------------------------------------------------------
(* What an import may do to the tree; Loro keeps it one. *)

Imports == peerOps < MaxPeerOps /\ peerOps' = peerOps + 1

\* n after the first i.
Insert(i, n) ==
  [k \in 1..(Len(order) + 1) |->
     IF k <= i THEN order[k] ELSE IF k = i + 1 THEN n ELSE order[k - 1]]

PeerCreates(p, nm, k, i) ==
  LET n == Len(order) + 1 IN
  /\ Imports
  /\ n <= MaxNodes /\ p \in Alive \cup {Root} /\ IsDir(p)
  /\ i \in 0..Len(order)
  /\ order' = Insert(i, n)
  /\ parent' = Append(parent, p) /\ name' = Append(name, nm) /\ kind' = Append(kind, k)

PeerMoves(n, p, nm) ==
  /\ Imports
  /\ n \in Alive /\ p \in Alive \cup {Root} /\ IsDir(p) /\ p \notin Below(n)
  /\ <<p, nm>> # <<parent[n], name[n]>>
  /\ order' = ToEnd(n)
  /\ parent' = [parent EXCEPT ![n] = p] /\ name' = [name EXCEPT ![n] = nm]
  /\ UNCHANGED kind

PeerDeletes(n) ==
  /\ Imports
  /\ n \in Alive
  /\ parent' = [parent EXCEPT ![n] = Deleted]
  /\ UNCHANGED <<order, name, kind>>

-----------------------------------------------------------------------------
Next ==
  \/ \E d \in Inodes, nm \in Names : CreateHere(d, nm)
  \/ \E d \in Inodes, nm \in Names : Mkdir(d, nm)
  \/ \E d \in Inodes, nm \in Names : Unlink(d, nm)
  \/ \E d \in Inodes, nm \in Names : Rmdir(d, nm)
  \/ \E d, newd \in Inodes, nm, newnm \in Names, noreplace \in BOOLEAN :
       RenameHere(d, nm, newd, newnm, noreplace)
  \/ \E p \in 0..MaxNodes, nm \in Names \cup BadNames, k \in {"file", "dir"}, i \in 0..MaxNodes :
       PeerCreates(p, nm, k, i)
  \/ \E n \in Nodes, p \in 0..MaxNodes, nm \in Names : PeerMoves(n, p, nm)
  \/ \E n \in Nodes : PeerDeletes(n)

Spec == Init /\ [][Next]_vars

-----------------------------------------------------------------------------
\* The tree is one of files and directories in which only directories have
\* children: no path operation puts a node under a file.
TypeOK ==
  /\ order \in Seq(Nodes) /\ Born = 1..Len(order)
  /\ \A i, j \in DOMAIN order : order[i] = order[j] => i = j
  /\ parent \in [Born -> 0..Deleted] /\ name \in [Born -> Names \cup BadNames]
  /\ kind \in [Born -> {"file", "dir"}]
  /\ \A n \in Born : parent[n] \in Nodes => kind[parent[n]] = "dir"
  /\ peerOps \in 0..MaxPeerOps

\* There is one tree: every node, of the right type, hangs from the root or from
\* something deleted; no rename, into whatever directory, cuts a cycle off it.
OneTree == TypeOK /\ Born \subseteq Below(Root) \cup Below(Deleted)

\* The two ways between nodes and paths agree: walk, from the top, finds the
\* nodes that path_of, from the bottom, gives a path, under that path.  Where
\* names are unique, the path a mount makes of an inode leads back to its node:
\* every handler acts in the directory the kernel named, or not at all.
PathsAgree ==
  /\ Walk = UNION {{<<n, p>> : p \in PathOf(n)} : n \in Born}
  /\ Unique => \A d \in Inodes, nm \in Names : \A p \in ChildPath(d, nm) :
                 IsDir(d) => SplitParent(p) = At(d)

Local == peerOps' = peerOps

\* The path operations keep names unique.
KeepsUnique == [][Local /\ Unique => Unique']_vars

\* They take nothing with them: one node goes at most, no directory with
\* entries, and if it goes for a rename, the renamed one is found at its path,
\* as an editor that saves through a temporary file relies on.
Replaces ==
  [][Local =>
       /\ \A m, n \in Alive \ Alive' : m = n
       /\ \A n \in Alive \ Alive' :
            /\ Children(n) = {}
            /\ Unique => \A m \in Alive :
                 m # n /\ parent'[m] # Deleted /\ <<parent[m], name[m]>> # <<parent'[m], name'[m]>>
                 => \A p \in PathOf(n) : Resolve(p)' = At(m)]_vars
=============================================================================
