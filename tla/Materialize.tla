---------------------------- MODULE Materialize -----------------------------
(***************************************************************************)
(* A directory kept in step with a document: the watcher's ingest task      *)
(* (disk -> doc) and the exporter's egress task (doc -> disk) of            *)
(* spawn_watch_and_export, the per-path merge bases they share, and the     *)
(* user and the peers that change the two copies under them.                *)
(*                                                                          *)
(* A text is the set of edits in it: an edit enters a text once, so a diff  *)
(* is a pair of set differences and a CRDT merge applies both.  A frontier  *)
(* is the texts of the nodes there were (the view of a base).  The tree is  *)
(* flat: a path is a root name, and roots are in tree order.  A passage that  *)
(* a stale base brings in twice is in the set once.                         *)
(***************************************************************************)
EXTENDS Naturals, Sequences, FiniteSets

CONSTANTS
  Paths,               \* names of files
  UserEdits, PeerEdits, \* the edits each may make, once each
  MaxNodes,            \* file nodes ever created
  Regimes              \* the circumstances to consider

Edits == UserEdits \cup PeerEdits
Nodes == 1..MaxNodes

\* Circumstances: who acts while a change is still crossing (the user, a
\* careful user that first lets a file match its base, the peers), whether a
\* peer may use a name that is taken in the tree or on disk, whether the user
\* edits while nothing watches the directory (eg is down, or serve has yet to
\* start its watcher), and how much of each thing may happen: edits, removals
\* and renames by each, failed exports and batches, interruptions.
Regime == [racing : SUBSET {"user", "careful", "peer"},
           collisions : BOOLEAN, offline : BOOLEAN,
           edits : SUBSET Edits, userOps : Nat, peerOps : Nat,
           fails : Nat, stops : Nat]

ASSUME EditsAssumption == UserEdits \cap PeerEdits = {}
ASSUME BoundsAssumption == MaxNodes \in Nat
ASSUME RegimesAssumption == Regimes \subseteq Regime

VARIABLES
  regime,  \* the circumstances of this behaviour
  doc,     \* the document: roots in order, the live ones, names, texts
  saved,   \* the document last stored in .eg/doc
  disk,    \* disk[p]: the text of file p, for the files there are
  base,    \* base[p]: FileBases, for the paths that have one
  events,  \* the paths the watcher has yet to report
  nudged,  \* the egress task has a nudge to receive
  loose,   \* a failed batch left operations uncommitted in the document
  startup, \* serve is on its way: "bind", then "seeded"; otherwise "none"
  running, \* the watcher and the two tasks are up
  used,    \* edits made so far (history)
  cut,     \* edits somebody removed on purpose (history)
  known,   \* edits that have been in the document (history)
  gone,    \* files the user removed and nothing has replaced (history)
  missed,  \* local edits eg never looks at: see Unseen (history)
  userOps, peerOps, fails, stops

bounds == <<userOps, peerOps, fails, stops>>
tasks == <<nudged, loose, startup, running>>
history == <<used, cut, known, gone, missed>>
vars == <<regime, doc, saved, disk, base, events, tasks, history, bounds>>

-----------------------------------------------------------------------------
\* The live nodes named p, in tree order; a path resolves to the first, and
\* the exporter, which writes them all, leaves the last one's text.
Before(d, m, n) == \E i, j \in DOMAIN d.roots : i <= j /\ d.roots[i] = m /\ d.roots[j] = n
Foremost(d, S) == CHOOSE n \in S : \A m \in S : Before(d, n, m)
Hindmost(d, S) == CHOOSE n \in S : \A m \in S : Before(d, m, n)

Named(d, p) == {n \in d.live : d.name[n] = p}
Exists(d, p) == Named(d, p) # {}
First(d, p) == Foremost(d, Named(d, p))
Last(d, p) == Hindmost(d, Named(d, p))

Text(n) == doc.text[n]
Free(p) == ~Exists(doc, p) /\ p \notin DOMAIN disk
Kept(d) == UNION {d.text[n] : n \in d.live}
Shown(d) == {p \in Paths : Exists(d, p)}

Drop(f, S) == [x \in DOMAIN f \ S |-> f[x]]
Put(f, x, v) == [y \in DOMAIN f \cup {x} |-> IF y = x THEN v ELSE f[y]]

\* set_content_at: the change from old to new, made to a text that moved on.
M_TwoWay(text, old, new) == new
Merge(text, old, new) == (text \ (old \ new)) \cup (new \ old)

\* is_echo_of: what is on disk at p is the text its base recorded.
M_AnyEcho(p) == p \in DOMAIN base
Echo(p) == p \in DOMAIN base /\ disk[p] = base[p].view[base[p].node]

\* The base of p, if there is a file, is what eg and the disk agree on.
Honest(p) == p \in DOMAIN disk => Echo(p)

BaseAt(d, n) == [node |-> n, view |-> d.text]

Quiet == events = {} /\ ~nudged

\* Local edits in file p that no node of that name in d has.
Unseen(d, p) == (UserEdits \cap disk[p]) \ UNION {d.text[n] : n \in Named(d, p)}
UnseenIn(d, S) == UNION {Unseen(d, p) : p \in S \cap DOMAIN disk}

-----------------------------------------------------------------------------
Init ==
  /\ regime \in Regimes
  /\ doc = [roots |-> <<>>, live |-> {}, name |-> <<>>, text |-> <<>>]
  /\ saved = doc
  /\ disk = <<>> /\ base = <<>>
  /\ events = {} /\ nudged = FALSE /\ loose = FALSE /\ startup = "none" /\ running = TRUE
  /\ used = {} /\ cut = {} /\ known = {} /\ gone = {} /\ missed = {}
  /\ userOps = 0 /\ peerOps = 0 /\ fails = 0 /\ stops = 0

\* The user changes file p; the watcher, if there is one, will notice.  What is
\* written with none is not looked at.
UserActs(p) ==
  /\ running \/ regime.offline
  /\ "user" \in regime.racing \/ Quiet \/ ("careful" \in regime.racing /\ Honest(p))
  /\ events' = IF running THEN events \cup {p} ELSE events
  /\ UNCHANGED <<regime, doc, saved, base, tasks, known, peerOps, fails, stops>>

UserWrites(p, e) ==
  /\ UserActs(p)
  /\ e \in (UserEdits \cap regime.edits) \ used
  /\ regime.collisions \/ p \in DOMAIN disk \/ Free(p)
  /\ disk' = Put(disk, p, {e} \cup (IF p \in DOMAIN disk THEN disk[p] ELSE {}))
  /\ used' = used \cup {e}
  /\ gone' = gone \ {p}
  /\ missed' = IF running THEN missed ELSE missed \cup {e}
  /\ UNCHANGED <<cut, userOps>>

UserTrims(p, e) ==
  /\ UserActs(p)
  /\ userOps < regime.userOps /\ userOps' = userOps + 1
  /\ p \in DOMAIN disk /\ e \in disk[p]
  /\ disk' = Put(disk, p, disk[p] \ {e})
  /\ cut' = cut \cup {e}
  /\ UNCHANGED <<used, gone, missed>>

UserDeletes(p) ==
  /\ UserActs(p)
  /\ userOps < regime.userOps /\ userOps' = userOps + 1
  /\ p \in DOMAIN disk
  /\ disk' = Drop(disk, {p})
  /\ cut' = cut \cup disk[p]
  /\ gone' = gone \cup {p}
  /\ UNCHANGED <<used, missed>>

-----------------------------------------------------------------------------
\* An import that moved the document (drive_live): d is what it became.
PeerActs(d) ==
  /\ running
  /\ "peer" \in regime.racing \/ Quiet
  /\ doc' = d
  /\ known' = known \cup Kept(d)
  /\ nudged' = TRUE /\ loose' = FALSE
  /\ UNCHANGED <<regime, saved, disk, base, events, startup, running, gone, missed, userOps, fails, stops>>

\* A new root n after the first i.
Insert(roots, i, n) ==
  [k \in 1..(Len(roots) + 1) |->
     IF k <= i THEN roots[k] ELSE IF k = i + 1 THEN n ELSE roots[k - 1]]

PeerCreates(p, e, i) ==
  LET n == Len(doc.roots) + 1 IN
  /\ n <= MaxNodes /\ i \in 0..Len(doc.roots)
  /\ e \in (PeerEdits \cap regime.edits) \ used
  /\ regime.collisions \/ Free(p)
  /\ PeerActs([roots |-> Insert(doc.roots, i, n), live |-> doc.live \cup {n},
               name |-> Append(doc.name, p), text |-> Append(doc.text, {e})])
  /\ used' = used \cup {e}
  /\ UNCHANGED <<cut, peerOps>>

PeerEditsNode(n, e) ==
  /\ n \in doc.live /\ e \in (PeerEdits \cap regime.edits) \ used
  /\ PeerActs([doc EXCEPT !.text[n] = @ \cup {e}])
  /\ used' = used \cup {e}
  /\ UNCHANGED <<cut, peerOps>>

PeerDeletes(n) ==
  /\ peerOps < regime.peerOps /\ peerOps' = peerOps + 1
  /\ n \in doc.live
  /\ PeerActs([doc EXCEPT !.live = @ \ {n}])
  /\ cut' = cut \cup Text(n)
  /\ UNCHANGED used

PeerRenames(n, p) ==
  /\ peerOps < regime.peerOps /\ peerOps' = peerOps + 1
  /\ n \in doc.live /\ p # doc.name[n]
  /\ regime.collisions \/ Free(p)
  /\ PeerActs([doc EXCEPT !.name[n] = p])
  /\ UNCHANGED <<used, cut>>

-----------------------------------------------------------------------------
(* apply_batch, one path of it at a time: the document becomes d, and the   *)
(* batch goes through, with p's base in b, or fails at another of its paths. *)

\* The whole batch is committed, which tells of what an earlier one left loose
\* unless something else committed that.
M_NudgeAlways(moved, b) == nudged' = TRUE /\ base' = b /\ loose' = FALSE /\ UNCHANGED fails
M_NudgeNever(moved, b) == base' = b /\ loose' = FALSE /\ UNCHANGED <<nudged, fails>>
GoesThrough(moved, b) ==
  /\ nudged' \in {nudged \/ moved, nudged \/ moved \/ loose}
  /\ base' = b /\ loose' = FALSE
  /\ UNCHANGED fails

\* A later path cannot be read: no nudge, and no commit and no base; or its kind
\* cannot be told after the commit, with p's base advanced or not.
BreaksOff(d, b) ==
  /\ fails < regime.fails /\ fails' = fails + 1
  /\ \/ base' = base /\ loose' = (loose \/ d # doc)
     \/ base' \in {base, b} /\ loose' = FALSE
  /\ UNCHANGED nudged

Commits(p, d, moved, b) ==
  /\ running /\ p \in events
  /\ events' = events \ {p}
  /\ doc' = d
  /\ known' = known \cup Kept(d)
  /\ GoesThrough(moved, b) \/ BreaksOff(d, b)
  /\ UNCHANGED <<regime, saved, disk, startup, running, used, gone, missed, userOps, peerOps, stops>>

\* A file with a node: merge against the base, or overwrite without one.
IngestEdit(p) ==
  /\ p \in DOMAIN disk /\ Exists(doc, p)
  /\ LET n == First(doc, p)
         old == IF p \in DOMAIN base /\ n \in DOMAIN base[p].view
                  THEN base[p].view[n] ELSE Text(n)
         new == IF disk[p] = Text(n) THEN Text(n) ELSE Merge(Text(n), old, disk[p])
         d == [doc EXCEPT !.text[n] = new]
     IN Commits(p, d, disk[p] # Text(n) /\ disk[p] # old, Put(base, p, BaseAt(d, n)))
  /\ UNCHANGED cut

\* A file without a node: a new one, unless the file is an echo.
IngestNew(p) ==
  LET n == Len(doc.roots) + 1 IN
  /\ p \in DOMAIN disk /\ ~Exists(doc, p) /\ ~Echo(p)
  /\ n <= MaxNodes
  /\ LET d == [roots |-> Append(doc.roots, n), live |-> doc.live \cup {n},
               name |-> Append(doc.name, p), text |-> Append(doc.text, disk[p])]
     IN Commits(p, d, TRUE, Put(base, p, BaseAt(d, n)))
  /\ UNCHANGED cut

IngestEcho(p) ==
  /\ p \in DOMAIN disk /\ ~Exists(doc, p) /\ Echo(p)
  /\ Commits(p, doc, FALSE, base)
  /\ UNCHANGED cut

\* No file: its node goes.
IngestMissing(p) ==
  /\ p \notin DOMAIN disk
  /\ IF Exists(doc, p)
       THEN /\ Commits(p, [doc EXCEPT !.live = @ \ {First(doc, p)}], TRUE, Drop(base, {p}))
            /\ cut' = IF p \in gone THEN cut \cup Text(First(doc, p)) ELSE cut
       ELSE Commits(p, doc, FALSE, Drop(base, {p})) /\ UNCHANGED cut

\* The batch fails at p or before it: p is not looked at.
BatchDropped(p) ==
  /\ running /\ p \in events
  /\ fails < regime.fails /\ fails' = fails + 1
  /\ events' = events \ {p}
  /\ missed' = missed \cup UnseenIn(doc, {p})
  /\ UNCHANGED <<regime, doc, saved, disk, base, tasks, used, cut, known, gone, userOps, peerOps, stops>>

-----------------------------------------------------------------------------
\* What export_tree writes: every shown path, the last node's text on top.
Written == [p \in Shown(doc) |-> Text(Last(doc, p))]
Over(f, g) == [p \in DOMAIN f \cup DOMAIN g |-> IF p \in DOMAIN g THEN g[p] ELSE f[p]]

\* prune: tracked files the export did not write, still as it left them.
Stale == {p \in DOMAIN base \cap DOMAIN disk : ~Exists(doc, p) /\ Echo(p)}

\* store, then advance_and_prune.
M_KeepStale ==
  [disk |-> Over(disk, Written),
   base |-> Over(base, [p \in Shown(doc) |-> BaseAt(doc, Last(doc, p))])]
Exported ==
  [disk |-> Drop(Over(disk, Written), Stale),
   base |-> Over(Drop(base, Stale \cup (DOMAIN base \ DOMAIN disk)),
                 [p \in Shown(doc) |-> BaseAt(doc, Last(doc, p))])]

\* A file is written over although its last change has yet to be reported.
Export ==
  /\ running /\ nudged
  /\ nudged' = FALSE /\ loose' = FALSE
  /\ saved' = doc
  /\ disk' = Exported.disk
  /\ base' = Exported.base
  /\ events' = events \cup Shown(doc) \cup (DOMAIN disk \ DOMAIN disk')
  /\ gone' = gone \ Shown(doc)
  /\ missed' = missed \cup UnseenIn(doc, events \cap Shown(doc))
  /\ UNCHANGED <<regime, doc, startup, running, used, cut, known, bounds>>

\* A write fails: the document's own, or a file's, with some files out; no base
\* is advanced.
ExportFails ==
  /\ running /\ nudged
  /\ fails < regime.fails /\ fails' = fails + 1
  /\ nudged' = FALSE /\ loose' = FALSE
  /\ \/ UNCHANGED <<saved, disk, events, gone, missed>>
     \/ /\ saved' = doc
        /\ \E W \in SUBSET Shown(doc) :
             /\ W # Shown(doc)
             /\ disk' = Over(disk, [p \in W |-> Written[p]])
             /\ events' = events \cup W
             /\ gone' = gone \ W
             /\ missed' = missed \cup UnseenIn(doc, events \cap W)
  /\ UNCHANGED <<regime, doc, base, startup, running, used, cut, known, userOps, peerOps, stops>>

-----------------------------------------------------------------------------
\* The process is interrupted, on its way up too.  What had yet to be reported or
\* stored, or what a failure left so, is not looked at again.
Stop ==
  /\ running \/ startup # "none"
  /\ stops < regime.stops /\ stops' = stops + 1
  /\ regime.racing # {} \/ Quiet
  /\ running' = FALSE /\ startup' = "none"
  /\ events' = {} /\ nudged' = FALSE /\ loose' = FALSE /\ base' = <<>>
  /\ missed' = missed \cup UnseenIn(saved, IF nudged \/ fails > 0 THEN Paths ELSE events)
  /\ UNCHANGED <<regime, doc, saved, disk, used, cut, known, gone, userOps, peerOps, fails>>

\* serve: load the stored document and write it out.  Binding the endpoint and
\* finding its address come before anything watches the directory.
Serve ==
  /\ ~running /\ startup = "none"
  /\ startup' = "bind"
  /\ doc' = saved
  /\ disk' = Over(disk, [p \in Shown(saved) |-> saved.text[Last(saved, p)]])
  /\ gone' = gone \ Shown(saved)
  /\ UNCHANGED <<regime, saved, base, events, nudged, loose, running, used, cut, known, missed, bounds>>

\* seed: a base where a node has the text that is on disk, the first such in
\* tree order.
Agreeing(p) == {n \in Named(doc, p) : p \in DOMAIN disk /\ disk[p] = Text(n)}
Seed ==
  /\ startup = "bind"
  /\ startup' = "seeded"
  /\ base' = [p \in {q \in Paths : Agreeing(q) # {}} |-> BaseAt(doc, Foremost(doc, Agreeing(p)))]
  /\ UNCHANGED <<regime, doc, saved, disk, events, nudged, loose, running, history, bounds>>

\* From here on changes of files are reported.
Watch ==
  /\ startup = "seeded"
  /\ startup' = "none" /\ running' = TRUE
  /\ UNCHANGED <<regime, doc, saved, disk, base, events, nudged, loose, history, bounds>>

-----------------------------------------------------------------------------
Next ==
  \/ \E p \in Paths, e \in UserEdits : UserWrites(p, e)
  \/ \E p \in Paths, e \in Edits : UserTrims(p, e)
  \/ \E p \in Paths : UserDeletes(p)
  \/ \E p \in Paths, e \in PeerEdits, i \in 0..MaxNodes : PeerCreates(p, e, i)
  \/ \E n \in Nodes, e \in PeerEdits : PeerEditsNode(n, e)
  \/ \E n \in Nodes : PeerDeletes(n)
  \/ \E n \in Nodes, p \in Paths : PeerRenames(n, p)
  \/ \E p \in Paths : IngestEdit(p)
  \/ \E p \in Paths : IngestNew(p)
  \/ \E p \in Paths : IngestEcho(p)
  \/ \E p \in Paths : IngestMissing(p)
  \/ \E p \in Paths : BatchDropped(p)
  \/ Export \/ ExportFails \/ Stop \/ Serve \/ Seed \/ Watch

Ingest(p) == IngestEdit(p) \/ IngestNew(p) \/ IngestEcho(p) \/ IngestMissing(p)

Spec == Init /\ [][Next]_vars

\* The two tasks run whenever they have something to do.
FairSpec == Spec /\ WF_vars(Export) /\ \A p \in Paths : WF_vars(Ingest(p))

-----------------------------------------------------------------------------
OnDisk == UNION {disk[p] : p \in DOMAIN disk}

\* User, peers and interruptions wait for what is under way to be done, names
\* do not collide, nobody edits a directory that is not being watched, and
\* nothing fails.
TakingTurns ==
  regime.racing = {} /\ ~regime.collisions /\ ~regime.offline /\ regime.fails = 0

\* Peers create and edit at any moment, in names of their own; the user edits
\* only files that match their bases.
CarefulUser ==
  /\ "user" \notin regime.racing /\ ~regime.collisions
  /\ regime.peerOps = 0 /\ regime.fails = 0 /\ regime.stops = 0

\* The two copies do not drift apart: when everybody takes turns with the two
\* tasks, with nothing left to report or write the files are exactly the
\* document's, and what was removed, by a peer or in the directory, has not
\* been brought back by a stale file or a stale node.
AgreeWhenQuiet ==
  TakingTurns /\ running /\ Quiet =>
    disk = Written /\ cut \cap (Kept(doc) \cup OnDisk) = {}

\* A peer's edit survives every merge of the directory into the document,
\* unless somebody removed it.
NoPeerEditLost == \A e \in (used \cap PeerEdits) \ cut : e \in Kept(doc)

\* So it is when everybody takes turns, and when the user edits only files that
\* match their bases, however the peers' imports fall between the two tasks.
PeerEditsSurvive == TakingTurns \/ CarefulUser => NoPeerEditLost

\* Anything goes but peers that remove or rename files or use names that are
\* taken: saves at any moment, startup and downtime included, failures, restarts.
HastyUser == ~regime.collisions /\ regime.peerOps = 0

\* A local edit is in its file or in the document until somebody removes it.
\* When everybody takes turns there is no exception; a hasty user loses none but
\* those written with no watcher, those in a file that is exported over or
\* dropped from a failing batch before they were looked at, and those still on
\* their way to .eg/doc, or held up by a failure, when the process stops.
LocalEditsSurvive ==
  TakingTurns \/ HastyUser =>
    \A e \in (used \cap UserEdits) \ (cut \cup IF TakingTurns THEN {} ELSE missed) :
      e \in Kept(doc) \cup OnDisk

\* A file eg removes holds no local edit the document has never had.
PruneRecoverable ==
  [][running /\ userOps' = userOps =>
       \A p \in DOMAIN disk \ DOMAIN disk' : disk[p] \subseteq known]_vars

\* No ping-pong: when user and peers leave them alone, the two tasks come to
\* rest, the exporter's own writes notwithstanding.
Settles == <>[](running => Quiet)
=============================================================================
