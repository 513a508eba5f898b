------------------------------- MODULE Mount --------------------------------
(***************************************************************************)
(* `eg mount`: files served from a document by the threads of a FUSE        *)
(* session, the dirty buffers between write() and the document (Writeback), *)
(* the kernel's cached pages and the thread that invalidates them, and the  *)
(* tasks of run_sync: live sync, the ceiling, the snapshot of the state.    *)
(*                                                                          *)
(* As in Materialize a text is the set of edits in it.  A write puts one    *)
(* edit in the place of the bytes it covers; an offset is which those are.  *)
(* An edit that is not UTF-8 reaches the document as replacement characters *)
(* (a mark), never as itself.                                               *)
(***************************************************************************)
EXTENDS Naturals, FiniteSets

CONSTANTS
  Nodes,                 \* file nodes
  AppEdits, PeerEdits,   \* the edits each may make, once each
  Binary,                \* those of the applications that are not UTF-8
  MaxCuts,               \* removals, by applications and peers
  MaxDrops               \* links lost

Edits == AppEdits \cup PeerEdits

\* What String::from_utf8_lossy makes of the edit e.
Mark(e) == <<"U+FFFD", e>>
Marks == {Mark(e) : e \in Binary}
Rendered(e) == IF e \in Binary THEN Mark(e) ELSE e
Bits == Edits \cup Marks

ASSUME EditsAssumption == AppEdits \cap PeerEdits = {} /\ Binary \subseteq AppEdits
ASSUME MarksAssumption == Marks \cap Edits = {}
ASSUME BoundsAssumption == MaxCuts \in Nat /\ MaxDrops \in Nat

VARIABLES
  live,    \* the nodes in the tree
  text,    \* text[n]: the document's text of n
  buf,     \* the dirty buffers: bytes, and the text at the base frontier
  seed,    \* the bytes read so far for a new buffer, under the buffers' lock
  taken,   \* the buffers a commit has taken out, under the same lock
  stale,   \* the buffers that have been idle for CEILING
  known,   \* the nodes that have an inode
  cache,   \* cache[n]: what the kernel has cached of n, for the nodes it has
  invals,  \* inodes queued for the invalidation thread
  nudged,  \* the persist task has a nudge waiting
  saved,   \* the snapshot in the state directory
  unstored,  \* the last attempt to store it failed (history)
  link,    \* live sync with the host
  phase,   \* of the mount's life
  born,    \* nodes ever created (history)
  used,    \* edits accepted so far (history)
  cut,     \* edits somebody removed (history)
  late,    \* edits accepted after the final commit (history)
  torn,    \* edits a peer made or removed while a buffer was seeded (history)
  shadowed,  \* nodes a peer changed under a dirty buffer (history)
  cuts, drops

bounds == <<cuts, drops>>
docVars == <<live, text, saved, unstored, born>>
vars == <<live, text, buf, seed, taken, stale, known, cache, invals, nudged, saved, unstored,
          link, phase, born, used, cut, late, torn, shadowed, cuts, drops>>

Dirty == DOMAIN buf
\* The buffers' lock is held, by a write that seeds or by a commit.
M_CommitUnlocked == DOMAIN seed # {}
Locked == DOMAIN seed # {} \/ DOMAIN taken # {}
Put(f, x, v) == [y \in DOMAIN f \cup {x} |-> IF y = x THEN v ELSE f[y]]
Drop(f, S) == [x \in DOMAIN f \ S |-> f[x]]

\* The session's threads answer the kernel until it is dropped; the tasks of
\* run_sync end with the interrupt.
Serving == phase # "unmounted"
Running == phase = "mounted"
Denied == link = "refused"

\* What a read of n returns: a dirty buffer shadows the document.
Shown(n) == IF n \in Dirty THEN buf[n].bytes ELSE text[n]

\* The bytes of n that no commit has put into the document.
Uncommitted(n) == (IF n \in Dirty THEN buf[n].bytes ELSE {})
                  \cup (IF n \in DOMAIN taken THEN taken[n].bytes ELSE {})

\* apply: the bytes as text, and set_content_at: the change from base to that,
\* made to a text that moved on.
Lossy(bytes) == {Rendered(e) : e \in bytes}
M_Overwrite(t, b) == Lossy(b.bytes)
Merged(t, b) == (t \ (b.base \ Lossy(b.bytes))) \cup (Lossy(b.bytes) \ b.base)

\* subscribe: the files whose content a commit or an import changes.
Changed(new) == {n \in Nodes : new[n] # text[n]}

\* spawn_doc_watch: those of them whose inode the kernel may know.
M_Unseen(new) == {}
Stamped(new) == Changed(new) \cap known

\* What store_state writes.
Snapshot == [live |-> live, text |-> text]

\* store_state; write_private truncates before it writes, and a failure is only
\* logged.
Truncated == [live |-> {}, text |-> [n \in Nodes |-> {}]]
Stores ==
  \/ saved' = Snapshot /\ unstored' = FALSE
  \/ saved' = Truncated /\ unstored' = TRUE

Init ==
  /\ live = {} /\ text = [n \in Nodes |-> {}]
  /\ buf = <<>> /\ seed = <<>> /\ taken = <<>> /\ stale = {} /\ known = {}
  /\ cache = <<>> /\ invals = {}
  /\ nudged = FALSE
  /\ saved = Snapshot /\ unstored = FALSE
  /\ link = "down" /\ phase = "mounted"
  /\ born = {} /\ used = {} /\ cut = {} /\ late = {} /\ torn = {} /\ shadowed = {}
  /\ cuts = 0 /\ drops = 0

-----------------------------------------------------------------------------
\* Nodes get their inodes on first sight, by name or in a listing.
Sees(S) ==
  /\ Serving /\ S \subseteq live /\ ~(S \subseteq known)
  /\ known' = known \cup S
  /\ UNCHANGED <<docVars, buf, seed, taken, stale, cache, invals, nudged, link, phase, used,
                 cut, late, torn, shadowed, bounds>>
Lookup(n) == Sees({n})
Readdir == Sees(live)

\* A read the kernel cannot answer from its pages.
Read(n) ==
  /\ Serving /\ ~Locked /\ n \in known \cap live /\ n \notin DOMAIN cache
  /\ cache' = Put(cache, n, Shown(n))
  /\ UNCHANGED <<docVars, buf, seed, taken, stale, known, invals, nudged, link, phase, used,
                 cut, late, torn, shadowed, bounds>>

\* The invalidation thread drops the pages of one inode.
Invalidate(n) ==
  /\ Serving /\ n \in invals
  /\ invals' = invals \ {n}
  /\ cache' = Drop(cache, {n})
  /\ UNCHANGED <<docVars, buf, seed, taken, stale, known, nudged, link, phase, used, cut,
                 late, torn, shadowed, bounds>>

\* The first write to a clean file reads its text, then takes the frontier as
\* the base: the lock keeps out other writes, not an import.
Seeds(n) ==
  /\ Serving /\ ~Denied /\ ~Locked /\ n \in known \ Dirty
  /\ seed' = Put(seed, n, text[n])
  /\ UNCHANGED <<docVars, buf, taken, stale, known, cache, invals, nudged, link, phase, used,
                 cut, late, torn, shadowed, bounds>>

\* The buffer of n.
Seeded(n) == IF n \in Dirty THEN buf[n] ELSE [bytes |-> seed[n], base |-> text[n]]

\* n takes new bytes; the kernel keeps its own pages, if it has them, in step.
Buffers(n, gone, new) ==
  /\ Serving
  /\ n \in DOMAIN seed \/ (n \in Dirty /\ ~Locked /\ ~Denied)
  /\ gone \subseteq Seeded(n).bytes
  /\ buf' = Put(buf, n, [Seeded(n) EXCEPT !.bytes = (@ \ gone) \cup new])
  /\ seed' = <<>>
  /\ stale' = stale \ {n}
  /\ cache' = IF n \in DOMAIN cache
                THEN Put(cache, n, (cache[n] \ gone) \cup new) ELSE cache
  /\ used' = used \cup new
  /\ cut' = cut \cup gone \cup (IF n \in live THEN {} ELSE new)
  /\ late' = IF phase = "closing" THEN late \cup new ELSE late
  /\ UNCHANGED <<docVars, taken, known, invals, nudged, link, phase, torn, shadowed, drops>>

\* A write of e that covers at most one earlier edit.
Write(n, e, over) ==
  /\ e \in AppEdits \ used
  /\ \A x, y \in over : x = y
  /\ cuts' = cuts + (IF over = {} THEN 0 ELSE 1) /\ cuts' <= MaxCuts
  /\ Buffers(n, over, {e})

\* The same bytes again.
Rewrite(n) == Buffers(n, {}, {}) /\ UNCHANGED cuts

\* setattr with a size: the rest of the buffer goes.
Truncate(n, gone) ==
  /\ gone # {}
  /\ cuts < MaxCuts /\ cuts' = cuts + 1
  /\ Buffers(n, gone, {})

\* commit and commit_stale take the buffers of S out of the map, under the
\* lock that write takes, and keep it ...
Takes(S) ==
  /\ ~Locked
  /\ taken' = [n \in S |-> buf[n]]
  /\ buf' = Drop(buf, S)
  /\ UNCHANGED <<docVars, seed, stale, known, cache, invals, nudged, link, used, cut, late,
                 torn, shadowed, bounds>>

\* ... while they apply them in turn.
Applies(n) ==
  LET new == [text EXCEPT ![n] = Merged(text[n], taken[n])]
  IN /\ Serving /\ n \in DOMAIN taken
     /\ text' = new
     /\ taken' = Drop(taken, {n})
     /\ stale' = stale \ {n}
     /\ invals' = invals \cup Stamped(new)
     /\ nudged' = TRUE
     /\ shadowed' = shadowed \ Stamped(new)
     /\ UNCHANGED <<live, buf, seed, saved, unstored, known, cache, link, phase, born, used, cut,
                    late, torn, bounds>>

\* flush, fsync or release of a file.
Flush(n) ==
  /\ Serving /\ n \in Dirty
  /\ Takes({n})
  /\ UNCHANGED phase

\* Time: a buffer has taken no write for CEILING.
Ages(n) ==
  /\ Running /\ n \in Dirty \ stale
  /\ stale' = stale \cup {n}
  /\ UNCHANGED <<docVars, buf, seed, taken, known, cache, invals, nudged, link, phase, used,
                 cut, late, torn, shadowed, bounds>>

\* commit_stale at a tick of the ceiling task.
M_CeilingOnline ==
  /\ Running /\ link = "up" /\ stale # {}
  /\ Takes(stale)
  /\ UNCHANGED phase
Ceiling ==
  /\ Running /\ stale # {}
  /\ Takes(stale)
  /\ UNCHANGED phase

-----------------------------------------------------------------------------
\* Tree operations of the mount commit at once.
Create(n) ==
  /\ Serving /\ ~Denied /\ n \notin born
  /\ live' = live \cup {n} /\ born' = born \cup {n}
  /\ known' = known \cup {n}
  /\ nudged' = TRUE
  /\ UNCHANGED <<text, buf, seed, taken, stale, cache, invals, saved, unstored, link, phase, used, cut,
                 late, torn, shadowed, bounds>>

Unlink(n) ==
  /\ Serving /\ ~Denied /\ ~Locked /\ n \in live \cap known
  /\ cuts < MaxCuts /\ cuts' = cuts + 1
  /\ live' = live \ {n}
  /\ cut' = cut \cup text[n] \cup Shown(n)
  /\ buf' = Drop(buf, {n}) /\ stale' = stale \ {n}
  /\ nudged' = TRUE
  /\ UNCHANGED <<text, seed, taken, known, cache, invals, saved, unstored, link, phase, born, used,
                 late, torn, shadowed, drops>>

-----------------------------------------------------------------------------
(* The link, and what arrives over it. *)

Dials ==
  /\ Running /\ link = "down"
  /\ link' \in {"up", "refused"}
  /\ UNCHANGED <<docVars, buf, seed, taken, stale, known, cache, invals, nudged, phase, used,
                 cut, late, torn, shadowed, bounds>>

LinkDrops ==
  /\ Running /\ link = "up" /\ drops < MaxDrops
  /\ drops' = drops + 1
  /\ link' = "down"
  /\ UNCHANGED <<docVars, buf, seed, taken, stale, known, cache, invals, nudged, phase, used,
                 cut, late, torn, shadowed, cuts>>

\* An import that gives the files the texts new.
Imports(new) ==
  /\ Running /\ link = "up"
  /\ text' = new
  /\ invals' = invals \cup Stamped(new)
  /\ shadowed' = shadowed \cup (Stamped(new) \cap Dirty)
  /\ torn' = torn \cup UNION {(text[n] \ new[n]) \cup (new[n] \ text[n]) : n \in DOMAIN seed}
  /\ nudged' = TRUE
  /\ UNCHANGED <<buf, seed, taken, stale, known, cache, saved, unstored, link, phase, late, drops>>

PeerInserts(n, e) ==
  /\ e \in PeerEdits \ used
  /\ n \in live \/ n \notin born
  /\ live' = live \cup {n} /\ born' = born \cup {n}
  /\ Imports([text EXCEPT ![n] = @ \cup {e}])
  /\ used' = used \cup {e}
  /\ UNCHANGED <<cut, cuts>>

PeerCuts(n, e) ==
  /\ cuts < MaxCuts /\ cuts' = cuts + 1
  /\ n \in live /\ e \in text[n]
  /\ Imports([text EXCEPT ![n] = @ \ {e}])
  /\ cut' = cut \cup {e}
  /\ UNCHANGED <<live, born, used>>

PeerRemoves(n) ==
  /\ cuts < MaxCuts /\ cuts' = cuts + 1
  /\ n \in live
  /\ live' = live \ {n}
  /\ Imports(text)
  /\ cut' = cut \cup text[n] \cup Uncommitted(n)
  /\ UNCHANGED <<born, used>>

\* The persist task: drain the nudges, store the state if it can be stored.
Persist ==
  /\ Running /\ nudged
  /\ nudged' = FALSE
  /\ Stores
  /\ UNCHANGED <<live, text, buf, seed, taken, stale, known, cache, invals, link, phase, born,
                 used, cut, late, torn, shadowed, bounds>>

-----------------------------------------------------------------------------
\* Ctrl-c: run_sync returns and its tasks are gone.
Interrupt ==
  /\ phase = "mounted" /\ phase' = "interrupted"
  /\ UNCHANGED <<docVars, buf, seed, taken, stale, known, cache, invals, nudged, link, used,
                 cut, late, torn, shadowed, bounds>>

\* commit_stale(ZERO): every buffer.
FinalCommit == /\ phase = "interrupted" /\ phase' = "closing" /\ Takes(Dirty)

\* The session is dropped, with what its buffers hold, and the state stored if
\* it can be.  (A flush that is applying its buffer then is let finish.)
Unmount ==
  /\ phase = "closing" /\ phase' = "unmounted"
  /\ DOMAIN taken = {}
  /\ buf' = <<>> /\ seed' = <<>> /\ stale' = {}
  /\ Stores
  /\ UNCHANGED <<live, text, taken, known, cache, invals, nudged, link, born, used, cut,
                 late, torn, shadowed, bounds>>

Next ==
  \/ \E n \in Nodes : Lookup(n)
  \/ \E n \in Nodes : Read(n)
  \/ \E n \in Nodes : Invalidate(n)
  \/ \E n \in Nodes : Seeds(n)
  \/ \E n \in Nodes, e \in AppEdits, over \in SUBSET Bits : Write(n, e, over)
  \/ \E n \in Nodes : Rewrite(n)
  \/ \E n \in Nodes, gone \in SUBSET Bits : Truncate(n, gone)
  \/ \E n \in Nodes : Flush(n)
  \/ \E n \in Nodes : Applies(n)
  \/ \E n \in Nodes : Ages(n)
  \/ \E n \in Nodes : Create(n)
  \/ \E n \in Nodes : Unlink(n)
  \/ \E n \in Nodes, e \in PeerEdits : PeerInserts(n, e)
  \/ \E n \in Nodes, e \in Bits : PeerCuts(n, e)
  \/ \E n \in Nodes : PeerRemoves(n)
  \/ Readdir \/ Ceiling \/ Dials \/ LinkDrops \/ Persist \/ Interrupt \/ FinalCommit \/ Unmount

Spec == Init /\ [][Next]_vars

\* A write under way ends.
Ends == Locked /\ \E n \in Nodes, e \in AppEdits, S \in SUBSET Bits :
                     Write(n, e, S) \/ Truncate(n, S) \/ Rewrite(n)

\* Time passes, the ceiling task ticks, and an interrupted mount unmounts.
FairSpec ==
  /\ Spec
  /\ WF_vars(Ends) /\ \A n \in Nodes : WF_vars(Applies(n))
  /\ \A n \in Nodes : WF_vars(Ages(n))
  /\ WF_vars(Ceiling) /\ WF_vars(FinalCommit) /\ WF_vars(Unmount)

-----------------------------------------------------------------------------
LostPeerEdits == {e \in (used \cap PeerEdits) \ cut : \A n \in live : e \notin text[n]}

\* Any ops that landed since the buffer was seeded survive.
NoPeerEditLost == LostPeerEdits = {}

\* A write that was answered is in the file's buffer or, as text, in the
\* document until somebody removes it, also while another thread commits the
\* buffer; after the unmount it is in the stored state, unless it came after
\* the final commit or the state could not be stored.  (Of a write that is not
\* UTF-8 the replacement characters are there.)
WritesSurvive ==
  \A e \in used \cap AppEdits : {e, Rendered(e)} \cap cut = {} =>
    IF Serving THEN \E n \in live : e \in Uncommitted(n) \/ Rendered(e) \in text[n]
    ELSE e \in late \/ unstored \/ \E n \in saved.live : Rendered(e) \in saved.text[n]

\* What happened to a text while a buffer of it was dirty survives the merge,
\* whichever of flush, ceiling and unmount commits the buffer: peer edits stay
\* and what was removed does not come back with a buffer that still has it.
\* Only what lands between the two reads of the seeding may be undone.
MergeHolds ==
  /\ LostPeerEdits \subseteq torn
  /\ Serving => \A n \in live \ (Dirty \cup DOMAIN taken) : text[n] \cap cut \subseteq torn

\* The kernel's pages are those a read would return, or about to be dropped;
\* only a peer edit hidden by a dirty buffer can leave them behind.  (While the
\* file's buffer is committed a read waits.)
CacheCoherent ==
  Serving => \A n \in (DOMAIN cache \cap live) \ DOMAIN taken : cache[n] = Shown(n) \/ n \in invals \cup shadowed

\* A buffer that takes no write for CEILING is committed, unless a write
\* comes first: no flush is needed.
IdleCommits == \A n \in Nodes : n \in stale ~> n \notin stale
=============================================================================
