# okayeg, verified

TLA+ models of [okayeg](../src/README.md), with the TLC runs that check them and
the TLAPS proofs of what holds for every instance. okayeg keeps a directory in
step between peers: each peer holds the whole directory as one Loro document (an
event graph of edits), peers exchange what the other lacks, and a document is
shown to its user as files on disk, as a FUSE mount or in a browser.

Paths below are relative to `src/`; `okayeg` is `crates/okayeg`, and so on.

## 1. The system

| Component | State it keeps | Operations | Talks to |
|---|---|---|---|
| live sync driver (`okayeg/src/sync.rs` `LiveSync`, `okayeg-net/src/lib.rs` `drive_live`) | `acked`, what the peer is believed to hold; two broadcast receivers | `start`, `on`, `pending`, nudge, lag, end of stream | the document, the peer's driver, the process's `changed` broadcast |
| one-shot driver (`Sync`, `drive`, `node.rs` `sync_with`) | a three-state machine | `start`, `on`, wait for the close | as above, once |
| transport and accept loop (`node.rs`, `net.rs`) | connections, the serial accept loop | dial, accept, refuse, close | iroh (external), the gate |
| access gate and sessions (`net.rs`, `authz.rs`, `trust.rs`) | `.eg/trust`, the registry of sessions | authorize by file or command, `eg trust`, list, revoke, session hook | accept loop, the operator's commands |
| directory materialization (`eg/src/watch.rs`, `bridge.rs`, `net.rs`) | merge bases per path | ingest a batch, export, prune, seed | document, disk, watcher, `changed` |
| document and tree (`okayeg/src/doc.rs`, `tree.rs`) | Loro document | commit, import, three-way `set_content_at` | Loro (external) |
| snapshot storage (`net.rs`, `workspace.rs`) | `.eg/doc` | seed, store, load | disk |
| path view (`okayeg/src/fs.rs`, `eg/src/filetree.rs`) | none of its own | resolve, create, rename, remove, subscribe | document |
| FUSE mount (`eg/src/mount.rs`) | inodes, write-back buffers, the redial loop | file operations, debounce, redial | kernel, document, live sync |
| presence (`okayeg/src/presence.rs`, `presence/wire.rs`, `okayeg-net/src/lib.rs`) | an ephemeral store per process, a broadcast relay | set, clear, apply what is owned, relay, refresh, expire | live sync driver, Loro's `EphemeralStore` (external) |
| configuration and keys (`eg/src/config.rs`, `keys.rs`) | `.eg/config.toml`, the machine's `config.toml`, key files | parse, merge the scopes, read or mint a key | every command |
| browser client (`okayeg-wasm`) | a document, presence, callbacks of the page | connect, file operations, presence, keepalive | live sync driver, presence |
| comments (`okayeg/src/comment.rs`, `eg/src/comment.rs`), command line (`eg/src/main.rs`, `ignore.rs`) | in the document; none | see section 8 | document |

What is hard here:

* every process runs several tasks over one document: a session per
  connection, a persist task, ingest and egress tasks, and in a mount
  file-system threads that are not even part of the async runtime. They
  communicate by one broadcast without payload ("something changed"), so a
  missed or a badly ordered nudge is silent;
* a session works from a belief about its peer (`acked`) which an import, a
  refusal, a restart on either side or a commit in the middle of a measurement
  can make wrong; what is wrong in it shows later as an update the peer cannot
  apply;
* processes restart from a snapshot older than what they told their peers,
  connections break at one end first, and a host may lose the accept loop to one
  bad handshake;
* grants are read once per connection, and the host relays what it receives, so
  who learns what is a property of the whole star and of its history;
* disk and document change independently, and their only common memory is a base
  per path; in a mount, kernel pages, dirty buffers and document are three copies
  of one file, served by threads that run beside the imports;
* several eg processes of one machine read and write the same files (key, trust
  file, document) without locks, in place, and may die half way;
* presence has no acknowledgements: it travels through a relay that drops what a slow
  session does not take, is ordered by clocks, and is forgotten by timeouts only;
* a directory that the kernel names by an inode may meanwhile have been moved,
  renamed or deleted by a peer, and two peers may have used one name.

What makes it right is, component by component: no lost wakeup, no orphan,
`acked` never ahead, grants respected through the relay, no unsaved change, and
convergence (live sync); termination, completeness and gating (one-shot); no lost
edit, no resurrected file, no ping-pong (materialization); no answered write and
no peer edit lost, coherent pages, idle buffers committed (mount); one tree, unique
names, operations that act where they were aimed (path view); no grant beyond the
policy, lasting revocation, one hello and one bye per session (gate); one identity and
one history through races and torn files, no malformed setting taken for an absent one
(keys, storage, configuration); owners' words only, no ghosts, agreement
(presence). The list of hazards in
`PROJECT.json` has each of them at the line where it bites.

## 2. Modules

| Module | Models | Kind |
|---|---|---|
| `CausalReplicas` | what live sync promises, without sessions or messages | abstract specification |
| `LiveSync` | sessions of `serve`, `join`, `mount`: dial, gate, accept, the select loop, persist task, crash, drop, trust edit, revoke | detailed specification, refines `CausalReplicas` |
| `LiveSyncProofs` | theorems about `LiveSync` | proofs |
| `OneShot` | `pull` against a live host or against another one-shot driver | specification |
| `OneShotProofs` | theorems about `OneShot` | proofs |
| `Materialize` | ingest and egress tasks, bases, user, peers, restart of `serve` | specification |
| `MaterializeProofs` | theorems about `Materialize` | proofs |
| `Mount` | the file side of `eg mount`: dirty buffers, commits, ceiling, kernel pages, invalidation, persistence, unmount | specification |
| `MountProofs` | theorems about `Mount` | proofs |
| `DocFs` | the path view and its rules, driven by the mount's directory operations while imports change the tree | specification with the path functions as operators |
| `DocFsProofs` | theorems about `DocFs` | proofs |
| `Config` | the parse of both config files and the merge of all scopes | pure operators, with `AsDocumented` as their reference |
| `Serve` | a serving host and the files of its machine: settings, key, stored document, gate, registry, `eg trust`, revoke | specification, extends `Config` |
| `ServeProofs` | theorems about `Serve` | proofs |
| `Presence` | presence stores, sessions and relay of a host and its clients, with time | specification |
| `PresenceProofs` | theorems about `Presence` | proofs |
| `MCLiveSync`, `MCOneShot`, `MCMaterialize`, `MCMount`, `MCDocFs`, `MCServe`, `MCPresence` | instances | for TLC |

`LiveSync` and `Mount` meet in the document: `LiveSync` treats all that a mount's
threads do as commits (one of them racing a session's measurement), `Mount` treats
all that sessions do as imports. `DocFs` gives `Mount` the meaning of the nodes it
creates and unlinks, `Materialize` is to `serve` and `join` what `Mount` is to `mount`.
`Serve` has in detail the verdicts and restarts `LiveSync` takes as given, and leaves what a
session then does to it. `Presence` is the part of `drive_live` that `LiveSync` leaves out: the two share a
connection and nothing else.

### LiveSync

A version is the set of operations it contains. Loro's version vectors are such
sets (a vector dominates another iff its set contains it), "updates since v" is a
set difference and `import` a union. `deps[o]` records what the author held when it
committed `o`, so "the import was pending on missing ancestors", which
`Doc::import_no_orphans` turns into an error, is a statement about sets.

A *link* is one connection, used once. Its two *ends* are the two `drive_live`
tasks. Correspondence of the state:

| Variable | Code |
|---|---|
| `acked[e]` | `LiveSync.acked` of the task at end `e` |
| `nudged` | the `changed` receivers with something to receive (or lagged, which `drive_live` treats alike) |
| `unsaved` | the persist tasks with a nudge queued; they drain the queue, so one is as good as many |
| `unstored` | the processes whose last attempt to store failed (history): the nudge was consumed, the error only printed (`net.rs:716`, `mount.rs:306`) |
| `doc`, `saved` | the document and `.eg/doc` of each process; `Keepers` store it, a browser tab does not |
| `trust`, `granted` | the trust file, and `Perms` handed to the session at accept |
| `status` | idle, waiting in the accept queue, `greeting` (verdict given, `accept_bi` not yet resolved), `opening` (subscribed, its version not sent), up, down |
| `chan` | frames in a QUIC stream: ordered, not lost unless the connection ends. A stream takes `Window` frames that nobody has read; one more is still being written (`Writing`), and its writer, which awaits `write_frame` in an arm of the select, reads and hears nothing meanwhile |
| `refused` | a mount that has turned read-only, a `join` that exited |

`RecvHave`, `RecvUpdates`, `RecvRefused` and `RecvNudge` are the arms of the
select loop, with everything an arm does. Steps of the code are kept apart where
something can happen between them. A session subscribes to `changed` (`Dial`, `Accept`) and then
announces its version (`Announce`); a commit may fall between. `pending` measures the version and
then exports updates, and in a mount a file-system thread may commit in between, whether `pending` was called
for a nudge or for the peer's version (`RecvNudgeRacing`, `RecvHaveRacing`). `serve` and `join` run all their tasks on one thread and
`pending` does not await, so only a mount can race. A failed handshake ends `serve` (`AcceptFails`), which
loses all its sessions and restarts it from its snapshot. A refusal waits a while for the dialer's
stream and then goes without (`Refuse`). A store may fail and leave what was stored before (`Stores`); one that
fails half way leaves a file no start accepts, which is `Serve`'s subject.

`NoLostNudge` needs more than the order of two lines. The subscription has to be there by the time the session can be
measured: a session that subscribed only when it has the peer's version (the mutant) misses what is committed
before. Announcing first and subscribing right after would do no harm, since what counts
is the version the peer answers with, which is read after both.

`Crash`, `Drop`, `SetTrust` and `Revoke` are bounded by `MaxCrashes`, `MaxDrops`
and `MaxTrustEdits`; a commit happens at most once per operation. Nothing else is
bounded, so queues grow as far as the operations let them.

### OneShot

The same messages through a stream of `Window` units, each frame taking one unit
and one more for each operation it carries: enough to model that `write_frame` is
awaited inside the loop that reads, that a frame is handled only when all of it is
there, and that the biased select of `drive_live` prefers a complete frame to a
nudge. A live host writes, beside the exchange, its own and others' presence (`LivePresence`, the relay arm) and what is committed
meanwhile (`HostCommit`). A write to a side that has dropped its streams fails; the host's session then ends (`Cut`)
with what is still on its way to it unread. `start` is the situation a pull starts in: both documents, the grant and
which driver the host runs. `Break` loses the connection, which `sync_with`
takes for the expected close when it was only waiting for one.

### Materialize

A text is the set of edits in it; an edit is made once. A line diff then is a
pair of set differences, and `set_content_at` (diff against the base, replayed on
the text as it has become) is `Merge`. A base is a node and the texts of all
nodes at the frontier it recorded, because `content_at` can look up any node at
that frontier. `roots` is the tree order: with two nodes of one name, a path
resolves to the first (`child_named`), while the exporter writes both and leaves
the last.

`IngestEdit`, `IngestNew`, `IngestEcho` and `IngestMissing` are the four outcomes of
`apply_path`, each with the base update that follows in `apply_batch`. `events` is a
set since the debouncer coalesces; a batch is one path, and batches of more are
sequences of these steps as far as each path is concerned. A batch ends well (`GoesThrough`) or with the first error of any of
its paths (`BreaksOff`, `BatchDropped`): then the rest of it is not looked at, no nudge is sent, no base advances, and what had
been applied may be left uncommitted (`loose`) for the next commit to take along. A start has three steps:
`Serve` writes the stored document out, `Seed` records bases and `Watch` starts the watcher; binding
the endpoint and waiting for its address come before the last two, so that the user may save while nothing watches. `Export` is one step:
it awaits nothing between storing and pruning, and the tasks of a process share one
thread (`LocalSet`). A save of the user that falls between two of its writes is
seen as one before or after it; only the instants between prune's comparison and
its unlink are lost by that. `ExportFails` stops it before the document is stored or after any proper subset of its writes.

Each behaviour has one `regime`, which says who does what when, and makes the
difference between what the code guarantees and what it does not:

* `racing`: who may act while a change is still crossing. `{}` means they take
  turns with the two tasks; `"careful"` is a user who edits a file only while it
  matches its base; `"user"` and `"peer"` act at any moment;
* `collisions`: whether peers may use a taken name;
* `offline`: whether files change while nothing watches them: the process is down or still starting;
* `edits`, `userOps`, `peerOps`, `fails`, `stops`: how much there may be of each.

`missed` is history: the local edits eg never looks at. They are written with nothing watching, in a file that is
exported over or dropped from a failing batch before its event was handled, or at a stop still on their way
to `.eg/doc`; each action adds exactly those of them that the document has not got under that name (`Unseen`).

The regimes are `Turns`, `Careful`, `Anything`, `Unwatched` and, for the finding, `Hasty` (see
`MCMaterialize`). A property that needs a regime says which by what the regime allows:
`TakingTurns` is every regime in which nobody races, names do not collide, files change only
under a watcher and nothing fails, with any number of edits, removals and
restarts; `HastyUser` is every regime at all in which names do not collide and peers only create and edit; `CarefulUser` is every one in which the peers may race and the user is
careful, without collisions, removals by peers, failures and restarts.

### Mount

Text and `Merged` are as in `Materialize`. A write puts one new edit into the buffer in
the place of at most one earlier edit, which is what its offset decides; a
truncation takes edits away; `Rewrite` writes the same bytes again. Zero-filled gaps are
not edits and are left out. Bytes that are not UTF-8 (`Binary`) reach the document as replacement characters
(`Lossy`, `mount.rs:416`), which the base does not have under that name: a mark in the place of the edit.

| Variable | Code |
|---|---|
| `buf` | `Writeback.buffers`: bytes, and the text at the base frontier |
| `seed` | the bytes `seeded` has copied, before it asks for the frontier; the lock on the buffers is held (`Locked`) |
| `stale` | the buffers whose `last_write` is `CEILING` ago |
| `known` | `Inodes`; `cache` and `invals` are the kernel's pages and the channel of the invalidation thread |
| `nudged`, `saved` | the persist task's receiver and the state directory; a store that fails, of the task or of the unmount, is only reported and may leave the file truncated (`Stores`, `unstored`) |
| `taken` | the buffers a commit has taken out of the map, before it applies them |
| `link`, `phase` | `run_sync`'s dial loop (`refused` is `revoked`), and how far the unmount is |

FUSE threads take the buffers' lock for a whole write and a whole commit; imports run on
the runtime's thread and take no such lock. Two things done under the lock are
therefore split, and `Locked` keeps writes out in between: the two reads of `seeded`
(`Seeds`, then `Write`, `Truncate` or `Rewrite`), and a commit, which takes the buffers
out of the map and then applies them one by one (`Takes`, `Applies`). An unlinked or remotely removed
file keeps its inode and can still be written, which changes nothing that is seen
(`cut` includes such writes).

`torn`, `late` and `shadowed` name the cases the properties leave out, each a
behaviour of the code described in section 6.

### DocFs

The tree is a parent, a name and a kind for every node and one order in which
siblings are sorted; `child_named` finds the first in that order (`First`). What is below
a node (`Below`) is the smallest set that has it and with a node its children. `Walks`, `SplitParent`, `PathOf` and `Walk` are `resolve`, `split_parent`,
`path_of` and `walk` of `fs.rs`; a walk returns the node or the error. The actions are the
handlers of the mount: each makes a path of an inode's node (`ChildPath`) and
calls the path view, which resolves that path. Any node that ever was has an inode.
A rename is one step, `mov`, `delete` and `rename` included: the three are committed
together. An operation that returns an error changes nothing and is no step. A
boundary behaves as a file does and is not a kind of its own.

Imports create nodes at any place in the order, under names that break `valid_name` or
are taken, move nodes, and delete them with what is below.

### Config

A config file is missing (`None`), unreadable or not TOML (`Other`), or a record of
entries; an entry is absent, of the wrong type, or its value. `ParseRepo`, `ParseGlobal`,
`CommandField`, `RemotesIn`, `IdentityIn` and `Backend` follow the parsers entry by entry, with what each
takes for absent and what for an error; `Resolve` merges. `AsDocumented` states
what a merge should yield without following it: the first setting of a sequence that there
is. TOML's syntax is external. A colour's channels are two characters each, read as `u8::from_str_radix` does: a sign
in the place of a digit is taken (`Signed`). `AsDocumented` says nothing of the colour where a scope has such a one, since the
documentation speaks of six hex digits.

### Serve

| Variable | Code |
|---|---|
| `phase[p]` | how far an eg process has come: resolving its scopes, reading, minting (`create_new`) or writing its key, opening the document, storing it, up |
| `eff`, `secret` | `Effective` and the secret key it goes on with |
| `keyring` | the device key file of each config directory; `"short"` between its creation and its write |
| `docFile`, `doc` | `.eg/doc` and the server's document, each as its lineage: a seeded document is a new history; `Other` between the truncation and the write of `write_private` |
| `trust`, `editor` | the rows of `.eg/trust`, and each `eg trust` between its load, its truncation and its write |
| `conn` | the one connection the serial accept loop is busy with, with its verdict |
| `registry`, `tasks` | the sessions on record (`Sessions`), and those whose task is not finished |
| `joined`, `bye` | what the session hook was told |

Three steps of the code are split because other processes act between them: a key file is
created and then written, the document and the trust file are truncated and then
written. Two `eg trust` can write over each other: the shorter text then
leaves the end of the longer (`Overlaid`), and one that dies leaves a beginning of its own
(`Beginnings`), whose last row may lack fields, which default to false. A peer's number is
its place in the order in which `save` sorts the rows. `AcceptFails` is the `?` on `node.accept` that ends
`serve`. The authz command may not start, fail, or answer any first line.

`credible`, `removed`, `out`, `shown` and each verdict's `bound` are history: the contents the trust file
has or is about to have, the peers removed by an edit that ran alone, those of them that
were revoked since, the lineages peers were served, and what the policy allowed at the verdict.

Constants named `Plans` give the circumstances of a behaviour: the scopes a start may find, the
commands given, how often each thing happens.

### Presence

| Variable | Code |
|---|---|
| `store[p][k]` | the `EphemeralStore` of each process: the value, its age, and its place among changes of one tick |
| `own` | what a process re-sets at each refresh (`refresh_presence`; the keepalive of `wire_presence`) |
| `phase[e]` | a session end: down, subscribed to the relay, up (opening snapshot written) |
| `chan[e]` | presence frames in the stream to `e` |
| `queue[e]`, `lagged` | the session's receiver of the relay, a tokio broadcast of limited capacity, and whether it has been overrun |

Time is kept as ages: `Tick` makes every entry, in a store or on its way, a tick older, which
keeps the state space finite and orders entries as their timestamps do. Two
changes of a tick are ordered by `sub`, or have the same instant (`tie`). `Set` and `Refresh`
publish to the process's own sessions, `Recv` applies what the sender owns and at the host publishes it
with its origin, `Relay` sends on what did not come from the peer itself, or a full
snapshot after an overrun. `Stray` is a client that sends what is not its own; it is taken from
the ownership rule of the code (`owns_key`), not from any client of the repository. `Drop`, `Close`,
`Stray` and a tick while something is on its way are the faults.

## 3. Runs

| Run | Instance | Properties | What it shows |
|---|---|---|---|
| `live_restart` | one spoke, two links, one operation each, a window of one frame, stores that fail, one crash, one trust edit or revoke | `TypeOK`, `NoOrphans`, `AckedSound`, `NoLostNudge`, `NoLostSave`, `Gated`, `KeepsPromise` | the session protocol survives a restart of either process and the redial after it, grants hold, and `CausalReplicas` is implemented |
| `live_converge` | two spokes with a link each, one of which may only pull; an operation at the other, which may race its session's measure, and one at the host; a window of one frame, one drop | `Converges`, `LinksSettle` | changes travel spoke to host to spoke, and both ways over one link, by nudges alone, unless two ends block each other for good; a connection that broke at one end is let go of at both |
| `oneshot_pull` | every start over two operations, a late third, presence once, window 2, one break | `NeverOutOfOrder` (with `TypeOK`), `PullComplete`, `OneShotGated`, `PushConsumed`, `PullEndsIfAnswered` | what a live host streams does not confuse the exchange, a push is read unless the host's own write failed first, and a pull the host has an answer for ends or is blocked for good by two full windows |
| `oneshot_up_to_date` | puller and live host hold the same | `PullEnds`, violated | finding 1 |
| `disk_sync` | two paths; `Turns`: two edits each for user and peers, a removal each, one restart; `Careful`: peers at any moment, a careful user; `Anything`: everybody at any moment, collisions, a failure, an interruption, edits with nothing watching; `Unwatched`: the same without collisions and removals by peers, with a second local edit | `AgreeWhenQuiet`, `LocalEditsSurvive`, `PeerEditsSurvive`, `PruneRecoverable`, `Settles` | with turns taken nothing is lost or brought back; a hasty user loses nothing but what eg never looks at; the three-way merge does what it is for; prune never removes what the document has not had; the tasks come to rest |
| `disk_lost_peer_edit` | `Hasty`: user and peers at any moment | `NoPeerEditLost`, violated | finding 2 |
| `mount_writes` | one file, two writes, one of them not UTF-8, one peer edit, one removal, one drop, stores that fail | `MergeHolds`, `WritesSurvive`, `CacheCoherent`, `IdleCommits` | buffers lose neither side's edits, and reads stay coherent |
| `mount_seeding` | one file, one write, one peer edit | `NoPeerEditLost`, violated | finding 3 |
| `docfs_paths` | three nodes, two names and an invalid one, two imports | `OneTree` (with `TypeOK`), `PathsAgree`, `KeepsUnique`, `Replaces` | directory operations on a tree that moves under them |
| `serve_host` | four plans: `Settings` (every shape of the scopes, one start), `Restarts` (two processes, four starts, two kills, a store, two connections), `Edited` (two `eg trust` at once, one kill, three connections), `Commanded` (a command as gate, two connections) | `ResolvesAsDocumented`, `NeverFallsBack`, `OneIdentity`, `OneHistory`, `HooksPaired`, `GrantsBounded`, `RevokedStaysOut` | a host and the files of its machine, through races and interruptions |
| `serve_hook_shape` | `Settings` | `BlocksNeverDegrade`, violated | finding 4 |
| `presence` | a host and two clients, one with an entry and a cursor, a relay that holds one; one change and one fault, or two entries with a change while the owner dials, or two with a fault | `TypeOK`, `OnlyOwnersWrite`, `NoGhosts`, `AgreeWhenQuiet`, `OwnEntryHolds`, `Converges` | presence through overrun, late frames, broken links and closed tabs |

**Why the bounds are enough.** Live sync compares a mark with a document, and every
hazard needs at most: one operation to be ahead with, one to depend on it, one
event that invalidates the mark (crash, drop, revoke, commit during a
measurement) and one link after it. Two operations with two links and one event
of each kind reach all of them; a window of one frame is the narrowest there is, and makes every second unread
frame block its writer. The two links of the one spoke are symmetric. Two spokes are needed for relaying, and
relaying to one other is relaying to any number since the host treats sessions
independently. Gates and refinement through the relay, with any number of spokes, are
theorems (`GatesHold`, `PromiseKept`).
The theorems of section 5 remove the bounds from all safety properties of all passing runs;
what follows matters for liveness and for the findings, and shows which situations TLC has seen.
In `OneShot` a window of 2 is less than a frame of two operations, so that every longer frame makes its
writer wait for the reader, both can wait at once, and presence waits behind it; 8 is larger than all that is ever sent in one direction. In `Materialize` two paths make renames
and collisions possible, two edits by each side make "a second edit
before the first has crossed" possible, and four nodes let every path be created,
removed and created again. In `Mount` files are independent, so one is enough; the merge
relates a base, a buffer and a text, and two writes, one peer edit and one removal put
each edit on either side of each of the three. In `DocFs` three nodes make a directory in a
directory with an entry, which is the deepest situation the rules distinguish (replace an
empty directory, move into one's own subtree), two imports a duplicate and a
move under way. Names are symmetric: nothing compares them but for equality. In `Serve` two processes race
for a key, two edits for a file, and two peers give a row before and one after another;
the second start after each kill meets every file the first may have left. In `Presence` a relay of
capacity 1 is overrun by two entries, a period of 1 and a timeout of 3 are the code's
ratio or tighter, and a second client is needed for the relay and enough for it.
Larger instances pass as well: both entries with a change and a fault together (10.6 million
states), one entry with a change and two faults (2.2 million). Deadlock is not checked,
but in `Presence`, where time goes on: each instance may run out of
operations, edits and connections, which is the end of a scenario.

Every property has a mutant in `PROJECT.json`: an operator beside the definition it
would replace (`M_...`) that is that code with a plausible bug, under which TLC
reports the property violated. The `M_` operators are used nowhere else.

## 4. Fairness

* `LiveSync`: weak fairness for the arms of a session's select loop (the read, the
  nudge, the end of the stream) at every end, and
  for `Announce`, `Accept` and `AcceptFails` of every link: these are tokio tasks that loop until their
  connection ends, and an arm that stays ready is polled (the select is biased
  towards reads, of which there are finitely many). An arm is not ready while another one
  is in `write_frame`: a full window stops the reads of its writer, and two ends that both have one wait for each
  other forever. That is what the code does, and `Converges` excepts it by name (`Stuck`). Nothing is assumed of the persist task, whose stores may fail. Strong fairness for a verdict,
  `Authorize` or `Refuse`: a waiting connection needs the accept loop, which is
  busy with one at a time and takes the next from a queue, so that nobody is
  passed over for ever. Nothing is assumed of commits, dials, crashes, drops, trust
  edits, or of when a commit falls into a measure. `Converges` is conditional on the link staying up, and
  claims nothing for one that does not.
* `OneShot`: weak fairness for each I/O step that is possible, none for `Break`,
  `HostCommit` or `LivePresence`.
* `Materialize`: weak fairness for `Export` and for the ingest of each path, none for
  user, peers, failures, interruptions or starts. `Settles` says nothing of a process that
  is down or on its way up.
* `Mount`: weak fairness for a write that has begun (it holds a lock and awaits
  nothing), for time (`Ages`), the ceiling task and the two steps after an interrupt.
  None for applications, peers, the link or the persist task; a store that fails needs no fairness to do so.
* `Presence`: weak fairness for time (`Tick`), each process's refresh, and the `Open`, `Recv` and `Relay`
  of each session end, which are tasks and timers of a process that runs. None for changes,
  dialling or faults. `Converges` is conditional on both links staying up.
* `DocFs` and `Serve` state no liveness. (`authorize` awaits the command without a timeout, `authz.rs:177`, and
  the accept loop is serial: a command that hangs stops all accepting. Nothing eventual can be
  promised there.)

## 5. Proofs

### LiveSync

`LiveSyncProofs` proves, for any sets of spokes, links and operations, any trust file
and any bounds, from the assumptions `LiveSync` states on its constants (the
host is not a spoke; `Keepers`, `PeerOf`, `Author`, `InitTrust` have their types; a window takes a frame;
bounds are naturals):

| Theorem | States |
|---|---|
| `TypeCorrect` | `Spec => []TypeOK` |
| `AckedSoundness` | `Spec => []AckedSound` |
| `OrphanFreedom` | `Spec => []NoOrphans` |
| `GatesHold` | `Spec => []Gated` (`PushGated` and `PullGated`) |
| `SavesNotLost` | `Spec => []NoLostSave` |
| `NudgesNotLost` | `Spec => []NoLostNudge` |
| `PromiseKept` | `Spec => KeepsPromise` |

None of the interesting invariants is inductive. The inductive one, `IndInv`, is
the conjunction of

* `TypeOK`, and `LinkLife`: how the states of the two ends of a link go together
  (before the host's task starts it has sent nothing and granted nothing);
* `OnlyMade` and `Causal`: only committed operations are anywhere, and every
  document, in memory or stored, is causally closed;
* `InOrder`: each queued frame depends only on the receiver's document, itself and the
  frames before it. This is `NoOrphans` for the whole queue rather than its head;
* `HaveSound`: a version in flight is still held by the session that announced it.
  It is what makes it right to set `acked` to a version received: a sender that has
  restarted since, and may hold less, is no longer up, and the queue it left is
  read by a session that will end without consequence;
* `AckedSound`: `acked` is covered by the peer's document and the frames in flight to
  it, as long as the peer's end will import them. This and `InOrder` need each
  other: what is sent is `doc \ acked`, whose dependencies are in
  `acked` or in the frame, and so in the peer's document or in the queue before it;
* `PushGated`, `PullGated` and `FlightGated`: who can have made what is in a document, a
  snapshot or a frame. `FlightGated` carries the gates across the wire.

There is one lemma per action, with one step per conjunct the action disturbs, and
lemmas on what `Append`, `Tail` and stopping an end do to `Carried`, `Ordered` and
`Announced`. `NoLostSave` is proved from `SaveInv`, which adds
that a snapshot is part of the document it was taken from; what it leaves out is a document whose last
store failed, which waits for the next nudge. `NoLostNudge` is proved from `WakeInv`,
which adds `Heralded`: while the host's end has not started, the dialer's `Have` waits for it
(both ends come up at different moments, and the one that comes up
first may have had, and used, all its nudges by then). `PromiseKept` shows that `Init`
maps to the abstract `Init` and each step to a commit, merge, restart, admission
or stutter, under `IndInv` and `SaveInv`.

### Serve

`ServeProofs` proves, for any processes, editors, peers, connections and plans, from the
assumptions `Serve` states (generated secrets are distinct and none reads as a short or
missing file; the scopes of a plan have their fields and name its directories, and no
selector or colour in them is the value that stands for an absent one; a plan's trust
file and commands have their types):

| Theorem | States | From |
|---|---|---|
| `IdentityIsOne` | `Spec => []OneIdentity` | `KeyInv`: a process between the creation and the write of a key file is the only one there for its directory and the file reads short until then (`Writing`); whoever holds a key has a whole one, and the device key only as it is on disk (`Identified`) |
| `HooksArePaired` | `Spec => []HooksPaired` | `HookInv`: the connection in the accept loop has an id not joined yet, running sessions are on record under ids of their own, and nobody said bye without a hello |
| `GrantsAreBounded` | `Spec => []GrantsBounded` | `FileInv`: every row of the file, torn and overlaid as it is, is within the row of some credible content, and an editor that has truncated the file has its rows among these |
| `RevokedForGood` | `Spec => []RevokedStaysOut` | `OutInv`: a removed peer is in no content of the file and in no editor's memory, and one revoked since has neither a session nor a verdict waiting |
| `HistoryIsOne` | `Spec => []OneHistory` | `HistoryInv`: a document is seeded once, since only a missing file is, and whoever is up has its lineage |
| `FallsBackNever` | `Spec => []NeverFallsBack` | `ResolvedInv`: a process that looks for its key has resolved the scopes it found, and both files parsed. The rest is about `Parsed`: a file that parses has no malformed entry, block by block |
| `ResolvesRight` | `Spec => []ResolvesAsDocumented` | `ResolvedInv`, and lemmas on `Select`, `Layer` and `FirstValid`: each yields the first setting of its sequence that there is |

`Plans` is any set of circumstances, so the last two hold of every content of the two files,
not only of the shapes the run goes through.

None is inductive as it stands: what a session is granted depends on the file that another
process is in the middle of writing, so each invariant speaks of the processes half way.

### Presence

`PresenceProofs` proves, for any clients, entries, owners, capacity, period and timeout with
three periods in a timeout:

| Theorem | States | From |
|---|---|---|
| `TypeCorrect` | `Spec => []TypeOK` | `IndInv` |
| `OwnersOnly` | `Spec => []OnlyOwnersWrite` | `IndInv`: stores and relays hold only what owners said, and of a frame on its way whatever its receiver will keep is such (`Wires`, by `Arriving`); at a dialer that is all of it, at the host what the sender owns of a frame that decodes |
| `GhostsFade` | `Spec => []NoGhosts` | `GhostInv`: what is on its way is no older than the timeout and the delays so far (`Passing`), and a store has aged since its last sweep by no more than its timer says (`Faded`) |
| `OwnersKeepTheirs` | `Spec => []OwnEntryHolds` | `OwnInv`: a running owner's store has what it last set, no older than its refresh timer (`Masters`), and nothing in any store, frame or queue is ahead of that entry (`StoresBehind`, `FramesBehind`, `QueuesBehind`) unless it has expired |
| `AgreesWhenQuiet` | `Spec => []AgreeWhenQuiet` | `OwnInv` and `Told`: along every session that leads away from an owner, the owner's entry, once it is at the near end, is at the far end or on its way: in a frame, in the queue, in a snapshot still to be written, or behind an overrun |

`OwnInv` is where time matters: an entry is ordered by age and by its place in a tick, and a refresh
must put the owner's entry ahead of every copy of it. Two changes in one instant
cannot be ordered (`tied`); the owner still holds its own, because a store does not
replace an entry by one of the same instant.

### OneShot

`OneShotProofs` proves, for any window, any operations (finitely many: a frame's length
is their number), any set of starts and any number of breaks:

| Theorem | States | From |
|---|---|---|
| `InOrderAlways` | `Spec => []NeverOutOfOrder` | `Base` |
| `GrantsHold` | `Spec => []OneShotGated` | `Base` |
| `PullsAreComplete` | `Spec => []PullComplete` | `Base` and `Complete` |
| `PushesConsumed` | `Spec => []PushConsumed` | `Base`, `Complete` and `Pushed` |

The invariants are about the *stream* to a side: what is on the wire followed by what the other
side has yet to write, so that a frame cut by the window is no special case. `Base` says
which states each side can be in (`Roles`), what each may say (`Contents`), what each holds
(`Holds`) and that a version comes first, once, before a side that awaits it reads anything
else (`Ordered`). `Complete` says that frames are whole and that the *first* updates on
their way to the puller bring it to all the host began with; a live host may stream more after
them, and until it has sent any it has `acked` no more than the puller has. `Pushed` follows
the push: until the host holds it, or is cut by a write of its own that failed, it is in the stream (`Coming`), and
neither end closes before it is read (`Closing`, `Settled`). A host that is cut is what the
theorem leaves out, and nothing else (section 6).

### Materialize

`MaterializeProofs` proves, for any paths, any edits (a user's are not a peer's), any number
of nodes and any set of regimes:

| Theorem | States | From |
|---|---|---|
| `TypeCorrect` | `Spec => []TypeOK`, with `TypeOK` of the proofs module: documents, bases and files fit together | itself |
| `PrunesRecoverable` | `Spec => PruneRecoverable`, an action property, in every regime | `Recorded`: what a document or a base holds has been in the document |
| `AgreesWhenQuiet` | `Spec => []AgreeWhenQuiet` | `Turns` |
| `LocalEditsKept` | `Spec => []LocalEditsSurvive` | `Turns`, and `Haste` for a hasty user |
| `PeerEditsKept` | `Spec => []PeerEditsSurvive` | `Turns` and `Care` |

`Turns` is about the regimes in which turns are taken, and says which of the two copies counts.
With nothing to export (`Resting`) it is disk: all that was not cut is there, each path
has a base that is the node's text, and at most the one file the user has just changed differs
from its node. With something to export (`Exporting`) it is the document, and every file
there is an echo of its base, so that it may be replaced or pruned. `Care` is
about a careful user among racing peers: the base of a file is of the node that has its
name, lacks no peer edit but those about to be exported, and the file lacks none
of what its base has unless it was cut, so that a merge takes away no peer edit.

`Haste` is about a hasty user among peers who create and edit, with every failure, stop and start. A local edit counts
(`Alive`) while nobody has removed it and eg has not passed it over (`missed`). What counts is on disk; every node's part of it is
in the node's file (`Shelved`); a file that has been looked at has its part in the document (`Looked`), or in the stored
document while nothing runs; and no base records any of it that its node lacks (`Backed`), or a diff against that base would
not bring it in. The last part is what makes the merge of a hurried save right, and what fails for the *peers'* edits (finding 2):
a base may have those without the file having them. An export then writes over a file either after it was looked at, when
the document has what counts, or before, when it is `missed`.

### Mount

`MountProofs` proves, for any nodes, any edits (an application's are not a peer's) and any
bounds:

| Theorem | States |
|---|---|
| `TypeCorrect` | `Spec => []TypeOK`, with `TypeOK` of the proofs module |
| `MergesHold` | `Spec => []MergeHolds` |
| `WritesKept` | `Spec => []WritesSurvive` |
| `PagesCoherent` | `Spec => []CacheCoherent` |

All from one `IndInv`: an edit is in one node only and was accepted (`Homes`); a buffer fits the
text it will be merged into, and a seed the text it was read from (`Fits`: what the buffer adds is not there yet, what
its base lost was cut, what it takes away was cut or fell into the gap of the seeding); after the
final commit only late writes are in buffers (`Settled`) and a stored state without them was stored badly (`unstored`); a text that is not the base
of its buffer was moved by a peer, and the pages of a file whose buffer is being seeded are as
fresh as the seed (`PagesFollow`); and the three properties themselves. `Fits` is the
reason why a merge keeps both sides: `Merged` is a formula over base, bytes and text, and
is right only as long as the base is what the bytes were read with.

### DocFs

`DocFsProofs` proves, for any names, any number of nodes, however deep the tree, and any
number of imports, from `NamesAssumption` (no name is both valid and invalid) and
`BoundsAssumption` (bounds are naturals):

| Theorem | States | From |
|---|---|---|
| `TreeStaysOne` | `Spec => []OneTree` | itself: `OneTree` is inductive |
| `PathsAlwaysAgree` | `Spec => []PathsAgree` | `OneTree` |
| `UniqueIsKept` | `Spec => KeepsUnique`, an action property | `OneTree` |
| `OnlyReplaced` | `Spec => Replaces`, an action property | `OneTree`, before and after the step, and `UniqueIsKept` |

The tree is one because of `StillHangs`, a lemma about any parents: if one node moves to a place that
is not below it, and others go under the deleted, then whatever hung from root or deleted still does. It
is where the refusal of a move into the node's own subtree is used. `OnlyThoseGo` is its
counterpart for `Replaces`: if what goes has no children and is not where the node
moves to, nothing else goes.

Walks, paths and listings are recursive functions on the number of steps. Each comes with a lemma that the function
exists (`StagesExist`, `UpsExist`, `ListsExist`) and what it does at a step
(`WalksOn`: one component more is one step down); induction is by the least number for
which a statement fails (`Onward`, from the well-foundedness of the naturals), over a *set* of numbers, which
needs no operator parameter. `PathFor` is the statement carried up: a path of a node consists of valid
names, the node hangs from the root, and where names are unique the path leads to it. `KnownOn` relates
a level of `walk` to a level of `path_of`.

The five path operations come down to three changes of the tree, `Creates`, `Takes` and `Moves`
(`CreateForm`, `RemoveForm`, `RenameForm`): what `resolve` and `split_parent` reach hangs
from the root and, for the latter, is a directory (`Arrives`). `FoundInPlace` is the last part of `Replaces`:
the paths of what is not below the moved node stay (`PathsElsewhere`), that of its new directory among
them, so the path of the node that went is one of the node that came.

### Only model-checked

* Liveness: `Converges` of `LiveSync` and of `Presence`, `LinksSettle`, `PullEndsIfAnswered`, `Settles`,
  `IdleCommits`. Fairness is out of the prover's reach.

Every invariant and every action property of a passing run is a theorem.

## 6. What the runs found

1. **A pull with nothing to fetch never ends** (`oneshot_up_to_date`). `LiveSync::pending`
   answers nothing to a peer that is current, or that may not pull, and `Sync` waits
   for an `Updates` frame; the timeout of `pull` bounds the dial only. `PullEndsIfAnswered`
   therefore speaks of pulls the host has an answer for.
2. **A base that disk does not match** (`disk_lost_peer_edit`). After merging a
   local edit into a text with peer edits, `apply_batch` records the *merged*
   frontier as the base of the path although the file does not hold the peer's
   edits until the export. `NoPeerEditLost` says no peer edit is lost to a merge. A second save in between is diffed against that base,
   and what the file lacks counts as deleted.
3. **A buffer seeded across an import** (`mount_seeding`). `Writeback::seeded` copies the
   text and then takes the frontier. An import in between makes the base newer
   than the bytes, and the commit deletes what the peer had just written.
   `MergeHolds` of `Mount` leaves out exactly the edits that land in this gap (`torn`).
4. **A block of the wrong shape counts as none** (`serve_hook_shape`). `GlobalConfig::parse` looks up
   `backend` inside the `keys` entry; when the entry is not a table the lookup finds nothing,
   and the process goes on with the file backend. `command_field` does the same with `authz`, where the trust file becomes the
   gate, and `session`. The comments there (`config.rs:339`, `config.rs:270`) say malformed
   input is never a fallback. `BlocksNeverDegrade` says it of these three blocks; `NeverFallsBack` holds of every other entry.

Other constants, or the exceptions the properties name, show where the passing
runs stop:

* `LiveSync`, `Stuck`, and `OneShot`, `Jammed`: two ends, one-shot or live, that each have more to say than a window
  holds are both blocked in `write_frame` and read no more. Both runs reach it; `Converges` and
  `PullEndsIfAnswered` except it and nothing else;
* `LiveSync`, `unstored`: a store that fails has consumed its nudge, and the document stays unsaved until something
  else changes. A process that stops before loses what the printed error told of;
* `OneShot`, a write of the host's own (a commit, its presence, the presence it relays, a keepalive) while a pull with something to
  push is ending: the write fails against the streams the pull has dropped, the host's session
  ends with the pull's updates unread, and `sync_with` takes the close for success, although its comment (`node.rs:126`)
  holds the link open until the accepting side has consumed everything. `oneshot_pull` reaches this without any commit;
  `PushConsumed` leaves out pulls whose host was cut so;
* `Materialize`, `missed`: `export_node` writes
  every file without looking whether it changed since its base, so the second of
  two quick saves is undone by the export the first one caused, if that comes before the save is reported;
  `serve` writes its stored document over files edited while it was down, and what is saved between that
  and the start of the watcher (`net.rs:308` to `312`, where it waits for its address) is looked at only when the
  file changes again; a batch that fails at one file passes the others over (`net.rs:684`). `LocalEditsSurvive` says that these, and
  what a stop finds unstored, are all the local edits a hasty user loses. `AgreeWhenQuiet` excludes them: nobody edits a
  directory that is not watched;
* `Materialize`, `collisions`, or peers that delete and create under one
  name with `racing = {"user", "peer"}`: the claim of `PeerEditsSurvive` fails; the echo of a colliding name is
  ingested into the first node, and the event of a pruned file deletes the node
  that has since taken the name;
* `Mount`, `late`: a write answered between the final `commit_stale` and the end of the
  session is dropped with its buffer;
* `Mount`, `unstored`: the state after an unmount may lack answered writes when it could not be stored, and a write
  that is not UTF-8 is there as replacement characters;
* `Mount`, `shadowed`: an edit imported under a dirty buffer invalidates the pages at once,
  while reads are still answered from the buffer; pages filled then stay, and if the
  buffer's commit changes nothing they are not invalidated again;
* `Mount`, `IdleCommits` is about idle buffers: every write resets `last_write`, so a file that
  is written more often than `CEILING` and not flushed is never committed,
  which is less than the comment at `mount.rs:286` says;
* the browser's `create_file_at` and `delete_file` (`okayeg-wasm/src/lib.rs`) call the tree directly and
  may make duplicate names; `DocFs` takes them, like other peers, as imports;
* `Serve`: a peer that had its verdict and no session yet when it was revoked is not on record and gets
  its session (a stream that is never opened keeps the verdict waiting, `node.rs:170`); `RevokedStaysOut` leaves it out, and
  `GrantsBounded` measures a grant by the policy at the verdict. Of two `eg trust` at once, one edit may be lost;
  `removed` counts edits that ran alone. Sessions that end with `serve` get no bye;
* `Serve`: a process that dies between the creation and the write of the device key leaves
  a file that every later start refuses, as it refuses a torn `.eg/doc`: nothing
  repairs either, which is what keeps identity and history one;
* `Presence`: two changes of one entry in the same millisecond leave the first in view elsewhere until the next
  refresh, or, of a deletion, until it expires; `AgreeWhenQuiet` excepts such entries (`tied`), `Converges`
  does not. What a store shows is what has not expired: `get` goes on returning an expired entry for up to one sweep
  period, which `AgreeWhenQuiet` does not see (`Shown`) and `NoGhosts` counts in;
* `Config`: a channel `+f` is read as a colour (`config.rs:478`), against `config.rs:19`.

## 7. Abstractions

* Loro is external: imports are unions of operation sets, text merge is the
  set formula `Merge`. That a CRDT merge of concurrent insertions keeps both is assumed; the
  order of characters is not modelled. An import is one step, and so is an
  operation of the path view, though in a mount another thread could import between
  its resolution and its effect.
* iroh is external: a stream is a FIFO that ends with its connection. Dial and write
  timeouts appear as the failures they cause (`Unreachable`, `Drop`, `AcceptFails`).
* The kernel is external: it fills pages by reads, keeps its own writes in them and
  drops them when told.
* In `LiveSync` and `Materialize` a snapshot is written in one step, or not at all; `Mount` has stores that leave the
  file truncated and `Serve` the two steps of a write.
* The tree of `Materialize` is flat and its files are text; ignore rules,
  non-UTF-8 files and path escaping are left out. A text is a set: a passage that a stale base brings in a second time is not
  seen twice. What a failed batch left uncommitted is committed by whatever commits next, as Loro's
  implicit commits do.
* In `LiveSync` a verdict of the gate is what the trust file says, and presence frames are left out: they take room in the same
  windows, so what `LiveSync` calls `Stuck` can also be met with fewer updates and some presence. In `OneShot` they are written by
  a live host at any moment and skipped by the pull. In `Presence` reads are fair and streams unbounded: what it says of
  agreement and of keepalives supposes that document sync does not block the connection, which `Converges` of `LiveSync` does not promise.
* The clocks of the processes are assumed to agree to within a tick; entries of one process are never
  in the future of another. A refresh is never a whole tick overdue: a background tab
  whose timers the browser throttles below the timeout is not modelled.
* A broadcast channel's receiver that lags loses the oldest items; that is tokio's documented behaviour, as
  last-writer-wins and expiry are Loro's.
* The text of the trust file is its rows in order; TOML's syntax is external.

## 8. Not modelled, and the plan

Not modelled, and why:

* comments: a thread is a map in the document, merged by Loro, and an anchor a Loro
  cursor; what could go wrong is in the external library. (Of the code itself:
  `eg comment list <path>` with a path that does not resolve lists all comments.)
* the browser's callbacks into its page and its editor bindings: they report what the document and
  presence already show;
* the command line: argument parsing and dispatch; `eg keys`: single reads and writes of key
  files; ignore rules: globs of an external library; the search for `.eg` upwards.

Left for later, in order of importance:

1. finer steps where they matter: directories in `Materialize`; in `DocFs` the gap between
   resolution and effect (`unlink` walks twice, `mount.rs:905`; `remove_file` resolves and then deletes,
   `tree.rs:117`); in `Mount` a buffer committed in the middle of a multi-byte character, of which
   only whole writes that are not UTF-8 are modelled;
2. `Presence` with clocks that disagree.
