------------------------------ MODULE LiveSync ------------------------------
(***************************************************************************)
(* The live sync of one repository: `eg serve` (the host) and the peers     *)
(* that join or mount it (the spokes), each with its own replica of the     *)
(* Loro document, and the held-open sessions between them.                  *)
(*                                                                          *)
(* A document version is the set of operations it contains: a Loro version  *)
(* vector stands for such a set, "updates since v" for the difference.      *)
(* deps[o] is what the author held when it made o, so an import is an       *)
(* orphan when something it depends on is neither held nor in the batch.    *)
(*                                                                          *)
(* A link is one connection, used once; its two ends are the two            *)
(* `drive_live` tasks, each with its own LiveSync (the variable acked) and  *)
(* its own subscription to its process's "changed" broadcast (nudged).  A   *)
(* stream takes Window frames that nobody has read: a task that writes one  *)
(* more waits in write_frame, and reads and hears nothing meanwhile.        *)
(***************************************************************************)
EXTENDS Naturals, Sequences, FiniteSets

CONSTANTS
  Host, Spokes,   \* the serving process, and those that dial it
  Keepers,        \* the processes that store the document: not a browser tab
  Links, PeerOf,  \* connections, and the spoke that dials each
  Ops, Author,    \* document operations, and the peer that makes each
  InitTrust,      \* the trust file at start: perms granted to each spoke
  Window,         \* frames a stream takes before its writer must wait
  MaxTrustEdits, MaxDrops, MaxCrashes   \* bounds on the environment

Peers == {Host} \cup Spokes
Perms == {"pull", "push"}
Ends  == Links \X {"spoke", "host"}

ASSUME HostAssumption == Host \notin Spokes
ASSUME KeepersAssumption == Keepers \subseteq Peers
ASSUME LinksAssumption == PeerOf \in [Links -> Spokes]
ASSUME AuthorAssumption == Author \in [Ops -> Peers]
ASSUME TrustAssumption == InitTrust \in [Spokes -> SUBSET Perms]
ASSUME WindowAssumption == Window \in Nat \ {0}
ASSUME BoundsAssumption ==
  MaxTrustEdits \in Nat /\ MaxDrops \in Nat /\ MaxCrashes \in Nat

VARIABLES
  doc,      \* doc[p]: the operations in p's document
  saved,    \* saved[p]: the operations in p's stored snapshot
  unsaved,  \* the peers whose persist task has a nudge waiting
  unstored, \* the peers whose last attempt to store failed (history)
  made,     \* every operation ever committed (history)
  deps,     \* deps[o]: the author's document when it made o (history)
  trust,    \* trust[s]: the host's trust file
  granted,  \* granted[l]: the perms the gate gave the session on l
  status,   \* status[e]: where the task at end e stands
  acked,    \* acked[e]: LiveSync.acked at end e
  chan,     \* chan[e]: frames on their way to end e, in order
  nudged,   \* the ends with a "changed" broadcast to receive
  refused,  \* the spokes whose process was refused and gave up
  edits, drops, crashes   \* how much of the bounds is used

docVars == <<doc, saved, unsaved, unstored, made, deps>>
bounds  == <<edits, drops, crashes>>
vars == <<doc, saved, unsaved, unstored, made, deps, trust, granted, status, acked,
          chan, nudged, refused, edits, drops, crashes>>

\* A Have carries a version, an Updates the operations themselves; a refusal
\* is the reserved frame the gate answers with.
Msg == [type : {"Have", "Updates", "Refused"}, ops : SUBSET Ops]
Have(v)    == [type |-> "Have", ops |-> v]
Updates(U) == [type |-> "Updates", ops |-> U]
M_UnknownTag == [type |-> "Bye", ops |-> {}]
Refused    == [type |-> "Refused", ops |-> {}]

Status == {"idle", "waiting", "greeting", "opening", "up", "down"}

SpokeEnd(l) == <<l, "spoke">>
HostEnd(l)  == <<l, "host">>
Far(e) == <<e[1], IF e[2] = "host" THEN "spoke" ELSE "host">>
At(e)  == IF e[2] = "host" THEN Host ELSE PeerOf[e[1]]

-----------------------------------------------------------------------------
\* What the owner of end e grants the peer across it: a dialer grants
\* everything, the host what the gate decided when it accepted.
M_GrantsIgnored(e) == Perms
Grants(e) == IF e[2] = "host" THEN granted[e[1]] ELSE Perms

\* The channels once end e has written frame m; the frame is lost if the
\* other end is gone.
M_SentUnordered(ch, e, m) ==
  IF status[Far(e)] = "down" THEN ch ELSE [ch EXCEPT ![Far(e)] = <<m>> \o @]
Sent(ch, e, m) ==
  IF status[Far(e)] = "down" THEN ch ELSE [ch EXCEPT ![Far(e)] = Append(@, m)]

\* Is e still in write_frame?  What it writes is the last frame of the channel.
Writing(e) == Len(chan[Far(e)]) > Window

\* The frames of a channel that were written whole.
Whole(q) == IF Len(q) > Window THEN SubSeq(q, 1, Window) ELSE q

\* drive_live subscribes before anything else.
M_SubscribedOnceCaughtUp(e) ==
  status[e] = "up" /\ \A k \in DOMAIN chan[e] : chan[e][k].type # "Have"
Subscribed(e) == status[e] \in {"opening", "up"}

\* The sessions of peer p.
Sessions(p) == {e \in Ends : At(e) = p /\ Subscribed(e)}

\* LiveSync::pending, measured against mark: is anything due to the peer?
Due(e, mark) == "pull" \in Grants(e) /\ doc[At(e)] # mark

\* The part of U that can be applied on top of document d.
Applicable(d, U) == {u \in U : deps[u] \subseteq d \cup U}

\* "changed.send(())" in p's process: the sessions and the persist task hear it.
M_NudgeSessionsOnly(p) ==
  /\ nudged' = nudged \cup Sessions(p)
  /\ unsaved' = unsaved
Nudge(p) ==
  /\ nudged' = nudged \cup Sessions(p)
  /\ unsaved' = unsaved \cup (Keepers \cap {p})

-----------------------------------------------------------------------------
Init ==
  /\ doc = [p \in Peers |-> {}]
  /\ saved = [p \in Peers |-> {}]
  /\ unsaved = {} /\ unstored = {}
  /\ made = {}
  /\ deps = [o \in Ops |-> {}]
  /\ trust = InitTrust
  /\ granted = [l \in Links |-> {}]
  /\ status = [e \in Ends |-> "idle"]
  /\ acked = [e \in Ends |-> {}]
  /\ chan = [e \in Ends |-> <<>>]
  /\ nudged = {}
  /\ refused = {}
  /\ edits = 0 /\ drops = 0 /\ crashes = 0

\* A local edit: the watcher's ingest, a mount's write-back, a browser edit.
Commit(p, o) ==
  /\ o \notin made /\ Author[o] = p /\ p \notin refused
  /\ made' = made \cup {o}
  /\ deps' = [deps EXCEPT ![o] = doc[p]]
  /\ doc' = [doc EXCEPT ![p] = @ \cup {o}]
  /\ Nudge(p)
  /\ UNCHANGED <<saved, unstored, trust, granted, status, acked, chan, refused, bounds>>

\* The persist task: drain the queued nudges, store one snapshot.  A failure is
\* only reported, and leaves the one stored before.
Stores(p) ==
  \/ saved' = [saved EXCEPT ![p] = doc[p]] /\ unstored' = unstored \ {p}
  \/ saved' = saved /\ unstored' = unstored \cup {p}
Persist(p) ==
  /\ p \in unsaved
  /\ unsaved' = unsaved \ {p}
  /\ Stores(p)
  /\ UNCHANGED <<doc, made, deps, trust, granted, status, acked, chan,
                 nudged, refused, bounds>>

-----------------------------------------------------------------------------
\* A spoke dials and opens its session.  It holds one session at a time.
Dial(l) ==
  LET s == PeerOf[l] IN
  /\ status[SpokeEnd(l)] = "idle" /\ s \notin refused
  /\ \A k \in Links : PeerOf[k] = s => ~Subscribed(SpokeEnd(k))
  /\ status' = [status EXCEPT ![SpokeEnd(l)] = "opening", ![HostEnd(l)] = "waiting"]
  /\ UNCHANGED <<docVars, trust, granted, acked, chan, nudged, refused, bounds>>

\* A session that has subscribed sends its version, then enters its loop.
Announce(e) ==
  /\ status[e] = "opening"
  /\ status' = [status EXCEPT ![e] = "up"]
  /\ chan' = Sent(chan, e, Have(doc[At(e)]))
  /\ UNCHANGED <<docVars, trust, granted, acked, nudged, refused, bounds>>

\* The accept loop handles one connection at a time.
LoopFree == \A l \in Links : status[HostEnd(l)] # "greeting"

\* The gate's verdict on a new connection, from the trust file as it is now.
Authorize(l) ==
  /\ status[HostEnd(l)] = "waiting" /\ LoopFree
  /\ trust[PeerOf[l]] # {}
  /\ granted' = [granted EXCEPT ![l] = trust[PeerOf[l]]]
  /\ status' = [status EXCEPT ![HostEnd(l)] = "greeting"]
  /\ UNCHANGED <<docVars, trust, acked, chan, nudged, refused, bounds>>

\* A refusal waits, up to REFUSE_TIMEOUT, for the stream the dialer opens.
Refuse(l) ==
  /\ status[HostEnd(l)] = "waiting" /\ LoopFree
  /\ trust[PeerOf[l]] = {}
  /\ status' = [status EXCEPT ![HostEnd(l)] = "down"]
  /\ \/ chan[HostEnd(l)] = <<>> /\ chan' = chan
     \/ /\ chan[HostEnd(l)] # <<>>
        /\ chan' = [Sent(chan, HostEnd(l), Refused) EXCEPT ![HostEnd(l)] = <<>>]
  /\ UNCHANGED <<docVars, trust, granted, acked, nudged, refused, bounds>>

\* accept_bi resolves once the dialer's first frame is there; the session
\* task starts as the spoke's does.
Accept(l) ==
  /\ status[HostEnd(l)] = "greeting" /\ chan[HostEnd(l)] # <<>>
  /\ status' = [status EXCEPT ![HostEnd(l)] = "opening"]
  /\ UNCHANGED <<docVars, trust, granted, acked, chan, nudged, refused, bounds>>

\* Ends in D stop: they read nothing more, and what they wrote whole stays
\* readable.
Stopped(D) ==
  /\ status' = [e \in Ends |-> IF e \in D THEN "down" ELSE status[e]]
  /\ chan' = [e \in Ends |-> IF e \in D THEN <<>>
                             ELSE IF Far(e) \in D THEN Whole(chan[e]) ELSE chan[e]]
  /\ nudged' = nudged \ D

-----------------------------------------------------------------------------
\* A session that is not writing reads a frame of type t.
Reading(e, t) ==
  status[e] = "up" /\ ~Writing(e) /\ chan[e] # <<>> /\ Head(chan[e]).type = t

\* In a mount a file-system thread may commit o after the session of e measured
\* the version and before it exports the updates.
RacingCommit(e, o) ==
  LET p == At(e) IN
  /\ p # Host /\ p \notin refused
  /\ o \notin made /\ Author[o] = p
  /\ made' = made \cup {o}
  /\ deps' = [deps EXCEPT ![o] = doc[p]]
  /\ doc' = [doc EXCEPT ![p] = @ \cup {o}]
  /\ Nudge(p)
  /\ UNCHANGED <<saved, unstored, trust, granted, status, refused, bounds>>

M_ExportThenMeasure(e, o) == [mark |-> doc[At(e)] \cup {o}, upTo |-> doc[At(e)]]
MeasureThenExport(e, o) == [mark |-> doc[At(e)], upTo |-> doc[At(e)] \cup {o}]

\* LiveSync::pending past mark, with such a commit in between.
PendingRacing(e, mark, ch, o) ==
  /\ Due(e, mark)
  /\ acked' = [acked EXCEPT ![e] = MeasureThenExport(e, o).mark]
  /\ chan' = Sent(ch, e, Updates(MeasureThenExport(e, o).upTo \ mark))
  /\ RacingCommit(e, o)

\* A session receives the peer's version: note it, send what the peer lacks.
RecvHave(e) ==
  /\ Reading(e, "Have")
  /\ LET v    == Head(chan[e]).ops
         rest == [chan EXCEPT ![e] = Tail(@)]
     IN IF Due(e, v)
          THEN /\ acked' = [acked EXCEPT ![e] = doc[At(e)]]
               /\ chan' = Sent(rest, e, Updates(doc[At(e)] \ v))
          ELSE /\ acked' = [acked EXCEPT ![e] = v]
               /\ chan' = rest
  /\ UNCHANGED <<docVars, trust, granted, status, nudged, refused, bounds>>

RecvHaveRacing(e, o) ==
  /\ Reading(e, "Have")
  /\ PendingRacing(e, Head(chan[e]).ops, [chan EXCEPT ![e] = Tail(@)], o)

\* A session receives operations: import what may be pushed, tell everyone
\* in the process if the document moved.  An orphan ends the session.
RecvUpdates(e) ==
  /\ Reading(e, "Updates")
  /\ LET p   == At(e)
         U   == Head(chan[e]).ops
         new == IF "push" \in Grants(e) THEN Applicable(doc[p], U) ELSE {}
         orphaned == "push" \in Grants(e) /\ new # U
     IN /\ doc' = [doc EXCEPT ![p] = @ \cup new]
        /\ IF orphaned
             THEN /\ status' = [status EXCEPT ![e] = "down"]
                  /\ chan' = [chan EXCEPT ![e] = <<>>]
             ELSE /\ status' = status
                  /\ chan' = [chan EXCEPT ![e] = Tail(@)]
        /\ IF ~orphaned /\ ~(new \subseteq doc[p])
             THEN Nudge(p)
             ELSE UNCHANGED <<nudged, unsaved>>
  /\ UNCHANGED <<saved, unstored, made, deps, trust, granted, acked, refused, bounds>>

\* A spoke reads the refusal and gives up: a mount turns read-only, a join exits.
RecvRefused(e) ==
  /\ Reading(e, "Refused")
  /\ Stopped({e})
  /\ refused' = refused \cup {At(e)}
  /\ UNCHANGED <<docVars, trust, granted, acked, bounds>>

\* A session hears "changed": re-measure and push the gap.
RecvNudge(e) ==
  /\ status[e] = "up" /\ ~Writing(e) /\ e \in nudged
  /\ nudged' = nudged \ {e}
  /\ IF Due(e, acked[e])
       THEN /\ acked' = [acked EXCEPT ![e] = doc[At(e)]]
            /\ chan' = Sent(chan, e, Updates(doc[At(e)] \ acked[e]))
       ELSE UNCHANGED <<acked, chan>>
  /\ UNCHANGED <<docVars, trust, granted, status, refused, bounds>>

RecvNudgeRacing(e, o) ==
  /\ status[e] = "up" /\ ~Writing(e) /\ e \in nudged
  /\ PendingRacing(e, acked[e], chan, o)

-----------------------------------------------------------------------------
\* The process of p ends and starts again from its stored snapshot.
Restarts(p) ==
  /\ doc' = [doc EXCEPT ![p] = saved[p]]
  /\ unsaved' = unsaved \ {p} /\ unstored' = unstored \ {p}
  /\ refused' = refused \ {p}
  /\ Stopped({e \in Ends : At(e) = p /\ status[e] # "idle"})
  /\ UNCHANGED <<saved, made, deps, trust, granted, acked>>

Crash(p) ==
  /\ crashes < MaxCrashes
  /\ crashes' = crashes + 1
  /\ Restarts(p)
  /\ UNCHANGED <<edits, drops>>

\* A connection that fails before its session starts makes accept return an
\* error, which ends serve.
AcceptFails(l) ==
  /\ status[HostEnd(l)] \in {"waiting", "greeting"}
  /\ status[HostEnd(l)] = "waiting" => LoopFree
  /\ status[SpokeEnd(l)] = "down"
  /\ Restarts(Host)
  /\ UNCHANGED bounds

\* The connection breaks, as seen at end e; the other end finds out later.
Drop(e) ==
  /\ drops < MaxDrops /\ status[e] = "up"
  /\ drops' = drops + 1
  /\ Stopped({e})
  /\ UNCHANGED <<docVars, trust, granted, acked, refused, edits, crashes>>

\* The other end is gone: the read fails, read frames or not.
M_HangupDialerOnly(e) ==
  /\ e[2] = "spoke" /\ status[e] = "up" /\ status[Far(e)] = "down"
  /\ Stopped({e})
  /\ UNCHANGED <<docVars, trust, granted, acked, refused, bounds>>
Hangup(e) ==
  /\ status[e] = "up" /\ status[Far(e)] = "down"
  /\ Stopped({e})
  /\ UNCHANGED <<docVars, trust, granted, acked, refused, bounds>>

\* The owner edits the trust file; it is read again at the next connection.
SetTrust(s, g) ==
  /\ edits < MaxTrustEdits /\ g # trust[s]
  /\ edits' = edits + 1
  /\ trust' = [trust EXCEPT ![s] = g]
  /\ UNCHANGED <<docVars, granted, status, acked, chan, nudged, refused,
                 drops, crashes>>

\* The repl's revoke aborts the registered sessions of s.
Revoke(s) ==
  LET D == {e \in Ends : e[2] = "host" /\ PeerOf[e[1]] = s /\ Subscribed(e)} IN
  /\ edits < MaxTrustEdits /\ D # {}
  /\ edits' = edits + 1
  /\ Stopped(D)
  /\ UNCHANGED <<docVars, trust, granted, acked, refused, drops, crashes>>

-----------------------------------------------------------------------------
Next ==
  \/ \E p \in Peers, o \in Ops : Commit(p, o)
  \/ \E p \in Peers : Persist(p)
  \/ \E p \in Peers : Crash(p)
  \/ \E l \in Links : Dial(l)
  \/ \E e \in Ends : Announce(e)
  \/ \E l \in Links : Authorize(l)
  \/ \E l \in Links : Refuse(l)
  \/ \E l \in Links : Accept(l)
  \/ \E l \in Links : AcceptFails(l)
  \/ \E e \in Ends : RecvHave(e)
  \/ \E e \in Ends, o \in Ops : RecvHaveRacing(e, o)
  \/ \E e \in Ends : RecvUpdates(e)
  \/ \E e \in Ends : RecvRefused(e)
  \/ \E e \in Ends : RecvNudge(e)
  \/ \E e \in Ends, o \in Ops : RecvNudgeRacing(e, o)
  \/ \E e \in Ends : Drop(e)
  \/ \E e \in Ends : Hangup(e)
  \/ \E s \in Spokes, g \in SUBSET Perms : SetTrust(s, g)
  \/ \E s \in Spokes : Revoke(s)

Spec == Init /\ [][Next]_vars

\* The arms of a session's select loop (the read, the nudge) run when no frame is
\* being written and they have something to do; so does the accept loop.  Nothing
\* below rests on when a document is stored.
Reads(e) == RecvHave(e) \/ RecvUpdates(e) \/ RecvRefused(e)
                \/ \E o \in Ops : RecvHaveRacing(e, o)
Hears(e) == RecvNudge(e) \/ \E o \in Ops : RecvNudgeRacing(e, o)

Fairness ==
  /\ \A e \in Ends : WF_vars(Reads(e)) /\ WF_vars(Hears(e)) /\ WF_vars(Hangup(e))
  /\ \A e \in Ends : WF_vars(Announce(e))
  /\ \A l \in Links : WF_vars(Accept(l)) /\ WF_vars(AcceptFails(l))
  /\ \A l \in Links : SF_vars(Authorize(l) \/ Refuse(l))

FairSpec == Spec /\ Fairness

-----------------------------------------------------------------------------
\* Documents hold operations, marks and frames what sessions may send; only the
\* frames LiveSync knows are ever in a stream.
TypeOK ==
  /\ doc \in [Peers -> SUBSET Ops] /\ saved \in [Peers -> SUBSET Ops]
  /\ unsaved \subseteq Peers /\ unstored \subseteq Peers /\ made \subseteq Ops
  /\ deps \in [Ops -> SUBSET Ops]
  /\ trust \in [Spokes -> SUBSET Perms] /\ granted \in [Links -> SUBSET Perms]
  /\ status \in [Ends -> Status] /\ acked \in [Ends -> SUBSET Ops]
  /\ chan \in [Ends -> Seq(Msg)]
  /\ nudged \subseteq Ends /\ refused \subseteq Peers
  /\ edits \in Nat /\ drops \in Nat /\ crashes \in Nat

\* The operations in the first n frames of queue q.
Carried(q, n) ==
  {o \in Ops : \E k \in 1..n : q[k].type = "Updates" /\ o \in q[k].ops}

\* The operations in flight to e.
InFlight(e) == Carried(chan[e], Len(chan[e]))

\* What reaches e is, or will be, imported.
Imports(e) ==
  /\ status[e] # "down"
  /\ status[e] = "up" => "push" \in Grants(e)

\* import_no_orphans never fails between peers that run this code: whatever
\* crashes, redials and grant changes came before, the frame a session reads
\* next depends only on what its document and that frame hold.
NoOrphans ==
  \A e \in Ends :
    (status[e] = "up" /\ "push" \in Grants(e)
       /\ chan[e] # <<>> /\ Head(chan[e]).type = "Updates")
    => \A u \in Head(chan[e]).ops : deps[u] \subseteq doc[At(e)] \cup Head(chan[e]).ops

\* LiveSync.acked never runs ahead of the peer: what a session believes the
\* peer holds, it holds or will import from frames already sent.
AckedSound ==
  \A e \in Ends :
    status[e] = "up" /\ Imports(Far(e))
    => acked[e] \subseteq doc[At(Far(e))] \cup InFlight(Far(e))

Pushers == {PeerOf[l] : l \in {k \in Links : "push" \in granted[k]}}
Pullers == {PeerOf[l] : l \in {k \in Links : "pull" \in granted[k]}}

\* What a spoke makes is found elsewhere only if some session of that spoke
\* was granted push, however the operation travelled and whoever restarted.
PushGated ==
  \A p \in Peers : \A o \in doc[p] \cup saved[p] : Author[o] \in {p, Host} \cup Pushers

\* A spoke holds what others made only if some session of it was granted pull.
PullGated ==
  \A s \in Spokes : (\E o \in doc[s] \cup saved[s] : Author[o] # s) => s \in Pullers

\* The grants of the host bound, both ways, what any document or snapshot in
\* the star comes to hold, through relays, restarts, trust edits and revokes.
Gated == PushGated /\ PullGated

\* No wakeup is lost: a session whose document has moved past what it sent
\* either has a nudge waiting or has yet to hear the peer's version.
NoLostNudge ==
  \A e \in Ends :
    (status[e] = "up" /\ status[Far(e)] = "up" /\ "pull" \in Grants(e))
    => \/ acked[e] = doc[At(e)]
       \/ e \in nudged
       \/ \E k \in DOMAIN chan[e] : chan[e][k].type = "Have"

\* No change is left unsaved with the persist task asleep, unless its last
\* attempt failed: then the change waits for the next one.
NoLostSave == \A p \in Keepers : doc[p] = saved[p] \/ p \in unsaved \cup unstored

-----------------------------------------------------------------------------
(* The inductive invariant behind NoOrphans, AckedSound and the gates. *)

\* A link's life at its two ends: untouched until dialed, no grant before the
\* verdict, no mark before the session starts.
LinkLife ==
  \A l \in Links :
    /\ status[SpokeEnd(l)] = "idle" <=> status[HostEnd(l)] = "idle"
    /\ status[SpokeEnd(l)] = "idle" => chan[SpokeEnd(l)] = <<>> /\ chan[HostEnd(l)] = <<>>
    /\ status[SpokeEnd(l)] \notin {"waiting", "greeting"}
    /\ status[SpokeEnd(l)] \in {"idle", "opening"} =>
         acked[SpokeEnd(l)] = {} /\ chan[HostEnd(l)] = <<>>
    /\ status[HostEnd(l)] \in {"idle", "waiting"} => granted[l] = {}
    /\ status[HostEnd(l)] \in {"idle", "waiting", "greeting", "opening"} =>
         acked[HostEnd(l)] = {} /\ chan[SpokeEnd(l)] = <<>>

\* Only operations somebody committed are held or in flight.
OnlyMade ==
  /\ \A p \in Peers : doc[p] \subseteq made /\ saved[p] \subseteq made
  /\ \A e \in Ends : InFlight(e) \subseteq made

\* Every document, in memory or stored, is causally closed.
Causal ==
  \A p \in Peers :
    /\ \A o \in doc[p] : deps[o] \subseteq doc[p]
    /\ \A o \in saved[p] : deps[o] \subseteq saved[p]

\* Frames arrive in causal order: at an end that imports, each frame depends
\* only on the document, itself and the frames before it.
Ordered(q, d, D) ==
  \A k \in 1..Len(q) : q[k].type = "Updates" =>
    \A u \in q[k].ops : D[u] \subseteq d \cup Carried(q, k)
InOrder == \A e \in Ends : Imports(e) => Ordered(chan[e], doc[At(e)], deps)

\* A version in flight is still held by the session that announced it.
Announced(q, d) ==
  \A k \in 1..Len(q) : q[k].type = "Have" => q[k].ops \subseteq d
HaveSound ==
  \A e \in Ends : status[Far(e)] = "up" => Announced(chan[e], doc[At(Far(e))])

\* What is in flight may be: a spoke sends its own operations or what the
\* host sent it, and the host sends only to a spoke it lets pull.
FlightGated ==
  \A e \in Ends : \A o \in InFlight(e) :
    /\ Author[o] \in {At(Far(e)), Host} \cup Pushers
    /\ e[2] = "spoke" => "pull" \in granted[e[1]]

IndInv ==
  /\ TypeOK /\ LinkLife /\ OnlyMade /\ Causal
  /\ InOrder /\ HaveSound /\ AckedSound
  /\ PushGated /\ PullGated /\ FlightGated

-----------------------------------------------------------------------------
\* Both ends are in write_frame, each waiting for the other to read.
Stuck(l) == Writing(SpokeEnd(l)) /\ Writing(HostEnd(l))

\* Live sync converges: over a link that stays up, each granted direction
\* ends with the receiver holding all the sender holds, for good, unless the
\* two ends have more to say at once than the streams take and wait for each
\* other forever.
Converges ==
  \A l \in Links :
    <>[](status[SpokeEnd(l)] = "up" /\ status[HostEnd(l)] = "up") =>
    \/ <>[]Stuck(l)
    \/ <>[](/\ "pull" \in granted[l] => doc[Host] \subseteq doc[PeerOf[l]]
            /\ "push" \in granted[l] => doc[PeerOf[l]] \subseteq doc[Host])

\* No connection is left hanging: every link ends up idle, in session at both
\* ends, or closed at both ends.
LinksSettle ==
  \A l \in Links :
    <>[](<<status[SpokeEnd(l)], status[HostEnd(l)]>>
           \in {<<"idle", "idle">>, <<"up", "up">>, <<"down", "down">>})

\* Live sync keeps the promise of CausalReplicas.
Promise == INSTANCE CausalReplicas WITH pushers <- Pushers, pullers <- Pullers
KeepsPromise == Promise!Spec
=============================================================================
