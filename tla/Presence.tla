------------------------------ MODULE Presence ------------------------------
(***************************************************************************)
(* Presence: who is here, and where their cursors are.  Every process keeps *)
(* a last-writer-wins store of entries that expire; a change is sent to the *)
(* host, which keeps what the sender owns and relays it to the others       *)
(* through a broadcast channel of limited capacity.                         *)
(*                                                                          *)
(* Time is kept as ages: a tick makes every entry, in a store or on its way, *)
(* a tick older, and the younger of two entries is the newer one.  Ages     *)
(* stop at MaxAge, past which an entry has expired everywhere.              *)
(***************************************************************************)
EXTENDS Naturals, FiniteSets, SequencesExt

CONSTANTS
  Host, Spokes,  \* the processes of a live project
  Keys, OwnerOf, \* the entries there may be, and the process each belongs to
  Values,        \* what an owner may say in an entry of its own
  Alien,         \* what a client says in an entry that is not its own
  Container,     \* a value of a kind that presence does not allow
  None,          \* no value: a deleted entry
  Capacity,      \* of a relay channel
  Period,        \* ticks between two refreshes
  Timeout,       \* the age past which an entry has expired
  Regimes,       \* the circumstances to consider, of which each behaviour has one
  MaxFaults      \* the most faults any of them allows

\* keys are in use, the clients in on are linked at the start, and there may be
\* so many changes to entries, and so many links broken, clients closed, stray
\* frames and delays.
Regime == [keys : SUBSET Keys, on : SUBSET Spokes, sets : Nat, faults : 0 .. MaxFaults]

Procs == {Host} \cup Spokes
MaxAge == Timeout + Period + MaxFaults + 2

ASSUME KeysAssumption == Host \notin Spokes /\ IsFiniteSet(Keys) /\ OwnerOf \in [Keys -> Procs]
ASSUME ValuesAssumption ==
  Alien # Container /\ None \notin {Alien, Container} /\ {Alien, Container, None} \cap Values = {}
ASSUME PeriodAssumption == Period \in Nat \ {0} /\ Timeout \in Nat /\ 3 * Period <= Timeout
ASSUME BoundsAssumption == {Capacity, MaxFaults} \subseteq Nat
ASSUME RegimesAssumption == Regimes \subseteq Regime

\* The two ends of the session between a spoke and the host.
Ends == {"host", "spoke"} \X Spokes
At(e) == IF e[1] = "host" THEN Host ELSE e[2]
Far(e) == <<IF e[1] = "host" THEN "spoke" ELSE "host", e[2]>>
Both(s) == {<<"host", s>>, <<"spoke", s>>}

VARIABLES
  store,   \* store[p][k]: the value of entry k at process p, its age, and its
           \* place among the changes made in the same tick
  own,     \* own[k]: what k's owner last set it to, for the refresh
  timer,   \* timer[p]: ticks since p's last refresh
  alive,   \* the processes that run
  phase,   \* phase[e]: a session end is down, subscribed to the relay, or up
  chan,    \* chan[e]: frames on their way to end e
  queue,   \* queue[e]: what the relay holds for the session at e
  lagged,  \* the ends whose relay has dropped something
  tied,    \* entries last changed twice in one instant (history)
  regime, sets, faults

bounds == <<regime, sets, faults>>
wires == <<phase, chan, queue, lagged>>
vars == <<store, own, timer, alive, wires, tied, bounds>>

-----------------------------------------------------------------------------
(* The store (external: Loro's EphemeralStore). *)

Absent == [val |-> None, age |-> MaxAge, sub |-> 0]

\* set and delete: stamped with the clock's instant, which may be (tie) the
\* one of the change before.
Fresh(old, v, tie) ==
  [val |-> v, age |-> 0, sub |-> IF old.age > 0 THEN 0 ELSE IF tie THEN old.sub ELSE old.sub + 1]

\* apply: an entry that is strictly newer than the one there is.
M_LastOneWins(x, y) == TRUE
Newer(x, y) == x.age < y.age \/ (x.age = y.age /\ x.sub > y.sub)
Applied(st, frame) ==
  [k \in Keys |-> IF k \in DOMAIN frame /\ Newer(frame[k], st[k]) THEN frame[k] ELSE st[k]]

\* encode_all: deletions too, expired entries not.
EncodeAll(st) == [k \in {x \in Keys : st[x].age <= Timeout} |-> st[k]]

\* remove_outdated.
M_SweepNothing(st) == st
Swept(st) == [k \in Keys |-> IF st[k].age > Timeout THEN Absent ELSE st[k]]

Older(x) == IF x.age + 1 >= MaxAge THEN [x EXCEPT !.age = MaxAge, !.sub = 0]
            ELSE [x EXCEPT !.age = @ + 1]
AllOlder(f) == [k \in DOMAIN f |-> Older(f[k])]

-----------------------------------------------------------------------------
(* The relay (tokio's broadcast channel is external). *)

SessionsAt(p) == {e \in Ends : At(e) = p /\ phase[e] # "down"}

\* relay.send of items, in order, at process p.
M_Everything(seq) == seq
LastOnes(seq) == SubSeq(seq, IF Len(seq) > Capacity THEN Len(seq) - Capacity + 1 ELSE 1, Len(seq))
Overrun(p, items) == {e \in SessionsAt(p) : Len(queue[e]) + Len(items) > Capacity}
Publish(p, items) ==
  /\ queue' = [e \in Ends |-> IF e \in SessionsAt(p) THEN LastOnes(queue[e] \o items) ELSE queue[e]]
  /\ lagged' = lagged \cup Overrun(p, items)

\* owns_key, for the peer of end e; a dialer takes what the host carries.
M_AnyKey(e, k) == TRUE
Owns(e, k) == e[1] = "spoke" \/ OwnerOf[k] = e[2]

\* apply_from: a frame with a value that does not decode is dropped whole, the
\* entries that the sender does not own are dropped from any other.
Decodes(frame) == \A k \in DOMAIN frame : frame[k].val # Container
Kept(e, frame) ==
  [k \in {x \in DOMAIN frame : Decodes(frame) /\ Owns(e, x)} |-> frame[k]]

-----------------------------------------------------------------------------
\* Every entry as its owner set it when it started (eg does, a page may), the
\* word about among the clients that are linked.
Init ==
  /\ regime \in Regimes
  /\ own \in {f \in [Keys -> Values \cup {None}] : \A k \in Keys \ regime.keys : f[k] = None}
  /\ store = [p \in Procs |-> [k \in Keys |->
       IF own[k] # None /\ (OwnerOf[k] = p \/ {OwnerOf[k], p} \subseteq {Host} \cup regime.on)
         THEN Fresh(Absent, own[k], FALSE) ELSE Absent]]
  /\ phase = [e \in Ends |-> IF e[2] \in regime.on THEN "up" ELSE "down"]
  /\ timer = [p \in Procs |-> 0] /\ alive = Procs
  /\ chan = [e \in Ends |-> <<>>] /\ queue = [e \in Ends |-> <<>>] /\ lagged = {}
  /\ tied = {}
  /\ sets = 0 /\ faults = 0

Item(p, k, x) == [origin |-> p, frame |-> [y \in {k} |-> x]]

\* The owner sets an entry or its cursor, or clears it (v = None).
Set(k, v, tie) ==
  LET p == OwnerOf[k]
      new == Fresh(store[p][k], v, tie)
  IN
  /\ k \in regime.keys /\ p \in alive /\ v # own[k] /\ (tie => store[p][k].age = 0)
  /\ sets < regime.sets /\ sets' = sets + 1
  /\ own' = [own EXCEPT ![k] = v]
  /\ store' = [store EXCEPT ![p][k] = new]
  /\ tied' = IF tie THEN tied \cup {k} ELSE tied \ {k}
  /\ Publish(p, <<Item(p, k, new)>>)
  /\ UNCHANGED <<timer, alive, phase, chan, regime, faults>>

\* refresh_presence, and the keepalive of wire_presence: re-set what is set,
\* then drop what has expired.
M_SweepOnly(p) == {}
Renewed(p) == {k \in Keys : OwnerOf[k] = p /\ own[k] # None}
Refresh(p) ==
  LET new == [k \in Renewed(p) |-> Fresh(store[p][k], own[k], FALSE)]
  IN
  /\ p \in alive /\ timer[p] >= Period
  /\ timer' = [timer EXCEPT ![p] = 0]
  /\ store' = [store EXCEPT ![p] = Swept([k \in Keys |-> IF k \in Renewed(p) THEN new[k] ELSE @[k]])]
  /\ \E order \in SetToSeqs(Renewed(p)) :
       Publish(p, [i \in DOMAIN order |-> Item(p, order[i], new[order[i]])])
  /\ tied' = tied \ Renewed(p)
  /\ UNCHANGED <<own, alive, phase, chan, bounds>>

-----------------------------------------------------------------------------
(* A session: drive_live at each end, as far as presence goes. *)

\* A spoke dials the host, and a driver starts at both ends: it subscribes to
\* the relay, then writes the sync's opening frame.
Connect(s) ==
  /\ s \in alive /\ \A e \in Both(s) : phase[e] = "down"
  /\ phase' = [e \in Ends |-> IF e \in Both(s) THEN "subscribed" ELSE phase[e]]
  /\ UNCHANGED <<store, own, timer, alive, chan, queue, lagged, tied, bounds>>

\* The opening snapshot.
Opening(e) == EncodeAll(store[At(e)])
Open(e) ==
  /\ phase[e] = "subscribed"
  /\ phase' = [phase EXCEPT ![e] = "up"]
  /\ chan' = [chan EXCEPT ![Far(e)] = Append(@, Opening(e))]
  /\ UNCHANGED <<store, own, timer, alive, queue, lagged, tied, bounds>>

\* A frame arrives: what the sender owns is applied, and at the host relayed.
Recv(e) ==
  LET kept == Kept(e, Head(chan[e]))
      p == At(e)
  IN
  /\ phase[e] = "up" /\ chan[e] # <<>>
  /\ chan' = [chan EXCEPT ![e] = Tail(@)]
  /\ store' = [store EXCEPT ![p] = Applied(@, kept)]
  /\ IF e[1] = "host" /\ DOMAIN kept # {}
       THEN Publish(p, <<[origin |-> e[2], frame |-> kept]>>)
       ELSE UNCHANGED <<queue, lagged>>
  /\ UNCHANGED <<own, timer, alive, phase, tied, bounds>>

\* The session takes from the relay: after a lag a snapshot, else the next
\* item, which is not sent back to the peer it came from.
Echoes(e, item) == e[1] = "host" /\ item.origin = e[2]
M_LagSkipped(e) == chan[Far(e)]
CaughtUp(e) == Append(chan[Far(e)], EncodeAll(store[At(e)]))
Relay(e) ==
  /\ phase[e] = "up"
  /\ \/ /\ e \in lagged
        /\ lagged' = lagged \ {e}
        /\ chan' = [chan EXCEPT ![Far(e)] = CaughtUp(e)]
        /\ UNCHANGED queue
     \/ /\ e \notin lagged /\ queue[e] # <<>>
        /\ queue' = [queue EXCEPT ![e] = Tail(@)]
        /\ chan' = IF Echoes(e, Head(queue[e])) THEN chan
                   ELSE [chan EXCEPT ![Far(e)] = Append(@, Head(queue[e]).frame)]
        /\ UNCHANGED lagged
  /\ UNCHANGED <<store, own, timer, alive, phase, tied, bounds>>

\* A link breaks: both drivers return, and what was on its way is lost.
Broken(s) ==
  /\ phase' = [e \in Ends |-> IF e \in Both(s) THEN "down" ELSE phase[e]]
  /\ chan' = [e \in Ends |-> IF e \in Both(s) THEN <<>> ELSE chan[e]]
  /\ queue' = [e \in Ends |-> IF e \in Both(s) THEN <<>> ELSE queue[e]]
  /\ lagged' = lagged \ Both(s)

Drop(s) ==
  /\ \E e \in Both(s) : phase[e] # "down"
  /\ faults < regime.faults /\ faults' = faults + 1
  /\ Broken(s)
  /\ UNCHANGED <<store, own, timer, alive, tied, regime, sets>>

\* A tab or a follower is closed: nobody clears its entries.
Close(s) ==
  /\ s \in alive
  /\ faults < regime.faults /\ faults' = faults + 1
  /\ alive' = alive \ {s}
  /\ Broken(s)
  /\ UNCHANGED <<store, own, timer, tied, regime, sets>>

\* A client (external) sends entries that are not its own, beside its own, or
\* values of a kind that presence does not allow.
Stray(s, v) ==
  LET mine == IF v = Alien THEN {k \in Keys : OwnerOf[k] = s} ELSE {}
      frame == [k \in {x \in Keys : x \in mine => store[s][x].age <= Timeout} |->
                  IF k \in mine THEN store[s][k] ELSE [val |-> v, age |-> 0, sub |-> 2]]
  IN
  /\ s \in alive /\ phase[<<"spoke", s>>] = "up"
  /\ faults < regime.faults /\ faults' = faults + 1
  /\ chan' = [chan EXCEPT ![<<"host", s>>] = Append(@, frame)]
  /\ UNCHANGED <<store, own, timer, alive, phase, queue, lagged, tied, regime, sets>>

-----------------------------------------------------------------------------
(* Time.  A refresh is never a whole tick overdue, and frames arrive within a *)
(* tick; that one does not is a fault.                                       *)

OnItsWay == \E e \in Ends : chan[e] # <<>> \/ queue[e] # <<>> \/ e \in lagged \/ phase[e] = "subscribed"
Tick ==
  /\ \A p \in alive : timer[p] < Period
  /\ \/ ~ OnItsWay /\ UNCHANGED faults
     \/ OnItsWay /\ faults < regime.faults /\ faults' = faults + 1
  /\ timer' = [p \in Procs |-> IF p \in alive THEN timer[p] + 1 ELSE 0]
  /\ store' = [p \in Procs |-> AllOlder(store[p])]
  /\ chan' = [e \in Ends |-> [i \in DOMAIN chan[e] |-> AllOlder(chan[e][i])]]
  /\ queue' = [e \in Ends |-> [i \in DOMAIN queue[e] |->
                 [queue[e][i] EXCEPT !.frame = AllOlder(@)]]]
  /\ UNCHANGED <<own, alive, phase, lagged, tied, regime, sets>>

Next ==
  \/ \E k \in Keys, v \in Values \cup {None}, tie \in BOOLEAN : Set(k, v, tie)
  \/ \E p \in Procs : Refresh(p)
  \/ \E s \in Spokes : Connect(s) \/ Drop(s) \/ Close(s)
  \/ \E s \in Spokes, v \in {Alien, Container} : Stray(s, v)
  \/ \E e \in Ends : Open(e) \/ Recv(e) \/ Relay(e)
  \/ Tick

Spec == Init /\ [][Next]_vars

\* The tasks of a process that runs are scheduled, its timer fires, and the
\* clock goes on.  Nobody has to dial.
FairSpec ==
  /\ Spec
  /\ WF_vars(Tick)
  /\ \A p \in Procs : WF_vars(Refresh(p))
  /\ \A e \in Ends : WF_vars(Open(e)) /\ WF_vars(Recv(e)) /\ WF_vars(Relay(e))

-----------------------------------------------------------------------------
(* Properties. *)

Entries == [val : Values \cup {Alien, Container, None}, age : 0 .. MaxAge, sub : Nat]
IsFrame(f) == DOMAIN f \subseteq Keys /\ f \in [DOMAIN f -> Entries]

\* Types: the stores, what is on its way, and a relay within its capacity.
TypeOK ==
  /\ store \in [Procs -> [Keys -> Entries]]
  /\ own \in [Keys -> Values \cup {None}]
  /\ timer \in [Procs -> 0 .. Period] /\ alive \subseteq Procs /\ regime \in Regime
  /\ phase \in [Ends -> {"down", "subscribed", "up"}]
  /\ \A e \in Ends : \A i \in DOMAIN chan[e] : IsFrame(chan[e][i])
  /\ \A e \in Ends : Len(queue[e]) <= Capacity
  /\ \A e \in Ends : \A i \in DOMAIN queue[e] : queue[e][i].origin \in Procs /\ IsFrame(queue[e][i].frame)
  /\ lagged \subseteq Ends /\ tied \subseteq Keys

\* Nobody ever sees an entry that its owner did not write, whoever relayed it
\* and whatever else was in the frame (apply_owned, at the host only: a dialer
\* trusts what the host carries).
OnlyOwnersWrite ==
  \A p \in Procs, k \in Keys : store[p][k].val \notin {Alien, Container}

\* A process that runs shows no entry older than the timeout, the period of its
\* own sweep and the delays there were: whoever left is gone by then, although a
\* frame on its way, or a snapshot of somebody who has not swept yet, may bring
\* an entry back.
NoGhosts ==
  \A p \in alive, k \in Keys :
    store[p][k].val # None => store[p][k].age <= Timeout + Period + faults

Shown(p, k) == IF store[p][k].age > Timeout THEN None ELSE store[p][k].val
Linked(p) == p = Host \/ \A e \in Both(p) : phase[e] = "up"
Quiet == ~ OnItsWay

\* When nothing is on its way, everybody who is linked shows what the owner
\* last set, deletions included: what was set while the session opened or the
\* relay overran has been caught up.  Two changes in one instant are excepted.
AgreeWhenQuiet ==
  Quiet => \A k \in Keys \ tied, p \in alive :
    OwnerOf[k] \in alive /\ Linked(OwnerOf[k]) /\ Linked(p) => Shown(p, k) = own[k]

\* No frame that comes back, late or in a snapshot, overrides an owner's view
\* of its own entry: what it shows within the timeout is what it last set.
OwnEntryHolds ==
  \A k \in Keys : OwnerOf[k] \in alive => Shown(OwnerOf[k], k) = own[k]

\* As long as an owner and another process stay linked, the other one comes to
\* show what the owner last set and never lets it expire: the keepalive is
\* inside the timeout.  Here two changes in one instant are healed too, by the
\* next refresh or by expiry.
Converges ==
  \A k \in Keys, p \in Procs :
    <>[](/\ {p, OwnerOf[k]} \subseteq alive /\ Linked(p) /\ Linked(OwnerOf[k]))
      => <>[](Shown(p, k) = own[k])
=============================================================================
