--------------------------- MODULE CausalReplicas ---------------------------
(***************************************************************************)
(* What live sync promises, with no session, message or version vector in   *)
(* sight: every peer holds a causally closed set of operations, an          *)
(* operation leaves the spoke that made it only if the host has let that    *)
(* spoke push, and a spoke learns what others made only if the host has let *)
(* it pull.  A peer that restarts may fall back to an older closed set.     *)
(* LiveSync implements this specification.                                  *)
(***************************************************************************)
CONSTANTS Host, Spokes, Ops, Author

Peers == {Host} \cup Spokes

VARIABLES
  doc,      \* the operations each peer holds
  made,     \* every operation committed anywhere
  deps,     \* what the author held when it committed an operation
  pushers,  \* the spokes the host has ever let push
  pullers   \* the spokes the host has ever let pull

vars == <<doc, made, deps, pushers, pullers>>

Closed(S) == \A o \in S : deps[o] \subseteq S

Init ==
  /\ doc = [p \in Peers |-> {}]
  /\ made = {}
  /\ deps = [o \in Ops |-> {}]
  /\ pushers = {}
  /\ pullers = {}

Commit(p, o) ==
  /\ o \notin made /\ Author[o] = p
  /\ made' = made \cup {o}
  /\ deps' = [deps EXCEPT ![o] = doc[p]]
  /\ doc' = [doc EXCEPT ![p] = @ \cup {o}]
  /\ UNCHANGED <<pushers, pullers>>

\* What may reach p from elsewhere.
MayReach(p, S) ==
  /\ \A o \in S : Author[o] \in {p, Host} \cup pushers
  /\ p \in Spokes => p \in pullers

Merge(p) ==
  \E S \in SUBSET made :
    /\ MayReach(p, S)
    /\ Closed(doc[p] \cup S)
    /\ doc' = [doc EXCEPT ![p] = @ \cup S]
    /\ UNCHANGED <<made, deps, pushers, pullers>>

Restart(p) ==
  \E S \in SUBSET doc[p] :
    /\ Closed(S)
    /\ doc' = [doc EXCEPT ![p] = S]
    /\ UNCHANGED <<made, deps, pushers, pullers>>

Admit(s) ==
  /\ pushers' \in {pushers, pushers \cup {s}}
  /\ pullers' \in {pullers, pullers \cup {s}}
  /\ UNCHANGED <<doc, made, deps>>

Next ==
  \/ \E p \in Peers, o \in Ops : Commit(p, o)
  \/ \E p \in Peers : Merge(p) \/ Restart(p)
  \/ \E s \in Spokes : Admit(s)

Spec == Init /\ [][Next]_vars
=============================================================================
