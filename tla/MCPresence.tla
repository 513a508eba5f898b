----------------------------- MODULE MCPresence -----------------------------
(* A host and two clients, one of which has an entry and a cursor. *)
EXTENDS Presence

CONSTANTS h, s1, s2, entry, cursor, v1

TwoSpokes == {s1, s2}
TwoKeys == {entry, cursor}
Owners == [k \in TwoKeys |-> s1]

\* The entry alone, changed once and with one fault; or both, with a change
\* while the owner dials, or with a fault.  Both at once overrun a relay that
\* holds one.
AllRegimes ==
  {[keys |-> {entry}, on |-> {s1, s2}, sets |-> 1, faults |-> 1],
   [keys |-> TwoKeys, on |-> {s2}, sets |-> 1, faults |-> 0],
   [keys |-> TwoKeys, on |-> {s1, s2}, sets |-> 0, faults |-> 1]}
=============================================================================
