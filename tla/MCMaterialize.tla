--------------------------- MODULE MCMaterialize ----------------------------
(***************************************************************************)
(* Small instances of Materialize for TLC.                                  *)
(***************************************************************************)
EXTENDS Materialize

CONSTANTS p, q, u1, u2, t1, t2

\* User, peers and an interruption take turns with the two tasks.
Turns == [racing |-> {}, collisions |-> FALSE, offline |-> FALSE,
          edits |-> {u1, u2, t1, t2}, userOps |-> 1, peerOps |-> 1, fails |-> 0, stops |-> 1]
\* Peers at any moment, and a user who edits what matches its base.
Careful == [racing |-> {"careful", "peer"}, collisions |-> FALSE, offline |-> FALSE,
            edits |-> {u1, u2, t1, t2}, userOps |-> 1, peerOps |-> 0, fails |-> 0, stops |-> 0]
\* Everybody at any moment, with every fault.
Anything == [racing |-> {"user", "peer"}, collisions |-> TRUE, offline |-> TRUE,
             edits |-> {u1, t1}, userOps |-> 1, peerOps |-> 1, fails |-> 1, stops |-> 1]
\* A user at any moment, downtime and startup included, with every fault, and
\* peers that only write.
Unwatched == [racing |-> {"user", "peer"}, collisions |-> FALSE, offline |-> TRUE,
              edits |-> {u1, u2, t1}, userOps |-> 1, peerOps |-> 0, fails |-> 1, stops |-> 1]
\* A user who saves again while an export is under way.
Hasty == [racing |-> {"user", "peer"}, collisions |-> FALSE, offline |-> FALSE,
          edits |-> {u1, u2, t1, t2}, userOps |-> 0, peerOps |-> 0, fails |-> 0, stops |-> 0]
AllRegimes == {Turns, Careful, Anything, Unwatched}
OnlyHasty == {Hasty}
=============================================================================
