------------------------------ MODULE MCDocFs -------------------------------
(***************************************************************************)
(* Small instances of DocFs for TLC.                                        *)
(***************************************************************************)
EXTENDS DocFs

CONSTANTS x, y, dots

\* Valid names are interchangeable.
Renamings == Permutations(Names)
=============================================================================
