------------------------------ MODULE MCMount -------------------------------
(***************************************************************************)
(* Small instances of Mount for TLC.                                        *)
(***************************************************************************)
EXTENDS Mount

CONSTANTS n1, a1, a2, p1
=============================================================================
