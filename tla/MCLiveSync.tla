----------------------------- MODULE MCLiveSync -----------------------------
(***************************************************************************)
(* Small instances of LiveSync for TLC.                                     *)
(***************************************************************************)
EXTENDS LiveSync, TLC

CONSTANTS s1, s2, l1, l2, l3, h1, a1

AllTrusted == [s \in Spokes |-> Perms]
Solo  == l1 :> s1 @@ l2 :> s1
\* one connection each
Relay == l1 :> s1 @@ l2 :> s2
\* the two connections of s1 are interchangeable
SoloSymmetry == Permutations({l1, l2})
SoloAuthors == h1 :> Host @@ a1 :> s1
\* s2 may only pull
OneWay == s1 :> Perms @@ s2 :> {"pull"}
=============================================================================
