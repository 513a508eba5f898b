----------------------------- MODULE MCOneShot ------------------------------
(***************************************************************************)
(* Situations in which TLC starts a one-shot sync.                          *)
(***************************************************************************)
EXTENDS OneShot

CONSTANTS a, b, c

\* Every situation over the operations nobody makes later.
AnyStart ==
  [puller : SUBSET (Ops \ Late), host : SUBSET (Ops \ Late),
   perms : SUBSET Perms, live : BOOLEAN]

\* The pull has nothing to fetch.
UpToDate == [puller : {{a}}, host : {{a}}, perms : {Perms}, live : {TRUE}]
=============================================================================
