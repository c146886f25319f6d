------------------------- MODULE MCDistributedLock -------------------------
(***************************************************************************)
(* Four acquisitions on two API processes: three compete for key k1 (two   *)
(* in process p1, one in p2) and one uses k2.                              *)
(***************************************************************************)
EXTENDS DistributedLock, TLC

CONSTANTS p1, p2, k1, k2, r1, r2, r3, r4

MCProcs == {p1, p2}
MCKeys == {k1, k2}
MCRequests == {r1, r2, r3, r4}
MCProcOf == r1 :> p1 @@ r2 :> p1 @@ r3 :> p2 @@ r4 :> p1
MCKeyOf == r1 :> k1 @@ r2 :> k1 @@ r3 :> k1 @@ r4 :> k2
=============================================================================
