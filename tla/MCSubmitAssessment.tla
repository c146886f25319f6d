------------------------- MODULE MCSubmitAssessment -------------------------
(***************************************************************************)
(* Three submissions and quotas with room for one.  In the "quota"         *)
(* instance member m1, referred by a code that exists, sends a submission, *)
(* its retry under the same Idempotency-Key and, from another process,     *)
(* answers that are refused or have no essay.  In the "shared" instance    *)
(* m1, referred by a code nobody owns, sends two submissions to two        *)
(* processes; guest g1, with one result already, sends the same answers    *)
(* under the key of the second one and wants the same Gemini permit as the *)
(* first one.                                                              *)
(***************************************************************************)
EXTENDS SubmitAssessment, TLC

CONSTANTS p1, p2, m1, g1, r1, r2, r3, key1, key2, essay, other, plain

MCProcs == {p1, p2}
MCKeys == {m1, g1}
MCMembers == {m1}
MCRequests == {r1, r2, r3}
MCIdemKeys == {key1, key2}
MCPayloads == {essay, other, plain}
MCBad == {plain}
MCPlain == {plain}

QuotaKeys == {m1}
NothingUsed == m1 :> 0
GuestUsed == m1 :> 0 @@ g1 :> 1

QuotaProcOf == r1 :> p1 @@ r2 :> p1 @@ r3 :> p2
QuotaKeyOf == r1 :> m1 @@ r2 :> m1 @@ r3 :> m1
QuotaIdemKeyOf == r1 :> key1 @@ r2 :> key1 @@ r3 :> key2
QuotaPayloadOf == r1 :> essay @@ r2 :> essay @@ r3 :> plain

SharedProcOf == r1 :> p1 @@ r2 :> p2 @@ r3 :> p1
SharedKeyOf == r1 :> m1 @@ r2 :> m1 @@ r3 :> g1
SharedIdemKeyOf == r1 :> key1 @@ r2 :> key2 @@ r3 :> key2
SharedPayloadOf == r1 :> essay @@ r2 :> other @@ r3 :> essay
=============================================================================
