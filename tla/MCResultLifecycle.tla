------------------------- MODULE MCResultLifecycle -------------------------
(***************************************************************************)
(* One result, submitted by guest g1 or by one of the members u1 and u2,   *)
(* who may both register with g1's cookie; its mascot is changed once.     *)
(***************************************************************************)
EXTENDS ResultLifecycle, TLC

CONSTANTS g1, u1, u2, r1, e1

MCGuests == {g1}
MCUsers == {u1, u2}
MCDeleted == {u1}
MCResults == {r1}
MCEdits == {e1}
MCCookieOf == u1 :> g1 @@ u2 :> g1
MCEditOf == e1 :> r1
=============================================================================
