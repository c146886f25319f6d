--------------------------- MODULE MCRegistration ---------------------------
(***************************************************************************)
(* Two registrations with a known referral code and one cookie: a guest    *)
(* session that may have a completed test before either of them commits.   *)
(***************************************************************************)
EXTENDS Registration

CONSTANTS s1, s2, g1, mail1, mail2

MCSignups == {s1, s2}
MCSessions == {g1}
MCEmailOf == [s \in MCSignups |-> IF s = s1 THEN mail1 ELSE mail2]
MCCookieOf == [s \in MCSignups |-> g1]
MCCodeOf == [s \in MCSignups |-> "known"]
=============================================================================
