---------------------------- MODULE MCEndpoints ----------------------------
(***************************************************************************)
(* Small instances of the parts.  Requests: every endpoint.  Registration: *)
(* three calls, two of one address and two with the cookie of one guest    *)
(* session, two with a known referral code, and one fault.                 *)
(* Limits: four requests of two addresses,                                 *)
(* two a window, and two senders with two codes a day.  Budget: three      *)
(* submissions over two days, a budget of 10 with calls of 3, 7 and 12.    *)
(* Referral: three requests of two users, three codes, two attempts.       *)
(* Scoring: up to three answers to six questions.  Dashboard: up to four   *)
(* results in pages of one or two, with the templates of the seed data     *)
(* scaled to the scores.                                                   *)
(***************************************************************************)
EXTENDS Endpoints

CONSTANTS r1, r2, r3, r4, a1, a2, s1, s2, b1, b2, b3, q1, q2, q3, u1, u2, c1, c2, c3,
          n1, n2, n3, g1, ann, bob

MCSignups == {n1, n2, n3}
MCEmailOf == (n1 :> ann) @@ (n2 :> ann) @@ (n3 :> bob)
MCSessions == {g1}
MCCookieOf == (n1 :> g1) @@ (n2 :> Nobody) @@ (n3 :> g1)
MCCodeOf == (n1 :> "known") @@ (n2 :> "unknown") @@ (n3 :> "known")
MCRequests == {r1, r2, r3, r4}
MCAddresses == {a1, a2}
MCAddressOf == (r1 :> a1) @@ (r2 :> a1) @@ (r3 :> a1) @@ (r4 :> a2)
MCSenders == {s1, s2}
MCSpenders == {b1, b2, b3}
MCCosts == {0, 3, 7, 12}
MCAskers == {q1, q2, q3}
MCOwners == {u1, u2}
MCOwnerOf == (q1 :> u1) @@ (q2 :> u1) @@ (q3 :> u2)
MCCodes == {c1, c2, c3}

Points(ei, jp) == [EI |-> ei, SN |-> 0, TF |-> 0, JP |-> jp]
Question(type, trait, reverse, attention, points) ==
    [type |-> type, trait |-> trait, reverse |-> reverse,
     attention |-> attention, points |-> points]

MCBank ==
    [ei |-> Question("likert", "EI", FALSE, FALSE, <<>>),
     ie |-> Question("likert", "EI", TRUE, FALSE, <<>>),
     grit |-> Question("likert", "GRIT", TRUE, FALSE, <<>>),
     check |-> Question("likert", "EI", FALSE, TRUE, <<>>),
     sjt |-> Question("multiple_choice", "", FALSE, FALSE,
                      <<Points(2, 0), Points(-1, 1), Points(0, -2)>>),
     essay |-> Question("essay_prompt", "", FALSE, FALSE, <<>>)]
MCValues == {0, 1, 2, 5}

Template(key, loc, condition, delta, threshold) ==
    [key |-> key, locale |-> loc, trait |-> "grit", condition |-> condition,
     delta |-> delta, threshold |-> threshold, active |-> TRUE]
MCTemplates ==
    {Template("up", "en", "increase", 5, 0), Template("up", "id", "increase", 5, 0),
     Template("down", "en", "decrease", 5, 0),
     Template("high", "en", "threshold", 0, 80), Template("high", "id", "threshold", 0, 80),
     Template("low", "en", "threshold_below", 0, 40),
     [Template("off", "en", "threshold", 0, 1) EXCEPT !.active = FALSE]}
MCLocales == {"en", "id"}
MCGritScores == {0, 39, 80}
MCLimits == {0, 1, 2, 3}
=============================================================================
