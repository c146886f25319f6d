-------------------------- MODULE SessionRegistry --------------------------
(***************************************************************************)
(* What a client may rely on of its account's sessions, whatever number of *)
(* calls run at once: a session is opened once, all of them end together   *)
(* (logout-all, a new password, an erasure), and none comes back; the      *)
(* logout of one only withdraws its refresh token.  The password changes   *)
(* only when all end.  AccountSession implements this until a save         *)
(* overwrites a concurrent change.                                         *)
(***************************************************************************)
CONSTANTS Sessions, Passwords

VARIABLES
    accepted,     \* the sessions the middleware lets in
    opened,       \* those that were ever issued
    password,
    overwritten   \* a save has overwritten a concurrent change

vars == <<accepted, opened, password, overwritten>>

Init ==
    /\ opened \subseteq Sessions /\ accepted = opened
    /\ password \in Passwords
    /\ overwritten = FALSE

\* A session may be over before its token is handed out.
Open(s) ==
    /\ s \notin opened
    /\ opened' = opened \union {s}
    /\ accepted' \in {accepted, accepted \union {s}}
    /\ UNCHANGED <<password, overwritten>>

EndAll ==
    /\ accepted' = {}
    /\ password' \in Passwords
    /\ UNCHANGED <<opened, overwritten>>

\* The save, and every step after it.
Overwrite ==
    /\ opened \subseteq opened' /\ opened' \subseteq Sessions
    /\ accepted' \subseteq opened'
    /\ password' \in Passwords
    /\ overwritten' = TRUE

Next == (\E s \in Sessions : Open(s)) \/ EndAll \/ Overwrite

Spec == Init /\ [][Next]_vars
=============================================================================
