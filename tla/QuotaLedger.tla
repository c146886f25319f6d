---------------------------- MODULE QuotaLedger ----------------------------
(***************************************************************************)
(* What the monthly quota promises (internal/application/constants.go):    *)
(* a session is charged one unit at a time, and never beyond its quota for *)
(* a calendar month.  A submission that began before midnight may still be *)
(* charged to the month it began in.                                       *)
(***************************************************************************)
EXTENDS Naturals

CONSTANTS Sessions, Months, Quota(_), Prior

VARIABLES
    used,   \* used[s][m]: units session s used in month m
    month   \* the current month

Init ==
    /\ month = 1
    /\ used = [s \in Sessions |-> [m \in Months |-> IF m = 1 THEN Prior[s] ELSE 0]]

Charge(s, m) ==
    /\ m <= month
    /\ used[s][m] < Quota(s)
    /\ used' = [used EXCEPT ![s][m] = @ + 1]
    /\ month' = month

NextMonth == month + 1 \in Months /\ month' = month + 1 /\ used' = used

Next == NextMonth \/ \E s \in Sessions, m \in Months : Charge(s, m)

Spec == Init /\ [][Next]_<<used, month>>
=============================================================================
