------------------------------- MODULE Mutex -------------------------------
(***************************************************************************)
(* What internal/application/assessment expects of its                     *)
(* DistributedLockService: a lock per key.  A key is taken by one          *)
(* acquisition when nobody is inside, and a set of acquisitions leaves at  *)
(* once when the process that serves them dies.  DistributedLock           *)
(* implements this as long as no lock outlives its TTL.                    *)
(***************************************************************************)
CONSTANTS Keys, Requests

VARIABLE inside   \* inside[k]: the acquisitions that are in k's critical section

Init == inside = [k \in Keys |-> {}]

Enter(k, r) ==
    /\ inside[k] = {}
    /\ inside' = [inside EXCEPT ![k] = {r}]

Leave(R) == inside' = [k \in Keys |-> inside[k] \ R]

Next ==
    \/ \E k \in Keys, r \in Requests : Enter(k, r)
    \/ \E R \in SUBSET Requests : Leave(R)

Spec == Init /\ [][Next]_inside
=============================================================================
