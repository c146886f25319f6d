-------------------------- MODULE DistributedLock --------------------------
(***************************************************************************)
(* The Redis lock of internal/infrastructure/cache/redis/lock.go.          *)
(*                                                                         *)
(* A request acquires with SETNX under a token of its own, then stores the *)
(* token in its process's sync.Map UNDER THE KEY, not under the            *)
(* acquisition.  Release takes whatever token that map holds for the key   *)
(* and runs a compare-and-delete script with it.  Every one of these is a  *)
(* step of its own: the TTL, a crash or another request can come between.  *)
(*                                                                         *)
(* A request acquires at most once, and uuid tokens are unique, so the     *)
(* request itself stands for its token.                                    *)
(***************************************************************************)
EXTENDS Naturals

CONSTANTS
    Procs,         \* API processes, each with its own token map
    Keys,          \* lock keys
    Requests,      \* acquisitions; also the owner tokens
    ProcOf, KeyOf, \* the process that serves a request, the key it locks
    NoToken,       \* key absent in Redis, or in a token map
    MaxOverruns,   \* bound: locks that expire while their request is still live
    MaxFaults      \* bound: Redis errors, database errors, crashes

ASSUME LockAssumption ==
    /\ ProcOf \in [Requests -> Procs]
    /\ KeyOf \in [Requests -> Keys]
    /\ NoToken \notin Requests
    /\ MaxOverruns \in Nat
    /\ MaxFaults \in Nat

VARIABLES
    redis,     \* redis[k]: the token stored in Redis under k
    tokens,    \* tokens[p][k]: the token map of process p
    phase,     \* phase[r]: how far r is in AcquireLock or ReleaseLock
    carried,   \* carried[r]: the token r's ReleaseLock took from the map
    overruns,  \* how many locks expired under a live request
    faults,    \* how many faults happened
    stranded   \* history: requests whose own SETNX or release failed in Redis,
               \* or whose process died: what they set is left to the TTL

lockVars == <<redis, tokens, phase, carried, overruns, faults, stranded>>

Token == Requests \union {NoToken}

\* "claimed": SETNX succeeded, the token is not in the map yet;
\* "holding": AcquireLock returned true; "releasing": the token was taken from
\* the map, the script has not run; "out": refused, released or dead.
Phase == {"idle", "claimed", "holding", "releasing", "out"}

LockTypeOK ==
    /\ redis \in [Keys -> Token]
    /\ tokens \in [Procs -> [Keys -> Token]]
    /\ phase \in [Requests -> Phase]
    /\ carried \in [Requests -> Token]
    /\ overruns \in 0 .. MaxOverruns
    /\ faults \in 0 .. MaxFaults
    /\ stranded \subseteq Requests

LockInit ==
    /\ redis = [k \in Keys |-> NoToken]
    /\ tokens = [p \in Procs |-> [k \in Keys |-> NoToken]]
    /\ phase = [r \in Requests |-> "idle"]
    /\ carried = [r \in Requests |-> NoToken]
    /\ overruns = 0
    /\ faults = 0
    /\ stranded = {}

Live(r) == phase[r] \in {"claimed", "holding", "releasing"}
Inside(r) == phase[r] \in {"claimed", "holding"}

Fault == faults < MaxFaults /\ faults' = faults + 1

\* A Redis or database error somewhere else in the request.
OtherFault == Fault /\ UNCHANGED <<redis, tokens, phase, carried, overruns, stranded>>

-----------------------------------------------------------------------------
\* AcquireLock

\* Mutant: SET instead of SETNX.
SetWithoutNX(r) ==
    /\ phase[r] = "idle"
    /\ redis' = [redis EXCEPT ![KeyOf[r]] = r]
    /\ phase' = [phase EXCEPT ![r] = "claimed"]
    /\ UNCHANGED <<tokens, carried, overruns, faults, stranded>>

SetNX(r) ==
    /\ phase[r] = "idle"
    /\ redis[KeyOf[r]] = NoToken
    /\ redis' = [redis EXCEPT ![KeyOf[r]] = r]
    /\ phase' = [phase EXCEPT ![r] = "claimed"]
    /\ UNCHANGED <<tokens, carried, overruns, faults, stranded>>

\* The key exists: AcquireLock returns false.
SetNXRefused(r) ==
    /\ phase[r] = "idle"
    /\ redis[KeyOf[r]] # NoToken
    /\ phase' = [phase EXCEPT ![r] = "out"]
    /\ UNCHANGED <<redis, tokens, carried, overruns, faults, stranded>>

\* SETNX fails, before or after Redis executed it: the caller has no lock, but
\* the key may have been set and then stays until its TTL.
SetNXFault(r) ==
    /\ phase[r] = "idle"
    /\ Fault
    /\ \/ redis' = redis
       \/ redis[KeyOf[r]] = NoToken /\ redis' = [redis EXCEPT ![KeyOf[r]] = r]
    /\ phase' = [phase EXCEPT ![r] = "out"]
    /\ stranded' = stranded \union {r}
    /\ UNCHANGED <<tokens, carried, overruns>>

Store(r) ==
    /\ phase[r] = "claimed"
    /\ tokens' = [tokens EXCEPT ![ProcOf[r]][KeyOf[r]] = r]
    /\ phase' = [phase EXCEPT ![r] = "holding"]
    /\ UNCHANGED <<redis, carried, overruns, faults, stranded>>

-----------------------------------------------------------------------------
\* ReleaseLock

LoadAndDelete(r) ==
    LET token == tokens[ProcOf[r]][KeyOf[r]]
    IN  /\ phase[r] = "holding"
        /\ tokens' = [tokens EXCEPT ![ProcOf[r]][KeyOf[r]] = NoToken]
        /\ carried' = [carried EXCEPT ![r] = token]
        /\ phase' = [phase EXCEPT ![r] = IF token = NoToken THEN "out" ELSE "releasing"]
        /\ UNCHANGED <<redis, overruns, faults, stranded>>

\* Mutant: a plain DEL.
BlindDelete(r) ==
    /\ phase[r] = "releasing"
    /\ redis' = [redis EXCEPT ![KeyOf[r]] = NoToken]
    /\ phase' = [phase EXCEPT ![r] = "out"]
    /\ carried' = [carried EXCEPT ![r] = NoToken]
    /\ UNCHANGED <<tokens, overruns, faults, stranded>>

\* releaseScript: delete the key only if its value is still the carried token.
CompareAndDelete(r) ==
    /\ phase[r] = "releasing"
    /\ redis' = IF redis[KeyOf[r]] = carried[r]
                THEN [redis EXCEPT ![KeyOf[r]] = NoToken]
                ELSE redis
    /\ phase' = [phase EXCEPT ![r] = "out"]
    /\ carried' = [carried EXCEPT ![r] = NoToken]
    /\ UNCHANGED <<tokens, overruns, faults, stranded>>

ReleaseFault(r) ==
    /\ phase[r] = "releasing"
    /\ Fault
    /\ phase' = [phase EXCEPT ![r] = "out"]
    /\ carried' = [carried EXCEPT ![r] = NoToken]
    /\ stranded' = stranded \union {r}
    /\ UNCHANGED <<redis, tokens, overruns>>

-----------------------------------------------------------------------------
\* The environment

\* Mutant: the key is set without a TTL.
NeverExpires(k) == FALSE /\ UNCHANGED lockVars

\* Redis drops the key at its TTL, whether or not its request is still live.
Expire(k) ==
    /\ redis[k] # NoToken
    /\ IF Live(redis[k])
       THEN overruns < MaxOverruns /\ overruns' = overruns + 1
       ELSE overruns' = overruns
    /\ redis' = [redis EXCEPT ![k] = NoToken]
    /\ UNCHANGED <<tokens, phase, carried, faults, stranded>>

\* Process p dies with its token map and the requests it serves; the keys it
\* set stay in Redis.  Requests not yet arrived find the restarted process.
Dies(p, r) == ProcOf[r] = p /\ Live(r)

Crash(p) ==
    /\ Fault
    /\ tokens' = [tokens EXCEPT ![p] = [k \in Keys |-> NoToken]]
    /\ phase' = [r \in Requests |-> IF Dies(p, r) THEN "out" ELSE phase[r]]
    /\ carried' = [r \in Requests |-> IF Dies(p, r) THEN NoToken ELSE carried[r]]
    /\ stranded' = stranded \union {r \in Requests : Dies(p, r)}
    /\ UNCHANGED <<redis, overruns>>

-----------------------------------------------------------------------------
AcquireStep(r) == SetNX(r) \/ SetNXRefused(r) \/ SetNXFault(r) \/ Store(r)
ReleaseStep(r) == LoadAndDelete(r) \/ CompareAndDelete(r) \/ ReleaseFault(r)

LockNext ==
    \/ \E r \in Requests : AcquireStep(r) \/ ReleaseStep(r)
    \/ \E k \in Keys : Expire(k)
    \/ \E p \in Procs : Crash(p)
    \/ OtherFault

\* A request that got the lock goes on to store its token and to release it
\* (the deferred call of the handler); Redis honours the TTL.
LockFairness ==
    /\ \A r \in Requests : WF_lockVars(Store(r) \/ ReleaseStep(r))
    /\ \A k \in Keys : WF_lockVars(Expire(k))

LockSafety == LockInit /\ [][LockNext]_lockVars
LockSpec == LockSafety /\ LockFairness

-----------------------------------------------------------------------------
\* No two requests are between a successful AcquireLock and their ReleaseLock
\* on one key, unless a lock outlived its TTL: what the quota check of the
\* submit handler relies on.
MutualExclusion ==
    overruns = 0 =>
        \A r, s \in Requests :
            r # s /\ KeyOf[r] = KeyOf[s] /\ Inside(r) => ~Inside(s)

\* A key in Redis belongs to a request that is still being served, or to one
\* whose own SETNX or release Redis failed, or that died: every other way out
\* of a request frees its key at once instead of leaving it to the TTL.
NoAbandonedLock ==
    overruns = 0 =>
        \A k \in Keys : redis[k] # NoToken => Live(redis[k]) \/ redis[k] \in stranded

\* Even when locks overrun, a release never deletes the lock of a request
\* served by another process (CompareAndDelete against a per-process token).
ForeignLockKept ==
    [][\A r \in Requests :
          CompareAndDelete(r) /\ redis' # redis =>
              ProcOf[redis[KeyOf[r]]] = ProcOf[r]]_lockVars

\* A release deletes only the lock its own acquisition set.
ReleasesOwnLock ==
    [][\A r \in Requests :
          CompareAndDelete(r) /\ redis' # redis => redis[KeyOf[r]] = r]_lockVars

\* Every key becomes free again and again: neither a lost release nor a crash
\* locks a session out for good.
EventuallyFree == \A k \in Keys : []<>(redis[k] = NoToken)

\* The abstract lock this module implements when MaxOverruns = 0.
LockUsers == [k \in Keys |-> {r \in Requests : KeyOf[r] = k /\ Inside(r)}]

M == INSTANCE Mutex WITH inside <- LockUsers

ImplementsMutex == M!Spec
=============================================================================
