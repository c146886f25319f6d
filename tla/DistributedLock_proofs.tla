----------------------- MODULE DistributedLock_proofs -----------------------
(***************************************************************************)
(* Proofs about DistributedLock, for any number of processes, keys,        *)
(* requests, faults and overruns.                                          *)
(***************************************************************************)
EXTENDS DistributedLock, FiniteSetTheorems, TLAPS

\* Bounds on the size of a set: of a subset, of a union, of one element more.
LEMMA SubsetBound ==
    ASSUME NEW S, NEW n \in Nat, IsFiniteSet(S), Cardinality(S) <= n, NEW T, T \subseteq S
    PROVE  IsFiniteSet(T) /\ Cardinality(T) <= n
<1>1. IsFiniteSet(T) /\ Cardinality(T) <= Cardinality(S)
  BY FS_Subset
<1>2. Cardinality(S) \in Nat /\ Cardinality(T) \in Nat
  BY <1>1, FS_CardinalityType
<1>3. QED
  BY <1>1, <1>2

\* A set covered by two others is no larger than both together.
LEMMA UnionBound ==
    ASSUME NEW S, NEW m \in Nat, IsFiniteSet(S), Cardinality(S) <= m,
           NEW T, NEW n \in Nat, IsFiniteSet(T), Cardinality(T) <= n,
           NEW U, U \subseteq S \union T
    PROVE  IsFiniteSet(U) /\ Cardinality(U) <= m + n
<1>1. Cardinality(S) \in Nat /\ Cardinality(T) \in Nat
  BY FS_CardinalityType
<1>2. IsFiniteSet(S \cap T)
  BY FS_Intersection
<1>3. Cardinality(S \cap T) \in Nat
  BY <1>2, FS_CardinalityType
<1>4. /\ IsFiniteSet(S \union T)
      /\ Cardinality(S \union T) = Cardinality(S) + Cardinality(T) - Cardinality(S \cap T)
  BY FS_Union
<1>5. Cardinality(S \union T) <= m + n
  BY <1>1, <1>3, <1>4
<1>6. QED
  BY <1>4, <1>5, SubsetBound

\* One element more makes a set at most one larger.
LEMMA ElementBound ==
    ASSUME NEW S, NEW n \in Nat, IsFiniteSet(S), Cardinality(S) <= n,
           NEW q, NEW U, U \subseteq S \union {q}
    PROVE  IsFiniteSet(U) /\ Cardinality(U) <= n + 1
<1>1. IsFiniteSet({q}) /\ Cardinality({q}) = 1
  BY FS_Singleton, Zenon
<1>2. Cardinality({q}) <= 1 /\ 1 \in Nat
  BY <1>1
<1>3. QED
  BY <1>1, <1>2, UnionBound

\* Type correctness: the lock's state keeps its shape.
THEOREM LockTypeCorrect == LockSafety => []LockTypeOK
<1>1. LockInit => LockTypeOK
  BY LockAssumption DEF LockInit, LockTypeOK, Token, Phase
<1>2. LockTypeOK /\ [LockNext]_lockVars => LockTypeOK'
  <2> SUFFICES ASSUME LockTypeOK, [LockNext]_lockVars
               PROVE  LockTypeOK'
    OBVIOUS
  <2> USE LockAssumption DEF LockTypeOK, Token, Phase
  <2>1. ASSUME NEW r \in Requests, SetNX(r)
        PROVE  LockTypeOK'
    BY <2>1 DEF SetNX
  <2>2. ASSUME NEW r \in Requests, SetNXRefused(r)
        PROVE  LockTypeOK'
    BY <2>2 DEF SetNXRefused
  <2>3. ASSUME NEW r \in Requests, SetNXFault(r)
        PROVE  LockTypeOK'
    BY <2>3 DEF SetNXFault, Fault
  <2>4. ASSUME NEW r \in Requests, Store(r)
        PROVE  LockTypeOK'
    BY <2>4 DEF Store
  <2>5. ASSUME NEW r \in Requests, LoadAndDelete(r)
        PROVE  LockTypeOK'
    BY <2>5 DEF LoadAndDelete
  <2>6. ASSUME NEW r \in Requests, CompareAndDelete(r)
        PROVE  LockTypeOK'
    BY <2>6 DEF CompareAndDelete
  <2>7. ASSUME NEW r \in Requests, ReleaseFault(r)
        PROVE  LockTypeOK'
    BY <2>7 DEF ReleaseFault, Fault
  <2>8. ASSUME NEW k \in Keys, Expire(k)
        PROVE  LockTypeOK'
    BY <2>8 DEF Expire
  <2>9. ASSUME NEW p \in Procs, Crash(p)
        PROVE  LockTypeOK'
    BY <2>9 DEF Crash, Fault
  <2>10. CASE OtherFault \/ UNCHANGED lockVars
    BY <2>10 DEF OtherFault, Fault, lockVars
  <2>11. QED
    BY <2>1, <2>2, <2>3, <2>4, <2>5, <2>6, <2>7, <2>8, <2>9, <2>10
       DEF LockNext, AcquireStep, ReleaseStep
<1>3. QED
  BY <1>1, <1>2, PTL DEF LockSafety

-----------------------------------------------------------------------------
(***************************************************************************)
(* Where a token can be, with or without overruns: under its own key in    *)
(* Redis, in the map of its own process, or in the hands of a release of   *)
(* that process for that key; and its request has begun to acquire.        *)
(***************************************************************************)
TokenHome ==
    /\ \A k \in Keys :
          redis[k] # NoToken => KeyOf[redis[k]] = k /\ phase[redis[k]] # "idle"
    /\ \A p \in Procs, k \in Keys :
          tokens[p][k] # NoToken =>
              /\ ProcOf[tokens[p][k]] = p /\ KeyOf[tokens[p][k]] = k
              /\ phase[tokens[p][k]] # "idle"
    /\ \A r \in Requests :
          carried[r] # NoToken =>
              /\ ProcOf[carried[r]] = ProcOf[r] /\ KeyOf[carried[r]] = KeyOf[r]
              /\ phase[carried[r]] # "idle"

\* A token never reaches the map of another process.
LEMMA TokenHomeInvariant == LockSafety => []TokenHome
<1>1. LockInit => TokenHome
  BY DEF LockInit, TokenHome
<1>2. LockTypeOK /\ TokenHome /\ [LockNext]_lockVars => TokenHome'
  <2> SUFFICES ASSUME LockTypeOK, TokenHome, [LockNext]_lockVars
               PROVE  TokenHome'
    OBVIOUS
  <2> USE LockAssumption DEF LockTypeOK, Token, Phase, TokenHome
  <2>1. ASSUME NEW r \in Requests, SetNX(r)
        PROVE  TokenHome'
    BY <2>1 DEF SetNX
  <2>2. ASSUME NEW r \in Requests, SetNXRefused(r)
        PROVE  TokenHome'
    BY <2>2 DEF SetNXRefused
  <2>3. ASSUME NEW r \in Requests, SetNXFault(r)
        PROVE  TokenHome'
    BY <2>3 DEF SetNXFault
  <2>4. ASSUME NEW r \in Requests, Store(r)
        PROVE  TokenHome'
    BY <2>4 DEF Store
  <2>5. ASSUME NEW r \in Requests, LoadAndDelete(r)
        PROVE  TokenHome'
    BY <2>5 DEF LoadAndDelete
  <2>6. ASSUME NEW r \in Requests, CompareAndDelete(r)
        PROVE  TokenHome'
    BY <2>6 DEF CompareAndDelete
  <2>7. ASSUME NEW r \in Requests, ReleaseFault(r)
        PROVE  TokenHome'
    BY <2>7 DEF ReleaseFault
  <2>8. ASSUME NEW k \in Keys, Expire(k)
        PROVE  TokenHome'
    BY <2>8 DEF Expire
  <2>9. ASSUME NEW p \in Procs, Crash(p)
        PROVE  TokenHome'
    BY <2>9 DEF Crash, Dies
  <2>10. CASE OtherFault \/ UNCHANGED lockVars
    BY <2>10 DEF OtherFault, Fault, lockVars
  <2>11. QED
    BY <2>1, <2>2, <2>3, <2>4, <2>5, <2>6, <2>7, <2>8, <2>9, <2>10
       DEF LockNext, AcquireStep, ReleaseStep
<1>3. QED
  BY <1>1, <1>2, LockTypeCorrect, PTL DEF LockSafety

\* A release never deletes the lock of a request of another process, however
\* many locks have outlived their TTL.
THEOREM ForeignLockKeptHolds == LockSafety => ForeignLockKept
<1>1. LockTypeOK /\ TokenHome
        => [\A r \in Requests :
               CompareAndDelete(r) /\ redis' # redis =>
                   ProcOf[redis[KeyOf[r]]] = ProcOf[r]]_lockVars
  <2> SUFFICES ASSUME LockTypeOK, TokenHome, NEW r \in Requests,
                      CompareAndDelete(r), redis' # redis
               PROVE  ProcOf[redis[KeyOf[r]]] = ProcOf[r]
    OBVIOUS
  <2>1. redis[KeyOf[r]] = carried[r] /\ redis[KeyOf[r]] # NoToken
    BY LockAssumption DEF CompareAndDelete, LockTypeOK
  <2>2. QED
    BY <2>1 DEF TokenHome
<1>2. QED
  BY <1>1, TokenHomeInvariant, LockTypeCorrect, PTL DEF ForeignLockKept, LockSafety

-----------------------------------------------------------------------------
(***************************************************************************)
(* The inductive invariant of mutual exclusion.  While no lock has overrun, a live request     *)
(* owns its key: Redis holds its token, and whatever ReleaseLock will find *)
(* in the token map, or has taken from it, is that same token.             *)
(***************************************************************************)
Owns(r) ==
    /\ Live(r) => redis[KeyOf[r]] = r
    /\ phase[r] = "holding" => tokens[ProcOf[r]][KeyOf[r]] = r
    /\ phase[r] = "releasing" => carried[r] = r

Ownership == overruns = 0 => \A r \in Requests : Owns(r)

\* The two counters only grow, so a state without overruns or faults was
\* reached through states without them.
LEMMA OverrunsGrow ==
    LockTypeOK /\ [LockNext]_lockVars => overruns' \in {overruns, overruns + 1}
                                         /\ (overruns' = 0 => overruns = 0)
<1> SUFFICES ASSUME LockTypeOK, [LockNext]_lockVars
             PROVE  overruns' \in {overruns, overruns + 1}
  BY LockAssumption DEF LockTypeOK
<1>1. ASSUME NEW r \in Requests, AcquireStep(r) \/ ReleaseStep(r)
      PROVE  overruns' = overruns
  BY <1>1 DEF AcquireStep, ReleaseStep, SetNX, SetNXRefused, SetNXFault, Store,
              LoadAndDelete, CompareAndDelete, ReleaseFault
<1>2. ASSUME NEW k \in Keys, Expire(k)
      PROVE  overruns' \in {overruns, overruns + 1}
  BY <1>2 DEF Expire
<1>3. ASSUME NEW p \in Procs, Crash(p)
      PROVE  overruns' = overruns
  BY <1>3 DEF Crash
<1>4. CASE OtherFault \/ UNCHANGED lockVars
  BY <1>4 DEF OtherFault, lockVars
<1>5. QED
  BY <1>1, <1>2, <1>3, <1>4 DEF LockNext

\* Faults are only ever counted up.
LEMMA FaultsGrow ==
    LockTypeOK /\ [LockNext]_lockVars => faults' \in {faults, faults + 1}
                                         /\ (faults' = 0 => faults = 0)
<1> SUFFICES ASSUME LockTypeOK, [LockNext]_lockVars
             PROVE  faults' \in {faults, faults + 1}
  BY LockAssumption DEF LockTypeOK
<1>1. ASSUME NEW r \in Requests, AcquireStep(r)
      PROVE  faults' \in {faults, faults + 1}
  BY <1>1 DEF AcquireStep, SetNX, SetNXRefused, SetNXFault, Store, Fault
<1>2. ASSUME NEW r \in Requests, ReleaseStep(r)
      PROVE  faults' \in {faults, faults + 1}
  BY <1>2 DEF ReleaseStep, LoadAndDelete, CompareAndDelete, ReleaseFault, Fault
<1>3. ASSUME NEW k \in Keys, Expire(k)
      PROVE  faults' = faults
  BY <1>3 DEF Expire
<1>4. ASSUME NEW p \in Procs, Crash(p)
      PROVE  faults' = faults + 1
  BY <1>4 DEF Crash, Fault
<1>5. CASE OtherFault \/ UNCHANGED lockVars
  BY <1>5 DEF OtherFault, Fault, lockVars
<1>6. QED
  BY <1>1, <1>2, <1>3, <1>4, <1>5 DEF LockNext

\* Nobody owns a lock at the start.
LEMMA OwnershipInit == LockInit => Ownership
  BY DEF LockInit, Ownership, Owns, Live

\* Without an overrun a live request keeps its key and its token.
LEMMA OwnershipStep ==
    LockTypeOK /\ Ownership /\ [LockNext]_lockVars => Ownership'
<1> SUFFICES ASSUME LockTypeOK, Ownership, [LockNext]_lockVars,
                    overruns' = 0, NEW q \in Requests
             PROVE  Owns(q)'
  BY DEF Ownership
<1> USE LockAssumption DEF LockTypeOK, Token, Phase
<1>0. overruns = 0
  BY OverrunsGrow
<1>a. \A r \in Requests : Owns(r)
  BY <1>0 DEF Ownership
<1>1. ASSUME NEW r \in Requests, SetNX(r)
      PROVE  Owns(q)'
  BY <1>1, <1>a DEF SetNX, Owns, Live
<1>2. ASSUME NEW r \in Requests, SetNXRefused(r)
      PROVE  Owns(q)'
  BY <1>2, <1>a DEF SetNXRefused, Owns, Live
<1>3. ASSUME NEW r \in Requests, SetNXFault(r)
      PROVE  Owns(q)'
  BY <1>3, <1>a DEF SetNXFault, Owns, Live
<1>4. ASSUME NEW r \in Requests, Store(r)
      PROVE  Owns(q)'
  BY <1>4, <1>a DEF Store, Owns, Live
<1>5. ASSUME NEW r \in Requests, LoadAndDelete(r)
      PROVE  Owns(q)'
  BY <1>5, <1>a DEF LoadAndDelete, Owns, Live
<1>6. ASSUME NEW r \in Requests, CompareAndDelete(r)
      PROVE  Owns(q)'
  BY <1>6, <1>a DEF CompareAndDelete, Owns, Live
<1>7. ASSUME NEW r \in Requests, ReleaseFault(r)
      PROVE  Owns(q)'
  BY <1>7, <1>a DEF ReleaseFault, Owns, Live
<1>8. ASSUME NEW k \in Keys, Expire(k)
      PROVE  Owns(q)'
  BY <1>8, <1>0, <1>a DEF Expire, Owns, Live
<1>9. ASSUME NEW p \in Procs, Crash(p)
      PROVE  Owns(q)'
  BY <1>9, <1>a DEF Crash, Dies, Owns, Live
<1>10. CASE OtherFault \/ UNCHANGED lockVars
  BY <1>10, <1>a DEF OtherFault, lockVars, Owns, Live
<1>11. QED
  BY <1>1, <1>2, <1>3, <1>4, <1>5, <1>6, <1>7, <1>8, <1>9, <1>10
     DEF LockNext, AcquireStep, ReleaseStep

\* Ownership holds in every reachable state.
LEMMA OwnershipInvariant == LockSafety => []Ownership
<1>1. QED
  BY OwnershipInit, OwnershipStep, LockTypeCorrect, PTL DEF LockSafety

\* Unless a lock outlived its TTL, no two requests are inside on one key.
THEOREM MutualExclusionHolds == LockSafety => []MutualExclusion
<1>1. LockTypeOK /\ Ownership => MutualExclusion
  BY LockAssumption
     DEF Ownership, Owns, MutualExclusion, Inside, Live
<1>2. QED
  BY <1>1, OwnershipInvariant, LockTypeCorrect, PTL

\* The only way a release can delete another request's lock is a lock that
\* outlived its TTL: without one it deletes what its own acquisition set.
THEOREM ReleasesOwnLockHolds ==
    ASSUME MaxOverruns = 0
    PROVE  LockSafety => ReleasesOwnLock
<1>1. LockTypeOK /\ Ownership
        => [\A r \in Requests :
               CompareAndDelete(r) /\ redis' # redis => redis[KeyOf[r]] = r]_lockVars
  <2> SUFFICES ASSUME LockTypeOK, Ownership, NEW r \in Requests, CompareAndDelete(r)
               PROVE  redis[KeyOf[r]] = r
    OBVIOUS
  <2>1. phase[r] = "releasing" /\ overruns = 0
    BY DEF CompareAndDelete, LockTypeOK
  <2>2. QED
    BY <2>1 DEF Ownership, Owns, Live
<1>2. QED
  BY <1>1, OwnershipInvariant, LockTypeCorrect, PTL DEF LockSafety, ReleasesOwnLock

-----------------------------------------------------------------------------
\* Unless a lock overran, a key in Redis belongs to a request that is still
\* being served, or to one that Redis failed or that died.
THEOREM NoAbandonedLockHolds == LockSafety => []NoAbandonedLock
<1>1. LockInit => NoAbandonedLock
  BY DEF LockInit, NoAbandonedLock
<1>2. LockTypeOK /\ TokenHome /\ Ownership /\ NoAbandonedLock
        /\ [LockNext]_lockVars => NoAbandonedLock'
  <2> SUFFICES ASSUME LockTypeOK, TokenHome, Ownership, NoAbandonedLock,
                      [LockNext]_lockVars,
                      overruns' = 0, NEW c \in Keys, redis'[c] # NoToken
               PROVE  (Live(redis[c]) \/ redis[c] \in stranded)'
    BY DEF NoAbandonedLock
  <2> USE LockAssumption DEF LockTypeOK, Token, Phase
  <2>0. overruns = 0
    BY OverrunsGrow
  <2>a. \A r \in Requests : Owns(r)
    BY <2>0 DEF Ownership
  <2>b. \A k \in Keys : redis[k] # NoToken => Live(redis[k]) \/ redis[k] \in stranded
    BY <2>0 DEF NoAbandonedLock
  <2> DEFINE Goal == (Live(redis[c]) \/ redis[c] \in stranded)'
  <2>1. ASSUME NEW r \in Requests, SetNX(r)
        PROVE  Goal
    BY <2>1, <2>b DEF SetNX, Live
  <2>2. ASSUME NEW r \in Requests, SetNXRefused(r)
        PROVE  Goal
    BY <2>2, <2>b DEF SetNXRefused, Live
  <2>3. ASSUME NEW r \in Requests, SetNXFault(r)
        PROVE  Goal
    BY <2>3, <2>b DEF SetNXFault, Live
  <2>4. ASSUME NEW r \in Requests, Store(r)
        PROVE  Goal
    BY <2>4, <2>b DEF Store, Live
  <2>5. ASSUME NEW r \in Requests, LoadAndDelete(r)
        PROVE  Goal
    BY <2>5, <2>a, <2>b DEF LoadAndDelete, Owns, Live
  <2>6. ASSUME NEW r \in Requests, CompareAndDelete(r)
        PROVE  Goal
    <3>1. redis[KeyOf[r]] = carried[r] /\ redis' = [redis EXCEPT ![KeyOf[r]] = NoToken]
      BY <2>6, <2>a DEF CompareAndDelete, Owns, Live
    <3>2. redis[c] # r /\ redis'[c] = redis[c]
      BY <3>1 DEF TokenHome
    <3>3. QED
      BY <2>6, <2>b, <3>2 DEF CompareAndDelete, Live
  <2>7. ASSUME NEW r \in Requests, ReleaseFault(r)
        PROVE  Goal
    BY <2>7, <2>b DEF ReleaseFault, Live
  <2>8. ASSUME NEW k \in Keys, Expire(k)
        PROVE  Goal
    BY <2>8, <2>b DEF Expire, Live
  <2>9. ASSUME NEW p \in Procs, Crash(p)
        PROVE  Goal
    BY <2>9, <2>b DEF Crash, Dies, Live
  <2>10. CASE OtherFault \/ UNCHANGED lockVars
    BY <2>10, <2>b DEF OtherFault, lockVars, Live
  <2>11. QED
    BY <2>1, <2>2, <2>3, <2>4, <2>5, <2>6, <2>7, <2>8, <2>9, <2>10
       DEF LockNext, AcquireStep, ReleaseStep
<1>3. QED
  BY <1>1, <1>2, OwnershipInvariant, TokenHomeInvariant, LockTypeCorrect, PTL
     DEF LockSafety

-----------------------------------------------------------------------------
(***************************************************************************)
(* What overruns cost.  A stray is a request inside whose token is not in  *)
(* Redis, or one about to delete the token of another request.  An overrun *)
(* makes at most one stray; a release that deletes another request's token *)
(* makes that request a stray and stops being one itself.                  *)
(***************************************************************************)
Stray(r) ==
    \/ Inside(r) /\ redis[KeyOf[r]] # r
    \/ /\ phase[r] = "releasing" /\ redis[KeyOf[r]] = carried[r]
       /\ carried[r] \notin {r, NoToken}

Strays == {r \in Requests : Stray(r)}

StraysBounded == IsFiniteSet(Strays) /\ Cardinality(Strays) <= overruns

\* Strays change as described.
LEMMA StraysStep ==
    ASSUME LockTypeOK, TokenHome, [LockNext]_lockVars
    PROVE  \/ Strays' \subseteq Strays
           \/ \E q : Strays' \subseteq Strays \union {q} /\ overruns' = overruns + 1
           \/ \E r \in Strays : \E q : Strays' \subseteq (Strays \ {r}) \union {q}
<1> USE LockAssumption DEF LockTypeOK, Token, Phase, Stray
<1>1. ASSUME NEW r \in Requests, SetNX(r) \/ SetNXFault(r)
      PROVE  Strays' \subseteq Strays
  <2> SUFFICES ASSUME NEW s \in Requests, Stray(s)'
               PROVE  Stray(s)
    BY DEF Strays
  <2>1. carried[s] # r
    BY <1>1 DEF SetNX, SetNXFault, TokenHome
  <2>2. QED
    BY <1>1, <2>1 DEF SetNX, SetNXFault, Inside
<1>2. ASSUME NEW r \in Requests, SetNXRefused(r) \/ Store(r) \/ ReleaseFault(r)
      PROVE  Strays' \subseteq Strays
  BY <1>2 DEF SetNXRefused, Store, ReleaseFault, Inside, Strays
<1>3. ASSUME NEW r \in Requests, LoadAndDelete(r)
      PROVE  Strays' \subseteq Strays
  BY <1>3 DEF LoadAndDelete, Inside, Strays
<1>4. ASSUME NEW r \in Requests, CompareAndDelete(r)
      PROVE  \/ Strays' \subseteq Strays
             \/ r \in Strays /\ \E q : Strays' \subseteq (Strays \ {r}) \union {q}
  <2>1. CASE Stray(r)
    <3>1. Strays' \subseteq (Strays \ {r}) \union {carried[r]}
      BY <1>4, <2>1 DEF CompareAndDelete, Inside, Strays
    <3>2. QED
      BY <2>1, <3>1 DEF Strays
  <2>2. CASE ~Stray(r)
    BY <1>4, <2>2 DEF CompareAndDelete, Inside, Strays
  <2>3. QED
    BY <2>1, <2>2
<1>5. ASSUME NEW k \in Keys, Expire(k)
      PROVE  \/ Strays' \subseteq Strays
             \/ \E q : Strays' \subseteq Strays \union {q} /\ overruns' = overruns + 1
  <2>1. CASE Live(redis[k])
    <3>1. Strays' \subseteq Strays \union {redis[k]} /\ overruns' = overruns + 1
      BY <1>5, <2>1 DEF Expire, Inside, Strays
    <3>2. QED
      BY <3>1
  <2>2. CASE ~Live(redis[k])
    BY <1>5, <2>2 DEF Expire, Inside, Live, Strays
  <2>3. QED
    BY <2>1, <2>2
<1>6. ASSUME NEW p \in Procs, Crash(p)
      PROVE  Strays' \subseteq Strays
  BY <1>6 DEF Crash, Dies, Live, Inside, Strays
<1>7. CASE OtherFault \/ UNCHANGED lockVars
  BY <1>7 DEF OtherFault, lockVars, Inside, Strays
<1>8. QED
  BY <1>1, <1>2, <1>3, <1>4, <1>5, <1>6, <1>7 DEF LockNext, AcquireStep, ReleaseStep

\* There are never more strays than overruns.
LEMMA StraysInvariant == LockSafety => []StraysBounded
<1>1. LockInit => StraysBounded
  <2> SUFFICES ASSUME LockInit
               PROVE  StraysBounded
    OBVIOUS
  <2>1. Strays = {}
    BY DEF LockInit, Strays, Stray, Inside
  <2>2. QED
    BY <2>1, FS_EmptySet DEF StraysBounded, LockInit
<1>2. LockTypeOK /\ TokenHome /\ StraysBounded /\ [LockNext]_lockVars => StraysBounded'
  <2> SUFFICES ASSUME LockTypeOK, TokenHome, StraysBounded, [LockNext]_lockVars
               PROVE  StraysBounded'
    OBVIOUS
  <2> DEFINE S == Strays
             T == Strays'
  <2>0. /\ overruns \in Nat /\ overruns' \in {overruns, overruns + 1}
        /\ IsFiniteSet(S) /\ Cardinality(S) \in Nat /\ Cardinality(S) <= overruns
    BY OverrunsGrow, FS_CardinalityType DEF LockTypeOK, StraysBounded
  <2>s. SUFFICES IsFiniteSet(T) /\ Cardinality(T) <= overruns'
    BY DEF StraysBounded
  <2>1. CASE T \subseteq S
    <3>1. IsFiniteSet(T) /\ Cardinality(T) <= overruns
      BY <2>0, <2>1, SubsetBound
    <3>2. Cardinality(T) \in Nat
      BY <3>1, FS_CardinalityType
    <3>3. QED
      BY <2>0, <3>1, <3>2
  <2>2. ASSUME NEW q, T \subseteq S \union {q}, overruns' = overruns + 1
        PROVE  IsFiniteSet(T) /\ Cardinality(T) <= overruns'
    BY <2>0, <2>2, ElementBound
  <2>3. ASSUME NEW r \in S, NEW q, T \subseteq (S \ {r}) \union {q}
        PROVE  IsFiniteSet(T) /\ Cardinality(T) <= overruns'
    <3>1. IsFiniteSet(S \ {r}) /\ Cardinality(S \ {r}) = Cardinality(S) - 1
      BY <2>0, FS_RemoveElement
    <3>2. Cardinality(S \ {r}) \in Nat
      BY <3>1, FS_CardinalityType
    <3>3. overruns - 1 \in Nat /\ Cardinality(S \ {r}) <= overruns - 1
      BY <2>0, <3>1, <3>2
    <3>4. IsFiniteSet(T) /\ Cardinality(T) <= (overruns - 1) + 1
      BY <2>3, <3>1, <3>3, ElementBound
    <3>5. Cardinality(T) \in Nat
      BY <3>4, FS_CardinalityType
    <3>6. QED
      BY <2>0, <3>4, <3>5
  <2>4. QED
    BY <2>1, <2>2, <2>3, StraysStep
<1>3. QED
  BY <1>1, <1>2, TokenHomeInvariant, LockTypeCorrect, PTL DEF LockSafety

InsideOn(k) == {r \in Requests : KeyOf[r] = k /\ Inside(r)}

\* On one key at most one request is inside, and one more for each overrun.
InsideBounded ==
    \A k \in Keys : IsFiniteSet(InsideOn(k)) /\ Cardinality(InsideOn(k)) <= overruns + 1

\* Mutual exclusion degrades by one request with each lock that outlives its
\* TTL, and by no more, although a late release may delete a lock it does not own.
THEOREM InsideBoundedHolds == LockSafety => []InsideBounded
<1>1. LockTypeOK /\ StraysBounded => InsideBounded
  <2> SUFFICES ASSUME LockTypeOK, StraysBounded, NEW k \in Keys
               PROVE  IsFiniteSet(InsideOn(k)) /\ Cardinality(InsideOn(k)) <= overruns + 1
    BY DEF InsideBounded
  <2>0. overruns \in Nat /\ IsFiniteSet(Strays) /\ Cardinality(Strays) <= overruns
    BY DEF LockTypeOK, StraysBounded
  <2>1. InsideOn(k) \subseteq Strays \union {redis[k]}
    BY DEF InsideOn, Strays, Stray
  <2>2. QED
    BY <2>0, <2>1, ElementBound
<1>2. QED
  BY <1>1, StraysInvariant, LockTypeCorrect, PTL

\* Over all keys at most one request each is inside, and one more for each overrun.
LEMMA AllInsideBounded ==
    ASSUME LockTypeOK, StraysBounded, IsFiniteSet(Keys)
    PROVE  LET all == {r \in Requests : Inside(r)}
           IN  IsFiniteSet(all) /\ Cardinality(all) <= Cardinality(Keys) + overruns
<1> DEFINE all == {r \in Requests : Inside(r)}
           owners == {redis[k] : k \in Keys}
<1>0. overruns \in Nat /\ IsFiniteSet(Strays) /\ Cardinality(Strays) <= overruns
  BY DEF LockTypeOK, StraysBounded
<1>1. all \subseteq Strays \union owners
  BY LockAssumption DEF Strays, Stray
<1>2. IsFiniteSet(owners) /\ Cardinality(owners) <= Cardinality(Keys)
  <2>1. redis \in Surjection(Keys, owners)
    BY DEF LockTypeOK, Surjection
  <2>2. QED
    BY <2>1, FS_Surjection
<1>3. Cardinality(Keys) \in Nat
  BY FS_CardinalityType
<1>4. IsFiniteSet(all) /\ Cardinality(all) <= overruns + Cardinality(Keys)
  <2> HIDE DEF all, owners
  <2>1. QED
    BY <1>0, <1>1, <1>2, <1>3, UnionBound
<1>5. QED
  BY <1>0, <1>3, <1>4, FS_CardinalityType

-----------------------------------------------------------------------------
(***************************************************************************)
(* The refinement.  When MaxOverruns = 0 an acquisition enters only when   *)
(* nobody is inside, because the holder's token is still in Redis.         *)
(***************************************************************************)
LEMMA LockUsersInit == LockInit => M!Init
  BY DEF LockInit, M!Init, LockUsers, Inside

\* Every step of the lock is a step of the abstract mutex or a stutter.
LEMMA LockUsersStep ==
    ASSUME MaxOverruns = 0, LockTypeOK, Ownership, [LockNext]_lockVars
    PROVE  [M!Next]_LockUsers
<1> USE LockAssumption DEF LockTypeOK, Token, Phase
<1>a. \A r \in Requests : Owns(r)
  BY DEF Ownership
<1>1. ASSUME NEW r \in Requests, SetNX(r)
      PROVE  [M!Next]_LockUsers
  <2>1. LockUsers[KeyOf[r]] = {}
    BY <1>1, <1>a DEF SetNX, LockUsers, Inside, Owns, Live
  <2>2. LockUsers' = [LockUsers EXCEPT ![KeyOf[r]] = {r}]
    <3>1. phase' = [phase EXCEPT ![r] = "claimed"] /\ KeyOf[r] \in Keys
      BY <1>1 DEF SetNX
    <3>2. \A k \in Keys : k # KeyOf[r] => LockUsers'[k] = LockUsers[k]
      BY <3>1 DEF LockUsers, Inside
    <3>3. LockUsers'[KeyOf[r]] = {r}
      BY <3>1, <2>1 DEF LockUsers, Inside
    <3>4. QED
      BY <3>1, <3>2, <3>3 DEF LockUsers
  <2>3. M!Enter(KeyOf[r], r)
    BY <2>1, <2>2 DEF M!Enter
  <2>4. QED
    BY <2>3 DEF M!Next
<1>2. ASSUME NEW r \in Requests,
             \/ SetNXRefused(r) \/ SetNXFault(r) \/ Store(r)
             \/ CompareAndDelete(r) \/ ReleaseFault(r)
      PROVE  LockUsers' = LockUsers
  <2>1. \A q \in Requests : Inside(q)' = Inside(q)
    BY <1>2 DEF SetNXRefused, SetNXFault, Store, CompareAndDelete, ReleaseFault, Inside
  <2>2. QED
    BY <2>1 DEF LockUsers
<1>3. ASSUME NEW r \in Requests, LoadAndDelete(r)
      PROVE  [M!Next]_LockUsers
  <2>1. LockUsers' = [k \in Keys |-> LockUsers[k] \ {r}]
    BY <1>3 DEF LoadAndDelete, LockUsers, Inside
  <2>2. M!Leave({r})
    BY <2>1 DEF M!Leave
  <2>3. QED
    BY <2>2 DEF M!Next
<1>4. ASSUME NEW k \in Keys, Expire(k)
      PROVE  LockUsers' = LockUsers
  BY <1>4 DEF Expire, LockUsers, Inside
<1>5. ASSUME NEW p \in Procs, Crash(p)
      PROVE  [M!Next]_LockUsers
  <2> DEFINE dead == {r \in Requests : Dies(p, r)}
  <2>1. LockUsers' = [k \in Keys |-> LockUsers[k] \ dead]
    BY <1>5 DEF Crash, Dies, LockUsers, Inside, Live
  <2>2. M!Leave(dead)
    BY <2>1 DEF M!Leave
  <2>3. QED
    BY <2>2 DEF M!Next
<1>6. CASE OtherFault \/ UNCHANGED lockVars
  BY <1>6 DEF OtherFault, lockVars, LockUsers, Inside
<1>7. QED
  BY <1>1, <1>2, <1>3, <1>4, <1>5, <1>6 DEF LockNext, AcquireStep, ReleaseStep

\* As long as no lock outlives its TTL, the Redis lock implements Mutex.
THEOREM LockImplementsMutex ==
    ASSUME MaxOverruns = 0
    PROVE  LockSafety => ImplementsMutex
<1>1. LockInit => M!Init
  BY LockUsersInit
<1>2. LockTypeOK /\ Ownership /\ [LockNext]_lockVars => [M!Next]_LockUsers
  BY LockUsersStep
<1>3. QED
  BY <1>1, <1>2, OwnershipInvariant, LockTypeCorrect, PTL
     DEF LockSafety, ImplementsMutex, M!Spec
=============================================================================
