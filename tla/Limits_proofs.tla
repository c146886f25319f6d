----------------------------- MODULE Limits_proofs -----------------------------
(***************************************************************************)
(* Proofs about what is counted in Redis: RateLimits, for any number of    *)
(* requests, addresses, senders and faults and for any limit and cap, and  *)
(* GeminiBudget, for any number of submissions and days and any budget.    *)
(***************************************************************************)
EXTENDS RateLimits, GeminiBudget, FiniteSetTheorems, TLAPS

LEMMA LimitTypeInit == LimitInit => LimitTypeOK
<1> SUFFICES ASSUME LimitInit PROVE LimitTypeOK
  OBVIOUS
<1>1. cooldown \in BOOLEAN
  BY Zenon DEF LimitInit
<1>2. QED
  BY <1>1, LimiterAssumption DEF LimitInit, LimitTypeOK, GateStep, SenderStep

LEMMA LimitTypeStep == LimitTypeOK /\ [LimitNext]_limitVars => LimitTypeOK'
<1> SUFFICES ASSUME LimitTypeOK, [LimitNext]_limitVars
             PROVE  LimitTypeOK'
  OBVIOUS
<1> USE LimiterAssumption DEF LimitTypeOK, GateStep, SenderStep, LimitFault, GateGoto,
        SenderGoto
<1>1. ASSUME NEW r \in Requests, Incr(r), UNCHANGED otpLimitVars
      PROVE  LimitTypeOK'
  BY <1>1 DEF Incr, otpLimitVars
<1>2. ASSUME NEW r \in Requests, IncrFails(r), UNCHANGED otpLimitVars
      PROVE  LimitTypeOK'
  BY <1>2 DEF IncrFails, otpLimitVars
<1>3. ASSUME NEW r \in Requests, OpenWindow(r), UNCHANGED otpLimitVars
      PROVE  LimitTypeOK'
  BY <1>3 DEF OpenWindow, otpLimitVars
<1>4. ASSUME NEW r \in Requests, OpenWindowFails(r), UNCHANGED otpLimitVars
      PROVE  LimitTypeOK'
  BY <1>4 DEF OpenWindowFails, otpLimitVars
<1>5. ASSUME NEW a \in Addresses, WindowEnds(a), UNCHANGED otpLimitVars
      PROVE  LimitTypeOK'
  BY <1>5 DEF WindowEnds, otpLimitVars
<1>6. ASSUME NEW s \in Senders, UNCHANGED ipVars,
             CheckCooldown(s) \/ CheckDaily(s) \/ GiveUp(s)
      PROVE  LimitTypeOK'
  BY <1>6 DEF CheckCooldown, CheckDaily, GiveUp, ipVars
<1>7. ASSUME NEW s \in Senders, UNCHANGED ipVars,
             CreateToken(s) \/ SetCooldown(s) \/ SetCooldownFails(s)
      PROVE  LimitTypeOK'
  <2>1. cooldown' \in BOOLEAN
    BY <1>7, Zenon DEF CreateToken, SetCooldown, SetCooldownFails
  <2>2. /\ SenderGoto(s, "created") \/ SenderGoto(s, "idle")
        /\ sent' = sent \/ sent' = sent + 1
        /\ daily' = daily \/ daily' = daily + 1
        /\ uncounted' = uncounted \/ uncounted' = uncounted + 1
        /\ limitFaults' = limitFaults \/ LimitFault
    BY <1>7, Zenon DEF CreateToken, SetCooldown, SetCooldownFails
  <2>3. QED
    BY <1>7, <2>1, <2>2 DEF ipVars
<1>8. CASE (CooldownEnds \/ DayEnds) /\ UNCHANGED ipVars
  <2>1. /\ cooldown' \in BOOLEAN
        /\ UNCHANGED <<sender, uncounted, limitFaults>>
        /\ UNCHANGED <<daily, sent>> \/ (daily' = 0 /\ sent' = 0)
    BY <1>8, Zenon DEF CooldownEnds, DayEnds
  <2>2. QED
    BY <1>8, <2>1 DEF ipVars
<1>9. CASE UNCHANGED limitVars
  BY <1>9 DEF limitVars, ipVars, otpLimitVars
<1>10. QED
  BY <1>1, <1>2, <1>3, <1>4, <1>5, <1>6, <1>7, <1>8, <1>9
     DEF LimitNext, IpStep, OtpStep

\* Type correctness of both limiters.
THEOREM LimitTypeCorrect == LimitSpec => []LimitTypeOK
<1>1. QED
  BY LimitTypeInit, LimitTypeStep, PTL DEF LimitSpec

-----------------------------------------------------------------------------
(***************************************************************************)
(* Where the end of a window comes from: a counter that counts has a TTL,  *)
(* or the request that counted to one is about to set it, or an EXPIRE was *)
(* lost.  It is what makes the liveness of the windows a matter of         *)
(* scheduling alone.                                                       *)
(***************************************************************************)
WindowOwed ==
    \A a \in Addresses : count[a] > 0 =>
        \/ a \in window \cup unbounded
        \/ \E r \in Requests : gate[r] = "first" /\ AddressOf[r] = a

\* A counter without a TTL and without a request that will set one has lost
\* an EXPIRE: nothing else in Allow locks an address out for good.
THEOREM OnlyLostExpireLocksOut == LimitSpec => []WindowOwed
<1>1. LimitInit => WindowOwed
  BY DEF LimitInit, WindowOwed
<1>2. LimitTypeOK /\ WindowOwed /\ [LimitNext]_limitVars => WindowOwed'
  <2> SUFFICES ASSUME LimitTypeOK, WindowOwed, [LimitNext]_limitVars
               PROVE  WindowOwed'
    OBVIOUS
  <2> USE LimiterAssumption DEF LimitTypeOK, GateStep, GateGoto, WindowOwed
  <2>1. ASSUME NEW r \in Requests, Incr(r)
        PROVE  WindowOwed'
    <3> SUFFICES ASSUME NEW a \in Addresses, count'[a] > 0
                 PROVE  \/ a \in window' \cup unbounded'
                        \/ \E q \in Requests : gate'[q] = "first" /\ AddressOf[q] = a
      OBVIOUS
    <3>1. CASE a = AddressOf[r] /\ count[a] = 0
      BY <2>1, <3>1 DEF Incr
    <3>2. CASE a # AddressOf[r] \/ count[a] > 0
      BY <2>1, <3>2 DEF Incr
    <3>3. QED
      BY <3>1, <3>2
  <2>2. ASSUME NEW r \in Requests, IncrFails(r)
        PROVE  WindowOwed'
    BY <2>2 DEF IncrFails
  <2>3. ASSUME NEW r \in Requests, OpenWindow(r) \/ OpenWindowFails(r)
        PROVE  WindowOwed'
    BY <2>3 DEF OpenWindow, OpenWindowFails
  <2>4. ASSUME NEW a \in Addresses, WindowEnds(a)
        PROVE  WindowOwed'
    BY <2>4 DEF WindowEnds
  <2>5. CASE UNCHANGED ipVars
    BY <2>5 DEF ipVars
  <2>6. QED
    BY <2>1, <2>2, <2>3, <2>4, <2>5 DEF LimitNext, IpStep, limitVars
<1>3. QED
  BY <1>1, <1>2, LimitTypeCorrect, PTL DEF LimitSpec

-----------------------------------------------------------------------------
(***************************************************************************)
(* The bound on the codes of a day.  A code is counted by the daily        *)
(* counter, or its call is between CreateToken and SetCooldown, or the     *)
(* counter never heard of it; and a call only comes to be under way while  *)
(* the counter is below the cap.                                           *)
(***************************************************************************)
Creating == {s \in Senders : sender[s] = "created"}
UnderWay == {s \in Senders : sender[s] \in {"checked", "created"}}

EveryCodeHasACall == sent <= daily + Cardinality(Creating) + uncounted
CapOfCalls == daily + Cardinality(UnderWay) <= OtpCap - 1 + Cardinality(Senders)

\* What a step that moves one sender does to the size of a set of senders.
LEMMA SenderSets ==
  ASSUME NEW S, NEW T, S \subseteq Senders, T \subseteq Senders
  PROVE  /\ Cardinality(S) \in Nat /\ Cardinality(Senders) \in Nat
         /\ Cardinality(S) <= Cardinality(Senders)
         /\ S \subseteq T => Cardinality(S) <= Cardinality(T)
         /\ \A s \in T : S = T \ {s} => Cardinality(S) = Cardinality(T) - 1
         /\ \A s : s \notin T /\ S = T \cup {s} => Cardinality(S) = Cardinality(T) + 1
<1>1. IsFiniteSet(S) /\ IsFiniteSet(T) /\ IsFiniteSet(Senders)
  BY LimiterAssumption, FS_Subset
<1>2. Cardinality(S) \in Nat /\ Cardinality(T) \in Nat /\ Cardinality(Senders) \in Nat
  BY <1>1, FS_CardinalityType
<1>3. Cardinality(S) <= Cardinality(Senders)
  BY <1>1, FS_Subset
<1>4. S \subseteq T => Cardinality(S) <= Cardinality(T)
  BY <1>1, FS_Subset
<1>5. \A s \in T : S = T \ {s} => Cardinality(S) = Cardinality(T) - 1
  BY <1>1, FS_RemoveElement
<1>6. \A s : s \notin T /\ S = T \cup {s} => Cardinality(S) = Cardinality(T) + 1
  BY <1>1, FS_AddElement
<1>7. QED
  BY <1>2, <1>3, <1>4, <1>5, <1>6

LEMMA SendsInductive ==
  ASSUME LimitTypeOK, EveryCodeHasACall, CapOfCalls, [LimitNext]_limitVars
  PROVE  EveryCodeHasACall' /\ CapOfCalls'
<1> DEFINE C == Cardinality(Creating)
           U == Cardinality(UnderWay)
           N == Cardinality(Senders)
<1> USE LimiterAssumption DEF LimitTypeOK
<1>1. /\ Creating \subseteq Senders /\ UnderWay \subseteq Senders
      /\ Creating' \subseteq Senders /\ UnderWay' \subseteq Senders
  BY DEF Creating, UnderWay
<1>2. /\ C \in Nat /\ U \in Nat /\ C' \in Nat /\ U' \in Nat /\ N \in Nat
      /\ U <= N /\ U' <= N
  BY <1>1, SenderSets
<1>3. LimitTypeOK'
  BY LimitTypeStep
<1>4. ASSUME NEW s \in Senders, CheckCooldown(s)
      PROVE  EveryCodeHasACall' /\ CapOfCalls'
  <2>1. Creating' = Creating /\ UnderWay' = UnderWay
    BY <1>4 DEF CheckCooldown, SenderGoto, Creating, UnderWay
  <2>2. UNCHANGED <<daily, sent, uncounted>>
    BY <1>4 DEF CheckCooldown
  <2>3. QED
    BY <2>1, <2>2 DEF EveryCodeHasACall, CapOfCalls
<1>5. ASSUME NEW s \in Senders, CheckDaily(s)
      PROVE  EveryCodeHasACall' /\ CapOfCalls'
  <2>1. sender[s] = "cool" /\ UNCHANGED <<daily, sent, uncounted>>
    BY <1>5 DEF CheckDaily
  <2>2. CASE daily >= OtpCap /\ SenderGoto(s, "idle")
    <3>1. Creating' = Creating /\ UnderWay' = UnderWay
      BY <2>1, <2>2 DEF SenderGoto, Creating, UnderWay
    <3>2. QED
      BY <2>1, <3>1 DEF EveryCodeHasACall, CapOfCalls
  <2>3. CASE daily < OtpCap /\ SenderGoto(s, "checked")
    <3>1. Creating' = Creating
      BY <2>1, <2>3 DEF SenderGoto, Creating
    <3>2. daily' + U' <= OtpCap - 1 + N
      BY <1>2, <2>1, <2>3
    <3>3. QED
      BY <2>1, <3>1, <3>2 DEF EveryCodeHasACall, CapOfCalls
  <2>4. QED
    BY <1>5, <2>2, <2>3 DEF CheckDaily
<1>6. ASSUME NEW s \in Senders, GiveUp(s)
      PROVE  EveryCodeHasACall' /\ CapOfCalls'
  <2>1. Creating' = Creating /\ UnderWay' \subseteq UnderWay
    BY <1>6 DEF GiveUp, SenderGoto, Creating, UnderWay
  <2>2. U' <= U
    BY <1>1, <2>1, SenderSets
  <2>3. UNCHANGED <<daily, sent, uncounted>>
    BY <1>6 DEF GiveUp
  <2>4. QED
    BY <1>2, <2>1, <2>2, <2>3 DEF EveryCodeHasACall, CapOfCalls
<1>7. ASSUME NEW s \in Senders, CreateToken(s)
      PROVE  EveryCodeHasACall' /\ CapOfCalls'
  <2>1. /\ s \notin Creating /\ Creating' = Creating \cup {s}
        /\ UnderWay' = UnderWay
    BY <1>7 DEF CreateToken, SenderGoto, Creating, UnderWay
  <2>2. C' = C + 1
    BY <1>1, <2>1, SenderSets
  <2>3. sent' = sent + 1 /\ UNCHANGED <<daily, uncounted>>
    BY <1>7 DEF CreateToken
  <2>4. QED
    BY <1>2, <2>1, <2>2, <2>3 DEF EveryCodeHasACall, CapOfCalls
<1>8. ASSUME NEW s \in Senders, SetCooldown(s) \/ SetCooldownFails(s)
      PROVE  EveryCodeHasACall' /\ CapOfCalls'
  <2>1. /\ s \in Creating /\ Creating' = Creating \ {s}
        /\ s \in UnderWay /\ UnderWay' = UnderWay \ {s}
    BY <1>8 DEF SetCooldown, SetCooldownFails, SenderGoto, Creating, UnderWay
  <2>2. C' = C - 1 /\ U' = U - 1
    BY <1>1, <2>1, SenderSets
  <2>3. /\ sent' = sent
        /\ \/ daily' = daily + 1 /\ uncounted' = uncounted
           \/ daily' = daily /\ uncounted' = uncounted + 1
    BY <1>8 DEF SetCooldown, SetCooldownFails
  <2>4. QED
    BY <1>2, <2>2, <2>3 DEF EveryCodeHasACall, CapOfCalls
<1>9. CASE DayEnds
  <2>1. daily' = 0 /\ sent' = 0 /\ UNCHANGED <<sender, uncounted>>
    BY <1>9 DEF DayEnds
  <2>2. Creating' = Creating /\ UnderWay' = UnderWay
    BY <2>1 DEF Creating, UnderWay
  <2>3. QED
    BY <1>2, <2>1, <2>2 DEF EveryCodeHasACall, CapOfCalls
<1>10. CASE UNCHANGED <<sender, daily, sent, uncounted>>
  BY <1>10 DEF EveryCodeHasACall, CapOfCalls, Creating, UnderWay
<1>11. QED
  BY <1>4, <1>5, <1>6, <1>7, <1>8, <1>9, <1>10
     DEF LimitNext, OtpStep, CooldownEnds, limitVars, otpLimitVars

\* ResendEmailOTP and ForgotPassword send at most otpDailyCapCount codes in
\* the life of a daily counter, but for the calls under way beside each other
\* and the sends the counter never heard of.
THEOREM OtpSendsAreBounded == LimitSpec => []OtpSendsBounded
<1> DEFINE Inv == LimitTypeOK /\ EveryCodeHasACall /\ CapOfCalls
<1>1. LimitInit => Inv
  <2> SUFFICES ASSUME LimitInit PROVE Inv
    OBVIOUS
  <2>1. Creating = {} /\ UnderWay = {} /\ daily = 0 /\ sent = 0 /\ uncounted = 0
    BY DEF LimitInit, Creating, UnderWay
  <2>2. Cardinality({}) = 0 /\ Cardinality(Senders) \in Nat
    BY LimiterAssumption, FS_EmptySet, FS_CardinalityType
  <2>3. QED
    BY <2>1, <2>2, LimitTypeInit, LimiterAssumption DEF EveryCodeHasACall, CapOfCalls
<1>2. Inv /\ [LimitNext]_limitVars => Inv'
  BY LimitTypeStep, SendsInductive
<1>3. Inv => OtpSendsBounded
  <2> SUFFICES ASSUME Inv PROVE OtpSendsBounded
    OBVIOUS
  <2>1. Creating \subseteq UnderWay /\ UnderWay \subseteq Senders
    BY DEF Creating, UnderWay
  <2>2. Cardinality(Creating) <= Cardinality(UnderWay)
    BY <2>1, SenderSets
  <2>3. /\ Cardinality(Creating) \in Nat /\ Cardinality(UnderWay) \in Nat
        /\ Cardinality(Senders) \in Nat
    BY <2>1, SenderSets
  <2>4. QED
    BY <2>2, <2>3, LimiterAssumption
       DEF EveryCodeHasACall, CapOfCalls, OtpSendsBounded, LimitTypeOK
<1>4. QED
  BY <1>1, <1>2, <1>3, PTL DEF LimitSpec

-----------------------------------------------------------------------------
(***************************************************************************)
(* The token budget.  INCRBY is atomic, so the intervals that the Consumes *)
(* of a day read off the counter do not overlap and leave no gap: they     *)
(* tile what was used.  A line is therefore crossed by exactly one of      *)
(* them, which logs it unless it is among the silent ones.                 *)
(***************************************************************************)
Interval == [day: 1 .. LastDay, before: Nat, after: Nat]

BudgetTypeOK ==
    /\ today \in 1 .. LastDay
    /\ used \in [1 .. LastDay -> Nat]
    /\ spender \in [Spenders -> SpenderStep]
    /\ added \in [Spenders -> Interval]
    /\ logs \in [1 .. LastDay -> [Lines -> Nat]]
    /\ silent \subseteq Spenders

\* s added tokens to the counter of day d.
Spent(s, d) ==
    /\ spender[s] \in {"added", "done"}
    /\ added[s].day = d /\ added[s].before < added[s].after

SpentBeforeLog ==
    \A s \in Spenders : spender[s] = "added" => added[s].before < added[s].after

NothingYet ==
    \A s \in Spenders : spender[s] \in {"idle", "calling"} => added[s].after = 0

\* Redis adds one Consume after the other.
Disjoint ==
    \A d \in 1 .. LastDay : \A s, q \in Spenders :
        s # q /\ Spent(s, d) /\ Spent(q, d) =>
            \/ added[s].after <= added[q].before
            \/ added[q].after <= added[s].before

WithinCounter ==
    \A d \in 1 .. LastDay, s \in Spenders : Spent(s, d) => added[s].after <= used[d]

NoGap ==
    \A d \in 1 .. LastDay, n \in Nat : n < used[d] =>
        \E s \in Spenders : Spent(s, d) /\ added[s].before <= n /\ n < added[s].after

LinesAreCrossings ==
    \A d \in 1 .. LastDay, l \in Lines :
        /\ logs[d][l] <= 1
        /\ logs[d][l] = 1 =>
              \E s \in Spenders : /\ spender[s] = "done" /\ Spent(s, d)
                                  /\ Crossed(l, added[s])

CrossingsAreLogged ==
    \A d \in 1 .. LastDay, s \in Spenders \ silent, l \in Lines :
        spender[s] = "done" /\ Spent(s, d) /\ Crossed(l, added[s]) => logs[d][l] = 1

BudgetIInv ==
    /\ BudgetTypeOK /\ SpentBeforeLog /\ NothingYet /\ Disjoint /\ WithinCounter /\ NoGap
    /\ LinesAreCrossings /\ CrossingsAreLogged

LEMMA WarnAtType == WarnAt \in Nat
  BY BudgetAssumption DEF WarnAt

LEMMA BudgetInitially == BudgetInit => BudgetIInv
<1> SUFFICES ASSUME BudgetInit PROVE BudgetIInv
  OBVIOUS
<1>1. BudgetTypeOK
  BY BudgetAssumption DEF BudgetInit, BudgetTypeOK, Interval, NoTokens, SpenderStep
<1>2. SpentBeforeLog /\ NothingYet /\ Disjoint /\ WithinCounter /\ NoGap
  BY DEF BudgetInit, SpentBeforeLog, NothingYet, Disjoint, WithinCounter, NoGap, Spent, NoTokens
<1>3. LinesAreCrossings /\ CrossingsAreLogged
  BY DEF BudgetInit, LinesAreCrossings, CrossingsAreLogged, Spent, NoTokens
<1>4. QED
  BY <1>1, <1>2, <1>3 DEF BudgetIInv

\* Two Consumes of a day never cross the same line.
LEMMA OneCrossing ==
  ASSUME BudgetTypeOK, Disjoint, NEW d \in 1 .. LastDay, NEW l \in Lines,
         NEW s \in Spenders, NEW q \in Spenders, Spent(s, d), Spent(q, d),
         Crossed(l, added[s]), Crossed(l, added[q])
  PROVE  s = q
<1>1. added[s] \in Interval /\ added[q] \in Interval
  BY DEF BudgetTypeOK
<1>2. CASE l = "80%"
  BY <1>1, <1>2, WarnAtType DEF Crossed, Disjoint, Interval
<1>3. CASE l = "exhausted"
  BY <1>1, <1>3, BudgetAssumption DEF Crossed, Disjoint, Interval
<1>4. QED
  BY <1>2, <1>3 DEF Lines

LEMMA BudgetInductive == BudgetIInv /\ [BudgetNext]_budgetVars => BudgetIInv'
<1> SUFFICES ASSUME BudgetIInv, [BudgetNext]_budgetVars
             PROVE  BudgetIInv'
  OBVIOUS
<1> USE BudgetAssumption DEF BudgetIInv, BudgetTypeOK, SpenderGoto, SpenderStep
<1>1. ASSUME NEW s \in Spenders, Exceeded(s) \/ SpendsNothing(s)
      PROVE  BudgetIInv'
  <2>1. /\ spender[s] \in {"idle", "calling"}
        /\ spender' = [spender EXCEPT ![s] = "calling"]
           \/ spender' = [spender EXCEPT ![s] = "done"]
        /\ UNCHANGED <<today, used, added, logs, silent>>
    BY <1>1 DEF Exceeded, SpendsNothing
  <2>2. added[s].after = 0 /\ added[s].before \in Nat
    BY <2>1 DEF NothingYet, Interval
  <2>3. \A q \in Spenders, d \in 1 .. LastDay : Spent(q, d)' <=> Spent(q, d)
    BY <2>1, <2>2 DEF Spent
  <2>4. BudgetTypeOK' /\ SpentBeforeLog' /\ NothingYet'
    BY <2>1, <2>2 DEF SpentBeforeLog, NothingYet
  <2>5. Disjoint' /\ WithinCounter' /\ NoGap'
    BY <2>1, <2>3 DEF Disjoint, WithinCounter, NoGap
  <2>6. LinesAreCrossings'
    BY <2>1, <2>3 DEF LinesAreCrossings
  <2>7. CrossingsAreLogged'
    BY <2>1, <2>2, <2>3 DEF CrossingsAreLogged, Spent
  <2>8. QED
    BY <2>4, <2>5, <2>6, <2>7
<1>2. ASSUME NEW s \in Spenders, IncrBy(s)
      PROVE  BudgetIInv'
  <2>1. PICK t \in Costs \ {0} :
           /\ used' = [used EXCEPT ![today] = @ + t]
           /\ added' = [added EXCEPT ![s] =
                 [day |-> today, before |-> used[today], after |-> used[today] + t]]
    BY <1>2 DEF IncrBy
  <2>2. /\ spender[s] = "calling" /\ spender' = [spender EXCEPT ![s] = "added"]
        /\ UNCHANGED <<today, logs, silent>>
    BY <1>2 DEF IncrBy
  <2>3. t \in Nat /\ t > 0 /\ used[today] \in Nat
    OBVIOUS
  <2>4. /\ added'[s] = [day |-> today, before |-> used[today], after |-> used[today] + t]
        /\ \A q \in Spenders : q # s => added'[q] = added[q] /\ spender'[q] = spender[q]
        /\ used'[today] = used[today] + t /\ spender'[s] = "added"
        /\ \A d \in 1 .. LastDay : d # today => used'[d] = used[d]
    BY <2>1, <2>2
  <2>5. BudgetTypeOK'
    <3>1. [day |-> today, before |-> used[today], after |-> used[today] + t] \in Interval
      BY <2>3 DEF Interval
    <3>2. added' \in [Spenders -> Interval]
      BY <2>1, <3>1
    <3>3. used' \in [1 .. LastDay -> Nat]
      <4>1. used[today] + t \in Nat
        BY <2>3
      <4>2. used' = [used EXCEPT ![today] = used[today] + t]
        BY <2>1
      <4>3. QED
        BY <4>1, <4>2
    <3>4. spender' \in [Spenders -> SpenderStep]
      BY <2>2
    <3>5. QED
      BY <2>2, <3>2, <3>3, <3>4
  <2>6. /\ \A q \in Spenders, d \in 1 .. LastDay : q # s => (Spent(q, d)' <=> Spent(q, d))
        /\ \A d \in 1 .. LastDay : Spent(s, d)' <=> d = today
        /\ \A d \in 1 .. LastDay : ~Spent(s, d)
    BY <2>2, <2>3, <2>4 DEF Spent
  <2>7. SpentBeforeLog' /\ NothingYet'
    BY <2>2, <2>3, <2>4 DEF SpentBeforeLog, NothingYet
  <2>8. /\ added'[s].before = used[today] /\ added'[s].after = used'[today]
        /\ \A d \in 1 .. LastDay : used[d] \in Nat /\ used'[d] \in Nat /\ used[d] <= used'[d]
        /\ \A q \in Spenders : added[q].after \in Nat /\ added[q].before \in Nat
    <3>1. used'[today] = used[today] + t /\ used[today] <= used'[today]
      BY <2>3, <2>4
    <3>2. \A d \in 1 .. LastDay : used[d] \in Nat /\ used'[d] \in Nat
      BY <2>5
    <3>3. ASSUME NEW d \in 1 .. LastDay
          PROVE  used[d] <= used'[d]
      <4>1. CASE d = today
        BY <3>1, <4>1
      <4>2. CASE d # today
        BY <3>2, <4>2, <2>4
      <4>3. QED
        BY <4>1, <4>2
    <3>4. \A q \in Spenders : added[q].after \in Nat /\ added[q].before \in Nat
      BY DEF Interval
    <3>5. QED
      BY <2>4, <3>1, <3>2, <3>3, <3>4
  <2>9. WithinCounter'
    <3> SUFFICES ASSUME NEW d \in 1 .. LastDay, NEW q \in Spenders, Spent(q, d)'
                 PROVE  added'[q].after <= used'[d]
      BY DEF WithinCounter
    <3>1. CASE q = s
      <4>1. d = today
        BY <3>1, <2>6
      <4>2. QED
        BY <3>1, <4>1, <2>8
    <3>2. CASE q # s
      <4>1. Spent(q, d) /\ added'[q] = added[q]
        BY <3>2, <2>4, <2>6
      <4>2. added[q].after <= used[d]
        BY <4>1 DEF WithinCounter
      <4>3. QED
        BY <4>1, <4>2, <2>8
    <3>3. QED
      BY <3>1, <3>2
  <2>10. Disjoint'
    <3> SUFFICES ASSUME NEW d \in 1 .. LastDay, NEW p \in Spenders, NEW q \in Spenders,
                        p # q, Spent(p, d)', Spent(q, d)'
                 PROVE  \/ added'[p].after <= added'[q].before
                        \/ added'[q].after <= added'[p].before
      BY DEF Disjoint
    <3>1. \A r \in Spenders : r # s /\ Spent(r, d)' =>
             Spent(r, d) /\ added'[r] = added[r] /\ added[r].after <= used[d]
      BY <2>4, <2>6 DEF WithinCounter
    <3>2. CASE p = s
      BY <3>1, <3>2, <2>6, <2>8
    <3>3. CASE q = s
      BY <3>1, <3>3, <2>6, <2>8
    <3>4. CASE p # s /\ q # s
      BY <3>1, <3>4 DEF Disjoint
    <3>5. QED
      BY <3>2, <3>3, <3>4
  <2>11. NoGap'
    <3> SUFFICES ASSUME NEW d \in 1 .. LastDay, NEW n \in Nat, n < used'[d]
                 PROVE  \E q \in Spenders : /\ Spent(q, d)'
                                            /\ added'[q].before <= n /\ n < added'[q].after
      BY DEF NoGap
    <3>1. CASE n < used[d]
      <4>1. PICK q \in Spenders : Spent(q, d) /\ added[q].before <= n /\ n < added[q].after
        BY <3>1 DEF NoGap
      <4>2. q # s
        BY <4>1, <2>6
      <4>3. QED
        BY <4>1, <4>2, <2>4, <2>6
    <3>2. CASE d = today /\ used[d] <= n
      <4>1. Spent(s, d)' /\ added'[s].before <= n /\ n < added'[s].after
        BY <3>2, <2>6, <2>8
      <4>2. QED
        BY <4>1
    <3>3. used[d] \in Nat /\ (d # today => used'[d] = used[d])
      BY <2>4, <2>8
    <3>4. QED
      BY <3>1, <3>2, <3>3
  <2>12. LinesAreCrossings'
    BY <2>2, <2>4, <2>6 DEF LinesAreCrossings
  <2>13. CrossingsAreLogged'
    BY <2>2, <2>4, <2>6 DEF CrossingsAreLogged
  <2>14. QED
    BY <2>5, <2>7, <2>11, <2>12, <2>13, <2>9, <2>10
<1>3. ASSUME NEW s \in Spenders, Log(s)
      PROVE  BudgetIInv'
  <2> DEFINE i == added[s]
  <2>1. /\ spender[s] = "added" /\ spender' = [spender EXCEPT ![s] = "done"]
        /\ logs' = [logs EXCEPT ![i.day] =
               [l \in Lines |-> @[l] + IF Crossed(l, i) THEN 1 ELSE 0]]
        /\ UNCHANGED <<today, used, added, silent>>
    BY <1>3 DEF Log
  <2>2. i \in Interval /\ i.day \in 1 .. LastDay /\ Spent(s, i.day)
    BY <2>1 DEF Interval, Spent, SpentBeforeLog
  <2>3. \A l \in Lines : /\ logs[i.day][l] \in Nat
                         /\ Crossed(l, i) => logs'[i.day][l] = logs[i.day][l] + 1
                         /\ ~Crossed(l, i) => logs'[i.day][l] = logs[i.day][l]
    BY <2>1, <2>2
  <2>4. \A d \in 1 .. LastDay : d # i.day => logs'[d] = logs[d]
    BY <2>1, <2>2
  <2>5. \A q \in Spenders, d \in 1 .. LastDay : Spent(q, d)' <=> Spent(q, d)
    BY <2>1 DEF Spent
  <2>6. BudgetTypeOK'
    <3>1. [l \in Lines |-> logs[i.day][l] + IF Crossed(l, i) THEN 1 ELSE 0] \in [Lines -> Nat]
      BY <2>3
    <3>2. QED
      BY <2>1, <2>2, <3>1
  <2>7. SpentBeforeLog' /\ NothingYet'
    BY <2>1 DEF SpentBeforeLog, NothingYet
  <2>8. Disjoint' /\ WithinCounter' /\ NoGap'
    BY <2>1, <2>5 DEF Disjoint, WithinCounter, NoGap
  <2>9. \A l \in Lines : Crossed(l, i) => logs[i.day][l] = 0
    <3> SUFFICES ASSUME NEW l \in Lines, Crossed(l, i), logs[i.day][l] # 0
                 PROVE  FALSE
      OBVIOUS
    <3>1. logs[i.day][l] = 1
      BY <2>2, <2>3 DEF LinesAreCrossings
    <3>2. PICK q \in Spenders : spender[q] = "done" /\ Spent(q, i.day) /\ Crossed(l, added[q])
      BY <2>2, <3>1 DEF LinesAreCrossings
    <3>3. q = s
      BY <2>2, <3>2, OneCrossing
    <3>4. QED
      BY <2>1, <3>2, <3>3
  <2>10. LinesAreCrossings'
    <3> SUFFICES ASSUME NEW d \in 1 .. LastDay, NEW l \in Lines
                 PROVE  /\ logs'[d][l] <= 1
                        /\ logs'[d][l] = 1 =>
                              \E q \in Spenders : /\ spender'[q] = "done" /\ Spent(q, d)'
                                                  /\ Crossed(l, added'[q])
      BY <2>1 DEF LinesAreCrossings, Crossed
    <3>1. CASE d = i.day /\ Crossed(l, i)
      <4>1. logs'[d][l] = 1
        BY <3>1, <2>3, <2>9
      <4>2. spender'[s] = "done" /\ Spent(s, d)' /\ Crossed(l, added'[s])
        BY <3>1, <2>1, <2>2, <2>5
      <4>3. QED
        BY <4>1, <4>2
    <3>2. CASE ~(d = i.day /\ Crossed(l, i))
      <4>1. logs'[d][l] = logs[d][l]
        BY <3>2, <2>3, <2>4
      <4>2. \A q \in Spenders : spender[q] = "done" => spender'[q] = "done"
        BY <2>1
      <4>3. QED
        BY <4>1, <4>2, <2>1, <2>5 DEF LinesAreCrossings
    <3>3. QED
      BY <3>1, <3>2
  <2>11. CrossingsAreLogged'
    <3> SUFFICES ASSUME NEW d \in 1 .. LastDay, NEW q \in Spenders, q \notin silent',
                        NEW l \in Lines, spender'[q] = "done", Spent(q, d)',
                        Crossed(l, added[q])'
                 PROVE  logs'[d][l] = 1
      BY DEF CrossingsAreLogged
    <3>0. q \notin silent /\ Spent(q, d) /\ Crossed(l, added[q])
      <4>1. added' = added /\ silent' = silent
        BY <2>1
      <4>2. Crossed(l, added[q])' <=> Crossed(l, added[q])
        BY <4>1 DEF Crossed
      <4>3. QED
        BY <4>1, <4>2, <2>5
    <3>1. CASE q = s
      <4>1. d = i.day
        BY <3>0, <3>1 DEF Spent
      <4>2. Crossed(l, i) /\ logs[i.day][l] = 0
        BY <3>0, <3>1, <2>9
      <4>3. QED
        BY <4>1, <4>2, <2>3
    <3>2. CASE q # s
      <4>1. spender[q] = "done"
        BY <3>2, <2>1
      <4>2. logs[d][l] = 1
        BY <3>0, <4>1 DEF CrossingsAreLogged
      <4>3. ~(d = i.day /\ Crossed(l, i))
        <5>1. d = i.day /\ Crossed(l, i) => logs[d][l] = 0
          BY Zenon, <2>9
        <5>2. QED
          BY <4>2, <5>1
      <4>4. QED
        BY <4>2, <4>3, <2>3, <2>4
    <3>3. QED
      BY <3>1, <3>2
  <2>12. QED
    BY <2>6, <2>7, <2>8, <2>10, <2>11
<1>4. ASSUME NEW s \in Spenders, NotLogged(s)
      PROVE  BudgetIInv'
  <2>1. /\ spender[s] = "added" /\ spender' = [spender EXCEPT ![s] = "done"]
        /\ silent' = silent \cup {s}
        /\ UNCHANGED <<today, used, added, logs>>
    BY <1>4 DEF NotLogged
  <2>4. \A q \in Spenders, d \in 1 .. LastDay : Spent(q, d)' <=> Spent(q, d)
    BY <2>1 DEF Spent
  <2>5. BudgetTypeOK' /\ SpentBeforeLog' /\ NothingYet'
    BY <2>1 DEF SpentBeforeLog, NothingYet
  <2>6. Disjoint' /\ WithinCounter' /\ NoGap'
    BY <2>1, <2>4 DEF Disjoint, WithinCounter, NoGap
  <2>7. LinesAreCrossings'
    BY <2>1, <2>4 DEF LinesAreCrossings
  <2>8. CrossingsAreLogged'
    BY <2>1, <2>4 DEF CrossingsAreLogged
  <2>9. QED
    BY <2>5, <2>6, <2>7, <2>8
<1>5. ASSUME NextDay \/ UNCHANGED budgetVars
      PROVE  BudgetIInv'
  <2>1. today' \in 1 .. LastDay /\ UNCHANGED <<used, spender, added, logs, silent>>
    BY <1>5 DEF NextDay, budgetVars
  <2>2. \A q \in Spenders, d \in 1 .. LastDay : Spent(q, d)' <=> Spent(q, d)
    BY <2>1 DEF Spent
  <2>3. BudgetTypeOK' /\ SpentBeforeLog' /\ NothingYet' /\ Disjoint' /\ WithinCounter' /\ NoGap'
    BY <2>1, <2>2 DEF SpentBeforeLog, NothingYet, Disjoint, WithinCounter, NoGap
  <2>4. LinesAreCrossings' /\ CrossingsAreLogged'
    BY <2>1, <2>2 DEF LinesAreCrossings, CrossingsAreLogged
  <2>5. QED
    BY <2>3, <2>4
<1>6. QED
  BY <1>1, <1>2, <1>3, <1>4, <1>5 DEF BudgetNext

LEMMA BudgetInvariant == BudgetSpec => []BudgetIInv
<1>1. QED
  BY BudgetInitially, BudgetInductive, PTL DEF BudgetSpec

\* The intervals tile the counter of a day: no token is counted twice, none is
\* lost, and none belongs to another day.
Tiled == Disjoint /\ WithinCounter /\ NoGap

THEOREM ConsumesTileTheCounter == BudgetSpec => []Tiled
<1>1. BudgetIInv => Tiled
  BY DEF BudgetIInv, Tiled
<1>2. QED
  BY <1>1, BudgetInvariant, PTL

\* A line is logged at most once for a day, and only the Consume that took the
\* counter over it can have kept it from being logged.
THEOREM CrossingsLoggedOnce == BudgetSpec => []EachCrossingOnce
<1>1. BudgetIInv => EachCrossingOnce
  <2> SUFFICES ASSUME BudgetIInv, NEW d \in 1 .. LastDay, NEW l \in Lines
               PROVE  /\ logs[d][l] <= 1
                      /\ At(l) > 0 /\ used[d] >= At(l) /\ logs[d][l] = 0 =>
                            \E s \in Crossers(l, d) :
                                \/ spender[s] = "added"
                                \/ s \in silent
                                \/ l = "80%" /\ added[s].after >= Budget
    BY DEF EachCrossingOnce
  <2> USE BudgetAssumption, WarnAtType
      DEF BudgetIInv, BudgetTypeOK, Interval
  <2>1. logs[d][l] <= 1
    BY DEF LinesAreCrossings
  <2>2. ASSUME At(l) > 0, used[d] >= At(l), logs[d][l] = 0
        PROVE  \E s \in Crossers(l, d) :
                   \/ spender[s] = "added"
                   \/ s \in silent
                   \/ l = "80%" /\ added[s].after >= Budget
    <3>1. At(l) \in Nat /\ At(l) - 1 \in Nat /\ At(l) - 1 < used[d]
      BY <2>2 DEF At
    <3>2. PICK s \in Spenders : /\ Spent(s, d) /\ added[s].before <= At(l) - 1
                                /\ At(l) - 1 < added[s].after
      BY <3>1 DEF NoGap
    <3>3. s \in Crossers(l, d)
      BY <3>1, <3>2 DEF Crossers, Spent
    <3>4. ASSUME spender[s] # "added", s \notin silent
          PROVE  l = "80%" /\ added[s].after >= Budget
      <4>1. spender[s] = "done"
        BY <3>2, <3>4 DEF Spent
      <4>2. ~Crossed(l, added[s])
        BY <2>2, <3>2, <3>4, <4>1 DEF CrossingsAreLogged
      <4>3. CASE l = "80%"
        BY <3>1, <3>2, <4>2, <4>3 DEF Crossed, At
      <4>4. CASE l = "exhausted"
        BY <3>1, <3>2, <4>2, <4>4 DEF Crossed, At
      <4>5. QED
        BY <4>3, <4>4 DEF Lines
    <3>5. QED
      BY <3>3, <3>4
  <2>3. QED
    BY <2>1, <2>2
<1>2. QED
  BY <1>1, BudgetInvariant, PTL
=============================================================================
