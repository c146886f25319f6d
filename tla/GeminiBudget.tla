---------------------------- MODULE GeminiBudget ----------------------------
(***************************************************************************)
(* The daily token budget of cache/redis/gemini_budget.go, with its two    *)
(* log lines, under concurrent submissions.  A submission looks at the     *)
(* counter of its day, calls Gemini and adds the tokens the call cost to   *)
(* the counter of the day it has become.  INCRBY and what follows it are   *)
(* two steps; an error of EXPIRE returns before the logging.               *)
(*                                                                         *)
(* A counter outlives its day by another one, so none expires here.        *)
(***************************************************************************)
EXTENDS Naturals, FiniteSets

CONSTANTS
    Spenders,     \* submissions that reach the AI phase
    Budget,       \* GEMINI_DAILY_TOKEN_BUDGET; 0 disables the cap
    Costs,        \* tokens a call may cost
    LastDay,      \* bound: the days 1 .. LastDay
    MaxUnlogged   \* bound: Consumes of a day that stop between INCRBY and the log

ASSUME BudgetAssumption ==
    /\ Budget \in Nat /\ Costs \subseteq Nat
    /\ LastDay \in Nat \ {0} /\ MaxUnlogged \in Nat

VARIABLES
    today,
    used,      \* used[d]: the counter of day d
    spender,   \* spender[s]: the step of submission s
    added,     \* added[s]: the day, and the counter around its INCRBY
    logs,      \* logs[d][l]: how often line l was logged for day d
    silent     \* the submissions whose Consume stopped before the log

budgetVars == <<today, used, spender, added, logs, silent>>

Lines == {"80%", "exhausted"}
SpenderStep == {"idle", "calling", "added", "done"}
NoTokens == [day |-> 1, before |-> 0, after |-> 0]

BudgetInit ==
    /\ today = 1
    /\ used = [d \in 1 .. LastDay |-> 0]
    /\ spender = [s \in Spenders |-> "idle"]
    /\ added = [s \in Spenders |-> NoTokens]
    /\ logs = [d \in 1 .. LastDay |-> [l \in Lines |-> 0]]
    /\ silent = {}

WarnAt == (Budget * 80) \div 100
SpenderGoto(s, step) == spender' = [spender EXCEPT ![s] = step]

-----------------------------------------------------------------------------
\* A submission that finds the budget exhausted ends without a call; one that
\* gets an error from Redis makes it (runAIPhase).
Exceeded(s) ==
    /\ spender[s] = "idle"
    /\ \/ Budget > 0 /\ used[today] >= Budget /\ SpenderGoto(s, "done")
       \/ SpenderGoto(s, "calling")
    /\ UNCHANGED <<today, used, added, logs, silent>>

\* A call that reports no tokens, or an INCRBY that fails, leaves no trace.
SpendsNothing(s) ==
    /\ spender[s] = "calling"
    /\ SpenderGoto(s, "done")
    /\ UNCHANGED <<today, used, added, logs, silent>>

IncrBy(s) ==
    /\ spender[s] = "calling" /\ Budget > 0
    /\ \E t \in Costs \ {0} :
          /\ used' = [used EXCEPT ![today] = @ + t]
          /\ added' = [added EXCEPT ![s] =
                [day |-> today, before |-> used[today], after |-> used[today] + t]]
    /\ SpenderGoto(s, "added")
    /\ UNCHANGED <<today, logs, silent>>

\* Mutant: a line is logged by every Consume beyond it.
CrossedBefore(l, i) ==
    CASE l = "80%" -> i.after >= WarnAt /\ i.after < Budget
      [] l = "exhausted" -> i.after >= Budget

\* The lines a Consume logs for the interval its tokens cover.
Crossed(l, i) ==
    CASE l = "80%" -> i.before < WarnAt /\ i.after >= WarnAt /\ i.after < Budget
      [] l = "exhausted" -> i.before < Budget /\ i.after >= Budget

Log(s) ==
    LET i == added[s] IN
    /\ spender[s] = "added"
    /\ logs' = [logs EXCEPT ![i.day] =
                   [l \in Lines |-> @[l] + IF Crossed(l, i) THEN 1 ELSE 0]]
    /\ SpenderGoto(s, "done")
    /\ UNCHANGED <<today, used, added, silent>>

\* EXPIRE of the first Consume of a day fails, or the process dies.
NotLogged(s) ==
    /\ spender[s] = "added"
    /\ Cardinality({q \in silent : added[q].day = added[s].day}) < MaxUnlogged
    /\ silent' = silent \cup {s}
    /\ SpenderGoto(s, "done")
    /\ UNCHANGED <<today, used, added, logs>>

\* budgetKey: midnight in Jakarta.
NextDay ==
    /\ today < LastDay
    /\ today' = today + 1
    /\ UNCHANGED <<used, spender, added, logs, silent>>

BudgetNext ==
    \/ \E s \in Spenders :
          Exceeded(s) \/ SpendsNothing(s) \/ IncrBy(s) \/ Log(s) \/ NotLogged(s)
    \/ NextDay

BudgetSpec == BudgetInit /\ [][BudgetNext]_budgetVars

-----------------------------------------------------------------------------
(* Properties *)

At(l) == IF l = "80%" THEN WarnAt ELSE Budget

\* The Consumes whose tokens took the counter of day d over line l.
Crossers(l, d) ==
    {s \in Spenders : added[s].day = d /\ added[s].before < At(l) /\ added[s].after >= At(l)}

\* A line is logged at most once for a day, whatever runs concurrently.  When
\* the counter has reached it and it is not logged, the Consume that took the
\* counter over it has yet to come to its log, or stopped before it, or went
\* over both lines at once, which logs the higher one only; no later Consume
\* makes up for it.
EachCrossingOnce ==
    \A d \in 1 .. LastDay, l \in Lines :
        /\ logs[d][l] <= 1
        /\ At(l) > 0 /\ used[d] >= At(l) /\ logs[d][l] = 0 =>
              \E s \in Crossers(l, d) :
                  \/ spender[s] = "added"
                  \/ s \in silent
                  \/ l = "80%" /\ added[s].after >= Budget
=============================================================================
