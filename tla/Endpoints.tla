------------------------------ MODULE Endpoints ------------------------------
(***************************************************************************)
(* The parts of the API that share no state with each other: the answers   *)
(* to requests, registration, the two limiters, the token budget, referral *)
(* codes, scoring and the dashboard.                                       *)
(* A behaviour is one of any of them, with the others at rest: as no part  *)
(* reads what another one writes, interleaving them would show nothing     *)
(* that they do not show on their own.                                     *)
(***************************************************************************)
EXTENDS HttpPipeline, Registration, RateLimits, GeminiBudget, ReferralCodes, Scoring,
        Dashboard

VARIABLE part   \* the part that runs

Parts == {"requests", "registration", "addresses", "codes", "budget", "referral",
          "scoring", "dashboard"}
vars == <<pipelineVars, registrationVars, limitVars, budgetVars, referralVars, answers,
          dashboardVars, part>>

Init ==
    /\ part \in Parts
    /\ PipelineInit /\ RegistrationInit /\ LimitInit /\ BudgetInit /\ ReferralInit
    /\ ScoringInit /\ DashboardInit

RequestsRun ==
    /\ part = "requests" /\ PipelineNext
    /\ UNCHANGED <<registrationVars, limitVars, budgetVars, referralVars, answers,
                   dashboardVars, part>>

RegistrationRuns ==
    /\ part = "registration" /\ RegistrationNext
    /\ UNCHANGED <<pipelineVars, limitVars, budgetVars, referralVars, answers,
                   dashboardVars, part>>

AddressLimitRuns ==
    /\ part = "addresses" /\ IpStep
    /\ UNCHANGED <<pipelineVars, registrationVars, otpLimitVars, budgetVars,
                   referralVars, answers, dashboardVars, part>>

CodeLimitRuns ==
    /\ part = "codes" /\ OtpStep
    /\ UNCHANGED <<pipelineVars, registrationVars, ipVars, budgetVars, referralVars,
                   answers, dashboardVars, part>>

BudgetRuns ==
    /\ part = "budget" /\ BudgetNext
    /\ UNCHANGED <<pipelineVars, registrationVars, limitVars, referralVars, answers,
                   dashboardVars, part>>

ReferralRuns ==
    /\ part = "referral" /\ ReferralNext
    /\ UNCHANGED <<pipelineVars, registrationVars, limitVars, budgetVars, answers,
                   dashboardVars, part>>

ScoringRuns ==
    /\ part = "scoring" /\ ScoringNext
    /\ UNCHANGED <<pipelineVars, registrationVars, limitVars, budgetVars,
                   referralVars, dashboardVars, part>>

DashboardRuns ==
    /\ part = "dashboard" /\ DashboardNext
    /\ UNCHANGED <<pipelineVars, registrationVars, limitVars, budgetVars,
                   referralVars, answers, part>>

Next ==
    \/ RequestsRun \/ RegistrationRuns
    \/ AddressLimitRuns \/ CodeLimitRuns \/ BudgetRuns
    \/ ReferralRuns \/ ScoringRuns \/ DashboardRuns

\* A request goes on with its EXPIRE; Redis drops a key when its TTL is over.
Fairness ==
    /\ \A r \in Requests : WF_vars(AddressLimitRuns /\ OpenWindow(r))
    /\ \A a \in Addresses : WF_vars(AddressLimitRuns /\ WindowEnds(a))

Spec == Init /\ [][Next]_vars /\ Fairness
=============================================================================
