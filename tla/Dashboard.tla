------------------------------ MODULE Dashboard ------------------------------
(***************************************************************************)
(* The member's dashboard (user_dashboard.go), its paged history and the   *)
(* insights it shares with the PDF report (generate_pdf.go), while the     *)
(* member goes on submitting.  One member, whose client walks the history  *)
(* page by page; a page is two queries, a count and a list.                *)
(*                                                                         *)
(* A result is its GRIT score, its locale and its place in the history:    *)
(* created_at orders results, and a member's results are not deleted.      *)
(***************************************************************************)
EXTENDS Integers, FiniteSets, SequencesExt

CONSTANTS
    Templates,       \* the rows of insight_templates
    Locales,         \* supported locales, "en" among them
    GritScores,      \* scores a result may have
    Limits,          \* page sizes a client may ask for
    MaxLimit,        \* the largest page GetHistory grants (50)
    DefaultLimit,    \* the page it grants otherwise (10)
    MaxResults       \* bound: results of the member

\* NULL of min_delta and threshold_value is 0: neither is set on a template of
\* the other family.
ASSUME DashboardAssumption ==
    /\ "en" \in Locales
    /\ GritScores \subseteq Nat /\ Limits \subseteq Int
    /\ MaxLimit \in Nat /\ DefaultLimit \in 1 .. MaxLimit /\ MaxResults \in Nat
    /\ \A t \in Templates : t.locale \in Locales /\ t.delta \in Nat /\ t.threshold \in Nat

VARIABLES
    results,   \* results of the member, newest first
    walk,      \* the client: its step, limit, page and number of pages
    seen,      \* results it was shown
    wanted,    \* history: results there were when it began
    torn       \* history: whether a result came between count and list

dashboardVars == <<results, walk, seen, wanted, torn>>

Resting == [step |-> "resting", limit |-> DefaultLimit, page |-> 1, pages |-> 0]

DashboardInit ==
    /\ results = <<>>
    /\ walk = Resting
    /\ seen = {} /\ wanted = {}
    /\ torn = FALSE

Ids == 1 .. Len(results)

-----------------------------------------------------------------------------
\* A submission of the member commits, newest first; its id is its rank.
NewResult ==
    /\ Len(results) < MaxResults
    /\ \E grit \in GritScores, loc \in Locales :
          results' = <<[id |-> Len(results) + 1, grit |-> grit, locale |-> loc]>> \o results
    /\ torn' = (torn \/ walk.step = "listing")
    /\ UNCHANGED <<walk, seen, wanted>>

\* GetHistory with the first page; a limit out of range becomes the default.
Granted(limit) == IF limit < 1 \/ limit > MaxLimit THEN DefaultLimit ELSE limit

BeginWalk ==
    /\ walk.step = "resting"
    /\ \E limit \in Limits :
          walk' = [Resting EXCEPT !.step = "counting", !.limit = Granted(limit)]
    /\ seen' = {} /\ wanted' = Ids
    /\ UNCHANGED <<results, torn>>

\* Mutant: the last, shorter page is not counted.
CountPagesRoundedDown ==
    /\ walk.step = "counting"
    /\ walk' = [walk EXCEPT !.step = "listing", !.pages = Len(results) \div walk.limit]
    /\ torn' = FALSE
    /\ UNCHANGED <<results, seen, wanted>>

CountPages ==
    /\ walk.step = "counting"
    /\ walk' = [walk EXCEPT !.step = "listing",
                  !.pages = (Len(results) + walk.limit - 1) \div walk.limit]
    /\ torn' = FALSE
    /\ UNCHANGED <<results, seen, wanted>>

ListPage ==
    LET offset == (walk.page - 1) * walk.limit
        page == {i \in DOMAIN results : i > offset /\ i <= offset + walk.limit}
    IN  /\ walk.step = "listing"
        /\ seen' = seen \cup {results[i].id : i \in page}
        /\ walk' = IF walk.page < walk.pages
                   THEN [walk EXCEPT !.step = "counting", !.page = @ + 1]
                   ELSE [walk EXCEPT !.step = "walked"]
        /\ UNCHANGED <<results, wanted, torn>>

Rest ==
    /\ walk.step = "walked"
    /\ walk' = Resting
    /\ seen' = {} /\ wanted' = {} /\ torn' = FALSE
    /\ UNCHANGED results

DashboardNext == NewResult \/ BeginWalk \/ CountPages \/ ListPage \/ Rest
DashboardSpec == DashboardInit /\ [][DashboardNext]_dashboardVars

-----------------------------------------------------------------------------
(* GetDashboard and the insights of the report *)

\* One row for each key: in the locale asked for, in English otherwise.
PickWithFallback(rows, loc) ==
    LET asked == {t \in rows : t.locale = loc}
    IN  asked \cup {t \in rows : t.locale = "en" /\ \A u \in asked : u.key # t.key}

FindMatchingTemplates(trait, loc) ==
    PickWithFallback({t \in Templates : t.trait = trait /\ t.active
                                        /\ t.locale \in {loc, "en"}}, loc)

MatchesScore(t, value) ==
    /\ t.threshold # 0
    /\ \/ t.condition = "threshold" /\ value >= t.threshold
       \/ t.condition = "threshold_below" /\ value > 0 /\ value < t.threshold

\* The difference of the two newest scores; 0 counts as not scored.
Deltas ==
    IF Len(results) >= 2 /\ results[1].grit # 0 /\ results[2].grit # 0
    THEN {results[1].grit - results[2].grit} ELSE {}

\* Mutant: English templates are left out for every other locale.
MicroInsightsNoFallback(loc) ==
    IF results = <<>> THEN {}
    ELSE {t \in FindMatchingTemplates("grit", loc) :
             t.locale = loc /\ results[1].grit # 0 /\ MatchesScore(t, results[1].grit)}

MicroInsights(loc) ==
    IF results = <<>> THEN {}
    ELSE {t \in FindMatchingTemplates("grit", loc) :
             \/ t.condition = "increase" /\ t.delta # 0 /\ \E d \in Deltas : d >= t.delta
             \/ t.condition = "decrease" /\ t.delta # 0 /\ \E d \in Deltas : -d >= t.delta
             \/ results[1].grit # 0 /\ MatchesScore(t, results[1].grit)}

\* collectInsights of a result's report, for its GRIT score.
ReportInsights(r) ==
    {t \in FindMatchingTemplates("grit", r.locale) : MatchesScore(t, r.grit)}

-----------------------------------------------------------------------------
(* Properties *)

\* A client that walks the pages of GetHistory until total_pages has been
\* shown every result there was when it began, however many were added
\* meanwhile and whatever limit it asked for, unless one was added between the
\* count and the list of its last page.
PagesSkipNothing == walk.step = "walked" /\ ~torn => wanted \subseteq seen

\* The report of the newest result and the dashboard in the same locale agree
\* on the thresholds of GRIT ("the two can never drift", MatchesScore): what
\* the dashboard shows beyond the report compares two results, and it never
\* speaks of an increase and of a decrease at once.
InsightsAgree ==
    \A i \in DOMAIN results : i = 1 =>
        LET shown == MicroInsights(results[1].locale)
            Delta(kind) == {t \in shown : t.condition = kind}
        IN  /\ shown \ (Delta("increase") \cup Delta("decrease"))
                  = ReportInsights(results[1])
            /\ Delta("increase") = {} \/ Delta("decrease") = {}
=============================================================================
