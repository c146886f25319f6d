------------------------------- MODULE Scoring -------------------------------
(***************************************************************************)
(* ComputeScores of application/assessment/scoring.go over the answers of  *)
(* a submission: four MBTI dimensions and GRIT, as percentages.            *)
(*                                                                         *)
(* An answer is a question and a value; the letter of an option is its     *)
(* position, and 0 stands for a value that does not parse.  A question may *)
(* be answered more than once: nothing before the insert refuses that.     *)
(* Fractions are exact here and float64 in the code.                       *)
(***************************************************************************)
EXTENDS Integers, SequencesExt

CONSTANTS
    Bank,         \* Bank[q]: the metadata of question q
    Values,       \* values a client may send
    MaxAnswers    \* bound: answers of a submission

Dimensions == {"EI", "SN", "TF", "JP"}
Traits == Dimensions \cup {"GRIT"}
QuestionTypes == {"likert", "multiple_choice", "essay_prompt"}

\* points[o][d] is what option o adds to dimension d.
ASSUME BankAssumption ==
    /\ Values \subseteq Int
    /\ \A q \in DOMAIN Bank :
          /\ Bank[q].type \in QuestionTypes
          /\ Bank[q].trait \in Traits \cup {""}
          /\ Bank[q].points \in Seq([Dimensions -> Int])

VARIABLE answers

ScoringInit == answers = <<>>

Answer(q, v) ==
    /\ Len(answers) < MaxAnswers
    /\ answers' = Append(answers, [question |-> q, value |-> v])

ScoringNext == \E q \in DOMAIN Bank, v \in Values : Answer(q, v)
ScoringSpec == ScoringInit /\ [][ScoringNext]_answers

-----------------------------------------------------------------------------
MetaOf(a) == Bank[a.question]
Magnitude(n) == IF n < 0 THEN -n ELSE n

\* Mutant: the scale is mirrored around 2.5.
EffectiveOffByOne(a) == IF MetaOf(a).reverse THEN 5 - a.value ELSE a.value

Effective(a) == IF MetaOf(a).reverse THEN 6 - a.value ELSE a.value

IsLikert(a, trait) ==
    /\ MetaOf(a).type = "likert" /\ ~MetaOf(a).attention
    /\ MetaOf(a).trait = trait
    /\ a.value \in 1 .. 5

IsChoice(a) ==
    /\ MetaOf(a).type = "multiple_choice" /\ ~MetaOf(a).attention
    /\ a.value \in DOMAIN MetaOf(a).points

\* What an answer adds to a dimension, and to the largest sum it could have.
Gain(a, dim) ==
    CASE IsLikert(a, dim) -> Effective(a) - 3
      [] IsChoice(a) -> MetaOf(a).points[a.value][dim]
      [] OTHER -> 0

Scale(a, dim) ==
    CASE IsLikert(a, dim) -> 2
      [] IsChoice(a) -> Max({Magnitude(MetaOf(a).points[o][dim]) :
                                o \in DOMAIN MetaOf(a).points})
      [] OTHER -> 0

\* What runs over the answers in a loop: w[1] + ... + w[n].
Tally(w, n) ==
    LET total[k \in 0 .. n] == IF k = 0 THEN 0 ELSE total[k - 1] + w[k]
    IN  total[n]

TotalGain(dim) == Tally([i \in DOMAIN answers |-> Gain(answers[i], dim)], Len(answers))
TotalScale(dim) == Tally([i \in DOMAIN answers |-> Scale(answers[i], dim)], Len(answers))

\* gritValues: how many there are, and their sum.
GritItem(a) == IF IsLikert(a, "GRIT") THEN 1 ELSE 0
GritValue(a) == IF IsLikert(a, "GRIT") THEN Effective(a) ELSE 0
GritCount == Tally([i \in DOMAIN answers |-> GritItem(answers[i])], Len(answers))
GritSum == Tally([i \in DOMAIN answers |-> GritValue(answers[i])], Len(answers))

\* math.Round of n / d, half away from zero where it matters.
Round(n, d) == (2 * n + d) \div (2 * d)
ClampPercent(n) == IF n < 0 THEN 0 ELSE IF n > 100 THEN 100 ELSE n

DimensionScore(dim) ==
    LET sum == TotalGain(dim)
        max == TotalScale(dim)
    IN  IF max > 0 THEN ClampPercent(Round(50 * (max + sum), max)) ELSE 50

GritScore ==
    IF GritCount > 0
    THEN ClampPercent(Round(100 * (GritSum - GritCount), 4 * GritCount)) ELSE 50

ComputeScores ==
    [trait \in Traits |-> IF trait = "GRIT" THEN GritScore ELSE DimensionScore(trait)]

\* TRUE for the first pole of the dimension.
MBTIType == [dim \in Dimensions |-> ComputeScores[dim] >= 50]

NeutralFallback ==
    {dim \in Dimensions : TotalScale(dim) = 0} \cup {grit \in {"GRIT"} : GritCount = 0}

-----------------------------------------------------------------------------
(* Properties *)

\* How far an answer alone leans towards the first pole, in percent: the five
\* steps of a scale are a quarter apart, from the end its question names.
Leaning(a, trait) ==
    IF IsChoice(a)
    THEN Round(50 * (Scale(a, trait) + MetaOf(a).points[a.value][trait]), Scale(a, trait))
    ELSE 25 * IF MetaOf(a).reverse THEN 5 - a.value ELSE a.value - 1

Bears(a, trait) ==
    IsLikert(a, trait) \/ (trait \in Dimensions /\ Scale(a, trait) > 0)

TakesIn(a, trait) ==
    LET old == ComputeScores[trait]
        new == ComputeScores'[trait]
        own == Leaning(a, trait)
    IN  IF ~Bears(a, trait) THEN new = old
        ELSE /\ new \in 0 .. 100
             /\ trait \in NeutralFallback => new = own
             /\ trait \notin NeutralFallback => new \in old .. own \cup own .. old
             /\ trait \in Dimensions /\ MBTIType[trait] # MBTIType'[trait] =>
                   MBTIType'[trait] = (own >= 50)

\* A score is a weighted mean: one more answer moves a score towards what that
\* answer says and never past it, the first one that bears on a trait ends the
\* neutral 50, and an attention check, an essay or a value that does not parse
\* moves none.  A letter changes only towards the pole the answer leans to, and
\* the clamp of ComputeScores never hides anything.
ScoresAreMeans ==
    [][answers # answers' => \A trait \in Traits : TakesIn(Last(answers'), trait)]_answers
=============================================================================
