----------------------------- MODULE Evaluations ----------------------------
(***************************************************************************)
(* Monthly evaluations and performance reviews                             *)
(* (core/hr/services/evaluation.service.ts, performance-review.service.ts). *)
(*                                                                         *)
(* An evaluation weighs the points of the indicators (KPIs) that were      *)
(* scored; a level and a bonus follow from the result.  A score is a       *)
(* fraction here, <<sum of points by weight, sum of weights>>, where the   *)
(* code divides.                                                           *)
(*                                                                         *)
(* Left out: the rules that turn a raw value into points (the points are   *)
(* the inputs), an indicator sent twice in one evaluation, comments, lists *)
(* and statistics, realtime events.                                        *)
(***************************************************************************)
EXTENDS Callers, Integers, FiniteSets, Functions

CONSTANTS Rated,          \* employees
          Months,         \* periods
          Kpis,           \* indicators
          Points,         \* points an indicator may be given
          DefaultWeight,  \* DefaultWeight[k]
          Weights,        \* weights a position may give an indicator
          BonusFloor      \* points from which the grid of bonuses gives its first bracket

\* The bodies of evaluation.controller.ts are not validated: points and weights may be
\* negative.  Points are whole (a column of integers keeps them: the score of an indicator
\* with a fraction of a point is refused after the evaluation was saved, which is left out);
\* weights are in whole units, hundredths as well as ones, since only their ratios count.
ASSUME EvaluationAssumption ==
  /\ IsFiniteSet(Kpis)
  /\ Points \subseteq Int
  /\ Weights \subseteq Int
  /\ DefaultWeight \in [Kpis -> Int]

VARIABLES weight,       \* kpi_weights of the position, for the indicators it has weights of
          evaluation,   \* monthly_evaluations
          review        \* performance_reviews: status of the review of an employee

evaluationVars == <<weight, evaluation, review>>

Levels == {"EXCELLENCE", "PERFORMANT", "ACCEPTABLE", "INSUFFISANT", "CRITIQUE"}

ReviewStatus == {"none", "draft", "self_assessment", "manager_review", "hr_review", "approved",
                 "completed", "cancelled"}

\* numbers for some of the indicators
OfKpis(numbers) == UNION {[some -> numbers]: some \in SUBSET Kpis}

AllWeights == Weights \cup {DefaultWeight[k]: k \in Kpis}

\* of, by: points and weights of the indicators that were scored
EvaluationRow ==
  [status: {"none", "draft", "submitted", "validated", "contested"},
   of: OfKpis(Points), by: OfKpis(AllWeights), sum: Int, weights: Int,
   level: Levels, levelPoints: Int, bonus: BOOLEAN]

NoEvaluation ==
  [status |-> "none", of |-> [k \in {} |-> 0], by |-> [k \in {} |-> 0], sum |-> 0, weights |-> 0,
   level |-> "CRITIQUE", levelPoints |-> 0, bonus |-> FALSE]

EvaluationTypeOK ==
  /\ weight \in OfKpis(Weights)
  /\ evaluation \in [Rated -> [Months -> EvaluationRow]]
  /\ review \in [Rated -> ReviewStatus]

EvaluationInit ==
  /\ weight = [k \in {} |-> 0]
  /\ evaluation = [e \in Rated |-> [m \in Months |-> NoEvaluation]]
  /\ review = [e \in Rated |-> "none"]

-----------------------------------------------------------------------------
(* The result of an evaluation *)

WeightOf(k) == IF k \in DOMAIN weight THEN weight[k] ELSE DefaultWeight[k]

\* (mutant) the weights are taken to add up to a hundred
TotalWeightOfAll(scored) == SumFunction([k \in Kpis |-> WeightOf(k)])

TotalWeight(scored) == SumFunction([k \in scored |-> WeightOf(k)])

\* thresholds are compared before the score is rounded: sum >= n * weights
DetermineLevel(sum, weights) ==
  CASE sum >= 90 * weights -> "EXCELLENCE"
    [] sum >= 75 * weights -> "PERFORMANT"
    [] sum >= 60 * weights -> "ACCEPTABLE"
    [] sum >= 40 * weights -> "INSUFFISANT"
    [] OTHER               -> "CRITIQUE"

\* Math.round of sum / weights
Rounded(sum, weights) == (2 * sum + weights) \div (2 * weights)

\* no indicator known, or weights that add up to nothing or less: the score is 0
Evaluated(scored, points) ==
  LET sum     == SumFunction([k \in scored |-> points[k] * WeightOf(k)])
      weights == TotalWeight(scored)
      rounded == IF weights > 0 THEN Rounded(sum, weights) ELSE 0
  IN [status |-> "draft", of |-> points, by |-> [k \in scored |-> WeightOf(k)], sum |-> sum, weights |-> weights,
      level |-> IF weights > 0 THEN DetermineLevel(sum, weights) ELSE "CRITIQUE",
      levelPoints |-> rounded, bonus |-> rounded >= BonusFloor]

-----------------------------------------------------------------------------
(* EvaluationService *)

SetKpiWeight(k, w) ==
  /\ MayRun("evaluations")
  /\ weight' = [i \in DOMAIN weight \cup {k} |-> IF i = k THEN w ELSE weight[i]]
  /\ UNCHANGED <<evaluation, review, call>>

CreateEvaluation(e, m, scored, points) ==
  /\ MayRun("evaluations") /\ evaluation[e][m].status = "none"
  /\ evaluation' = [evaluation EXCEPT ![e][m] = Evaluated(scored, points)]
  /\ UNCHANGED <<weight, review, call>>

SetStatus(e, m, status) ==
  /\ MayRun("evaluations")
  /\ evaluation' = [evaluation EXCEPT ![e][m].status = status]
  /\ UNCHANGED <<weight, review, call>>

SubmitEvaluation(e, m) ==
  evaluation[e][m].status = "draft" /\ SetStatus(e, m, "submitted")

ValidateEvaluation(e, m) ==
  evaluation[e][m].status = "submitted" /\ SetStatus(e, m, "validated")

\* from any status, and for good: no operation leaves it
ContestEvaluation(e, m) ==
  evaluation[e][m].status # "none" /\ SetStatus(e, m, "contested")

-----------------------------------------------------------------------------
(* PerformanceReviewService: no operation looks at the status it replaces *)

SetReview(e, status) ==
  /\ MayRun("evaluations")
  /\ review' = [review EXCEPT ![e] = status]
  /\ UNCHANGED <<weight, evaluation, call>>

CreateReview(e) == review[e] = "none" /\ SetReview(e, "draft")

\* update, submit, complete and delete
ChangeReview(e, status) == review[e] # "none" /\ SetReview(e, status)

-----------------------------------------------------------------------------
EvaluationController ==
  \/ \E k \in Kpis, w \in Weights: SetKpiWeight(k, w)
  \/ \E e \in Rated, m \in Months:
       \/ SubmitEvaluation(e, m) \/ ValidateEvaluation(e, m) \/ ContestEvaluation(e, m)
       \/ \E scored \in SUBSET Kpis: \E points \in [scored -> Points]:
            CreateEvaluation(e, m, scored, points)

PerformanceReviewController ==
  \E e \in Rated:
    CreateReview(e) \/ \E status \in ReviewStatus: ChangeReview(e, status)

EvaluationNext == EvaluationController \/ PerformanceReviewController

-----------------------------------------------------------------------------
(* Properties *)

\* Whichever indicators are scored and whatever weights the position gives them later, an
\* evaluation made with weights of which none was negative has a result between the lowest
\* and the highest of the points it was given, and so have the points its level and bonus
\* follow from (evaluation.service.ts:140-180).  A negative weight, which the service takes,
\* leads out of these bounds.
ScoreIsAnAverage ==
  \A e \in Rated: \A m \in Months:
    LET row    == evaluation[e][m]
        scored == DOMAIN row.of
    IN row.weights > 0 /\ (\A k \in scored: row.by[k] >= 0) =>
         /\ \E k \in scored: row.of[k] * row.weights <= row.sum
         /\ \E k \in scored: row.of[k] * row.weights >= row.sum
         /\ \E k \in scored: row.of[k] <= row.levelPoints
         /\ \E k \in scored: row.of[k] >= row.levelPoints
=============================================================================
