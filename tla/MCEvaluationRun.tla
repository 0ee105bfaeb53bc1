-------------------------- MODULE MCEvaluationRun ---------------------------
(* TLC instance of EvaluationRun. *)
EXTENDS EvaluationRun, TLC

Judged(individual, ab, ba) == [individual |-> individual, ab |-> ab, ba |-> ba]

\* Each arm preferred, a position bias, and each way to get no verdict.
MCJudgeAnswers ==
  {Judged("valid", "candidate_0", "candidate_1"), Judged("valid", "candidate_1", "candidate_0"),
   Judged("valid", "candidate_0", "candidate_0"), Judged("valid", "candidate_0", "unclear"),
   Judged("unparsed", "candidate_0", "candidate_1"), Judged("missing", "unparsed", "unparsed")}
=============================================================================
