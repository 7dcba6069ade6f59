---------------------------- MODULE RuleStagesV31 ----------------------------
(* The stages of a rule tree, the verdict on a rule and the hit column the  *)
(* statement has for it: what the condition of a rule (RuleTreeV31,         *)
(* ViewShapedSqlV31) and the decision (RuleDecisionV31) share.              *)
EXTENDS Integers, Sequences

CONSTANT Null  \* None in a fact, a parameter, an outcome or a reason; NULL

StageOrder ==
  <<"stateGuards", "prerequisites", "eligibility", "postGates", "exclusions">>

Verdicts == {"pass", "fail", "indeterminate"}

\* CASE WHEN p THEN 1 WHEN NOT (p) THEN 0 ELSE NULL END
Bit(v) == CASE v = "pass" -> 1 [] v = "fail" -> 0 [] OTHER -> Null
============================================================================
