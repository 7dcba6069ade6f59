--------------------------- MODULE RuleDecisionV31 ---------------------------
(* A rule tree is decided twice: by the loop of rule_evaluate_v31.py, which *)
(* asks one rule after the other and stops early, and by the CASE columns   *)
(* of view_shaped_compile_v31.py, which see the hit columns of all rules at *)
(* once.                                                                    *)
(*                                                                          *)
(* A structure is [rules, defaultOutcome, defaultReason, blocking]: rules[s] *)
(* are the rules of stage s without the blocked ones and those without a    *)
(* condition, which both sides skip.  The verdict on a condition is that of *)
(* RuleTreeV31; that its hit column is the Bit of it is said in             *)
(* CompleteDeliveryV31.  A hit column is named after stage and code; here   *)
(* it is the place of the rule.                                             *)
EXTENDS RuleStagesV31

CONSTANTS Codes,       \* of rules
          Outcomes, Reasons,
          Structures   \* the trees that may be decided

Stages == 1..5

Rules == [code : Codes, outcome : Outcomes \cup {Null}, reason : Reasons \cup {Null}]
Decisions == [outcome : Outcomes, reason : Reasons, matched : Seq(Codes)]

\* None is no bit, a code is not empty, and what stands for an open decision is an
\* outcome and a reason.
ASSUME RuleDecisionAssumption ==
  /\ Null \notin {0, 1}
  /\ Structures \subseteq [rules : [Stages -> Seq(Rules)], defaultOutcome : Outcomes,
                           defaultReason : Reasons, blocking : BOOLEAN]
  /\ "" \notin Codes
  /\ "INDETERMINATE" \in Outcomes
  /\ {"FACT_VALUE_MISSING_OR_INVALID", "BUSINESS_CONFIRMATION_REQUIRED"} \subseteq Reasons

VARIABLES structure,
          verdict,     \* verdict[<<s, i>>]: on the condition of rule i of stage s
          progress,       \* of the evaluator
          stage, position, \* the rule it asks next
          undecided,   \* a rule of the stage was indeterminate
          decision

decisionVars == <<structure, verdict, progress, stage, position, undecided, decision>>

Places(t) == UNION {{<<s, i>> : i \in DOMAIN t.rules[s]} : s \in Stages}
RulesOf(s) == structure.rules[s]
RuleAt(place) == structure.rules[place[1]][place[2]]

----------------------------------------------------------------------------
(* The evaluator. *)

Default ==
  [outcome |-> structure.defaultOutcome, reason |-> structure.defaultReason,
   matched |-> <<>>]

DecisionInit ==
  /\ structure \in Structures
  /\ verdict \in [Places(structure) -> Verdicts]
  /\ progress = "start"
  /\ stage = 1 /\ position = 1 /\ undecided = FALSE
  /\ decision = Default

StartEvaluation ==
  /\ progress = "start"
  /\ IF structure.blocking
     THEN /\ progress' = "decided"
          /\ decision' = [outcome |-> "INDETERMINATE",
                          reason |-> "BUSINESS_CONFIRMATION_REQUIRED", matched |-> <<>>]
     ELSE progress' = "evaluating" /\ UNCHANGED decision
  /\ UNCHANGED <<structure, verdict, stage, position, undecided>>

NextStage ==
  /\ stage' = stage + 1 /\ position' = 1 /\ undecided' = FALSE
  /\ UNCHANGED progress

Asked == progress = "evaluating" /\ position <= Len(RulesOf(stage))

\* What a decision becomes when a rule passes.
Spoken(d, rule) ==
  [outcome |-> IF rule.outcome = Null THEN d.outcome ELSE rule.outcome,
   reason |-> IF rule.reason = Null THEN d.reason ELSE rule.reason,
   matched |-> Append(d.matched, rule.code)]

\* The first rule of a stage that passes decides; eligibility lets the later
\* stages speak too.
RulePasses ==
  /\ Asked /\ verdict[<<stage, position>>] = "pass"
  /\ decision' = Spoken(decision, RulesOf(stage)[position])
  /\ IF StageOrder[stage] = "eligibility" THEN NextStage
     ELSE progress' = "decided" /\ UNCHANGED <<stage, position, undecided>>
  /\ UNCHANGED <<structure, verdict>>

RuleDoesNotPass ==
  /\ Asked /\ verdict[<<stage, position>>] # "pass"
  /\ position' = position + 1
  /\ undecided' = (undecided \/ verdict[<<stage, position>>] = "indeterminate")
  /\ UNCHANGED <<structure, verdict, progress, stage, decision>>

\* No rule of the stage passed.
StageEnds ==
  /\ progress = "evaluating" /\ position > Len(RulesOf(stage))
  /\ IF undecided
     THEN /\ progress' = "decided"
          /\ decision' = [outcome |-> "INDETERMINATE", reason |-> "FACT_VALUE_MISSING_OR_INVALID",
                          matched |-> decision.matched]
          /\ UNCHANGED <<stage, position, undecided>>
     ELSE /\ IF stage = 5
             THEN progress' = "decided" /\ UNCHANGED <<stage, position, undecided>>
             ELSE NextStage
          /\ UNCHANGED decision
  /\ UNCHANGED <<structure, verdict>>

Decided == progress = "decided" /\ UNCHANGED decisionVars

DecisionNext ==
  StartEvaluation \/ RulePasses \/ RuleDoesNotPass \/ StageEnds \/ Decided

DecisionSpec == DecisionInit /\ [][DecisionNext]_decisionVars

----------------------------------------------------------------------------
(* The CASE columns: a branch is [guard, then]; the first that holds wins.  *)

Hits == [place \in Places(structure) |-> Bit(verdict[place])]

CaseOf(whens, default) ==
  LET held == {i \in DOMAIN whens : whens[i].guard}
  IN IF held = {} THEN default ELSE whens[CHOOSE i \in held : \A j \in held : i <= j].then

StageWhens(s, thens) ==
  [i \in DOMAIN RulesOf(s) |-> [guard |-> Hits[<<s, i>>] = 1, then |-> thens[<<s, i>>]]]

\* Seeded bug: an undecided eligibility rule counts although another one hit.
StageUnknownWhen_AnyUnknown(s, then) ==
  LET flags == {Hits[<<s, i>>] : i \in DOMAIN RulesOf(s)}
  IN IF RulesOf(s) = <<>> THEN <<>> ELSE <<[guard |-> Null \in flags, then |-> then]>>

StageUnknownWhen(s, then) ==
  LET flags == {Hits[<<s, i>>] : i \in DOMAIN RulesOf(s)}
  IN IF RulesOf(s) = <<>> THEN <<>>
     ELSE <<[guard |-> Null \in flags /\ (StageOrder[s] = "eligibility" => 1 \notin flags),
             then |-> then]>>

\* The branches of a decision column, each stage's unknown after its hits:
\* the early stages, an undecided eligibility, the overriding stages, and
\* only then the rule eligibility chose.
DecisionWhens(earlyThens, overrideThens, unknown, overrideUnknown) ==
  LET early(s) == StageWhens(s, earlyThens) \o StageUnknownWhen(s, unknown)
      override(s) == StageWhens(s, overrideThens) \o StageUnknownWhen(s, overrideUnknown)
  IN early(1) \o early(2) \o StageUnknownWhen(3, unknown)
     \o override(4) \o override(5) \o StageWhens(3, earlyThens)

OrEmpty(v) == IF v = Null THEN "" ELSE v

OutcomeCase ==
  LET then == [place \in Places(structure) |-> OrEmpty(RuleAt(place).outcome)]
  IN CaseOf(DecisionWhens(then, then, "INDETERMINATE", "INDETERMINATE"),
            structure.defaultOutcome)

ReasonCase ==
  LET then == [place \in Places(structure) |-> OrEmpty(RuleAt(place).reason)]
      unknown == "FACT_VALUE_MISSING_OR_INVALID"
  IN CaseOf(DecisionWhens(then, then, unknown, unknown), structure.defaultReason)

\* A text of codes is the sequence of its parts between commas: NULL has none,
\* so CONCAT_WS is \o, and N'' has one, the empty one.
EmptyText == <<"">>

EligibilityFirstMatch ==
  LET then == [place \in Places(structure) |-> <<RuleAt(place).code>>]
  IN IF RulesOf(3) = <<>> THEN EmptyText ELSE CaseOf(StageWhens(3, then), <<>>)

MatchedCase ==
  LET chosen == EligibilityFirstMatch
      early == [place \in Places(structure) |-> <<RuleAt(place).code>>]
      override == [place \in Places(structure) |-> chosen \o <<RuleAt(place).code>>]
  IN CaseOf(DecisionWhens(early, override, EmptyText, chosen), EmptyText)

\* The codes a reader of the column takes from the text.
CodesIn(text) == IF text = EmptyText THEN <<>> ELSE text

ViewRow == [outcome |-> OutcomeCase, reason |-> ReasonCase, matched |-> CodesIn(MatchedCase)]

----------------------------------------------------------------------------
\* The types of the evaluator's state.
DecisionTypeOK ==
  /\ structure \in Structures
  /\ verdict \in [Places(structure) -> Verdicts]
  /\ progress \in {"start", "evaluating", "decided"}
  /\ stage \in Stages /\ position \in 1..Len(RulesOf(stage)) + 1
  /\ undecided \in BOOLEAN
  /\ decision \in Decisions

\* The last rule that passed names no outcome, or no reason.
LastIsSilent(field) ==
  \E place \in Places(structure) :
    /\ verdict[place] = "pass" /\ RuleAt(place)[field] = Null
    /\ decision.matched # <<>>
    /\ RuleAt(place).code = decision.matched[Len(decision.matched)]

\* The row the statement returns carries the outcome, the reason and the matched
\* rules the evaluator decides, for every tree without blocking issues and all
\* verdicts on its rules: the order of the CASE branches, and where an undecided
\* rule stops them, reproduce the stages (_decision_whens against the loop of
\* evaluate_rule_structure_v31).  The row may differ in two things only: an
\* outcome or a reason is the empty text if the last rule that passed names none,
\* and the matched rules begin with an empty part if the tree has no eligibility
\* rule.  (No column reads blocking: a blocked tree has the row it would have
\* without its issues.)
RowFollowsTheTree ==
  progress = "decided" /\ ~structure.blocking =>
    /\ \A field \in {"outcome", "reason"} :
         ViewRow[field] = decision[field] \/ (ViewRow[field] = "" /\ LastIsSilent(field))
    /\ \/ ViewRow.matched = decision.matched
       \/ RulesOf(3) = <<>> /\ ViewRow.matched = EmptyText \o decision.matched

\* The row is the evaluator's decision, as the design documents have it for every
\* tree.  It is not, for the two reasons RowFollowsTheTree names.
RowIsTheDecision == progress = "decided" /\ ~structure.blocking => ViewRow = decision
============================================================================
