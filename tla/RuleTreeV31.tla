---------------------------- MODULE RuleTreeV31 ----------------------------
(* The five-stage rule tree of a 3.1.0 delivery: the shape its wire model   *)
(* demands and the verdict of rule_evaluate_v31.py on a condition.          *)
(*                                                                          *)
(* An expression is the sequence of its nodes [kind, name, value, children], *)
(* a condition that of its nodes [kind, id, enabled, children, left,        *)
(* operator, right, nullPolicy, collection, empty, missing, predicate]: a   *)
(* node names another by its place, each comes after those below it, and    *)
(* the last is the whole.  A field a kind lacks is NoExpression, 0 for the  *)
(* predicate, or the kind's default.  Dates are day numbers and numbers     *)
(* integers: division (exact decimals here, SQL Server's own division in    *)
(* the compiled text), date units other than the day and comparisons of     *)
(* values of two types are left out.                                        *)
EXTENDS RuleStagesV31, Functions

CONSTANTS Missing,     \* the MISSING sentinel: no such fact or parameter
          Blank        \* the empty text

Unary == {"isNull", "isNotNull", "isBlank", "isNotBlank"}

ExpressionKinds ==
  {"fact", "literal", "parameter", "add", "multiply", "subtract", "dateAdd", "coalesce"}
ConditionKinds == {"all", "any", "not", "compare", "allMembers"}

NoExpression == <<>>
NoCondition == <<>>

\* Nodes that are kept as said above.
ExpressionFormed(e) ==
  /\ Len(e) \in Nat /\ e = [n \in 1..Len(e) |-> e[n]]
  /\ \A n \in DOMAIN e :
       e[n].kind \in ExpressionKinds /\ e[n].children \in Seq(1..n - 1)
ConditionFormed(c) ==
  /\ Len(c) \in Nat /\ c = [n \in 1..Len(c) |-> c[n]]
  /\ \A n \in DOMAIN c :
       /\ c[n].enabled \in BOOLEAN /\ c[n].kind \in ConditionKinds
       /\ c[n].children \in Seq(1..n - 1)
       /\ c[n].kind = "compare" =>
            /\ c[n].left # NoExpression
            /\ ExpressionFormed(c[n].left) /\ ExpressionFormed(c[n].right)
       /\ c[n].kind = "allMembers" => c[n].predicate \in 1..n - 1 /\ c[n].empty \in Verdicts

----------------------------------------------------------------------------
(* The wire model. *)

ExpressionShaped(e) ==
  \A n \in DOMAIN e :
    /\ e[n].kind \in {"add", "multiply", "coalesce"} => Len(e[n].children) >= 2
    /\ e[n].kind \in {"subtract", "dateAdd"} => Len(e[n].children) = 2
    /\ e[n].kind = "literal" => e[n].value # Null

ConditionShaped(c) ==
  \A n \in DOMAIN c :
    /\ c[n].kind \in {"all", "any"} => c[n].children # <<>>
    /\ c[n].kind = "not" => Len(c[n].children) = 1
    /\ c[n].kind = "compare" =>
         /\ (c[n].operator \in Unary) <=> (c[n].right = NoExpression)
         /\ ExpressionShaped(c[n].left) /\ ExpressionShaped(c[n].right)

\* A rule: [code, status, when, outcome, reason].
Active(rule) == rule.status = "active" /\ rule.when # NoCondition

StageShaped(stage) ==
  /\ (stage.rules = <<>>) <=> (stage.emptyReason # Null)
  /\ \A i \in DOMAIN stage.rules : ConditionShaped(stage.rules[i].when)

OnHit == [s \in Range(StageOrder) |->
            IF s = "eligibility" THEN "firstMatchThenContinue" ELSE "terminate"]

TreeShaped(tree) ==
  /\ [i \in DOMAIN tree.stages |-> tree.stages[i].stage] = StageOrder
  /\ \A i \in DOMAIN tree.stages : StageShaped(tree.stages[i])
  /\ tree.onHit = OnHit
  /\ \A i, j \in DOMAIN tree.parameters :
       tree.parameters[i].name = tree.parameters[j].name => i = j

\* Every active rule of the tree.
AllActive(tree) ==
  {rule \in UNION {Range(tree.stages[s].rules) : s \in DOMAIN tree.stages} : Active(rule)}

\* The nodes the evaluator and the compiler reach from one, and for each whether
\* it is asked of a member: what is below a disabled node is never looked at.
ReachedFrom(c) ==
  LET from[p \in (DOMAIN c) \X BOOLEAN] ==
        LET n == p[1]
            ofMember == p[2]
        IN IF ~c[n].enabled THEN {}
           ELSE {<<n, ofMember>>}
                \cup (UNION {from[<<c[n].children[i], ofMember>>] : i \in DOMAIN c[n].children})
                \cup (IF c[n].kind = "allMembers" THEN from[<<c[n].predicate, TRUE>>] ELSE {})
  IN from
Reached(c) == ReachedFrom(c)[<<Len(c), FALSE>>]
NodesReached(c) == {c[p[1]] : p \in Reached(c)}

----------------------------------------------------------------------------
(* The evaluator.  A context is [facts, runtime, members]: the facts of the *)
(* subject and the parameters that have a value, and the facts of each      *)
(* member.  A condition is asked of the subject, scope Null, or a member.   *)

Known(v) == v \notin {Null, Missing}
ValueIn(map, key) == IF key \in DOMAIN map THEN map[key] ELSE Missing
FactsFor(context, scope) == IF scope = Null THEN context.facts ELSE context.members[scope]

Arithmetic(kind, args) ==
  CASE kind \in {"add", "dateAdd"} -> SumFunction(args)
    [] kind = "multiply" -> FoldFunction(LAMBDA a, b : a * b, 1, args)
    [] kind = "subtract" -> args[1] - args[2]

\* The first value there is, and what there is without one.
FirstKnown(args, none) ==
  LET known == {i \in DOMAIN args : Known(args[i])}
  IN IF known = {} THEN none ELSE args[CHOOSE i \in known : \A j \in known : i <= j]

\* The value of a node, by those below it.
ValueOf(node, args, facts, runtime) ==
  CASE node.kind = "literal" -> node.value
    [] node.kind = "parameter" -> ValueIn(runtime, node.name)
    [] node.kind = "fact" -> ValueIn(facts, node.name)
    [] node.kind = "coalesce" -> FirstKnown(args, Missing)
    [] OTHER -> IF \A i \in DOMAIN args : Known(args[i])
                THEN Arithmetic(node.kind, args) ELSE Missing

ValueAt(e, facts, runtime) ==
  LET at[n \in DOMAIN e] ==
        ValueOf(e[n], [i \in DOMAIN e[n].children |-> at[e[n].children[i]]], facts, runtime)
  IN at
Value(e, facts, runtime) == ValueAt(e, facts, runtime)[Len(e)]

Related(operator, left, right) ==
  CASE operator = "eq" -> left = right
    [] operator = "ne" -> left # right
    [] operator = "gt" -> left > right
    [] operator = "gte" -> left >= right
    [] operator = "lt" -> left < right
    [] operator = "lte" -> left <= right
    [] operator = "in" -> left \in right
    [] operator = "notIn" -> left \notin right

PassIf(b) == IF b THEN "pass" ELSE "fail"

Compare(node, facts, runtime) ==
  LET left == Value(node.left, facts, runtime)
      right == Value(node.right, facts, runtime)
  IN CASE node.operator = "isNull" -> PassIf(left = Null)
       [] node.operator = "isNotNull" -> PassIf(left # Null)
       [] node.operator = "isBlank" -> PassIf(left \in {Null, Blank})
       [] node.operator = "isNotBlank" -> PassIf(left \notin {Null, Blank})
       [] OTHER -> IF Known(left) /\ Known(right)
                   THEN PassIf(Related(node.operator, left, right))
                   ELSE node.nullPolicy

\* The verdict of a conjunction over the verdicts of its parts, and its dual.
Conjunction(verdicts) ==
  IF "fail" \in verdicts THEN "fail"
  ELSE IF "indeterminate" \in verdicts THEN "indeterminate" ELSE "pass"
Disjunction(verdicts) ==
  IF "pass" \in verdicts THEN "pass"
  ELSE IF "indeterminate" \in verdicts THEN "indeterminate" ELSE "fail"
Negation(verdict) ==
  CASE verdict = "pass" -> "fail"
    [] verdict = "fail" -> "pass"
    [] OTHER -> "indeterminate"

\* keys: those of the collection, a set; verdicts: those on its members.
AllMembers(node, keys, verdicts) ==
  IF ~Known(keys) THEN "indeterminate"
  ELSE IF keys = {} THEN node.empty ELSE Conjunction(verdicts)

\* The verdict on a node, by those on the nodes below it and on the members.
VerdictOf(node, children, members, facts, runtime) ==
  IF ~node.enabled THEN "pass"
  ELSE CASE node.kind = "compare" -> Compare(node, facts, runtime)
         [] node.kind = "allMembers" ->
              AllMembers(node, ValueIn(facts, node.collection), members)
         [] node.kind = "not" -> Negation(children[1])
         [] node.kind = "all" -> Conjunction(Range(children))
         [] node.kind = "any" -> Disjunction(Range(children))

\* In every scope.
VerdictAt(c, context) ==
  LET at[p \in (DOMAIN c) \X ({Null} \cup DOMAIN context.members)] ==
        LET node == c[p[1]]
            facts == FactsFor(context, p[2])
            OfMember(key) == IF key \in DOMAIN context.members
                             THEN at[<<node.predicate, key>>] ELSE node.missing
        IN VerdictOf(node, [i \in DOMAIN node.children |-> at[<<node.children[i], p[2]>>]],
                     IF node.kind = "allMembers"
                     THEN {OfMember(key) : key \in ValueIn(facts, node.collection)} ELSE {},
                     facts, context.runtime)
  IN at
Condition(c, context) == VerdictAt(c, context)[<<Len(c), Null>>]

\* The parameters the caller gives, over those the delivery binds itself.
Resolved(tree, given) ==
  LET bound == {i \in DOMAIN tree.parameters : tree.parameters[i].bound # Null}
      own == [name \in {tree.parameters[i].name : i \in bound} |->
                tree.parameters[CHOOSE i \in bound : tree.parameters[i].name = name].bound]
  IN [name \in DOMAIN given \cup DOMAIN own |->
        IF name \in DOMAIN given THEN given[name] ELSE own[name]]
============================================================================
