------------------------ MODULE CompleteDeliveryV31 ------------------------
(* select-delivery-v31: the delivery CompleteIntakeV31 selects is compiled  *)
(* under a mapping bundle to the one statement of ViewShapedSqlV31.  The    *)
(* printing of the answer is left out.                                      *)
EXTENDS CompleteIntakeV31, ViewShapedSqlV31

CONSTANTS Mappings,        \* the mapping files a command may name: a sequence
          Trees,           \* Trees[candidate.tree] is the tree of a candidate
          Tables           \* Tables[t]: tables the statement of tree t runs on

\* The trees the wire model refuses, and those it is given: a candidate's, of
\* conditions that are kept as RuleTreeV31 says.
ASSUME TreeAssumption ==
  /\ Malformed = {t \in DOMAIN Trees : ~TreeShaped(Trees[t])}
  /\ \A candidate \in Candidates : candidate.tree \in DOMAIN Trees
  /\ \A t \in DOMAIN Trees : \A s \in DOMAIN Trees[t].stages :
       \A rule \in Range(Trees[t].stages[s].rules) : ConditionFormed(rule.when)

ASSUME MappingAssumption == \A c \in Commands : c.mapping \in {0} \cup DOMAIN Mappings

\* Every fact a mapping grants has its relation, and no member key is NULL, which
\* is the scope of the subject (a NULL key matches no row).
ASSUME TableAssumption ==
  \A t \in DOMAIN Trees : \A d \in Tables[t] :
    /\ Null \notin d.members /\ d.members \notin {Null, Missing}
    /\ \A m \in DOMAIN Mappings : GrantedAs(Mappings[m], "scalar") \subseteq DOMAIN d.rows

\* NULL is neither the sentinel MISSING nor a bit.
ASSUME NullAssumption == Null \notin {Missing, 0, 1}

VARIABLES answer,      \* what became of the selected delivery
          blockers,    \* why nothing was compiled
          data         \* the tables the compiled statement was run on

answerVars == <<answer, blockers, data>>
deliveryVars == <<intakeVars, answerVars>>

Tree == Trees[delivery.candidate.tree]
Mapping == IF request.mapping = 0 THEN NoMapping ELSE Mappings[request.mapping]

DeliveryInit == IntakeInit /\ answer = "none" /\ blockers = {} /\ data = None

Intake == IntakeNext /\ UNCHANGED answerVars

\* The composition plan with its blockers, or the compiled statement.
Compile ==
  /\ intake = "selected" /\ answer = "none"
  /\ blockers' = IF CompileBlockers(Tree, Payloads, Mapping) # {}
                 THEN CompileBlockers(Tree, Payloads, Mapping)
                 ELSE Refusals(Tree, Mapping)
  /\ answer' = IF blockers' = {} THEN "compiled" ELSE "blocked"
  /\ UNCHANGED <<intakeVars, data>>

Tabled == Environment(Mapping, ToKinds(Payloads), data, Resolved(Tree, request.runtime))

\* The statement is run on some tables (external: nothing in the repository
\* runs it); the server refuses columns that are not those of one apply.
Run ==
  /\ answer = "compiled"
  /\ IF ColumnsBound(Tree, Mapping)
     THEN answer' = "answered" /\ data' \in Tables[delivery.candidate.tree]
     ELSE answer' = "refused" /\ UNCHANGED data
  /\ UNCHANGED <<intakeVars, blockers>>

Ended ==
  \/ intake \in {"invalid", "unavailable", "notFound", "notConsumable", "raised"}
  \/ answer \in {"blocked", "refused", "answered"}
Terminated == Ended /\ UNCHANGED deliveryVars

DeliveryNext == Intake \/ Compile \/ Run \/ Terminated

DeliverySpec == DeliveryInit /\ [][DeliveryNext]_deliveryVars

----------------------------------------------------------------------------
\* The facts of the tables as the evaluator takes them.
FactGiven(kind, rows) ==
  CASE kind = "count" -> Len(rows)
    [] kind = "exists" -> IF rows = <<>> THEN 0 ELSE 1
    [] OTHER -> Head(rows)
HasValue(kind, rows) == kind \in {"count", "exists"} \/ rows # <<>>
FactsAt(key) ==
  LET kind(f) == ValueIn(ToKinds(Payloads), f)
  IN [f \in {g \in DOMAIN data.rows : HasValue(kind(g), data.rows[g][key])} |->
        FactGiven(kind(f), data.rows[f][key])]
SetFacts == KeptAs(Mapping, "set")
Context ==
  LET ofSubject == FactsAt(Subject) IN
  [facts |-> [f \in SetFacts \cup DOMAIN ofSubject |->
                IF f \in SetFacts THEN data.members ELSE ofSubject[f]],
   runtime |-> Resolved(Tree, request.runtime),
   members |-> [key \in {k \in data.members : \E f \in DOMAIN data.rows :
                                                data.rows[f][k] # <<>>} |-> FactsAt(key)]]

\* Where a comparison asked in a scope is meant to follow the tree: no null
\* policy but the default, no test for null of a fact without a row, no collection
\* as a value, and of a member only facts read from one row.
CompareFits(node, context, scope) ==
  /\ node.nullPolicy = "indeterminate"
  /\ node.operator \in Unary =>
       Value(node.left, FactsFor(context, scope), context.runtime) # Missing
  /\ \A f \in FactsOf(node.left) \cup FactsOf(node.right) :
       IF scope = Null THEN f \notin SetFacts
       ELSE ValueIn(ToKinds(Payloads), f) \notin {"count", "exists"}

\* Where a condition on a collection is: it is asked of the subject, an empty
\* collection is not left open, and every member is known and decided.
AllMembersFits(c, node, context, scope) ==
  /\ scope = Null
  /\ data.members = {} => node.empty # "indeterminate"
  /\ data.members \subseteq DOMAIN context.members
  /\ \A key \in data.members :
       VerdictAt(c, context)[<<node.predicate, key>>] # "indeterminate"

\* In every scope in which the evaluator asks it.
Comparable(c, context) ==
  \A p \in Reached(c) : \A scope \in IF p[2] THEN DOMAIN context.members ELSE {Null} :
    /\ c[p[1]].kind = "compare" => CompareFits(c[p[1]], context, scope)
    /\ c[p[1]].kind = "allMembers" => AllMembersFits(c, c[p[1]], context, scope)

\* The hit column of a rule is 1, 0 or NULL as its condition passes, fails or is
\* undecided on the same data (the compiled predicates of _condition_sql against
\* evaluate_condition_v31), wherever the statement is meant to follow the tree.
HitsFollowTheTree ==
  answer = "answered" =>
    \A rule \in AllActive(Tree) :
      Comparable(rule.when, Context) =>
        Hit(rule, Tabled) = Bit(Condition(rule.when, Context))

\* The hit column of a rule that is undecided, on a collection that has members, is
\* NULL: the requirement has it so for every undecided rule.  (The comparisons
\* below the rule are such as the statement is meant to follow.)  It is not:
\* _all_members_sql looks for a member that fails, so one that is undecided or has
\* no rows passes.
UndecidedMembersShow ==
  answer = "answered" /\ data.members # {} =>
    \A rule \in AllActive(Tree) :
      /\ \A p \in Reached(rule.when) :
           \A scope \in IF p[2] THEN DOMAIN Context.members ELSE {Null} :
             rule.when[p[1]].kind = "compare" => CompareFits(rule.when[p[1]], Context, scope)
      /\ Condition(rule.when, Context) = "indeterminate"
      => Hit(rule, Tabled) = Null
============================================================================
