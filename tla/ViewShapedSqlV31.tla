-------------------------- MODULE ViewShapedSqlV31 --------------------------
(* The one SQL statement view_shaped_compile_v31.py writes from a rule tree *)
(* and an explicit mapping bundle, by what it means on the tables: the      *)
(* text, its quoting and its aliases are left out, and the three-valued     *)
(* logic of the server is external.                                         *)
(*                                                                          *)
(* Tables: data = [rows, members], rows[f][k] the column values of fact f   *)
(* whose key is k, members the keys of the member relation of the subject.  *)
(* A mapping is [grants], a sequence of [fact, cardinality]; its key        *)
(* columns are left out.  kinds[f] is the fact kind the batch declares.     *)
EXTENDS RuleTreeV31

CONSTANT Subject       \* the entity key the statement is run for

ToKinds(requests) ==
  [f \in {requests[i].fact : i \in DOMAIN requests} |->
     requests[CHOOSE i \in DOMAIN requests : requests[i].fact = f].kind]

----------------------------------------------------------------------------
(* What stops the compiler. *)

\* A request's kind is "scalar", a COUNT(*) ("count"), another aggregate
\* ("aggregate"), "exists" in its own mode or in another ("existsFact").
CapabilityBlockers(requests) ==
  LET kinds == {requests[i].kind : i \in DOMAIN requests}
  IN (IF "aggregate" \in kinds THEN {"AGGREGATION"} ELSE {})
     \cup (IF "existsFact" \in kinds THEN {"EXISTS_FACT"} ELSE {})

Granted(mapping) == {mapping.grants[i].fact : i \in DOMAIN mapping.grants}
GrantedAs(mapping, cardinality) ==
  {mapping.grants[i].fact :
     i \in {j \in DOMAIN mapping.grants : mapping.grants[j].cardinality = cardinality}}

\* A bundle may grant a fact twice; looked up by its code, it is its last grant.
GrantOf(mapping, fact) ==
  LET places == {i \in DOMAIN mapping.grants : mapping.grants[i].fact = fact}
  IN mapping.grants[CHOOSE i \in places : \A j \in places : j <= i]
KeptAs(mapping, cardinality) ==
  {f \in GrantedAs(mapping, cardinality) : GrantOf(mapping, f).cardinality = cardinality}

NoMapping == [grants |-> <<>>]

CompileBlockers(tree, requests, mapping) ==
  CapabilityBlockers(requests)
  \cup (IF mapping = NoMapping THEN {"METADATA_REVIEW", "SQL_NOT_COMPILED"}
        ELSE IF tree.required \subseteq Granted(mapping) THEN {}
        ELSE {"METADATA_REVIEW"})

\* What _compile meets while it writes the predicates of the active rules; it
\* raises the first one.
Refusals(tree, mapping) ==
  LET nodes == UNION {NodesReached(r.when) : r \in AllActive(tree)}
  IN (IF \E n \in nodes : n.kind = "compare" /\ n.operator \in {"in", "notIn"}
      THEN {"UNSUPPORTED_OPERATOR", "UNSUPPORTED_LITERAL"} ELSE {})
     \cup (IF \E n \in nodes : /\ n.kind = "allMembers"
                               /\ n.collection \notin KeptAs(mapping, "set")
           THEN {"METADATA_REVIEW"} ELSE {})

\* The facts the comparisons at some places of a condition read.
FactsOf(e) == {e[n].name : n \in {m \in DOMAIN e : e[m].kind = "fact"}}
FactsRead(c, places) ==
  UNION {FactsOf(c[p[1]].left) \cup FactsOf(c[p[1]].right) :
           p \in {q \in places : c[q[1]].kind = "compare"}}

\* Every column the statement reads is that of one apply: the subject has one for
\* each scalar grant, a member for each fact that is kept as one.
ColumnsBound(tree, mapping) ==
  LET scalars == {i \in DOMAIN mapping.grants : mapping.grants[i].cardinality = "scalar"}
  IN /\ \A i, j \in scalars : mapping.grants[i].fact = mapping.grants[j].fact => i = j
     /\ \A r \in AllActive(tree) :
          LET ofMember == {p \in Reached(r.when) : p[2]}
          IN /\ FactsRead(r.when, ofMember) \subseteq KeptAs(mapping, "scalar")
             /\ FactsRead(r.when, Reached(r.when) \ ofMember) \subseteq GrantedAs(mapping, "scalar")

----------------------------------------------------------------------------
(* What the statement's predicates mean: "true", "false" or "unknown". *)

SqlAnd(parts) ==
  IF "false" \in parts THEN "false"
  ELSE IF "unknown" \in parts THEN "unknown" ELSE "true"
SqlOr(parts) ==
  IF "true" \in parts THEN "true"
  ELSE IF "unknown" \in parts THEN "unknown" ELSE "false"
SqlNot(part) ==
  CASE part = "true" -> "false" [] part = "false" -> "true" [] OTHER -> "unknown"
SqlIf(b) == IF b THEN "true" ELSE "false"

\* The fact_value of the OUTER APPLY of one fact, for the subject and for a
\* member: COUNT(*) and EXISTS are written for the subject only.
ScalarApply(rows) == IF rows = <<>> THEN Null ELSE Head(rows)
FactApply(kind, rows) ==
  CASE kind = "count" -> Len(rows)
    [] kind = "exists" -> IF rows = <<>> THEN 0 ELSE 1
    [] OTHER -> ScalarApply(rows)

\* What the statement computes with: the fact columns of the subject and of
\* each member, the members, and the parameters.
Environment(mapping, kinds, data, runtime) ==
  [subject |-> [f \in GrantedAs(mapping, "scalar") |->
                  FactApply(ValueIn(kinds, f), data.rows[f][Subject])],
   member |-> [key \in data.members |->
                 [f \in KeptAs(mapping, "scalar") |-> ScalarApply(data.rows[f][key])]],
   members |-> data.members,
   runtime |-> runtime]

\* The fact columns in scope.
RowFor(env, scope) == IF scope = Null THEN env.subject ELSE env.member[scope]

SqlValueOf(node, args, row, runtime) ==
  CASE node.kind = "literal" -> node.value
    [] node.kind = "parameter" -> IF node.name \in DOMAIN runtime THEN runtime[node.name] ELSE Null
    [] node.kind = "fact" -> row[node.name]
    [] node.kind = "coalesce" -> FirstKnown(args, Null)
    [] OTHER -> IF \A i \in DOMAIN args : Known(args[i])
                THEN Arithmetic(node.kind, args) ELSE Null

SqlValueAt(e, row, runtime) ==
  LET at[n \in DOMAIN e] ==
        SqlValueOf(e[n], [i \in DOMAIN e[n].children |-> at[e[n].children[i]]], row, runtime)
  IN at
SqlValue(e, row, runtime) == SqlValueAt(e, row, runtime)[Len(e)]

SqlCompare(node, row, runtime) ==
  LET left == SqlValue(node.left, row, runtime)
      right == SqlValue(node.right, row, runtime)
  IN CASE node.operator = "isNull" -> SqlIf(left = Null)
       [] node.operator = "isNotNull" -> SqlIf(left # Null)
       [] node.operator = "isBlank" -> SqlIf(left \in {Null, Blank})
       [] node.operator = "isNotBlank" -> SqlIf(left \notin {Null, Blank})
       [] OTHER -> IF Known(left) /\ Known(right)
                   THEN SqlIf(Related(node.operator, left, right)) ELSE "unknown"

\* Seeded bug: a collection without members passes whatever its policy.
SqlAllMembers_Vacuous(node, members, predicates) ==
  SqlIf(~\E p \in predicates : SqlNot(p) = "true")

\* NOT EXISTS (a member for which NOT (predicate)), with a member there must be
\* one unless the empty collection passes.
SqlAllMembers(node, members, predicates) ==
  SqlIf(/\ node.empty = "pass" \/ members # {}
        /\ ~\E p \in predicates : SqlNot(p) = "true")

SqlConditionOf(node, children, members, predicates, row, runtime) ==
  IF ~node.enabled THEN "true"
  ELSE CASE node.kind = "all" -> SqlAnd(Range(children))
         [] node.kind = "any" -> SqlOr(Range(children))
         [] node.kind = "not" -> SqlNot(children[1])
         [] node.kind = "allMembers" -> SqlAllMembers(node, members, predicates)
         [] node.kind = "compare" -> SqlCompare(node, row, runtime)

SqlConditionAt(c, env) ==
  LET at[p \in (DOMAIN c) \X ({Null} \cup env.members)] ==
        LET node == c[p[1]]
        IN SqlConditionOf(node, [i \in DOMAIN node.children |-> at[<<node.children[i], p[2]>>]],
                          env.members,
                          IF node.kind = "allMembers"
                          THEN {at[<<node.predicate, key>>] : key \in env.members} ELSE {},
                          RowFor(env, p[2]), env.runtime)
  IN at
SqlCondition(c, env) == SqlConditionAt(c, env)[<<Len(c), Null>>]

\* CASE WHEN p THEN 1 WHEN NOT (p) THEN 0 ELSE NULL END
Hit(rule, env) ==
  LET p == SqlCondition(rule.when, env)
  IN CASE p = "true" -> 1 [] SqlNot(p) = "true" -> 0 [] OTHER -> Null
============================================================================
