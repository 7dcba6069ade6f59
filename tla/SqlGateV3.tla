------------------------------- MODULE SqlGateV3 -------------------------------
(***************************************************************************)
(* The way of a model's SQL through generate_sql_candidate_v3 (scope,      *)
(* cross references, assembly) and validate_sql_candidate_v3 (references,  *)
(* AST inspection, semantic checks).  The gate judges syntax; what it is   *)
(* for is stated on the meaning: a query that passes returns, whatever the *)
(* table holds, what the request asks for.                                 *)
(*                                                                         *)
(* Identifiers are numbers; Fold[n] is the casefold of n.  A relation is   *)
(* one identifier (schema and name), a column of the snapshot a pair       *)
(* <<relation, column>>.  Statements are records: "nodes" are the          *)
(* constructs in them beyond a plain SELECT, and "where" is the sequence   *)
(* of conjuncts that AND and parentheses join, however they are nested.    *)
(***************************************************************************)
EXTENDS Naturals, Sequences, FiniteSets

CONSTANTS
    Requests,    \* Requests[n]: a GenerateSqlCandidateRequestV3
    Payloads,    \* Payloads[n]: what the model may answer to it
    Edits,       \* Edits[n]: SQL that an edit may put in its place
    Judges,      \* Judges[n]: the requests it may be validated against
    Fold, Values, Null,
    NoCandidate, NoReport

VARIABLES
    name,        \* the request that a candidate is generated for
    pc,
    candidate,   \* the SqlTemplateCandidateV3
    judged,      \* the request that it is validated against
    report       \* the SqlStaticValidationReportV3

vars == <<name, pc, candidate, judged, report>>

Elements(s) == {s[i] : i \in DOMAIN s}
Norm(r, n) == IF r.sensitive THEN n ELSE Fold[n]

-----------------------------------------------------------------------------
(* What a request asks for *)

FieldColumn(r, id) == <<r.fields[id].relation, r.fields[id].column>>
FactColumn(r) == FieldColumn(r, "factValue")
Keys(r) == DOMAIN r.keys
KeyColumn(r, p) == FieldColumn(r, r.keys[p])
Relations(r) == {r.fields[id].relation : id \in DOMAIN r.fields}
Consumer(r) == IF r.rowset THEN "rowset" ELSE "scalar"
Recomputed(r) == [status |-> r.resolves, fields |-> r.fields, rowset |-> r.rowset]

\* Seeded bug: filters on columns that may be NULL qualify.
FilterQualifies_Nullable(r, f) ==
    /\ f.operator = "eq" /\ f.kind = "parameter"
    /\ f.required /\ f.nullPolicy = "error"
    /\ f.operand \in Keys(r) /\ r.parameters[f.operand].required
    /\ f.field = r.keys[f.operand]

\* A filter that the equality of an entity key enforces already.
FilterQualifies(r, f) ==
    /\ f.operator = "eq" /\ f.kind = "parameter"
    /\ f.required /\ f.nullPolicy = "error"
    /\ f.operand \in Keys(r) /\ r.parameters[f.operand].required
    /\ f.field = r.keys[f.operand]
    /\ ~r.columns[KeyColumn(r, f.operand)]

\* One filter that does not qualify invalidates all.
Qualified(r) ==
    IF \A f \in Elements(r.filters) : FilterQualifies(r, f)
    THEN {f.operand : f \in Elements(r.filters)} ELSE {}

ScopeIssues(r) ==
    {code \in {"FACT_KIND", "AGGREGATION", "TIME_RANGE", "FILTERS", "FIELDS",
               "MULTIPLE_RELATIONS", "JOIN", "PARAMETERS"} :
        CASE code = "FACT_KIND" -> r.kind # "source"
          [] code = "AGGREGATION" -> r.aggregation # "none"
          [] code = "TIME_RANGE" -> r.timeRange # "none"
          [] code = "FILTERS" -> r.filters # <<>> /\ Qualified(r) = {}
          [] code = "FIELDS" ->
                \E id \in DOMAIN r.fields \ {"factValue"} :
                    r.fields[id].role # "entityKey" \/ \A p \in Keys(r) : r.keys[p] # id
          [] code = "MULTIPLE_RELATIONS" -> Cardinality(Relations(r)) > 1
          [] code = "JOIN" -> r.joins > 0
          [] code = "PARAMETERS" ->
                \E p \in DOMAIN r.parameters : r.parameters[p].role # "entityKey"}

-----------------------------------------------------------------------------
(* The candidate *)

\* The lists of an answer name nothing twice.
WellFormed(g) ==
    /\ Cardinality(Elements(g.objects)) = Len(g.objects)
    /\ Cardinality(Elements(g.usages)) = Len(g.usages)

\* What the model declares beside its SQL must be what the request says.
CrossReferenced(r, g) ==
    /\ g.parameters = r.parameters
    /\ g.cardinality = Consumer(r)
    /\ Elements(g.objects) = Relations(r)
    /\ g.usages = r.usages

\* The hash of a candidate covers all of it but the hash.
ContentSha(c) == [c EXCEPT !.sha = "omitted"]
Assembled(n, g) ==
    LET c == [input |-> n, report |-> Recomputed(Requests[n]),
              sql |-> g.sql, parameters |-> g.parameters, cardinality |-> g.cardinality,
              objects |-> Relations(Requests[n]), usages |-> g.usages,
              trace |-> Requests[n].usages, sha |-> "omitted"]
    IN  [c EXCEPT !.sha = ContentSha(c)]

-----------------------------------------------------------------------------
(* The references of a candidate *)

\* Seeded bug: the upstream cardinality is expected, whatever the semantics binding.
ReferencesAgree_Upstream(n, c) ==
    LET r == Requests[n]
    IN  /\ r.resolves = "metadataResolved"
        /\ r.carried = Recomputed(r)
        /\ c.sha = ContentSha(c)
        /\ c.input = n /\ c.report = Recomputed(r)
        /\ c.parameters = r.parameters /\ c.cardinality = "scalar"
        /\ c.objects = Relations(r)
        /\ c.usages = r.usages /\ c.trace = r.usages

\* Seeded bug: the candidate's own hash is not recomputed.
ReferencesAgree_Unhashed(n, c) ==
    LET r == Requests[n]
    IN  /\ r.resolves = "metadataResolved"
        /\ r.carried = Recomputed(r)
        /\ c.input = n /\ c.report = Recomputed(r)
        /\ c.parameters = r.parameters /\ c.cardinality = Consumer(r)
        /\ c.objects = Relations(r)
        /\ c.usages = r.usages /\ c.trace = r.usages

\* No issue of _ref_issues.
ReferencesAgree(n, c) ==
    LET r == Requests[n]
    IN  /\ r.resolves = "metadataResolved"
        /\ r.carried = Recomputed(r)
        /\ c.sha = ContentSha(c)
        /\ c.input = n /\ c.report = Recomputed(r)
        /\ c.parameters = r.parameters /\ c.cardinality = Consumer(r)
        /\ c.objects = Relations(r)
        /\ c.usages = r.usages /\ c.trace = r.usages

-----------------------------------------------------------------------------
(* The inspection of a statement *)

Nowhere == <<0, 0>>
Allowed(r, t) == \E c \in DOMAIN r.columns : Norm(r, c[1]) = Norm(r, t.relation)

\* The tables that a qualifier may stand for: an alias hides the name.
Sources(r, s, qualifier) ==
    {i \in DOMAIN s.from :
        \/ qualifier = 0
        \/ Norm(r, qualifier) =
             Norm(r, IF s.from[i].alias = 0 THEN s.from[i].relation ELSE s.from[i].alias)}

\* The column of the snapshot that a reference denotes, spelled as there.
Physical(r, s, ref) ==
    LET found == {c \in DOMAIN r.columns :
                    \E i \in Sources(r, s, ref.qualifier) :
                        /\ Norm(r, c[1]) = Norm(r, s.from[i].relation)
                        /\ Norm(r, c[2]) = Norm(r, ref.column)
                        /\ s.from[i].kind = "plain"}
    IN  IF Cardinality(Sources(r, s, ref.qualifier)) = 1 /\ ~ref.extra /\ found # {}
        THEN CHOOSE c \in found : TRUE ELSE Nowhere

\* A parameter is no column, nor a column a parameter.
Column(r, s, side) == IF side.kind = "column" THEN Physical(r, s, side.ref) ELSE Nowhere
IsParameter(side) == side.kind = "parameter"

\* WHERE is taken apart only if nothing in it but comparisons is joined by AND.
Comparisons(s) ==
    IF \A i \in DOMAIN s.where : s.where[i].op \in {"eq", "ne"} THEN s.where ELSE <<>>

\* qualify() gives up on a statement with a column that it cannot find.
References(s) ==
    {s.projections[i].ref : i \in {i \in DOMAIN s.projections : s.projections[i].kind # "other"}}
        \cup {side.ref : side \in {side \in UNION {{s.where[i].left, s.where[i].right} :
                                                      i \in DOMAIN s.where} : side.kind = "column"}}
ResultColumns(r, s) ==
    IF \E ref \in References(s) : Physical(r, s, ref) = Nowhere THEN <<>>
    ELSE [i \in DOMAIN s.projections |->
            [alias |-> s.projections[i].alias,
             source |-> IF s.projections[i].kind = "other" THEN Nowhere
                        ELSE Physical(r, s, s.projections[i].ref)]]
\* A CASE whose arms are not string literals has none here.
EncodingCases(r, s) ==
    {i \in DOMAIN s.projections :
        /\ s.projections[i].kind = "case"
        /\ s.projections[i].arms # <<>>
        /\ Physical(r, s, s.projections[i].ref) # Nowhere}
HasCase(s) == \E i \in DOMAIN s.projections : s.projections[i].kind = "case"

\* A construct off the list of those a SELECT of a value needs.
Forbidden(s) ==
    \/ s.nodes # {}
    \/ \E i \in DOMAIN s.where :
          s.where[i].op # "eq" \/ "literal" \in {s.where[i].left.kind, s.where[i].right.kind}
\* A table that is not in the snapshot, temporary or of another database.
TableIssues(r, s) ==
    {code \in {"SQL_OBJECT_NOT_ALLOWED", "SQL_TEMP_OBJECT", "SQL_CROSS_DATABASE"} :
        \E i \in DOMAIN s.from :
            CASE code = "SQL_OBJECT_NOT_ALLOWED" ->
                    s.from[i].kind = "plain" /\ ~Allowed(r, s.from[i])
              [] code = "SQL_TEMP_OBJECT" -> s.from[i].kind = "temp"
              [] code = "SQL_CROSS_DATABASE" -> s.from[i].kind = "catalog"}

\* What the inspector reports of a single SELECT.
PortIssues(r, s) ==
    TableIssues(r, s) \cup
    {code \in {"SQL_NODE_FORBIDDEN", "SQL_PREDICATE", "SQL_COLUMN_QUALIFIER",
               "SQL_WHERE_INVALID"} :
        CASE code = "SQL_NODE_FORBIDDEN" -> Forbidden(s)
          [] code = "SQL_PREDICATE" -> \E i \in DOMAIN s.where : s.where[i].op = "ne"
          [] code = "SQL_COLUMN_QUALIFIER" -> \E ref \in References(s) : ref.extra
          [] code = "SQL_WHERE_INVALID" -> s.where # <<>> /\ Comparisons(s) = <<>>}

-----------------------------------------------------------------------------
(* The semantic checks *)

ResultIssues(r, s) ==
    LET columns == ResultColumns(r, s)
    IN  IF Len(columns) # 1 THEN {"SQL_RES_SHAPE"}
        ELSE IF columns[1].alias # "fact_value" THEN {"SQL_RES_ALIAS"}
        ELSE IF columns[1].source # FactColumn(r) THEN {"SQL_RES_SRC"}
        ELSE {}

Placeholders(s) ==
    {side.name : side \in {side \in UNION {{s.where[i].left, s.where[i].right} :
                                             i \in DOMAIN s.where} : IsParameter(side)}}

\* Seeded bug: the column has to be on the left.
Binds_InOrder(r, s, c) == Column(r, s, c.left) # Nowhere /\ IsParameter(c.right)

\* A comparison of a column with a parameter, in either order.
Binds(r, s, c) ==
    \/ Column(r, s, c.left) # Nowhere /\ IsParameter(c.right)
    \/ Column(r, s, c.right) # Nowhere /\ IsParameter(c.left)
Bound(r, s, c) ==
    IF Column(r, s, c.left) # Nowhere
    THEN [parameter |-> c.right.name, column |-> Column(r, s, c.left)]
    ELSE [parameter |-> c.left.name, column |-> Column(r, s, c.right)]
IsLiteral(c) == "literal" \in {c.left.kind, c.right.kind}

\* WHERE is one equality for each entity key, on its column, and nothing else.
KeyIssues(r, s) ==
    LET cs == Comparisons(s)
        self == {i \in DOMAIN cs : IsParameter(cs[i].left) /\ IsParameter(cs[i].right)}
        literal == {i \in DOMAIN cs \ self : IsLiteral(cs[i])}
        shaped == {i \in DOMAIN cs \ (self \cup literal) : Binds(r, s, cs[i])}
        equal == {i \in shaped : cs[i].op = "eq"}
        on(p) == {i \in equal : Bound(r, s, cs[i]).parameter = p}
        first(p) == CHOOSE i \in on(p) : \A j \in on(p) : i <= j
    IN  {code \in {"SQL_SELF_CMP", "SQL_LITERAL", "SQL_CMP_SHAPE", "SQL_CMP_OP",
                   "SQL_KEY_DUPLICATE", "SQL_KEY_MISSING", "SQL_KEY_WRONG", "SQL_KEY_EXTRA"} :
            CASE code = "SQL_SELF_CMP" -> self # {}
              [] code = "SQL_LITERAL" -> literal # {}
              [] code = "SQL_CMP_SHAPE" -> shaped # DOMAIN cs \ (self \cup literal)
              [] code = "SQL_CMP_OP" -> equal # shaped
              [] code = "SQL_KEY_DUPLICATE" ->
                    \E i, j \in equal :
                        i # j /\ Bound(r, s, cs[i]).parameter = Bound(r, s, cs[j]).parameter
              [] code = "SQL_KEY_MISSING" -> \E p \in Keys(r) : on(p) = {}
              [] code = "SQL_KEY_WRONG" ->
                    \E p \in Keys(r) :
                        on(p) # {} /\ Bound(r, s, cs[first(p)]).column # KeyColumn(r, p)
              [] code = "SQL_KEY_EXTRA" ->
                    \E i \in equal : Bound(r, s, cs[i]).parameter \notin Keys(r)}

FilterIssues(r, s) ==
    LET cs == Comparisons(s)
        bound == {Bound(r, s, cs[i]).parameter :
                    i \in {i \in DOMAIN cs : cs[i].op = "eq" /\ ~IsLiteral(cs[i])
                                             /\ Binds(r, s, cs[i])}}
    IN  IF r.filters = <<>> THEN {}
        ELSE IF Qualified(r) = {} THEN {"SQL_FILTER_UNSUPPORTED"}
        ELSE IF ~(Qualified(r) \subseteq bound) THEN {"SQL_FILTER_MISSING"}
        ELSE {}

EncodingIssues(r, s) ==
    LET cases == EncodingCases(r, s)
        case == s.projections[CHOOSE i \in cases : TRUE]
    IN  IF r.encoding.kind # "mappedCase"
        THEN IF HasCase(s) THEN {"SQL_CASE"} ELSE {}
        ELSE IF Cardinality(cases) # 1 THEN {"SQL_ENCODING_CASE"}
        ELSE {code \in {"SQL_ENCODING_SRC", "SQL_ENCODING_ARMS", "SQL_ENCODING_ELSE"} :
                CASE code = "SQL_ENCODING_SRC" -> Physical(r, s, case.ref) # FactColumn(r)
                  [] code = "SQL_ENCODING_ARMS" -> Elements(case.arms) # r.encoding.entries
                  [] code = "SQL_ENCODING_ELSE" -> case.otherwise # Null}

CardinalityIssues(r, s, c) ==
    {code \in {"SQL_ROW_CLIP", "SQL_CARDINALITY"} :
        CASE code = "SQL_ROW_CLIP" -> s.nodes \cap {"limit", "distinct", "group", "offset"} # {}
          [] code = "SQL_CARDINALITY" -> r.rowset /\ c.cardinality # "rowset"}

SemanticIssues(r, c) ==
    LET s == c.sql
    IN  (IF Cardinality({i \in DOMAIN s.from : Allowed(r, s.from[i])}) # 1
         THEN {"SQL_OBJ_COUNT"} ELSE {})
        \cup (IF Placeholders(s) # DOMAIN r.parameters THEN {"SQL_PARAM_MISMATCH"} ELSE {})
        \cup ResultIssues(r, s) \cup KeyIssues(r, s) \cup FilterIssues(r, s)
        \cup EncodingIssues(r, s) \cup CardinalityIssues(r, s, c)

\* Of several statements, or of another one, nothing is looked at.
Issues(r, c) ==
    IF c.sql.statements # 1 THEN {"SQL_STATEMENT_COUNT"}
    ELSE IF c.sql.root # "Select" THEN {"SQL_ROOT_NOT_SELECT"}
    ELSE PortIssues(r, c.sql) \cup SemanticIssues(r, c)

Codes ==
    {"SQL_OBJECT_NOT_ALLOWED", "SQL_TEMP_OBJECT", "SQL_CROSS_DATABASE",
     "SQL_NODE_FORBIDDEN", "SQL_PREDICATE", "SQL_COLUMN_QUALIFIER",
     "SQL_WHERE_INVALID", "SQL_RES_SHAPE", "SQL_RES_ALIAS", "SQL_RES_SRC",
     "SQL_SELF_CMP", "SQL_LITERAL", "SQL_CMP_SHAPE", "SQL_CMP_OP",
     "SQL_KEY_DUPLICATE", "SQL_KEY_MISSING", "SQL_KEY_WRONG", "SQL_KEY_EXTRA",
     "SQL_FILTER_UNSUPPORTED", "SQL_FILTER_MISSING", "SQL_CASE", "SQL_ENCODING_CASE",
     "SQL_ENCODING_SRC", "SQL_ENCODING_ARMS", "SQL_ENCODING_ELSE", "SQL_ROW_CLIP",
     "SQL_CARDINALITY", "SQL_OBJ_COUNT", "SQL_PARAM_MISMATCH", "SQL_STATEMENT_COUNT",
     "SQL_ROOT_NOT_SELECT"}
Reports == [status : {"passed", "blocked"}, inspected : BOOLEAN, issues : SUBSET Codes]
Validated(n, c) ==
    IF ~ReferencesAgree(n, c) THEN [status |-> "blocked", inspected |-> FALSE, issues |-> {}]
    ELSE LET issues == Issues(Requests[n], c)
         IN  [status |-> IF issues = {} THEN "passed" ELSE "blocked",
              inspected |-> TRUE, issues |-> issues]

\* What the wire models guarantee of a request: a field of its own for the
\* value, entity keys that are the parameters of that role, an encoding that
\* maps something and nothing twice.
IsList(s) == Len(s) \in Nat /\ DOMAIN s = 1..Len(s)
WireRequest(r) ==
    /\ IsFiniteSet(DOMAIN r.fields) /\ "factValue" \in DOMAIN r.fields
    /\ FactColumn(r) # Nowhere
    /\ IsFiniteSet(DOMAIN r.parameters)
    /\ Keys(r) = {p \in DOMAIN r.parameters : r.parameters[p].role = "entityKey"}
    /\ r.encoding.kind = "mappedCase" =>
        /\ r.encoding.entries # {}
        /\ \A d, e \in r.encoding.entries : d[1] = e[1] => d = e

\* What the parser makes of a text.
Parsed(s) ==
    /\ IsList(s.from) /\ IsList(s.projections) /\ IsList(s.where)
    /\ \A i \in DOMAIN s.from : s.from[i].kind \in {"plain", "temp", "catalog"}
    /\ \A i \in DOMAIN s.projections :
        s.projections[i].kind \in {"column", "case", "other"} /\ IsList(s.projections[i].arms)

\* Nothing that the services make is taken for nothing.
ASSUME GateAssumption ==
    /\ \A n \in DOMAIN Requests : WireRequest(Requests[n]) /\ \A g \in Payloads[n] : Parsed(g.sql)
    /\ NoReport \notin Reports
    /\ \A n \in DOMAIN Requests : \A g \in Payloads[n] : \A sql \in Edits[n] \cup {g.sql} :
          [Assembled(n, g) EXCEPT !.sql = sql] # NoCandidate
    /\ \A n \in DOMAIN Requests : Judges[n] \subseteq DOMAIN Requests

-----------------------------------------------------------------------------
Init ==
    /\ name \in DOMAIN Requests
    /\ pc = "scope"
    /\ candidate = NoCandidate /\ judged = 0 /\ report = NoReport

\* The scope of the request, and that its resolution is the current one.
CheckScope ==
    /\ pc = "scope"
    /\ pc' = IF /\ ScopeIssues(Requests[name]) = {}
                /\ Requests[name].resolves = "metadataResolved"
                /\ Requests[name].carried = Recomputed(Requests[name])
             THEN "model" ELSE "refused"
    /\ UNCHANGED <<name, candidate, judged, report>>

\* The answer of the last attempt.
Answer ==
    /\ pc = "model"
    /\ \E g \in Payloads[name] :
        IF WellFormed(g) /\ CrossReferenced(Requests[name], g)
        THEN pc' = "assembled" /\ candidate' = Assembled(name, g)
        ELSE pc' = "rejected" /\ UNCHANGED candidate
    /\ UNCHANGED <<name, judged, report>>

\* Somebody corrects the SQL of a candidate that was stored or exported.
Edit ==
    /\ pc = "assembled"
    /\ \E sql \in Edits[name] : candidate' = [candidate EXCEPT !.sql = sql]
    /\ pc' = "edited"
    /\ UNCHANGED <<name, judged, report>>

\* The request of the validation may be another one: the caller supplies both.
Validate ==
    /\ pc \in {"assembled", "edited"}
    /\ \E n \in Judges[name] :
        /\ judged' = n
        /\ report' = Validated(n, candidate)
    /\ pc' = "validated"
    /\ UNCHANGED <<name, candidate>>

Terminated == pc \in {"refused", "rejected", "validated"} /\ UNCHANGED vars

Next == CheckScope \/ Answer \/ Edit \/ Validate \/ Terminated
Spec == Init /\ [][Next]_vars

-----------------------------------------------------------------------------
(* Meaning: what a statement returns for a row, and what is asked for.      *)

Comparable(op, a, b) == a # Null /\ b # Null /\ ((op = "eq") = (a = b))
Term(r, s, side, row, args) ==
    CASE side.kind = "column" -> row[Physical(r, s, side.ref)]
      [] side.kind = "parameter" -> args[side.name]
      [] side.kind = "literal" -> side.value
Holds(r, s, c, row, args) ==
    LET compared == [i \in DOMAIN c.of |->
            Comparable(c.of[i].op, Term(r, s, c.of[i].left, row, args),
                       Term(r, s, c.of[i].right, row, args))]
    IN  IF c.op = "or" THEN \E i \in DOMAIN compared : compared[i]
        ELSE Comparable(c.op, Term(r, s, c.left, row, args), Term(r, s, c.right, row, args))

\* CASE takes the first arm that matches.
Decoded(p, v) ==
    LET matching == {i \in DOMAIN p.arms : v # Null /\ p.arms[i][1] = v}
    IN  IF matching = {} THEN p.otherwise
        ELSE p.arms[CHOOSE i \in matching : \A j \in matching : i <= j][2]
Projected(r, s, p, row) ==
    LET v == row[Physical(r, s, p.ref)]
    IN  IF p.kind = "case" THEN Decoded(p, v) ELSE v

\* A plain SELECT of known columns of one table, whose result is read row by row.
Plain(r, s) ==
    /\ s.statements = 1 /\ s.root = "Select" /\ s.nodes = {} /\ Len(s.from) = 1
    /\ s.from[1].kind = "plain" /\ Len(s.projections) = 1
    /\ s.projections[1].alias = "fact_value" /\ s.projections[1].kind # "other"
    /\ \A ref \in References(s) : Physical(r, s, ref) # Nowhere
    /\ Placeholders(s) \subseteq DOMAIN r.parameters
Returned(r, s, row, args) ==
    IF \A i \in DOMAIN s.where : Holds(r, s, s.where[i], row, args)
    THEN <<Projected(r, s, s.projections[1], row)>> ELSE <<>>

\* The rows that the snapshot allows, and what the request wants of one: an
\* error where a filter meets a NULL it does not tolerate; the encoded value
\* of the fact if the entity keys and the filters are met.
Rows(r) ==
    {row \in [DOMAIN r.columns -> Values \cup {Null}] :
        \A c \in DOMAIN r.columns : ~r.columns[c] => row[c] # Null}
Operand(f, args) == IF f.kind = "parameter" THEN args[f.operand] ELSE f.operand
Wanted(r, row, args) ==
    LET v == row[FactColumn(r)]
        met(f) == \/ ~f.required /\ Operand(f, args) = Null
                  \/ Comparable(f.operator, row[FieldColumn(r, f.field)], Operand(f, args))
    IN  IF \E f \in Elements(r.filters) :
              f.nullPolicy = "error" /\ row[FieldColumn(r, f.field)] = Null
        THEN <<"error">>
        ELSE IF ~\A p \in Keys(r) : Comparable("eq", row[KeyColumn(r, p)], args[p]) THEN <<>>
        ELSE IF ~\A f \in Elements(r.filters) : met(f) THEN <<>>
        ELSE IF r.encoding.kind # "mappedCase" THEN <<v>>
        ELSE IF \E e \in r.encoding.entries : v # Null /\ e[1] = v
        THEN <<(CHOOSE e \in r.encoding.entries : e[1] = v)[2]>>
        ELSE <<Null>>

\* Neither a value of several rows nor of a time range is read from a row.
RowLevel(r) ==
    r.kind = "source" /\ r.aggregation = "none" /\ r.timeRange = "none"
        /\ Cardinality(Relations(r)) = 1
Exact(r, s) ==
    /\ RowLevel(r) /\ Plain(r, s)
    /\ \A row \in Rows(r), args \in [DOMAIN r.parameters -> Values \cup {Null}] :
          Returned(r, s, row, args) = Wanted(r, row, args)

-----------------------------------------------------------------------------
(* Properties *)

\* Types: a candidate and a report exist from the step on that makes them.
TypeOK ==
    /\ name \in DOMAIN Requests
    /\ pc \in {"scope", "refused", "model", "rejected", "assembled", "edited", "validated"}
    /\ (candidate = NoCandidate) <=> (pc \in {"scope", "refused", "model", "rejected"})
    /\ (report = NoReport) <=> (pc # "validated")
    /\ judged \in {0} \cup DOMAIN Requests
    /\ report # NoReport => report \in Reports

Passed == report # NoReport /\ report.status = "passed"

\* What validate_sql_candidate_v3 lets pass returns exactly what the request
\* asks for, whatever the table holds and the parameters are: the checks on
\* syntax, scope, filters and encoding leave no gap between them.
PassedIsExact == Passed => Exact(Requests[judged], candidate.sql)

\* A passed report is about the very candidate that was assembled, for the
\* request it was assembled for: neither an edit nor another request passes.
PassedWasGenerated ==
    Passed => /\ judged = name
              /\ \E g \in Payloads[name] :
                    WellFormed(g) /\ CrossReferenced(Requests[name], g) /\ candidate = Assembled(name, g)

\* The two services check the declarations of a candidate each on its own
\* (_validate_generated_cross_references, _ref_issues) and agree: what was
\* assembled and is validated as it is gets inspected.
GeneratedIsInspected ==
    (report # NoReport /\ judged = name /\ candidate.sha = ContentSha(candidate))
        => report.inspected

\* The SQL that the prompt asks for: the authorized column, through the
\* encoding if there is one, of the rows where each entity key is equal to its
\* parameter; spelling, order and sides are free.
Rendering(r, s) ==
    LET p == s.projections[1]
    IN  /\ Plain(r, s)
        /\ Physical(r, s, p.ref) = FactColumn(r)
        /\ IF r.encoding.kind = "mappedCase"
           THEN p.kind = "case" /\ p.otherwise = Null /\ Elements(p.arms) = r.encoding.entries
           ELSE p.kind = "column"
        /\ Len(s.where) = Cardinality(Keys(r))
        /\ \A k \in Keys(r) : \E i \in DOMAIN s.where :
            /\ s.where[i].op = "eq"
            /\ {s.where[i].left.kind, s.where[i].right.kind} = {"column", "parameter"}
            /\ Bound(r, s, s.where[i]) = [parameter |-> k, column |-> KeyColumn(r, k)]

\* The gate is not stricter than the prompt: a candidate whose SQL is such a
\* rendering passes.
RenderingPasses ==
    (report # NoReport /\ report.inspected /\ Rendering(Requests[judged], candidate.sql))
        => report.status = "passed"
=============================================================================
