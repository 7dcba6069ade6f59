-------------------------- MODULE MetadataResolutionV2 --------------------------
(***************************************************************************)
(* resolve_metadata_v2: unlike its V3 successor it stops only before       *)
(* physical resolution; from there on it collects every issue, and its     *)
(* report, "blocked" as soon as there is one, keeps what was resolved.     *)
(*                                                                         *)
(* Identifiers are numbers in the order in which the code sorts them; a    *)
(* relation's schema and name are one identifier, and 0 is a hint that     *)
(* does not parse.  The SHA-256 of a document stands for its content.  An  *)
(* issue of a field or key has its name for a part.                        *)
(***************************************************************************)
EXTENDS BindingIntakeV2, Functions

CONSTANTS
    Requests,   \* Requests[n]: a ResolveMetadataRequestV2
    Reproposed, \* Reproposed[n]: a request with other hints than request n
    Fold,       \* Fold[n]: the casefold of identifier n
    NoReport

\* Of the wire models' checks: lists are lists, and identifiers have a casefold.
IsList(s) == Len(s) \in Nat /\ DOMAIN s = 1..Len(s)
WireModel(r) ==
    /\ IsList(r.binding.fields) /\ IsList(r.context.joinGrants)
    /\ IsList(r.snapshot.relations) /\ IsList(r.snapshot.relationships)
    /\ \A i \in DOMAIN r.snapshot.relations :
        /\ r.snapshot.relations[i].name \in DOMAIN Fold
        /\ IsList(r.snapshot.relations[i].columns)

\* The same request, analysed again, from a parser that guesses other columns:
\* where there was a hint there is one.
Alike(parts, x, y) == \A part \in parts : x[part] = y[part]
OtherHints(q, r) ==
    LET b == q.binding
        c == r.binding
    IN  /\ Alike({"context", "snapshot", "project"}, q, r)
        /\ q.gap = GapReport(b) /\ r.gap = GapReport(c)
        /\ Alike({"contract", "status", "requestId", "rule", "source", "fact", "result", "dialect",
                  "needsSnapshot", "tempTables", "entity", "filters", "aggregation", "time",
                  "evidence", "cited", "uncertainties"}, b, c)
        /\ Alike({"fact", "mapped"}, b.mapping, c.mapping)
        /\ (b.mapping.column = {}) = (c.mapping.column = {})
        /\ Len(b.fields) = Len(c.fields)
        /\ \A i \in DOMAIN b.fields :
            /\ Alike({"id", "role", "type", "required", "resolved", "evidence"},
                     b.fields[i], c.fields[i])
            /\ (b.fields[i].candidate = {}) = (c.fields[i].candidate = {})

ASSUME RequestsAssumption ==
    /\ DOMAIN Fold \subseteq Nat /\ Fold \in [DOMAIN Fold -> Nat]
    /\ \A n \in DOMAIN Requests : WireModel(Requests[n])
    /\ \A n \in DOMAIN Reproposed :
        /\ Reproposed[n] \in DOMAIN Requests
        /\ OtherHints(Requests[n], Requests[Reproposed[n]])

VARIABLES
    name,       \* which request is resolved
    request,    \* that request
    pc,         \* the step to take next
    issues,     \* blocking issues so far
    fields,     \* resolved fields
    keys,       \* resolved entity keys
    result,     \* result source, if there is one
    candidates, \* join grants with a relationship of the snapshot
    seen, pending, \* the traversal that checks that the usable ones connect
    joins,      \* authorized joins
    report,
    before      \* the report on the request before its hints changed

joinVars == <<candidates, seen, pending, joins>>
asked == <<name, request>>
vars == <<asked, pc, issues, fields, keys, result, joinVars, report, before>>

Least(S) == CHOOSE i \in S : \A j \in S : i <= j
TheOnly(S) == CHOOSE x \in S : TRUE

-----------------------------------------------------------------------------
(* Before physical resolution *)

\* canonical_content_sha256 leaves out the document's own hash.
ContentSha(document) == [document EXCEPT !.sha = "omitted"]

\* What the wire models of context and snapshot refuse; grants, authorizations
\* and relationships have unique IDs, here their indexes.
DocumentsConform(c, s) ==
    /\ \A j \in DOMAIN c.joinGrants : c.joinGrants[j].left # c.joinGrants[j].right
    /\ \A i \in DOMAIN s.relationships : s.relationships[i].left # s.relationships[i].right

\* The wire models admit one version of each document.
PreflightIssues(r) ==
    LET b == r.binding
        c == r.context
        s == r.snapshot
    IN  UNION {
            Unless(r.gap.requestId = b.requestId, "REQUEST_REF_MISMATCH", "bindingGapReport"),
            Unless(r.gap = GapReport(b), "GAP_REPORT_MISMATCH", "bindingGapReport"),
            Unless(r.project = c.project, "CONTEXT_SCOPE_MISMATCH", "projectRef"),
            Unless(c.rule = b.rule, "CONTEXT_SCOPE_MISMATCH", "ruleRef"),
            Unless(b.requestId \in c.requestIds, "CONTEXT_SCOPE_MISMATCH", "requestIds"),
            Unless(c.approvalPolicy = c.policy, "CONTEXT_SCOPE_MISMATCH", "approvalRef"),
            Unless(c.snapshot = [id |-> s.id, sha |-> s.sha], "SNAPSHOT_REF_MISMATCH",
                   "metadataSnapshotRef"),
            Unless(b.dialect = "sqlserver", "DIALECT_MISMATCH", "dialect"),
            Unless(c.sha = ContentSha(c), "CONTEXT_HASH_MISMATCH", "projectContext"),
            Unless(s.sha = ContentSha(s), "SNAPSHOT_HASH_MISMATCH", "metadataSnapshot"),
            Unless(c.status = "approved", "CONTEXT_NOT_APPROVED", "projectContext"),
            Unless(s.status = "approved", "SNAPSHOT_NOT_APPROVED", "metadataSnapshot")}

UpstreamBlocked(r) ==
    \/ GapReport(r.binding).status = "blocked"
    \/ r.gap.status = "blocked"
    \/ \E i \in DOMAIN r.binding.uncertainties : r.binding.uncertainties[i].blocking
UpstreamIssues(r) ==
    IF UpstreamBlocked(r)
    THEN {Issue("UPSTREAM_BINDING_BLOCKED", "bindingGapReport", 0)}
            \cup GapReport(r.binding).blocking
    ELSE {}

-----------------------------------------------------------------------------
(* The snapshot and the grants *)

Norm(r, n) == IF r.snapshot.sensitive THEN n ELSE Fold[n]
Relation(r, column) == Norm(r, column.relation)
Key(r, column) == <<Norm(r, column.relation), Norm(r, column.column)>>

\* The columns of the snapshot, and what the index holds for a key.
SnapshotColumns(r) ==
    UNION {{[relation |-> r.snapshot.relations[i].name, at |-> <<i, k>>,
             column |-> r.snapshot.relations[i].columns[k].name,
             type |-> r.snapshot.relations[i].columns[k].type] :
                k \in DOMAIN r.snapshot.relations[i].columns} : i \in DOMAIN r.snapshot.relations}
RelationsAt(r, n) ==
    {i \in DOMAIN r.snapshot.relations : Norm(r, r.snapshot.relations[i].name) = Norm(r, n)}
ColumnsAt(r, column) == {c \in SnapshotColumns(r) : Key(r, c) = Key(r, column)}
Ends(r, relationship) == {Key(r, relationship.left), Key(r, relationship.right)}
RelationshipsAt(r, ends) ==
    {i \in DOMAIN r.snapshot.relationships : Ends(r, r.snapshot.relationships[i]) = ends}

MetadataIssues(r) ==
    LET relations == r.snapshot.relations
        relationships == r.snapshot.relationships
        Found(end) == Cardinality(ColumnsAt(r, end)) = 1
        LeftFound(relationship) == Found(relationship.left)
        RightFound(relationship) == Found(relationship.right)
        ColumnsDistinct(relation) == \A k \in DOMAIN relation.columns :
            Found([relation |-> relation.name, column |-> relation.columns[k].name])
        RelationDistinct(relation) == Cardinality(RelationsAt(r, relation.name)) = 1
        EdgeDistinct(relationship) ==
            Cardinality(RelationshipsAt(r, Ends(r, relationship))) = 1
        ambiguous == "SNAPSHOT_IDENTIFIER_AMBIGUOUS"
    IN  UNION {ForEach(relations, RelationDistinct, ambiguous, "relations"),
               ForEach(relations, ColumnsDistinct, ambiguous, "columns"),
               ForEach(relationships, LeftFound, "COLUMN_NOT_IN_SNAPSHOT", "leftColumn"),
               ForEach(relationships, RightFound, "COLUMN_NOT_IN_SNAPSHOT", "rightColumn"),
               ForEach(relationships, EdgeDistinct, ambiguous, "relationships")}

\* The column that a grant names, and those grants that name one of the snapshot.
RelationGranted(r, g) == r.context.columnGrants[g].relation \in DOMAIN r.context.relationGrants
Named(r, g) == [relation |-> r.context.relationGrants[r.context.columnGrants[g].relation],
                column |-> r.context.columnGrants[g].column]
Found(r, g) ==
    /\ RelationGranted(r, g)
    /\ Cardinality(RelationsAt(r, Named(r, g).relation)) = 1
    /\ Cardinality(ColumnsAt(r, Named(r, g))) = 1
\* The column of such a grant, spelled as in the snapshot.
Physical(r, g) ==
    LET c == TheOnly(ColumnsAt(r, Named(r, g)))
    IN  [relation |-> c.relation, column |-> c.column]

GrantIssues(r) ==
    LET c == r.context
        RelationFound(relation) == Cardinality(RelationsAt(r, relation)) = 1
        Granted(a) == a.grant \in DOMAIN c.columnGrants
        InScope(a) == a.request \in c.requestIds
        FieldKnown(a) == a.request = r.binding.requestId => a.field \in Ids(r.binding.fields)
        LeftGranted(j) == j.left \in DOMAIN c.columnGrants
        RightGranted(j) == j.right \in DOMAIN c.columnGrants
        scope == "CONTEXT_SCOPE_MISMATCH"
    IN  UNION {
            ForEach(c.relationGrants, RelationFound, "RELATION_NOT_IN_SNAPSHOT", "relationGrants"),
            {Issue("RELATION_NOT_GRANTED", "columnGrants", g) :
                g \in {g \in DOMAIN c.columnGrants : ~RelationGranted(r, g)}},
            {Issue("COLUMN_NOT_IN_SNAPSHOT", "columnGrants", g) :
                g \in {g \in DOMAIN c.columnGrants :
                        /\ RelationGranted(r, g)
                        /\ RelationFound(Named(r, g).relation)
                        /\ ~Found(r, g)}},
            ForEach(c.fieldAuthorizations, Granted, "COLUMN_NOT_GRANTED", "fieldAuthorizations"),
            ForEach(c.fieldAuthorizations, InScope, scope, "fieldAuthorizations"),
            ForEach(c.fieldAuthorizations, FieldKnown, scope, "fieldIds"),
            ForEach(c.keyAuthorizations, Granted, "COLUMN_NOT_GRANTED", "keyAuthorizations"),
            ForEach(c.keyAuthorizations, InScope, scope, "keyAuthorizations"),
            ForEach(c.keyAuthorizations, FieldKnown, scope, "keyFieldIds"),
            ForEach(c.joinGrants, LeftGranted, "COLUMN_NOT_GRANTED", "leftColumnGrantId"),
            ForEach(c.joinGrants, RightGranted, "COLUMN_NOT_GRANTED", "rightColumnGrantId")}

-----------------------------------------------------------------------------
(* Fields, entity keys, result *)

SqlTypes == [
    string |-> {"char", "varchar", "nchar", "nvarchar", "text", "ntext", "sysname",
                "uniqueidentifier"},
    integer |-> {"tinyint", "smallint", "int", "bigint"},
    number |-> {"decimal", "numeric", "float", "real"},
    boolean |-> {"bit"}, date |-> {"date"},
    datetime |-> {"datetime", "datetime2", "smalldatetime", "datetimeoffset"},
    enum |-> {"char", "varchar", "nchar", "nvarchar"},
    money |-> {"money", "smallmoney", "decimal", "numeric"}, list |-> {}, unknown |-> {}]

KeyAuthorizations(r, p) ==
    {a \in Range(r.context.keyAuthorizations) :
        a.request = r.binding.requestId /\ a.parameter = p}

\* Seeded bug: only fields declared as required are resolved.
Mandatory_Declared(r) ==
    {r.binding.fields[i] : i \in {i \in DOMAIN r.binding.fields : r.binding.fields[i].required}}
\* Optional fields, too, are needed where the query uses them.
Mandatory(r) ==
    LET b == r.binding
        used == {item.field : item \in Range(b.filters.items)} \cup b.aggregation.inputs
                  \cup b.aggregation.groups \cup b.time.field
                  \cup {a.field : a \in UNION {KeyAuthorizations(r, p) : p \in b.entity.keys}}
    IN  {f \in Range(b.fields) : f.required \/ f.id \in used}

AuthorizationsOf(r, f) ==
    {a \in Range(r.context.fieldAuthorizations) :
        a.request = r.binding.requestId /\ a.field = f.id}
\* Seeded bug: among several authorizations the upstream hint decides.
FieldAuthorizations_Hinted(r, f) ==
    LET matches == {a \in AuthorizationsOf(r, f) : a.role = f.role}
        hinted == {a \in matches : f.candidate = {Physical(r, a.grant)}}
    IN  IF hinted = {} THEN matches ELSE hinted
FieldAuthorizations(r, f) == {a \in AuthorizationsOf(r, f) : a.role = f.role}
TypeFits(r, f, g) == TheOnly(ColumnsAt(r, Physical(r, g))).type \in SqlTypes[f.type]
FieldIssue(r, f) ==
    LET matches == FieldAuthorizations(r, f)
        g == TheOnly(matches).grant
    IN  IF matches = {}
        THEN IF AuthorizationsOf(r, f) = {} THEN "FIELD_AUTHORIZATION_MISSING"
             ELSE "FIELD_ROLE_MISMATCH"
        ELSE IF Cardinality(matches) > 1 THEN "FIELD_AUTHORIZATION_AMBIGUOUS"
        ELSE IF ~Found(r, g) THEN "COLUMN_NOT_GRANTED"
        ELSE IF ~TypeFits(r, f, g) THEN "SQL_TYPE_INCOMPATIBLE"
        ELSE "ok"
ResolvedField(r, f) ==
    LET g == TheOnly(FieldAuthorizations(r, f)).grant
    IN  [id |-> f.id, role |-> f.role, grant |-> g, column |-> Physical(r, g)]

KeyIssue(r, resolved, p) ==
    LET matches == KeyAuthorizations(r, p)
        a == TheOnly(matches)
        declared == {f \in Range(r.binding.fields) : f.id = a.field}
    IN  IF Cardinality(matches) # 1 THEN "ENTITY_KEY_AUTHORIZATION_MISSING"
        ELSE IF \A f \in declared : f.role # "entityKey" THEN "FIELD_ROLE_MISMATCH"
        ELSE IF \A f \in resolved : f.id = a.field => f.grant # a.grant
        THEN "ENTITY_KEY_AUTHORIZATION_MISSING"
        ELSE IF \A f \in declared : r.binding.fact.parameters[p] # f.type
        THEN "SQL_TYPE_INCOMPATIBLE"
        ELSE "ok"
ResolvedKey(r, p) ==
    LET a == TheOnly(KeyAuthorizations(r, p))
    IN  [parameter |-> p, field |-> a.field, column |-> Physical(r, a.grant)]

\* Where the value of the fact comes from.
ResultFields(r, resolved) ==
    IF r.binding.aggregation.mode = "compute"
    THEN {f \in resolved : f.id \in r.binding.aggregation.inputs}
    ELSE {f \in resolved : f.role = "value"
                           /\ \E d \in Range(r.binding.fields) : d.id = f.id /\ d.required}
ResultSources(r, resolved) ==
    LET sources == ResultFields(r, resolved) IN
    CASE r.binding.aggregation.mode = "exists" -> {[mode |-> "exists", fields |-> {}]}
      [] r.binding.aggregation.mode = "compute" ->
            IF r.binding.aggregation.inputs = {f.id : f \in sources}
            THEN {[mode |-> "aggregation", fields |-> sources]} ELSE {}
      [] OTHER ->
            IF Cardinality(sources) = 1
            THEN {[mode |-> "column", fields |-> sources]} ELSE {}

-----------------------------------------------------------------------------
(* Joins *)

Grant(j) == request.context.joinGrants[j]
Left(j) == Relation(request, Physical(request, Grant(j).left))
Right(j) == Relation(request, Physical(request, Grant(j).right))
GrantEnds(j) == {Key(request, Physical(request, Grant(j).left)),
                 Key(request, Physical(request, Grant(j).right))}
Unmatched == {j \in DOMAIN request.context.joinGrants :
                Cardinality(RelationshipsAt(request, GrantEnds(j))) # 1}

required == {Relation(request, f.column) : f \in fields}
Usable == {j \in candidates :
            Left(j) # Right(j) /\ Left(j) \in required /\ Right(j) \in required}
Neighbours(n) ==
    {Right(j) : j \in {j \in Usable : Left(j) = n}}
        \cup {Left(j) : j \in {j \in Usable : Right(j) = n}}
SnapshotEdges ==
    {{Relation(request, e.left), Relation(request, e.right)} :
        e \in Range(request.snapshot.relationships)}

\* Seeded bug: grants that are not needed do not matter.
ClosureIssues_Spare ==
    IF seen # required THEN {Issue("JOIN_PATH_UNRESOLVED", "joinGrants", 0)} ELSE {}
\* An edge between any two of the relations, joined already or not, makes the
\* context the one to blame.
ClosureIssues ==
    IF seen # required
    THEN {Issue(IF \E e \in SnapshotEdges : e \subseteq required /\ Cardinality(e) = 2
                THEN "JOIN_PATH_NOT_GRANTED" ELSE "JOIN_PATH_UNRESOLVED", "joinGrants", 0)}
    ELSE Unless(Cardinality(Usable) = Cardinality(required) - 1,
                "JOIN_PATH_UNRESOLVED", "joinGrants")

-----------------------------------------------------------------------------
(* Hints *)

\* Whether a hint of the upstream parser agrees with what is authorized.
Disposition(part, hint, resolved) ==
    [part |-> part, disposition |->
        IF hint = {} \/ resolved = {} \/ \E h \in hint : h.relation = 0 THEN "notUsed"
        ELSE IF {Key(request, h) : h \in hint} = {Key(request, f.column) : f \in resolved}
        THEN "consistent" ELSE "conflict"]
Dispositions ==
    LET values == {f \in fields : f.role = "value"}
    IN  {Disposition("mappingCandidate", request.binding.mapping.column,
                     IF Cardinality(values) = 1 THEN values ELSE {}),
         Disposition("parser", {}, {})}
            \cup {Disposition(d.id, d.candidate, {f \in fields : f.id = d.id}) :
                    d \in Range(request.binding.fields)}

-----------------------------------------------------------------------------
(* The resolution *)

Report(status, found, dispositions) ==
    [status |-> status, fields |-> fields, keys |-> keys, result |-> result, joins |-> joins,
     dispositions |-> dispositions, issues |-> found]

Init ==
    /\ name \in DOMAIN Requests /\ request = Requests[name]
    /\ pc = "wire"
    /\ issues = {} /\ fields = {} /\ keys = {} /\ result = {}
    /\ candidates = {} /\ seen = {} /\ pending = {} /\ joins = {}
    /\ report = NoReport /\ before = NoReport

Accept ==
    /\ pc = "wire"
    /\ IF Conforms(request.binding) /\ DocumentsConform(request.context, request.snapshot)
       THEN pc' = "preflight" /\ UNCHANGED report
       ELSE pc' = "done" /\ report' = Report("rejected", {}, {})
    /\ UNCHANGED <<asked, issues, fields, keys, result, joinVars, before>>

\* The two gates end the resolution with what they have found, if anything.
Gate(found, next) ==
    /\ issues' = found
    /\ IF found = {}
       THEN pc' = next /\ UNCHANGED report
       ELSE pc' = "done" /\ report' = Report("blocked", found, {})
    /\ UNCHANGED <<asked, fields, keys, result, joinVars, before>>
Preflight ==
    pc = "preflight" /\ Gate(PreflightIssues(request) \cup UpstreamIssues(request), "index")
Index == pc = "index" /\ Gate(MetadataIssues(request) \cup GrantIssues(request), "fields")

ResolveFields ==
    /\ pc = "fields" /\ pc' = "keys"
    /\ fields' = {ResolvedField(request, f) :
                    f \in {f \in Mandatory(request) : FieldIssue(request, f) = "ok"}}
    /\ issues' = issues \cup {Issue(FieldIssue(request, f), f.id, 0) :
                    f \in {f \in Mandatory(request) : FieldIssue(request, f) # "ok"}}
    /\ UNCHANGED <<asked, keys, result, joinVars, report, before>>

ResolveEntityKeys ==
    /\ pc = "keys" /\ pc' = "result"
    /\ keys' = {ResolvedKey(request, p) :
                    p \in {p \in request.binding.entity.keys : KeyIssue(request, fields, p) = "ok"}}
    /\ issues' = issues \cup {Issue(KeyIssue(request, fields, p), p, 0) :
                    p \in {p \in request.binding.entity.keys : KeyIssue(request, fields, p) # "ok"}}
    /\ UNCHANGED <<asked, fields, result, joinVars, report, before>>

ResolveResultSource ==
    /\ pc = "result" /\ pc' = "candidates"
    /\ result' = ResultSources(request, fields)
    /\ issues' = issues \cup Unless(result' # {}, "RESULT_SOURCE_UNRESOLVED", "result")
    /\ UNCHANGED <<asked, fields, keys, joinVars, report, before>>

AuthorizeJoins ==
    /\ pc = "candidates"
    /\ candidates' = DOMAIN request.context.joinGrants \ Unmatched
    /\ issues' = issues \cup {Issue("JOIN_PATH_UNRESOLVED", "joinGrants", j) : j \in Unmatched}
    /\ IF Cardinality(required) <= 1
       THEN pc' = "report" /\ UNCHANGED pending
       ELSE pc' = "closure" /\ pending' = {Least(required)}
    /\ UNCHANGED <<asked, fields, keys, result, seen, joins, report, before>>

\* The stack may hold a relation several times; the order of visits is abstracted.
Visit ==
    /\ pc = "closure"
    /\ \E n \in pending :
        /\ seen' = seen \cup {n}
        /\ pending' = (pending \cup Neighbours(n)) \ seen'
    /\ UNCHANGED <<asked, pc, issues, fields, keys, result, candidates, joins, report, before>>

CheckClosure ==
    /\ pc = "closure" /\ pending = {} /\ pc' = "report"
    /\ issues' = issues \cup ClosureIssues
    /\ joins' = IF ClosureIssues = {} THEN Usable ELSE {}
    /\ UNCHANGED <<asked, fields, keys, result, candidates, seen, pending, report, before>>

BuildReport ==
    /\ pc = "report" /\ pc' = "done"
    /\ report' = Report(IF issues = {} THEN "metadataResolved" ELSE "blocked", issues,
                        Dispositions)
    /\ UNCHANGED <<asked, issues, fields, keys, result, joinVars, before>>

\* RuleReader delivers the request again; its parser has other hints by now.
Repropose ==
    /\ pc = "done" /\ before = NoReport
    /\ name \in DOMAIN Reproposed
    /\ name' = Reproposed[name] /\ request' = Requests[name']
    /\ before' = report
    /\ pc' = "wire"
    /\ issues' = {} /\ fields' = {} /\ keys' = {} /\ result' = {}
    /\ candidates' = {} /\ seen' = {} /\ pending' = {} /\ joins' = {}
    /\ report' = NoReport

Terminated == pc = "done" /\ (before # NoReport \/ name \notin DOMAIN Reproposed) /\ UNCHANGED vars

Next ==
    \/ Accept \/ Preflight \/ Index \/ ResolveFields \/ ResolveEntityKeys \/ ResolveResultSource
    \/ AuthorizeJoins \/ Visit \/ CheckClosure \/ BuildReport \/ Repropose \/ Terminated

Spec == Init /\ [][Next]_vars

-----------------------------------------------------------------------------
(* Properties *)

IsResolved == pc = "done" /\ report.status = "metadataResolved"
Blames(issue) == pc = "done" /\ issue \in report.issues

\* No part of the relations is cut off: the grants of G lead out of each.
Connects(G) ==
    \A T \in SUBSET required : T \notin {{}, required} =>
        \E j \in G : (Left(j) \in T) # (Right(j) \in T)
\* The grants that the snapshot backs, and the ways to join the relations of
\* the resolved fields with none to spare.
Backed ==
    {j \in DOMAIN request.context.joinGrants :
        /\ RelationshipsAt(request, GrantEnds(j)) # {}
        /\ {Left(j), Right(j)} \subseteq required /\ Left(j) # Right(j)}
Trees == {G \in SUBSET Backed : Connects(G) /\ \A j \in G : ~Connects(G \ {j})}

\* _select_join_closure never chooses: the joins of a resolved report are the
\* only way to join its fields; a path is "not granted" only if there is no
\* way, and the closure "unresolved" only if there is none or a choice.
OnlyClosure ==
    /\ IsResolved /\ Cardinality(required) > 1 => Trees = {report.joins}
    /\ Blames(Issue("JOIN_PATH_NOT_GRANTED", "joinGrants", 0)) => Trees = {}
    /\ Blames(Issue("JOIN_PATH_UNRESOLVED", "joinGrants", 0)) => Cardinality(Trees) # 1

\* The fields that SQL for a request has to mention.
Needed(b) ==
    {f.id : f \in {f \in Range(b.fields) : f.required}} \cup {i.field : i \in Range(b.filters.items)}
        \cup b.aggregation.inputs \cup b.aggregation.groups \cup b.time.field

\* A resolved report gives each of these fields, and at least one entity key,
\* exactly one column, which the case policy cannot take for another one of
\* the snapshot, and restricts the fact by every key parameter.
ResolvedIsComplete ==
    IsResolved =>
        /\ \A id \in Needed(request.binding) :
            \E f \in report.fields : \A g \in report.fields : f.id = id /\ (g.id = id => g = f)
        /\ \A f \in report.fields :
            Cardinality({c \in SnapshotColumns(request) : Key(request, c) = Key(request, f.column)}) = 1
        /\ report.keys # {}
        /\ {k.parameter : k \in report.keys} = request.binding.entity.keys
        /\ \A k \in report.keys : \E f \in report.fields :
            f.id = k.field /\ f.role = "entityKey" /\ f.column = k.column

\* Nothing that the query needs is left open, and every reference leads somewhere.
Closed(b) ==
    /\ b.entity.keysResolved /\ b.filters.complete
    /\ \A f \in Range(b.fields) : f.required => f.resolved
    /\ b.aggregation.mode # "unresolved" /\ b.time.mode # "unresolved"
    /\ Needed(b) \subseteq Ids(b.fields)
    /\ UNION {b.entity.keys, ParametersOf(UNION {i.value : i \in Range(b.filters.items)}),
              ParametersOf(b.time.start \cup b.time.end)} \subseteq DOMAIN b.fact.parameters
    /\ \A u \in Range(b.uncertainties) : ~u.blocking

\* resolve_metadata_v2 names no column, not even in a blocked report, for a
\* request that leaves something open, whether the request admits that or not:
\* "physical resolution has not started".
OpenStaysUnresolved ==
    report # NoReport /\ report.fields # {} => Closed(request.binding)

\* "授权结果保持不变": what is resolved, and what is blamed, does not depend on
\* the hints of the upstream parser.
HintsNeverDecide ==
    pc = "done" /\ before # NoReport =>
        [report EXCEPT !.dispositions = {}] = [before EXCEPT !.dispositions = {}]
=============================================================================
