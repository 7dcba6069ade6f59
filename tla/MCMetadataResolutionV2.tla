------------------------- MODULE MCMetadataResolutionV2 -------------------------
(***************************************************************************)
(* Three relations of two columns, the fields on one to three of them, and *)
(* all lists of up to three join grants of six shapes; requests that leave *)
(* something open, with every uncertainty that may admit it; requests with *)
(* a fault for each issue; and some that come back with other hints.       *)
(***************************************************************************)
EXTENDS MetadataResolutionV2

\* Identifier 4 is identifier 1 in another case.
MCFold == <<1, 2, 3, 1, 5, 6, 7, 8, 9>>
Column(n, c) == [relation |-> n, column |-> c]
GrantOf(n, c) == 2 * n + c - 2

Columns == <<[name |-> 1, type |-> "int"], [name |-> 2, type |-> "varchar"]>>
Edge(n, m, c) == [left |-> Column(n, c), right |-> Column(m, c)]
\* 1-2, 3-2 (stored against the grants), 1-3, and 1-2 once more by other columns
Snapshot == [
    id |-> "s", sha |-> "", status |-> "approved", sensitive |-> FALSE,
    relations |-> [n \in 1..3 |-> [name |-> n, columns |-> Columns]],
    relationships |-> <<Edge(1, 2, 1), Edge(3, 2, 1), Edge(1, 3, 1), Edge(1, 2, 2)>>]

FactResult == [type |-> "string", nullable |-> FALSE, nullPolicy |-> "fail", unit |-> "none"]
Field(id, role, type, needed, n) ==
    [id |-> id, role |-> role, type |-> type, required |-> needed, resolved |-> TRUE,
     candidate |-> {n}, evidence |-> {"e1"}]
\* factValue is in relation 1; the optional field o is used by the filter.
Binding == [
    contract |-> "2.0.0", status |-> "candidate", requestId |-> <<"v", "f">>,
    rule |-> [version |-> "v", schema |-> "2.0.0", source |-> "src"], source |-> "src",
    fact |-> [code |-> "f", kind |-> "source", grain |-> "g", result |-> FactResult,
              parameters |-> [kp |-> "integer"]],
    result |-> FactResult, dialect |-> "sqlserver", needsSnapshot |-> TRUE, tempTables |-> FALSE,
    mapping |-> [fact |-> "f", mapped |-> TRUE, column |-> {Column(1, 2)}],
    entity |-> [grain |-> "g", keys |-> {"kp"}, keysResolved |-> TRUE, evidence |-> {"e1"}],
    fields |-> <<Field("factValue", "value", "string", TRUE, Column(1, 2)),
                 Field("k", "entityKey", "integer", TRUE, Column(0, 1)),
                 Field("o", "filter", "string", FALSE, Column(3, 2))>>,
    filters |-> [complete |-> TRUE, evidence |-> {"e1"},
                 items |-> <<[id |-> "i", field |-> "o", value |-> {"kp"}, unary |-> FALSE,
                              resolved |-> TRUE, evidence |-> {"e2"}]>>],
    aggregation |-> [mode |-> "none", function |-> FALSE, inputs |-> {}, groups |-> {},
                     status |-> "declared", evidence |-> {"e1"}],
    time |-> [mode |-> "none", field |-> {}, start |-> {}, end |-> {}, status |-> "notApplicable",
              evidence |-> {"e1"}],
    evidence |-> {"e1", "e2"}, cited |-> {"e2"}, uncertainties |-> <<>>]

Authorization(id, role, g) ==
    [request |-> <<"v", "f">>, field |-> id, role |-> role, grant |-> g]
KeyAuthorization(id, g) ==
    [request |-> <<"v", "f">>, parameter |-> "kp", field |-> id, grant |-> g]
ColumnGrant(n, c) == [relation |-> n, column |-> c]
\* The entity key is in relation key, the field o in relation other.
Context(key, other, grants) == [
    id |-> "c", sha |-> "", snapshot |-> "", status |-> "approved", policy |-> "p",
    approvalPolicy |-> "p", project |-> "pr", rule |-> Binding.rule,
    requestIds |-> {<<"v", "f">>, <<"v", "other">>},
    relationGrants |-> <<1, 2, 3>>,
    columnGrants |-> <<ColumnGrant(1, 1), ColumnGrant(1, 2), ColumnGrant(2, 1), ColumnGrant(2, 2),
                       ColumnGrant(3, 1), ColumnGrant(3, 2)>>,
    fieldAuthorizations |-> <<Authorization("factValue", "value", GrantOf(1, 2)),
                              Authorization("k", "entityKey", GrantOf(key, 1)),
                              Authorization("o", "filter", GrantOf(other, 2))>>,
    keyAuthorizations |-> <<KeyAuthorization("k", GrantOf(key, 1))>>,
    joinGrants |-> grants]

Hashed(document) == [document EXCEPT !.sha = ContentSha(document)]
Request(b, c, s) ==
    LET snapshot == Hashed(s)
    IN  [binding |-> b, gap |-> GapReport(b), project |-> "pr", snapshot |-> snapshot,
         context |-> Hashed([c EXCEPT !.snapshot = [id |-> snapshot.id, sha |-> snapshot.sha]])]

-----------------------------------------------------------------------------
(* All graphs of up to three grants *)

Join(n, m, c) == [left |-> GrantOf(n, c), right |-> GrantOf(m, c)]
\* The last two have no relationship, and the same relation twice.
Shapes == <<Join(1, 2, 1), Join(1, 3, 1), Join(2, 3, 1), Join(2, 1, 2), Join(3, 1, 2),
            [left |-> GrantOf(1, 1), right |-> GrantOf(1, 2)]>>
\* All sequences of up to three of them.
Graph[n \in 0..258] ==
    IF n = 0 THEN <<>> ELSE Append(Graph[(n - 1) \div 6], Shapes[1 + ((n - 1) % 6)])
Places == <<<<1, 1>>, <<2, 2>>, <<2, 3>>>>
Snapshots == <<Snapshot, [Snapshot EXCEPT !.relationships = <<@[1], @[4]>>]>>
GraphRequest(n) ==
    LET place == Places[1 + (n % 3)]
    IN  Request(Binding, Context(place[1], place[2], Graph[(n \div 3) % 259]),
                Snapshots[1 + (n \div 777)])
\* \o makes the function a tuple, whose elements TLC evaluates once.
GraphRequests == <<>> \o [n \in 1..1554 |-> GraphRequest(n - 1)]

-----------------------------------------------------------------------------
(* Requests that leave something open, or have a fault *)

Chain == <<Join(1, 2, 1), Join(2, 3, 1)>>
Computed == [mode |-> "compute", function |-> TRUE, inputs |-> {"factValue"}, groups |-> {},
             status |-> "candidate", evidence |-> {"e1"}]
During == [mode |-> "between", field |-> {"o"}, start |-> {"kp"}, end |-> {Literal},
           status |-> "declared", evidence |-> {"e1"}]

Open == <<
    Binding,
    [Binding EXCEPT !.entity = [@ EXCEPT !.keys = {}, !.keysResolved = FALSE]],
    [Binding EXCEPT !.fields[1] = [@ EXCEPT !.resolved = FALSE, !.candidate = {}]],
    [Binding EXCEPT !.fields[2] = [@ EXCEPT !.resolved = FALSE, !.candidate = {}]],
    [Binding EXCEPT !.fields[3] = [@ EXCEPT !.resolved = FALSE, !.candidate = {}]],
    [Binding EXCEPT !.fields[3] = [@ EXCEPT !.resolved = FALSE, !.candidate = {},
                                            !.required = TRUE, !.role = "groupBy"]],
    [Binding EXCEPT !.fields[3] = [@ EXCEPT !.resolved = FALSE, !.candidate = {},
                                            !.required = TRUE, !.role = "time"]],
    [Binding EXCEPT !.filters.complete = FALSE],
    [Binding EXCEPT !.filters = [@ EXCEPT !.complete = FALSE, !.items[1].resolved = FALSE]],
    [Binding EXCEPT !.aggregation = [@ EXCEPT !.mode = "unresolved", !.status = "unresolved"]],
    [Binding EXCEPT !.time = [@ EXCEPT !.mode = "unresolved", !.status = "unresolved"]]>>
Codes == <<"ENTITY_KEY_UNRESOLVED", "VALUE_FIELD_UNRESOLVED", "FILTER_FIELD_UNRESOLVED",
           "FILTER_SET_INCOMPLETE", "AGGREGATION_UNRESOLVED", "TIME_RANGE_UNRESOLVED">>
Uncertainty(code, blocking) ==
    [id |-> code, code |-> code, blocking |-> blocking, evidence |-> {"e1"}]
OpenRequests ==
    <<>> \o [n \in 1..(13 * Len(Open)) |->
        LET b == Open[1 + ((n - 1) % Len(Open))]
            u == (n - 1) \div Len(Open)
        IN  Request([b EXCEPT !.uncertainties =
                        IF u = 0 THEN <<>>
                        ELSE <<Uncertainty(Codes[1 + ((u - 1) % 6)], u <= 6)>>],
                    Context(2, 3, Chain), Snapshot)]

Bindings == <<
    Binding,
    [Binding EXCEPT !.contract = "1.0.0"], [Binding EXCEPT !.rule.schema = "1.0.0"],
    [Binding EXCEPT !.status = "approved"], [Binding EXCEPT !.requestId = <<"v", "x">>],
    [Binding EXCEPT !.fact.kind = "derived"], [Binding EXCEPT !.mapping.fact = "x"],
    [Binding EXCEPT !.source = "x"], [Binding EXCEPT !.dialect = "x"],
    [Binding EXCEPT !.needsSnapshot = FALSE], [Binding EXCEPT !.tempTables = TRUE],
    [Binding EXCEPT !.entity.grain = "x"], [Binding EXCEPT !.result.nullable = TRUE],
    [Binding EXCEPT !.evidence = {"e1"}], [Binding EXCEPT !.evidence = {"e2"}],
    [Binding EXCEPT !.fact.parameters = [other |-> "integer"]],
    [Binding EXCEPT !.fact.parameters.kp = "string"],
    [Binding EXCEPT !.filters.items[1].field = "x"],
    [Binding EXCEPT !.filters.items[1].value = {Literal}],
    [Binding EXCEPT !.filters.items[1].value = {}],
    [Binding EXCEPT !.filters.items[1] = [@ EXCEPT !.value = {}, !.unary = TRUE]],
    [Binding EXCEPT !.filters.items[1].resolved = FALSE],
    [Binding EXCEPT !.filters.items = <<>>],
    [Binding EXCEPT !.filters.items = <<>>, !.fields[3].required = TRUE],
    [Binding EXCEPT !.aggregation = Computed],
    [Binding EXCEPT !.aggregation = [Computed EXCEPT !.inputs = {"o"}, !.groups = {"o"}]],
    [Binding EXCEPT !.aggregation = [Computed EXCEPT !.groups = {"x"}]],
    [Binding EXCEPT !.aggregation = [Computed EXCEPT !.inputs = {}]],
    [Binding EXCEPT !.aggregation.mode = "exists"],
    [Binding EXCEPT !.aggregation.mode = "exists", !.fields[1].required = FALSE],
    [Binding EXCEPT !.aggregation.mode = "precomputed"],
    [Binding EXCEPT !.aggregation = [@ EXCEPT !.mode = "precomputed", !.status = "candidate"]],
    [Binding EXCEPT !.fields[1].required = FALSE],
    [Binding EXCEPT !.fields[3].role = "value"],
    [Binding EXCEPT !.fields[3] = [@ EXCEPT !.role = "value", !.required = TRUE]],
    [Binding EXCEPT !.fields[3].id = "k"],
    [Binding EXCEPT !.fields[3].candidate = {}],
    [Binding EXCEPT !.fields[1].type = "integer"], [Binding EXCEPT !.fields[3].type = "unknown"],
    [Binding EXCEPT !.time = During],
    [Binding EXCEPT !.time = [During EXCEPT !.start = {}, !.mode = "asOf"]],
    [Binding EXCEPT !.time = [During EXCEPT !.start = {}]],
    [Binding EXCEPT !.time = [During EXCEPT !.field = {"x"}]],
    [Binding EXCEPT !.time = [During EXCEPT !.end = {"x"}]],
    [Binding EXCEPT !.time = [During EXCEPT !.start = {"x"}]],
    [Binding EXCEPT !.mapping = [@ EXCEPT !.mapped = FALSE, !.column = {}]],
    [Binding EXCEPT !.mapping.column = {}],
    [Binding EXCEPT !.entity.keysResolved = FALSE],
    [Binding EXCEPT !.entity.keys = {}]>>

Faults(c) == <<
    c,
    [c EXCEPT !.status = "draft"], [c EXCEPT !.policy = "q"], [c EXCEPT !.project = "px"],
    [c EXCEPT !.rule.version = "w"], [c EXCEPT !.requestIds = {<<"v", "other">>}],
    [c EXCEPT !.fieldAuthorizations = SubSeq(@, 1, 2)],
    [c EXCEPT !.fieldAuthorizations[3].role = "time"],
    [c EXCEPT !.fieldAuthorizations[3].request = <<"v", "other">>],
    [c EXCEPT !.fieldAuthorizations[3].request = <<"w", "f">>],
    [c EXCEPT !.fieldAuthorizations[3].field = "x"],
    [c EXCEPT !.fieldAuthorizations[3].grant = 9],
    [c EXCEPT !.fieldAuthorizations = Append(@, Authorization("o", "filter", GrantOf(1, 2)))],
    [c EXCEPT !.fieldAuthorizations = Append(@, Authorization("o", "value", GrantOf(1, 2)))],
    [c EXCEPT !.columnGrants[GrantOf(3, 2)].relation = 9],
    [c EXCEPT !.columnGrants[GrantOf(3, 2)].column = 3],
    [c EXCEPT !.columnGrants[GrantOf(3, 2)].column = 1],
    [c EXCEPT !.relationGrants[3] = 4], [c EXCEPT !.relationGrants[3] = 9],
    [c EXCEPT !.keyAuthorizations = <<>>],
    [c EXCEPT !.keyAuthorizations = Append(@, KeyAuthorization("o", GrantOf(2, 1)))],
    [c EXCEPT !.keyAuthorizations[1].field = "o"], [c EXCEPT !.keyAuthorizations[1].field = "x"],
    [c EXCEPT !.keyAuthorizations[1].grant = GrantOf(3, 1)],
    [c EXCEPT !.keyAuthorizations[1].grant = 9],
    [c EXCEPT !.joinGrants[1].left = 9], [c EXCEPT !.joinGrants[1].right = 9],
    [c EXCEPT !.joinGrants[1].right = @ - 2]>>
FaultyContexts == Faults(Context(2, 3, Chain)) \o Faults(Context(1, 1, Chain))

FaultySnapshots == <<
    Snapshot, [Snapshot EXCEPT !.status = "draft"],
    [Snapshot EXCEPT !.sensitive = TRUE],
    [Snapshot EXCEPT !.relations[1].name = 4],
    [Snapshot EXCEPT !.relations[2].name = 4],
    [Snapshot EXCEPT !.relations[2].name = 4, !.sensitive = TRUE],
    [Snapshot EXCEPT !.relations[2].columns = Append(@, [name |-> 4, type |-> "int"])],
    [Snapshot EXCEPT !.relations[3].columns = <<[name |-> 2, type |-> "text"]>>],
    [Snapshot EXCEPT !.relations[3].columns[2].type = "not a type"],
    [Snapshot EXCEPT !.relationships[2] = Edge(3, 2, 2)],
    [Snapshot EXCEPT !.relationships[4] = Edge(2, 1, 1)],
    [Snapshot EXCEPT !.relationships[4] = [left |-> Column(1, 1), right |-> Column(1, 1)]],
    [Snapshot EXCEPT !.relationships[4] = [left |-> Column(1, 1), right |-> Column(4, 1)]]>>

FaultyPairs ==
    <<>> \o [n \in 1..(Len(FaultyContexts) * Len(FaultySnapshots)) |->
        Request(Binding, FaultyContexts[1 + (n - 1) \div Len(FaultySnapshots)],
                FaultySnapshots[1 + ((n - 1) % Len(FaultySnapshots))])]
FaultyBindings ==
    <<>> \o [n \in 1..(2 * Len(Bindings)) |->
        LET b == Bindings[1 + (n - 1) \div 2]
        IN  Request(b, IF n % 2 = 0 THEN Context(2, 3, Chain)
                       ELSE [Context(2, 3, Chain) EXCEPT !.rule = b.rule], Snapshot)]

\* What is wrong with a request as such: documents that do not belong together.
Sound == Request(Binding, Context(2, 3, Chain), Snapshot)
FaultyRequests == <<
    [Sound EXCEPT !.gap = GapReport(Bindings[4])], [Sound EXCEPT !.gap.requestId = <<"v", "x">>],
    [Sound EXCEPT !.gap.status = "blocked"], [Sound EXCEPT !.binding = Bindings[4]],
    [Sound EXCEPT !.context.joinGrants = <<>>], [Sound EXCEPT !.snapshot.sensitive = TRUE],
    [Sound EXCEPT !.snapshot = Hashed([Snapshot EXCEPT !.sensitive = TRUE])]>>

-----------------------------------------------------------------------------
(* The same requests with other hints *)

Hinted(b, h) ==
    [b EXCEPT !.mapping.column = {h},
              !.fields = [i \in DOMAIN @ |-> [@[i] EXCEPT !.candidate = {h}]]]
Hints == <<Column(1, 2), Column(3, 2), Column(9, 9), Column(0, 1)>>
HintRequests ==
    <<>> \o [n \in 1..(Len(Hints) * Len(FaultyContexts)) |->
        Request(Hinted(Binding, Hints[1 + ((n - 1) % Len(Hints))]),
                FaultyContexts[1 + (n - 1) \div Len(Hints)], Snapshot)]

MCRequests ==
    HintRequests \o GraphRequests \o OpenRequests \o FaultyBindings \o FaultyPairs \o FaultyRequests
\* Each with the next hint.
MCReproposed ==
    [n \in {n \in DOMAIN HintRequests : n % Len(Hints) # 0} |-> n + 1]
=============================================================================
