---------------------------- MODULE BindingIntakeV2 ----------------------------
(***************************************************************************)
(* FactBindingRequest 2.0.0 as SqlBot consumes it: which documents its     *)
(* strict wire model accepts, and analyze_binding_gaps_v2, which reports   *)
(* everything that keeps an accepted one from metadata resolution.         *)
(*                                                                         *)
(* What a document may leave out is a set of at most one element.  A list  *)
(* whose order decides nothing is a set.  A filter value or time boundary  *)
(* is the parameter it names or Literal.  An issue is a code and the part  *)
(* of the document it is about; messages and owners are left out.          *)
(***************************************************************************)
EXTENDS Naturals, Sequences, FiniteSets

Literal == "literal"

ParametersOf(values) == values \ {Literal}
Ids(s) == {s[i].id : i \in DOMAIN s}
IdsUnique(s) == Cardinality(Ids(s)) = Len(s)

-----------------------------------------------------------------------------
(* The wire model *)

MappingConforms(m) == m.mapped = (m.column # {})

EntityConforms(e) == e.keysResolved = (e.keys # {})

FieldConforms(f) == f.resolved = (f.candidate # {})

FilterConforms(item) == item.unary = (item.value = {})
FiltersConform(fs) ==
    /\ \A i \in DOMAIN fs.items : FilterConforms(fs.items[i])
    /\ fs.complete => \A i \in DOMAIN fs.items : fs.items[i].resolved

ExpectedStatus ==
    [none |-> "declared", precomputed |-> "candidate", exists |-> "declared",
     unresolved |-> "unresolved"]
AggregationConforms(a) ==
    IF a.mode = "compute"
    THEN a.function /\ a.inputs # {} /\ a.status \in {"declared", "candidate"}
    ELSE ~a.function /\ a.inputs \cup a.groups = {} /\ a.status = ExpectedStatus[a.mode]

TimeRangeConforms(t) ==
    CASE t.mode = "none" ->
            t.field \cup t.start \cup t.end = {} /\ t.status = "notApplicable"
      [] t.mode = "unresolved" ->
            t.field \cup t.start \cup t.end = {} /\ t.status = "unresolved"
      [] OTHER ->
            /\ t.field # {} /\ t.end # {}
            /\ (t.mode = "asOf") = (t.start = {})
            /\ t.status \in {"declared", "candidate"}

Conforms(b) ==
    /\ MappingConforms(b.mapping)
    /\ EntityConforms(b.entity)
    /\ \A i \in DOMAIN b.fields : FieldConforms(b.fields[i])
    /\ FiltersConform(b.filters)
    /\ AggregationConforms(b.aggregation)
    /\ TimeRangeConforms(b.time)
    /\ IdsUnique(b.fields) /\ IdsUnique(b.filters.items) /\ IdsUnique(b.uncertainties)

-----------------------------------------------------------------------------
(* The gap analysis *)

Issue(code, part, index) == [code |-> code, part |-> part, index |-> index]

\* The issue of a part for which a check fails, and of each such element of a list.
Unless(holds, code, part) == IF holds THEN {} ELSE {Issue(code, part, 0)}
ForEach(s, Holds(_), code, part) ==
    {Issue(code, part, i) : i \in {i \in DOMAIN s : ~Holds(s[i])}}

ContractIssues(b) ==
    UNION {
        Unless(b.contract = "2.0.0", "BINDING_CONTRACT_UNSUPPORTED", "contractVersion"),
        Unless(b.rule.schema = "2.0.0", "RULE_SCHEMA_UNSUPPORTED", "ruleRef"),
        Unless(b.status = "candidate", "BINDING_STATUS_INVALID", "status"),
        Unless(b.requestId = <<b.rule.version, b.fact.code>>, "REQUEST_ID_MISMATCH", "requestId"),
        Unless(b.fact.kind # "derived", "DERIVED_FACT_NOT_SQL_BOUND", "fact"),
        Unless(b.mapping.fact = b.fact.code, "MAPPING_FACT_MISMATCH", "mappingCandidate"),
        Unless(b.source = b.rule.source, "SOURCE_HASH_MISMATCH", "provenance"),
        Unless(b.dialect = "sqlserver", "DIALECT_UNSUPPORTED", "targetDialect"),
        Unless(b.needsSnapshot, "METADATA_SNAPSHOT_REQUIRED", "requiresMetadataSnapshot"),
        Unless(~b.tempTables, "TEMP_TABLE_DISABLED", "tempTableAllowed"),
        Unless(b.entity.grain = b.fact.grain, "ENTITY_GRAIN_MISMATCH", "entity"),
        Unless(b.result = b.fact.result, "RESULT_CONTRACT_MISMATCH", "result")}

\* Everything that cites evidence cites what the provenance registers.
EvidenceIssues(b) ==
    LET Known(part) == part.evidence \subseteq b.evidence
        code == "EVIDENCE_ID_UNKNOWN"
    IN  UNION {
            Unless(Known(b.entity), code, "entity"), ForEach(b.fields, Known, code, "fields"),
            Unless(Known(b.filters), code, "filters"),
            ForEach(b.filters.items, Known, code, "filterItems"),
            Unless(Known(b.aggregation), code, "aggregation"),
            Unless(Known(b.time), code, "timeRange"),
            Unless(b.cited \subseteq b.evidence, code, "usages and examples"),
            ForEach(b.uncertainties, Known, code, "uncertainties")}

\* Parameters are those of the fact, fields those of the query.
ReferenceIssues(b) ==
    LET parameters == DOMAIN b.fact.parameters
        FieldKnown(item) == item.field \in Ids(b.fields)
        ValueKnown(item) == ParametersOf(item.value) \subseteq parameters
    IN  UNION {
            Unless(b.entity.keys \subseteq parameters, "PARAMETER_REFERENCE_UNKNOWN", "entity"),
            ForEach(b.filters.items, FieldKnown, "FIELD_REFERENCE_UNKNOWN", "filterItems"),
            ForEach(b.filters.items, ValueKnown, "PARAMETER_REFERENCE_UNKNOWN", "filterItems"),
            Unless(b.aggregation.inputs \cup b.aggregation.groups \subseteq Ids(b.fields),
                   "FIELD_REFERENCE_UNKNOWN", "aggregation"),
            Unless(b.time.field \subseteq Ids(b.fields), "FIELD_REFERENCE_UNKNOWN", "timeRange"),
            Unless(ParametersOf(b.time.start) \subseteq parameters,
                   "PARAMETER_REFERENCE_UNKNOWN", "start"),
            Unless(ParametersOf(b.time.end) \subseteq parameters,
                   "PARAMETER_REFERENCE_UNKNOWN", "end")}

IntegrityIssues(b) == ContractIssues(b) \cup EvidenceIssues(b) \cup ReferenceIssues(b)

\* What an unresolved field leaves open depends on its role.
Leaves ==
    [value |-> "VALUE_FIELD_UNRESOLVED", filter |-> "FILTER_FIELD_UNRESOLVED",
     entityKey |-> "FILTER_FIELD_UNRESOLVED", groupBy |-> "AGGREGATION_UNRESOLVED",
     time |-> "TIME_RANGE_UNRESOLVED"]

\* The codes of the blocking uncertainties that the request has to admit.
RequiredUncertainties(b) ==
    UNION {
        IF b.entity.keysResolved THEN {} ELSE {"ENTITY_KEY_UNRESOLVED"},
        {Leaves[b.fields[i].role] :
            i \in {i \in DOMAIN b.fields : b.fields[i].required /\ ~b.fields[i].resolved}},
        IF \A i \in DOMAIN b.filters.items : b.filters.items[i].resolved
        THEN {} ELSE {"FILTER_FIELD_UNRESOLVED"},
        IF b.filters.complete THEN {} ELSE {"FILTER_SET_INCOMPLETE"},
        IF b.aggregation.status = "unresolved" THEN {"AGGREGATION_UNRESOLVED"} ELSE {},
        IF b.time.status = "unresolved" THEN {"TIME_RANGE_UNRESOLVED"} ELSE {}}

\* Seeded bug: a warning, too, admits that something is unresolved.
Admitted_AnyImpact(b) == {b.uncertainties[i].code : i \in DOMAIN b.uncertainties}
Admitted(b) ==
    {b.uncertainties[i].code : i \in {i \in DOMAIN b.uncertainties : b.uncertainties[i].blocking}}
MissingUncertaintyIssues(b) ==
    {Issue("BLOCKING_UNCERTAINTY_MISSING", code, 0) :
        code \in RequiredUncertainties(b) \ Admitted(b)}

UncertaintyIssues(b, blocking) ==
    {Issue(b.uncertainties[i].code, "uncertainties", i) :
        i \in {i \in DOMAIN b.uncertainties : b.uncertainties[i].blocking = blocking}}

\* Hints of the upstream parser authorize nothing, which every report says.
CandidateWarnings(b) ==
    {Issue("MAPPING_CANDIDATE_NOT_AUTHORIZATION", "mappingCandidate", 0),
     Issue("PARSER_PROVENANCE_NOT_AUTHORIZATION", "parser", 0)}
        \cup {Issue("SOURCE_CANDIDATE_NOT_AUTHORIZATION", "fields", i) :
                i \in {i \in DOMAIN b.fields : b.fields[i].candidate # {}}}

\* The report carries the request's hash, which stands for its content.
GapReport(b) ==
    LET blocking == IntegrityIssues(b) \cup MissingUncertaintyIssues(b)
                        \cup UncertaintyIssues(b, TRUE)
    IN  [status |-> IF blocking = {} THEN "readyForMetadataResolution" ELSE "blocked",
         requestId |-> b.requestId, payload |-> b, blocking |-> blocking,
         warnings |-> CandidateWarnings(b) \cup UncertaintyIssues(b, FALSE)]
=============================================================================
