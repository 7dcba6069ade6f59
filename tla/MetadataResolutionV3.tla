------------------------- MODULE MetadataResolutionV3 -------------------------
(***************************************************************************)
(* resolve_metadata_v3: the gates that a V3 request passes, in the order   *)
(* of the code, the first failure of which makes the report "blocked"; the *)
(* join grants it selects; the join plan it builds from them breadth first.*)
(*                                                                         *)
(* Identifiers (relations, columns, grants, requests) are numbers in the   *)
(* order in which the code sorts them.  A relation's schema and name are   *)
(* one identifier.  The SHA-256 of a document stands for its content.      *)
(***************************************************************************)
EXTENDS Naturals, Sequences, FiniteSets

CONSTANTS
    Requests,     \* Requests[n]: the ResolveMetadataRequestV3 that may be resolved
    Fold,         \* Fold[n]: the casefold of identifier n
    FrozenSchema, \* the identity of the packaged JSON Schema
    NoReport

\* What a request that reaches the resolver has passed, of the wire models'
\* checks: its lists, the two columns of a relationship, one field factValue.
IsList(s) == Len(s) \in Nat /\ DOMAIN s = 1..Len(s)
WireModel(r) ==
    /\ IsList(r.binding.fields)
    /\ \E i \in DOMAIN r.binding.fields : r.binding.fields[i].id = "factValue"
    /\ IsList(r.binding.keyParameters)
    /\ IsList(r.context.joinGrants)
    /\ IsList(r.snapshot.relations)
    /\ \A i \in DOMAIN r.snapshot.relations : r.snapshot.relations[i].name \in DOMAIN Fold
    /\ \A i \in DOMAIN r.snapshot.relationships : DOMAIN r.snapshot.relationships[i] = 1..2

ASSUME RequestsAssumption ==
    /\ DOMAIN Fold \subseteq Nat
    /\ Fold \in [DOMAIN Fold -> Nat]
    /\ \A n \in DOMAIN Requests : WireModel(Requests[n])

VARIABLES
    name,        \* which request is resolved
    pc,          \* the gate to pass next
    fields,      \* resolved fields
    keys,        \* resolved entity keys
    required,    \* the relations of the fields
    ends,        \* ends[j]: the relations that join grant j joins
    candidates,  \* join grants between two of them
    seen, pending,  \* the traversal that checks that they connect
    selected,    \* the grants of the closure
    accumulated, \* the relations that the plan has joined
    queue, current, edges, \* the breadth-first search
    plan,        \* join grants in the order of the plan
    report

closureVars == <<required, ends, candidates, seen, pending, selected>>
planVars == <<accumulated, queue, current, edges, plan>>
vars == <<name, pc, fields, keys, closureVars, planVars, report>>

request == Requests[name]

Least(S) == CHOOSE i \in S : \A j \in S : i <= j

\* The first failing one of a sequence of checks <<code, whether it holds>>.
FirstIssue(checks) ==
    LET failing == {i \in DOMAIN checks : ~checks[i][2]}
    IN  IF failing = {} THEN "ok" ELSE checks[Least(failing)][1]

\* The issue of the first item of S that has one.
FirstOf(S, Issue(_)) ==
    LET bad == {i \in S : Issue(i) # "ok"}
    IN  IF bad = {} THEN "ok" ELSE Issue(Least(bad))

-----------------------------------------------------------------------------
(* The input gate *)

\* canonical_content_sha256 leaves out the document's own hash.
ContentSha(document) == [document EXCEPT !.sha = "omitted"]
Sha(payload) == <<"sha256", payload>>

HandoffIssue(h) == FirstIssue(<<
    <<"HANDOFF_SCHEMA_REF_MISMATCH", h.schema = FrozenSchema>>,
    <<"HANDOFF_PAYLOAD_SCHEMA_INVALID", h.conforms>>,
    <<"HANDOFF_IDENTITY_MISMATCH",
        h.requestId = h.payload.requestId /\ h.rule = h.payload.rule>>,
    <<"HANDOFF_PAYLOAD_HASH_MISMATCH", h.payloadSha = Sha(h.payload)>>>>)

ApprovalIssue(c, s, a) == FirstIssue(<<
    <<"APPROVAL_ID_MISMATCH", c.approval.id = a.id /\ s.approval.id = a.id>>,
    <<"APPROVAL_POLICY_MISMATCH",
        {s.approval.policy, a.policy, c.policy} = {c.approval.policy}>>,
    <<"APPROVAL_TIME_MISMATCH", {s.approval.time, a.time} = {c.approval.time}>>,
    <<"APPROVAL_CONTEXT_REF_MISMATCH",
        a.context = [id |-> c.id, sha |-> ContentSha(c)] /\ c.sha = ContentSha(c)>>,
    <<"APPROVAL_SNAPSHOT_REF_MISMATCH",
        a.snapshot = [id |-> s.id, sha |-> ContentSha(s)] /\ s.sha = ContentSha(s)>>,
    <<"APPROVAL_CONTENT_HASH_MISMATCH", a.sha = ContentSha(a)>>,
    <<"APPROVAL_CONTEXT_NOT_APPROVED", c.status = "approved">>,
    <<"APPROVAL_SNAPSHOT_NOT_APPROVED", s.status = "approved">>,
    <<"APPROVAL_SNAPSHOT_BINDING_MISMATCH", c.snapshot = a.snapshot>>>>)

InputIssue(r) ==
    LET closure == HandoffIssue(r.closure)
        approval == ApprovalIssue(r.context, r.snapshot, r.approvalRecord)
    IN  FirstIssue(<<
            <<closure, closure = "ok">>,
            <<"HANDOFF_BINDING_REQUEST_MISMATCH", r.closure.payload = r.binding>>,
            <<approval, approval = "ok">>,
            <<"PROJECT_REF_MISMATCH", r.project = r.context.project>>,
            <<"RULE_REF_MISMATCH", r.context.rule = r.binding.rule>>,
            <<"REQUEST_NOT_IN_CONTEXT", r.binding.requestId \in r.context.requestIds>>>>)

-----------------------------------------------------------------------------
(* Physical columns *)

Norm(r, n) == IF r.snapshot.sensitive THEN n ELSE Fold[n]

ColumnIndexes(r) ==
    UNION {DOMAIN r.snapshot.relations[i].columns : i \in DOMAIN r.snapshot.relations}

\* The snapshot's relations and columns with the identifiers of a column grant.
RelationsOf(r, g) ==
    LET granted == r.context.relationGrants[r.context.columnGrants[g].relation]
    IN  {i \in DOMAIN r.snapshot.relations :
            Norm(r, r.snapshot.relations[i].name) = Norm(r, granted)}
ColumnsOf(r, g) ==
    {c \in RelationsOf(r, g) \X ColumnIndexes(r) :
        LET columns == r.snapshot.relations[c[1]].columns IN
        /\ c[2] \in DOMAIN columns
        /\ Norm(r, columns[c[2]]) = Norm(r, r.context.columnGrants[g].column)}

\* Two relations of the snapshot, or two columns of one relation, are the same.
AmbiguousRelation(r) ==
    \E i, j \in DOMAIN r.snapshot.relations :
        i # j /\ Norm(r, r.snapshot.relations[i].name) = Norm(r, r.snapshot.relations[j].name)
\* Seeded bug: spellings are compared, whatever the case policy.
AmbiguousColumn_Spelling(r) ==
    \E i \in DOMAIN r.snapshot.relations : LET columns == r.snapshot.relations[i].columns IN
        \E j, k \in DOMAIN columns : j # k /\ columns[j] = columns[k]
AmbiguousColumn(r) ==
    \E i \in DOMAIN r.snapshot.relations : LET columns == r.snapshot.relations[i].columns IN
        \E j, k \in DOMAIN columns : j # k /\ Norm(r, columns[j]) = Norm(r, columns[k])

ColumnIssue(r, g) ==
    IF AmbiguousRelation(r) THEN "SNAPSHOT_RELATION_AMBIGUOUS"
    ELSE IF AmbiguousColumn(r) THEN "SNAPSHOT_COLUMN_AMBIGUOUS"
    ELSE IF g \notin DOMAIN r.context.columnGrants THEN "COLUMN_GRANT_NOT_FOUND"
    ELSE IF r.context.columnGrants[g].relation \notin DOMAIN r.context.relationGrants
         THEN "RELATION_GRANT_NOT_FOUND"
    ELSE IF RelationsOf(r, g) = {} THEN "RELATION_NOT_IN_SNAPSHOT"
    ELSE IF ColumnsOf(r, g) = {} THEN "COLUMN_NOT_IN_SNAPSHOT"
    ELSE "ok"

\* The column of a grant, spelled as in the snapshot.
Physical(r, g) ==
    LET c == CHOOSE c \in ColumnsOf(r, g) : TRUE
        relation == r.snapshot.relations[c[1]]
    IN  [relation |-> relation.name, column |-> relation.columns[c[2]]]

\* What identifies a column, and its relation, under the case policy.
Relation(r, column) == Norm(r, column.relation)
Key(r, column) == <<Norm(r, column.relation), Norm(r, column.column)>>

-----------------------------------------------------------------------------
(* What the gates check *)

\* The authorizations of a field for this request; the context has at most one.
FieldAuthorizations(r, f) ==
    {a \in r.context.fieldAuthorizations :
        a.request = r.binding.requestId /\ a.field = f.id /\ a.role = f.role}
FieldIssue(r, f) ==
    IF FieldAuthorizations(r, f) = {} THEN "FIELD_AUTHORIZATION_MISSING"
    ELSE LET a == CHOOSE a \in FieldAuthorizations(r, f) : TRUE IN ColumnIssue(r, a.grant)
FieldsIssue(r) ==
    LET Issue(i) == FieldIssue(r, r.binding.fields[i])
    IN  FirstOf(DOMAIN r.binding.fields, Issue)
ResolvedField(r, f) ==
    LET a == CHOOSE a \in FieldAuthorizations(r, f) : TRUE
    IN  [id |-> f.id, role |-> f.role, grant |-> a.grant, column |-> Physical(r, a.grant)]
ResolvedFields(r) ==
    {ResolvedField(r, r.binding.fields[i]) : i \in DOMAIN r.binding.fields}

KeyAuthorizations(r, p) ==
    {a \in r.context.keyAuthorizations : a.request = r.binding.requestId /\ a.parameter = p}
TheKeyAuthorization(r, p) == CHOOSE a \in KeyAuthorizations(r, p) : TRUE
KeyField(r, p) == {f \in fields : f.id = TheKeyAuthorization(r, p).field}
KeyIssue(r, p) ==
    IF KeyAuthorizations(r, p) = {} THEN "ENTITY_KEY_AUTHORIZATION_MISSING"
    ELSE IF Cardinality(KeyAuthorizations(r, p)) > 1 THEN "ENTITY_KEY_AUTHORIZATION_AMBIGUOUS"
    ELSE IF KeyField(r, p) = {} THEN "ENTITY_KEY_FIELD_NOT_FOUND"
    ELSE IF \A f \in KeyField(r, p) : f.role # "entityKey" THEN "ENTITY_KEY_FIELD_ROLE_MISMATCH"
    ELSE IF \A f \in KeyField(r, p) : f.grant # TheKeyAuthorization(r, p).grant
         THEN "ENTITY_KEY_COLUMN_GRANT_MISMATCH"
    ELSE "ok"
KeysIssue(r) ==
    LET Issue(i) == KeyIssue(r, r.binding.keyParameters[i])
    IN  FirstOf(DOMAIN r.binding.keyParameters, Issue)
ResolvedKeys(r) ==
    {[parameter |-> r.binding.keyParameters[i],
      field |-> CHOOSE f \in KeyField(r, r.binding.keyParameters[i]) : TRUE] :
        i \in DOMAIN r.binding.keyParameters}

\* Filters, aggregation and time range name declared fields, all of which are
\* resolved by now; only a filter's evidence may be unknown.
FiltersIssue(r) ==
    LET Issue(i) == IF r.binding.filters[i].evidence \subseteq r.binding.evidence
                    THEN "ok" ELSE "FILTER_EVIDENCE_REFERENCE_INVALID"
    IN  FirstOf(DOMAIN r.binding.filters, Issue)

\* The relation grant of the entity, not just its relation, must be that of the keys.
GrainIssue(r) ==
    IF r.binding.entity \notin DOMAIN r.context.grains THEN "ENTITY_GRAIN_MAPPING_MISSING"
    ELSE LET mapped == r.context.grains[r.binding.entity] IN
        IF mapped \notin DOMAIN r.context.relationGrants THEN "ENTITY_GRAIN_GRANT_INVALID"
        ELSE IF \E k \in keys : r.context.columnGrants[k.field.grant].relation # mapped
        THEN "ENTITY_GRAIN_RELATION_MISMATCH"
        ELSE "ok"

Grant(r, j) == r.context.joinGrants[j]
LeftColumn(r, j) == Physical(r, Grant(r, j).left)
RightColumn(r, j) == Physical(r, Grant(r, j).right)
\* The snapshot's relationships between the ends of a grant, in either direction.
Relationships(r, j) ==
    {i \in DOMAIN r.snapshot.relationships :
        {Key(r, r.snapshot.relationships[i][1]), Key(r, r.snapshot.relationships[i][2])}
            = {Key(r, LeftColumn(r, j)), Key(r, RightColumn(r, j))}}
JoinIssue(r, j) ==
    IF ColumnIssue(r, Grant(r, j).left) # "ok" THEN ColumnIssue(r, Grant(r, j).left)
    ELSE IF ColumnIssue(r, Grant(r, j).right) # "ok" THEN ColumnIssue(r, Grant(r, j).right)
    ELSE IF Key(r, LeftColumn(r, j)) = Key(r, RightColumn(r, j)) THEN "JOIN_ENDPOINTS_IDENTICAL"
    ELSE IF Relationships(r, j) = {} THEN "JOIN_RELATIONSHIP_NOT_FOUND"
    ELSE IF Cardinality(Relationships(r, j)) > 1 THEN "JOIN_RELATIONSHIP_AMBIGUOUS"
    ELSE "ok"
JoinGrantsIssue(r) ==
    LET Issue(j) == JoinIssue(r, j) IN FirstOf(DOMAIN r.context.joinGrants, Issue)

Left(j) == ends[j][1]
Right(j) == ends[j][2]

\* Associations are checked in the order of request, then grant.
Before(a, b) == a.request < b.request \/ (a.request = b.request /\ a.grant < b.grant)
FirstAssociation(S) == CHOOSE a \in S : \A b \in S \ {a} : Before(a, b)
Current(r) == {a \in r.context.joinEvidence : a.request = r.binding.requestId}
\* Seeded bug: associations of other requests are left unchecked.
EvidenceIssue_CurrentOnly(r) ==
    LET wrong == {a \in Current(r) :
                     a.payloadSha # Sha(r.binding) \/ ~(a.evidence \subseteq r.binding.evidence)}
    IN  IF wrong # {} THEN "JOIN_EVIDENCE_PAYLOAD_HASH_MISMATCH"
        ELSE IF \E j \in selected : \A a \in Current(r) : a.grant # j
        THEN "JOIN_EVIDENCE_ASSOCIATION_NOT_FOUND"
        ELSE "ok"
EvidenceIssue(r) ==
    LET foreign == {a \in r.context.joinEvidence :
                       a.request \notin r.context.requestIds
                       \/ a.grant \notin DOMAIN r.context.joinGrants}
        wrong == {a \in Current(r) :
                     a.payloadSha # Sha(r.binding) \/ ~(a.evidence \subseteq r.binding.evidence)}
    IN  IF foreign # {}
        THEN IF FirstAssociation(foreign).request \notin r.context.requestIds
             THEN "JOIN_REQUEST_NOT_IN_CONTEXT" ELSE "JOIN_GRANT_NOT_FOUND"
        ELSE IF wrong # {}
        THEN IF FirstAssociation(wrong).payloadSha # Sha(r.binding)
             THEN "JOIN_EVIDENCE_PAYLOAD_HASH_MISMATCH" ELSE "JOIN_GRANT_EVIDENCE_INVALID"
        ELSE IF \E j \in selected : \A a \in Current(r) : a.grant # j
        THEN "JOIN_EVIDENCE_ASSOCIATION_NOT_FOUND"
        ELSE "ok"
JoinEvidence(r, j) == (CHOOSE a \in Current(r) : a.grant = j).evidence

FactValue == CHOOSE f \in fields : f.id = "factValue"
Elements(s) == {s[i] : i \in DOMAIN s}
\* The context has at most one encoding per request.
EncodingIssue(r) ==
    LET allowed == Elements(r.binding.allowed)
        b == r.context.encodings[r.binding.requestId]
    IN  IF Cardinality(allowed) # Len(r.binding.allowed) THEN "VALUE_ENCODING_VALUES_INVALID"
        ELSE IF r.binding.requestId \notin DOMAIN r.context.encodings
        THEN IF allowed = {} THEN "ok" ELSE "VALUE_ENCODING_REQUIRED"
        ELSE IF b.grant # FactValue.grant THEN "VALUE_ENCODING_COLUMN_MISMATCH"
        ELSE IF \/ b.kind = "mappedCase" /\ (allowed = {} \/ ~(b.logical \subseteq allowed))
                \/ b.kind = "identity" /\ b.logical # allowed
        THEN "VALUE_ENCODING_VALUES_INVALID"
        ELSE "ok"

-----------------------------------------------------------------------------
(* The resolution *)

Blocked(code) ==
    [status |-> "blocked", code |-> code, fields |-> {}, keys |-> {}, joins |-> <<>>]
ResolvedJoin(j) ==
    [grant |-> j, left |-> LeftColumn(request, j), right |-> RightColumn(request, j),
     type |-> Grant(request, j).type, evidence |-> JoinEvidence(request, j)]
Resolved ==
    [status |-> "metadataResolved", code |-> "ok", fields |-> fields, keys |-> keys,
     joins |-> [i \in DOMAIN plan |-> ResolvedJoin(plan[i])]]

Init ==
    /\ name \in DOMAIN Requests
    /\ pc = "input"
    /\ fields = {} /\ keys = {}
    /\ required = {} /\ ends = <<>> /\ candidates = {}
    /\ seen = {} /\ pending = {} /\ selected = {}
    /\ accumulated = {} /\ queue = <<>> /\ current = 0 /\ edges = {}
    /\ plan = <<>>
    /\ report = NoReport

Block(code) == pc' = "done" /\ report' = Blocked(code)
Pass(next) == pc' = next /\ UNCHANGED report
Gate(issue, next) == IF issue = "ok" THEN Pass(next) ELSE Block(issue)

ValidateInput ==
    /\ pc = "input"
    /\ Gate(InputIssue(request), "fields")
    /\ UNCHANGED <<name, fields, keys, closureVars, planVars>>

ResolveFields ==
    /\ pc = "fields"
    /\ Gate(FieldsIssue(request), "keys")
    /\ fields' = IF FieldsIssue(request) = "ok" THEN ResolvedFields(request) ELSE {}
    /\ UNCHANGED <<name, keys, closureVars, planVars>>

ResolveEntityKeys ==
    /\ pc = "keys"
    /\ Gate(KeysIssue(request), "filters")
    /\ keys' = IF KeysIssue(request) = "ok" THEN ResolvedKeys(request) ELSE {}
    /\ UNCHANGED <<name, fields, closureVars, planVars>>

ResolveFilters ==
    /\ pc = "filters"
    /\ Gate(FiltersIssue(request), "grain")
    /\ UNCHANGED <<name, fields, keys, closureVars, planVars>>

MapEntityGrain ==
    /\ pc = "grain"
    /\ Gate(GrainIssue(request), "grants")
    /\ UNCHANGED <<name, fields, keys, closureVars, planVars>>

\* Every grant of the context is resolved, also when no join is needed.
ResolveJoinGrants ==
    /\ pc = "grants"
    /\ Gate(JoinGrantsIssue(request), "candidates")
    /\ required' = {Relation(request, f.column) : f \in fields}
    /\ ends' = IF JoinGrantsIssue(request) = "ok"
               THEN [j \in DOMAIN request.context.joinGrants |->
                        <<Relation(request, LeftColumn(request, j)),
                          Relation(request, RightColumn(request, j))>>]
               ELSE <<>>
    /\ UNCHANGED <<name, fields, keys, candidates, seen, pending, selected, planVars>>

\* One relation needs no join.
SelectCandidates ==
    /\ pc = "candidates"
    /\ IF Cardinality(required) <= 1
       THEN pc' = "evidence" /\ UNCHANGED <<candidates, pending>>
       ELSE /\ pc' = "closure"
            /\ candidates' = {j \in DOMAIN ends :
                                 /\ Left(j) # Right(j)
                                 /\ Left(j) \in required /\ Right(j) \in required}
            /\ pending' = {Least(required)}
    /\ UNCHANGED <<name, fields, keys, required, ends, seen, selected, planVars, report>>

Neighbours(c) ==
    {Right(j) : j \in {j \in candidates : Left(j) = c}}
        \cup {Left(j) : j \in {j \in candidates : Right(j) = c}}

\* The stack may hold a relation several times; the order of visits is abstracted.
Visit ==
    /\ pc = "closure"
    /\ \E c \in pending :
        /\ seen' = seen \cup {c}
        /\ pending' = (pending \cup Neighbours(c)) \ seen'
    /\ UNCHANGED <<name, pc, fields, keys, required, ends, candidates, selected, planVars, report>>

\* Seeded bug: grants that are not needed do not matter.
ClosureIssue_Spare == IF seen # required THEN "JOIN_CLOSURE_DISCONNECTED" ELSE "ok"

ClosureIssue ==
    IF seen # required THEN "JOIN_CLOSURE_DISCONNECTED"
    ELSE IF Cardinality(candidates) # Cardinality(required) - 1 THEN "JOIN_CLOSURE_AMBIGUOUS"
    ELSE "ok"
CheckClosure ==
    /\ pc = "closure" /\ pending = {}
    /\ Gate(ClosureIssue, "evidence")
    /\ selected' = IF ClosureIssue = "ok" THEN candidates ELSE {}
    /\ UNCHANGED <<name, fields, keys, required, ends, candidates, seen, pending, planVars>>

ResolveJoinEvidence ==
    /\ pc = "evidence"
    /\ Gate(EvidenceIssue(request), "base")
    /\ UNCHANGED <<name, fields, keys, closureVars, planVars>>

\* The plan starts at the relation of factValue.
Base == Relation(request, FactValue.column)
StartPlan ==
    /\ pc = "base"
    /\ IF selected = {}
       THEN pc' = "values" /\ UNCHANGED <<accumulated, queue>>
       ELSE /\ pc' = "plan"
            /\ accumulated' = {Base}
            /\ queue' = <<Base>>
    /\ UNCHANGED <<name, fields, keys, closureVars, current, edges, plan, report>>

\* Seeded bug: the relation stays at the head of the queue.
Take_Peeks ==
    /\ pc = "plan" /\ edges = {} /\ queue # <<>>
    /\ current' = Head(queue)
    /\ edges' = {j \in selected : Head(queue) \in {Left(j), Right(j)}}
    /\ UNCHANGED <<name, pc, fields, keys, closureVars, accumulated, queue, plan, report>>

Take ==
    /\ pc = "plan" /\ edges = {} /\ queue # <<>>
    /\ current' = Head(queue)
    /\ queue' = Tail(queue)
    /\ edges' = {j \in selected : Head(queue) \in {Left(j), Right(j)}}
    /\ UNCHANGED <<name, pc, fields, keys, closureVars, accumulated, plan, report>>

NewEnd(j) == IF Left(j) = current THEN Right(j) ELSE Left(j)

\* The next edge of the current relation leads to one that is joined already.
SkipEdge ==
    /\ pc = "plan" /\ edges # {}
    /\ NewEnd(Least(edges)) \in accumulated
    /\ edges' = edges \ {Least(edges)}
    /\ UNCHANGED <<name, pc, fields, keys, closureVars, accumulated, queue, current, plan,
                    report>>

\* Seeded bug: inner joins, too, are taken to have a direction.
Conflicts_AnyType(j) == Left(j) \notin accumulated \/ Right(j) \in accumulated

\* A left join keeps the rows of its left side, so that must be there already.
Conflicts(j) ==
    /\ Grant(request, j).type = "left"
    /\ Left(j) \notin accumulated \/ Right(j) \in accumulated

ConflictingEdge ==
    /\ pc = "plan" /\ edges # {}
    /\ NewEnd(Least(edges)) \notin accumulated
    /\ Conflicts(Least(edges))
    /\ Block("JOIN_PLAN_DIRECTION_CONFLICT")
    /\ UNCHANGED <<name, fields, keys, closureVars, planVars>>

\* Seeded bug: only the joins of the base relation are found.
JoinEdge_NotQueued ==
    /\ pc = "plan" /\ edges # {}
    /\ LET j == Least(edges) IN
        /\ NewEnd(j) \notin accumulated
        /\ ~Conflicts(j)
        /\ plan' = Append(plan, j)
        /\ accumulated' = accumulated \cup {NewEnd(j)}
        /\ edges' = edges \ {j}
    /\ UNCHANGED <<name, pc, fields, keys, closureVars, queue, current, report>>

JoinEdge ==
    /\ pc = "plan" /\ edges # {}
    /\ LET j == Least(edges) IN
        /\ NewEnd(j) \notin accumulated
        /\ ~Conflicts(j)
        /\ plan' = Append(plan, j)
        /\ accumulated' = accumulated \cup {NewEnd(j)}
        /\ queue' = Append(queue, NewEnd(j))
        /\ edges' = edges \ {j}
    /\ UNCHANGED <<name, pc, fields, keys, closureVars, current, report>>

FinishPlan ==
    /\ pc = "plan" /\ edges = {} /\ queue = <<>>
    /\ pc' = "values"
    /\ UNCHANGED <<name, fields, keys, closureVars, planVars, report>>

ResolveValues ==
    /\ pc = "values"
    /\ IF EncodingIssue(request) = "ok"
       THEN pc' = "done" /\ report' = Resolved
       ELSE Block(EncodingIssue(request))
    /\ UNCHANGED <<name, fields, keys, closureVars, planVars>>

Terminated == pc = "done" /\ UNCHANGED vars

Next ==
    \/ ValidateInput \/ ResolveFields \/ ResolveEntityKeys \/ ResolveFilters
    \/ MapEntityGrain \/ ResolveJoinGrants \/ SelectCandidates \/ Visit \/ CheckClosure
    \/ ResolveJoinEvidence \/ StartPlan \/ Take \/ SkipEdge \/ ConflictingEdge \/ JoinEdge
    \/ FinishPlan \/ ResolveValues \/ Terminated

Spec == Init /\ [][Next]_vars

-----------------------------------------------------------------------------
(* Properties *)

\* The order of the gates.
Rank == [input |-> 0, fields |-> 1, keys |-> 2, filters |-> 3, grain |-> 4, grants |-> 5,
         candidates |-> 6, closure |-> 7, evidence |-> 8, base |-> 9, plan |-> 10,
         values |-> 11, done |-> 12]

IsResolved == pc = "done" /\ report.status = "metadataResolved"
IsBlocked(code) == pc = "done" /\ report.status = "blocked" /\ report.code = code

\* No part of S is cut off: the grants of G lead out of each of them.
Crosses(j, T) == (Left(j) \in T) # (Right(j) \in T)
Connects(S, G) == \A T \in SUBSET S : T \notin {{}, S} => \E j \in G : Crosses(j, T)

Usable == {j \in DOMAIN ends : {Left(j), Right(j)} \subseteq required}
\* The ways to join the required relations with no grant to spare.
Trees == {G \in SUBSET Usable :
            Connects(required, G) /\ \A j \in G : ~Connects(required, G \ {j})}

\* _select_join_closure_v3 calls the relations disconnected only if there is no
\* closure, the closure ambiguous only if there are several, and the joins of a
\* report are the only closure there is: nothing was chosen on the way.
OnlyClosure ==
    /\ IsBlocked("JOIN_CLOSURE_DISCONNECTED") => Trees = {}
    /\ IsBlocked("JOIN_CLOSURE_AMBIGUOUS") => Cardinality(Trees) > 1
    /\ IsResolved /\ Cardinality(required) > 1 =>
        Trees = {{report.joins[i].grant : i \in DOMAIN report.joins}}

\* The relations that the first i joins of the plan have brought together.
Joined(i) == {Base} \cup UNION {{Left(plan[k]), Right(plan[k])} : k \in 1..i}

\* _resolve_joins_v3 orders the joins so that each adds one relation to those
\* before it, a left join by its right side, and together they reach all fields
\* of the report: SQL can be written in this order and keeps the rows that each
\* grant says it keeps.
PlanInOrder ==
    /\ \A i \in DOMAIN plan :
        /\ plan[i] \in selected
        /\ Crosses(plan[i], Joined(i - 1))
        /\ Grant(request, plan[i]).type = "left" => Left(plan[i]) \in Joined(i - 1)
    /\ IsResolved => \A f \in report.fields : Relation(request, f.column) \in Joined(Len(plan))

\* A left grant points at factValue's relation: to reach its left side from
\* there takes the grant itself, whatever the order of the search.
PointsBack(j) ==
    /\ Grant(request, j).type = "left"
    /\ \E T \in SUBSET required :
        /\ Base \in T /\ Right(j) \in T /\ Left(j) \notin T
        /\ \A k \in selected \ {j} : ~Crosses(k, T)

\* JOIN_PLAN_DIRECTION_CONFLICT is reported exactly when a grant points back.
ConflictIsReal ==
    /\ IsBlocked("JOIN_PLAN_DIRECTION_CONFLICT") => \E j \in selected : PointsBack(j)
    /\ IsResolved => \A j \in selected : ~PointsBack(j)

\* The columns of the snapshot that the case policy takes for the given one.
Same(column) ==
    {c \in (DOMAIN request.snapshot.relations) \X ColumnIndexes(request) :
        LET relation == request.snapshot.relations[c[1]] IN
        /\ c[2] \in DOMAIN relation.columns
        /\ Key(request, [relation |-> relation.name, column |-> relation.columns[c[2]]])
              = Key(request, column)}

\* Every column in a report is one column of the snapshot and no other, and
\* the entity keys are columns of one relation.
ColumnsUnmistakable ==
    IsResolved =>
        /\ \A column \in {f.column : f \in report.fields}
                          \cup {report.joins[i].left : i \in DOMAIN report.joins}
                          \cup {report.joins[i].right : i \in DOMAIN report.joins} :
              Cardinality(Same(column)) = 1
        /\ \A k, l \in report.keys :
              Relation(request, k.field.column) = Relation(request, l.field.column)

\* What the context authorizes has been checked even where this request makes
\* no use of it: "no grant is skipped" (_select_join_closure_v3), nor is any
\* evidence association.
NothingSkipped ==
    IsResolved =>
        /\ \A j \in DOMAIN request.context.joinGrants :
            \E i \in DOMAIN request.snapshot.relationships :
                {Key(request, LeftColumn(request, j)), Key(request, RightColumn(request, j))}
                  = {Key(request, c) : c \in Elements(request.snapshot.relationships[i])}
        /\ \A a \in request.context.joinEvidence :
            /\ a.request \in request.context.requestIds
            /\ a.grant \in DOMAIN request.context.joinGrants
            /\ a.request = request.binding.requestId => a.payloadSha = Sha(request.binding)

\* The relations that the breadth-first search has not taken yet.
Untaken == (required \ accumulated) \cup Elements(queue)

\* Every step comes closer to the report: it passes a gate, visits a relation
\* for the first time, takes a relation that it never takes again, or is done
\* with an edge of it.  With the absence of deadlock, both searches end.
Advances ==
    [][ \/ Rank[pc'] > Rank[pc]
        \/ pc' = pc /\ seen \subseteq seen' /\ seen' # seen
        \/ pc' = pc /\ Untaken' \subseteq Untaken /\ Untaken' # Untaken
        \/ pc' = pc /\ Untaken' = Untaken /\ edges' \subseteq edges /\ edges' # edges ]_vars
=============================================================================
