---------------------- MODULE MCMetadataResolutionV3 ----------------------
(***************************************************************************)
(* Three relations of two columns.  The fields take one to three of them;  *)
(* up to three join grants connect any two of them, in any direction; and  *)
(* requests, each with one or two faults, that every gate stops.           *)
(***************************************************************************)
EXTENDS MetadataResolutionV3

\* Identifier 4 is identifier 1 in another case.
MCFold == <<1, 2, 3, 1>>
Column(n, c) == [relation |-> n, column |-> c]
GrantOf(n, c) == 2 * n + c - 2

Approval == [id |-> "a", policy |-> "p", time |-> "t"]
Snapshot == [
    id |-> "s", sha |-> "", status |-> "approved", approval |-> Approval, sensitive |-> FALSE,
    relations |-> <<[name |-> 1, columns |-> <<1, 2>>], [name |-> 2, columns |-> <<1, 2>>],
                    [name |-> 3, columns |-> <<1, 2>>]>>,
    \* 1-2, 3-2 (stored against the grants), 1-3, and 1-2 once more by other columns
    relationships |-> <<<<Column(1, 1), Column(2, 1)>>, <<Column(3, 1), Column(2, 1)>>,
                        <<Column(1, 1), Column(3, 1)>>, <<Column(1, 2), Column(2, 2)>>>>]

\* factValue is in relation 1; the entity key and a further field are where given.
Binding == [
    requestId |-> 1, rule |-> "r", entity |-> "e",
    fields |-> <<[id |-> "factValue", role |-> "value"], [id |-> "k", role |-> "entityKey"],
                 [id |-> "o", role |-> "filter"]>>,
    keyParameters |-> <<"kp">>, filters |-> <<[field |-> "o", evidence |-> {"ev"}]>>,
    evidence |-> {"ev"}, allowed |-> <<"Y", "N">>]

AnotherBinding == [Binding EXCEPT !.entity = "other"]

Authorization(id, role, grant) == [request |-> 1, field |-> id, role |-> role, grant |-> grant]
KeyAuthorization(field, grant) ==
    [request |-> 1, parameter |-> "kp", field |-> field, grant |-> grant]
Association(q, j) == [request |-> q, grant |-> j, payloadSha |-> Sha(Binding), evidence |-> {"ev"}]
ColumnGrant(n, c) == [relation |-> n, column |-> c]
Context(key, other, joins) == [
    id |-> "c", sha |-> "", snapshot |-> "", status |-> "approved",
    approval |-> Approval, policy |-> "p",
    project |-> "pr", rule |-> "r", requestIds |-> {1, 2},
    \* grant 4 grants relation 1 a second time
    relationGrants |-> <<1, 2, 3, 1>>,
    columnGrants |-> <<ColumnGrant(1, 1), ColumnGrant(1, 2), ColumnGrant(2, 1), ColumnGrant(2, 2),
                       ColumnGrant(3, 1), ColumnGrant(3, 2), ColumnGrant(4, 1)>>,
    fieldAuthorizations |-> {Authorization("factValue", "value", GrantOf(1, 2)),
                             Authorization("k", "entityKey", GrantOf(key, 1)),
                             Authorization("o", "filter", GrantOf(other, 2))},
    keyAuthorizations |-> {KeyAuthorization("k", GrantOf(key, 1))},
    grains |-> [e |-> key],
    joinGrants |-> joins,
    joinEvidence |-> {Association(1, j) : j \in DOMAIN joins},
    encodings |-> <<[grant |-> GrantOf(1, 2), kind |-> "identity", logical |-> {"Y", "N"}]>>]

Hashed(document) == [document EXCEPT !.sha = ContentSha(document)]

Ref(document) == [id |-> document.id, sha |-> ContentSha(document)]

\* The request for a context and a snapshot that were approved together.
Approved(context, snapshot) ==
    LET s == Hashed(snapshot)
        c == Hashed(context)
    IN  [closure |-> [schema |-> FrozenSchema, conforms |-> TRUE, requestId |-> 1, rule |-> "r",
                      payload |-> Binding, payloadSha |-> Sha(Binding)],
         binding |-> Binding, project |-> "pr", context |-> c, snapshot |-> s,
         approvalRecord |-> Hashed([id |-> "a", policy |-> "p", time |-> "t", sha |-> "",
                                    snapshot |-> Ref(s), context |-> Ref(c)])]

\* The same, of a context that was made for this snapshot.
Request(context, snapshot) ==
    Approved([context EXCEPT !.snapshot = Ref(Hashed(snapshot))], snapshot)

-----------------------------------------------------------------------------
(* All graphs of up to three grants *)

Join(n, m, c, type) == [left |-> GrantOf(n, c), right |-> GrantOf(m, c), type |-> type]
Shapes == <<Join(1, 2, 1, "inner"), Join(1, 3, 1, "inner"), Join(2, 3, 1, "inner"),
            Join(1, 2, 1, "left"), Join(2, 1, 1, "left"), Join(1, 3, 1, "left"),
            Join(3, 1, 1, "left"), Join(2, 3, 1, "left"), Join(3, 2, 1, "left"),
            Join(1, 2, 2, "inner")>>
\* All sequences of up to three of them.
Graph[n \in 0..1110] ==
    IF n = 0 THEN <<>> ELSE Append(Graph[(n - 1) \div 10], Shapes[1 + ((n - 1) % 10)])
Places == <<<<1, 1>>, <<2, 2>>, <<2, 3>>>>
GraphRequest(n) ==
    LET place == Places[1 + (n % 3)]
    IN  Request(Context(place[1], place[2], Graph[n \div 3]), Snapshot)
\* \o makes the function a tuple, whose elements TLC evaluates once.
GraphRequests == <<>> \o [n \in 1..3333 |-> GraphRequest(n - 1)]

-----------------------------------------------------------------------------
(* Requests with faults *)

\* A chain 1-2-3 that resolves, and one relation with two grants that are not needed.
Chain == <<Join(1, 2, 1, "left"), Join(2, 3, 1, "inner")>>

FaultySnapshots == <<
    Snapshot,
    [Snapshot EXCEPT !.status = "draft"],
    [Snapshot EXCEPT !.sensitive = TRUE],
    [Snapshot EXCEPT !.approval.id = "b"],
    [Snapshot EXCEPT !.approval.time = "u"],
    [Snapshot EXCEPT !.relations[1].name = 4],
    [Snapshot EXCEPT !.relations[1].name = 4, !.sensitive = TRUE],
    [Snapshot EXCEPT !.relations[2].name = 4],
    [Snapshot EXCEPT !.relations[2].columns = <<1, 2, 4>>],
    [Snapshot EXCEPT !.relations[2].columns = <<1, 2, 4>>, !.sensitive = TRUE],
    [Snapshot EXCEPT !.relations[3].columns = <<4>>],
    [Snapshot EXCEPT !.relationships[2] = <<Column(3, 2), Column(2, 1)>>],
    [Snapshot EXCEPT !.relationships[4] = <<Column(2, 1), Column(1, 1)>>]>>

Faults(c) == <<
    c,
    [c EXCEPT !.status = "draft"],
    [c EXCEPT !.policy = "q"],
    [c EXCEPT !.project = "px"],
    [c EXCEPT !.rule = "rx"],
    [c EXCEPT !.requestIds = {2}, !.joinEvidence = {}],
    [c EXCEPT !.requestIds = {1}],
    [c EXCEPT !.fieldAuthorizations = {a \in @ : a.role # "filter"}],
    [c EXCEPT !.fieldAuthorizations = {[a EXCEPT !.request = 2] : a \in @}],
    [c EXCEPT !.fieldAuthorizations = {[a EXCEPT !.grant = 9] : a \in @}],
    [c EXCEPT !.columnGrants[GrantOf(3, 2)].relation = 9],
    [c EXCEPT !.keyAuthorizations = {}],
    [c EXCEPT !.keyAuthorizations = @ \cup {KeyAuthorization("o", GrantOf(2, 1))}],
    [c EXCEPT !.keyAuthorizations = {KeyAuthorization("unknown", GrantOf(2, 1))}],
    [c EXCEPT !.keyAuthorizations = {KeyAuthorization("o", GrantOf(3, 2))}],
    [c EXCEPT !.keyAuthorizations = {KeyAuthorization("k", GrantOf(3, 2))}],
    [c EXCEPT !.grains = [other |-> 1]],
    [c EXCEPT !.grains.e = 9],
    [c EXCEPT !.grains.e = 4],
    [c EXCEPT !.joinGrants[1] = [@ EXCEPT !.left = GrantOf(4, 1), !.right = GrantOf(1, 1)]],
    [c EXCEPT !.joinGrants[1].left = GrantOf(4, 1)],
    [c EXCEPT !.joinGrants[2].right = GrantOf(9, 1)],
    [c EXCEPT !.joinEvidence = {}],
    [c EXCEPT !.joinEvidence = @ \cup {Association(2, 1), Association(2, 9)}],
    [c EXCEPT !.joinEvidence = @ \cup {Association(3, 1)}],
    [c EXCEPT !.joinEvidence = {[a EXCEPT !.payloadSha = Sha(AnotherBinding)] : a \in @}],
    [c EXCEPT !.joinEvidence = {[a EXCEPT !.evidence = {"unknown"}] : a \in @}],
    [c EXCEPT !.encodings = <<>>],
    [c EXCEPT !.encodings[1].grant = GrantOf(2, 1)],
    [c EXCEPT !.encodings[1].logical = {"Y"}],
    [c EXCEPT !.encodings[1] = [@ EXCEPT !.kind = "mappedCase", !.logical = {"Y"}]],
    [c EXCEPT !.encodings[1] = [@ EXCEPT !.kind = "mappedCase", !.logical = {"Y", "X"}]]>>
FaultyContexts == Faults(Context(2, 3, Chain)) \o Faults(Context(1, 1, Chain))

\* What is wrong with a request as such: it was changed after the approval or
\* after the handoff, or is not the one that was handed over.
Sound == Request(Context(2, 3, Chain), Snapshot)
Rebound(b) == [Sound EXCEPT !.binding = b,
                            !.closure = [@ EXCEPT !.payload = b, !.payloadSha = Sha(b)]]
FaultyRequests == <<
    [Sound EXCEPT !.closure.schema = "other"],
    [Sound EXCEPT !.closure.conforms = FALSE],
    [Sound EXCEPT !.closure.requestId = 2],
    [Sound EXCEPT !.closure.payloadSha = Sha(AnotherBinding)],
    [Sound EXCEPT !.binding = AnotherBinding],
    [Sound EXCEPT !.context.joinGrants = Context(2, 3, <<>>).joinGrants],
    [Sound EXCEPT !.snapshot.sensitive = TRUE],
    [Sound EXCEPT !.approvalRecord.time = "u"],
    [Sound EXCEPT !.approvalRecord.policy = "q"],
    [Sound EXCEPT !.approvalRecord.id = "b"],
    [Sound EXCEPT !.approvalRecord.sha = Sound.context.sha],
    [Sound EXCEPT !.project = "px"],
    Approved(Request(Context(2, 3, Chain), [Snapshot EXCEPT !.status = "draft"]).context, Snapshot),
    Rebound([Binding EXCEPT !.filters[1].evidence = {"unknown"}]),
    Rebound([Binding EXCEPT !.allowed = <<"Y", "Y">>]),
    Rebound([Binding EXCEPT !.allowed = <<>>])>>

\* Every fault of a context with every fault of a snapshot.
FaultyPairs ==
    <<>> \o [n \in 1..(Len(FaultyContexts) * Len(FaultySnapshots)) |->
        Request(FaultyContexts[1 + (n - 1) \div Len(FaultySnapshots)],
                FaultySnapshots[1 + ((n - 1) % Len(FaultySnapshots))])]

MCRequests == GraphRequests \o FaultyRequests \o FaultyPairs
=============================================================================
