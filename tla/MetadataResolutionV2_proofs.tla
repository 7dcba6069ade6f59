--------------------- MODULE MetadataResolutionV2_proofs ---------------------
(***************************************************************************)
(* Proofs about MetadataResolutionV2, for any requests.  The resolution    *)
(* computes a function of the request, its Answer, whatever the order of   *)
(* the traversal; what the properties say of reports is then a matter of   *)
(* that function.                                                          *)
(***************************************************************************)
EXTENDS MetadataResolutionV2, JoinGraph_proofs

-----------------------------------------------------------------------------
(* The answer to a request                                                 *)

\* What the gates find.
Accepted(r) == Conforms(r.binding) /\ DocumentsConform(r.context, r.snapshot)
PreflightFinds(r) == PreflightIssues(r) \cup UpstreamIssues(r)
IndexFinds(r) == MetadataIssues(r) \cup GrantIssues(r)
GatesOpen(r) == Accepted(r) /\ PreflightFinds(r) = {} /\ IndexFinds(r) = {}

FieldsOf(r) == {ResolvedField(r, f) : f \in {f \in Mandatory(r) : FieldIssue(r, f) = "ok"}}
FieldIssuesOf(r) ==
    {Issue(FieldIssue(r, f), f.id, 0) : f \in {f \in Mandatory(r) : FieldIssue(r, f) # "ok"}}

KeysOf(r) ==
    {ResolvedKey(r, p) : p \in {p \in r.binding.entity.keys : KeyIssue(r, FieldsOf(r), p) = "ok"}}
KeyIssuesOf(r) ==
    {Issue(KeyIssue(r, FieldsOf(r), p), p, 0) :
        p \in {p \in r.binding.entity.keys : KeyIssue(r, FieldsOf(r), p) # "ok"}}

ResultOf(r) == ResultSources(r, FieldsOf(r))
ResultIssuesOf(r) == Unless(ResultOf(r) # {}, "RESULT_SOURCE_UNRESOLVED", "result")

\* The join grants as a graph over the relations of the fields.
Grants(r) == DOMAIN r.context.joinGrants
RequiredOf(r) == {Relation(r, f.column) : f \in FieldsOf(r)}
EndsOf(r) ==
    [j \in Grants(r) |-> <<Relation(r, Physical(r, r.context.joinGrants[j].left)),
                           Relation(r, Physical(r, r.context.joinGrants[j].right))>>]
GrantEndsOf(r, j) == {Key(r, Physical(r, r.context.joinGrants[j].left)),
                      Key(r, Physical(r, r.context.joinGrants[j].right))}
UnmatchedOf(r) == {j \in Grants(r) : Cardinality(RelationshipsAt(r, GrantEndsOf(r, j))) # 1}
UsableOf(r) ==
    {j \in Grants(r) \ UnmatchedOf(r) :
        /\ EndsOf(r)[j][1] # EndsOf(r)[j][2]
        /\ EndsOf(r)[j][1] \in RequiredOf(r) /\ EndsOf(r)[j][2] \in RequiredOf(r)}
EdgesOf(r) ==
    {{Relation(r, e.left), Relation(r, e.right)} : e \in Range(r.snapshot.relationships)}

JoinIssuesOf(r) == {Issue("JOIN_PATH_UNRESOLVED", "joinGrants", j) : j \in UnmatchedOf(r)}
ClosureIssuesOf(r) ==
    IF Cardinality(RequiredOf(r)) <= 1 THEN {}
    ELSE IF ~Spans(EndsOf(r), RequiredOf(r), UsableOf(r))
    THEN {Issue(IF \E e \in EdgesOf(r) : e \subseteq RequiredOf(r) /\ Cardinality(e) = 2
                THEN "JOIN_PATH_NOT_GRANTED" ELSE "JOIN_PATH_UNRESOLVED", "joinGrants", 0)}
    ELSE Unless(Cardinality(UsableOf(r)) = Cardinality(RequiredOf(r)) - 1,
                "JOIN_PATH_UNRESOLVED", "joinGrants")
JoinsOf(r) ==
    IF Cardinality(RequiredOf(r)) <= 1 \/ ClosureIssuesOf(r) # {} THEN {} ELSE UsableOf(r)

IssuesOf(r) ==
    FieldIssuesOf(r) \cup KeyIssuesOf(r) \cup ResultIssuesOf(r) \cup JoinIssuesOf(r)
        \cup ClosureIssuesOf(r)

\* What a gate ends with, and the whole report; d is what is said of the hints.
Refusal(status, found) ==
    [status |-> status, fields |-> {}, keys |-> {}, result |-> {}, joins |-> {},
     dispositions |-> {}, issues |-> found]
Answer(r, d) ==
    IF ~Accepted(r) THEN Refusal("rejected", {})
    ELSE IF PreflightFinds(r) # {} THEN Refusal("blocked", PreflightFinds(r))
    ELSE IF IndexFinds(r) # {} THEN Refusal("blocked", IndexFinds(r))
    ELSE [status |-> IF IssuesOf(r) = {} THEN "metadataResolved" ELSE "blocked",
          fields |-> FieldsOf(r), keys |-> KeysOf(r), result |-> ResultOf(r),
          joins |-> JoinsOf(r), dispositions |-> d, issues |-> IssuesOf(r)]

-----------------------------------------------------------------------------
(* The inductive invariant                                                 *)

FromReport == {"report"}
FromClosure == {"closure"} \cup FromReport
FromCandidates == {"candidates"} \cup FromClosure
FromResult == {"result"} \cup FromCandidates
FromKeys == {"keys"} \cup FromResult
FromFields == {"fields"} \cup FromKeys
FromIndex == {"index"} \cup FromFields
FromPreflight == {"preflight"} \cup FromIndex

\* The steps of S are still to be taken, or were taken and the report is there.
Past(S) == pc \in S \/ (pc = "done" /\ GatesOpen(request))

Gates ==
    /\ name \in DOMAIN Requests /\ request = Requests[name]
    /\ pc \in {"wire", "done"} \cup FromPreflight
    /\ pc \in FromPreflight => Accepted(request)
    /\ pc \in FromIndex => PreflightFinds(request) = {}
    /\ pc \in FromFields => IndexFinds(request) = {}

\* What is computed is computed at its step, from the request alone.
Computed ==
    /\ fields = IF Past(FromKeys) THEN FieldsOf(request) ELSE {}
    /\ keys = IF Past(FromResult) THEN KeysOf(request) ELSE {}
    /\ result = IF Past(FromCandidates) THEN ResultOf(request) ELSE {}
    /\ candidates = IF Past(FromClosure) THEN Grants(request) \ UnmatchedOf(request) ELSE {}
    /\ joins = IF Past(FromReport) THEN JoinsOf(request) ELSE {}

IssuesSoFar ==
    pc # "done" =>
        issues = (IF pc \in FromKeys THEN FieldIssuesOf(request) ELSE {})
            \cup (IF pc \in FromResult THEN KeyIssuesOf(request) ELSE {})
            \cup (IF pc \in FromCandidates THEN ResultIssuesOf(request) ELSE {})
            \cup (IF pc \in FromClosure THEN JoinIssuesOf(request) ELSE {})
            \cup (IF pc \in FromReport THEN ClosureIssuesOf(request) ELSE {})

\* What is seen or pending lies in every set around the first relation that no
\* usable grant leads out of; what leads out of what is seen is pending.
Traversal ==
    /\ pc \notin FromClosure \cup {"done"} => seen = {} /\ pending = {}
    /\ pc = "closure" =>
        /\ Cardinality(RequiredOf(request)) > 1
        /\ seen \cap pending = {} /\ seen \cup pending \subseteq RequiredOf(request)
        /\ Least(RequiredOf(request)) \in seen \cup pending
        /\ \A j \in UsableOf(request) :
            /\ EndsOf(request)[j][1] \in seen => EndsOf(request)[j][2] \in seen \cup pending
            /\ EndsOf(request)[j][2] \in seen => EndsOf(request)[j][1] \in seen \cup pending
        /\ \A T \in SUBSET RequiredOf(request) :
            /\ Least(RequiredOf(request)) \in T
            /\ \A j \in UsableOf(request) : ~Cuts(EndsOf(request), j, T)
            => seen \cup pending \subseteq T

Reported ==
    /\ pc # "done" => report = NoReport
    /\ pc = "done" => \E d : report = Answer(request, d)
    /\ before # NoReport =>
        \E q \in DOMAIN Reproposed :
            /\ q \in DOMAIN Requests /\ Reproposed[q] = name
            /\ \E d : before = Answer(Requests[q], d)

IInv == Gates /\ Computed /\ IssuesSoFar /\ Traversal /\ Reported

-----------------------------------------------------------------------------
(* Columns and relations                                                   *)

(* The positions of a list.                                                *)
LEMMA Positions ==
  ASSUME NEW s, IsList(s)
  PROVE  IsFiniteSet(DOMAIN s) /\ DOMAIN s \subseteq Nat
<1>1. Len(s) \in Nat /\ DOMAIN s = 1..Len(s)
  BY DEF IsList
<1> HIDE DEF IsList
<1>2. IsFiniteSet(1..Len(s))
  BY <1>1, FS_Interval
<1> QED
  BY <1>1, <1>2

(* A snapshot has finitely many columns.                                   *)
LEMMA SnapshotFinite ==
  ASSUME NEW r, WireModel(r)
  PROVE  IsFiniteSet(SnapshotColumns(r)) /\ IsFiniteSet(DOMAIN r.snapshot.relationships)
<1> DEFINE column(i, k) ==
        [relation |-> r.snapshot.relations[i].name, at |-> <<i, k>>,
         column |-> r.snapshot.relations[i].columns[k].name,
         type |-> r.snapshot.relations[i].columns[k].type]
      columns(i) == {column(i, k) : k \in DOMAIN r.snapshot.relations[i].columns}
      all == {columns(i) : i \in DOMAIN r.snapshot.relations}
<1>1. ASSUME NEW i \in DOMAIN r.snapshot.relations PROVE IsFiniteSet(columns(i))
  <2> DEFINE D == DOMAIN r.snapshot.relations[i].columns
             f == [k \in D |-> column(i, k)]
  <2>1. IsFiniteSet(D)
    BY Positions DEF WireModel
  <2>2. columns(i) = {f[k] : k \in D}
    OBVIOUS
  <2> HIDE DEF D, f, columns
  <2> QED
    BY <2>1, <2>2, ImageFinite
<1>2. IsFiniteSet(all)
  <2> DEFINE D == DOMAIN r.snapshot.relations
             f == [i \in D |-> columns(i)]
  <2>1. IsFiniteSet(D)
    BY Positions DEF WireModel
  <2>2. all = {f[i] : i \in D}
    OBVIOUS
  <2> HIDE DEF D, f, all
  <2> QED
    BY <2>1, <2>2, ImageFinite
<1>3. IsFiniteSet(UNION all)
  <2>1. \A T \in all : IsFiniteSet(T)
    BY <1>1
  <2> HIDE DEF all
  <2> QED
    BY <1>2, <2>1, FS_UNION
<1>4. SnapshotColumns(r) = UNION all
  BY DEF SnapshotColumns
<1>5. IsFiniteSet(DOMAIN r.snapshot.relationships)
  BY Positions DEF WireModel
<1> QED
  BY <1>3, <1>4, <1>5

(* A grant that is found stands for one column, spelled as in the snapshot, *)
(* which no other column of the snapshot can be taken for.                 *)
LEMMA OnlyColumn ==
  ASSUME NEW r, WireModel(r), NEW g, Found(r, g)
  PROVE  /\ Key(r, Physical(r, g)) = Key(r, Named(r, g))
         /\ Cardinality(ColumnsAt(r, Physical(r, g))) = 1
         /\ \E i \in DOMAIN r.snapshot.relations :
                Physical(r, g).relation = r.snapshot.relations[i].name
<1>1. IsFiniteSet(ColumnsAt(r, Named(r, g)))
  <2>1. ColumnsAt(r, Named(r, g)) \in SUBSET SnapshotColumns(r)
    BY DEF ColumnsAt
  <2> QED
    BY <2>1, SnapshotFinite, FS_Subset
<1>2. PICK c : ColumnsAt(r, Named(r, g)) = {c}
  BY <1>1, FS_Singleton DEF Found
<1>3. Physical(r, g) = [relation |-> c.relation, column |-> c.column]
  BY <1>2 DEF Physical, TheOnly
<1>4. c \in SnapshotColumns(r) /\ Key(r, c) = Key(r, Named(r, g))
  BY <1>2 DEF ColumnsAt
<1>5. Key(r, Physical(r, g)) = Key(r, Named(r, g))
  BY <1>3, <1>4 DEF Key
<1>6. ColumnsAt(r, Physical(r, g)) = {c}
  BY <1>2, <1>5 DEF ColumnsAt
<1>7. \E i \in DOMAIN r.snapshot.relations : c.relation = r.snapshot.relations[i].name
  BY <1>4 DEF SnapshotColumns
<1>8. Cardinality(ColumnsAt(r, Physical(r, g))) = 1
  BY <1>6, FS_Singleton
<1>9. \E i \in DOMAIN r.snapshot.relations :
        Physical(r, g).relation = r.snapshot.relations[i].name
  BY <1>3, <1>7
<1> QED
  BY <1>5, <1>8, <1>9

(* What is resolved, is resolved to such a column.                         *)
LEMMA FieldResolved ==
  ASSUME NEW r, NEW f \in FieldsOf(r)
  PROVE  \E d \in Mandatory(r) :
            /\ FieldIssue(r, d) = "ok" /\ f = ResolvedField(r, d)
            /\ f.id = d.id /\ f.role = d.role
            /\ Found(r, f.grant) /\ f.column = Physical(r, f.grant)
<1>1. PICK d \in Mandatory(r) : FieldIssue(r, d) = "ok" /\ f = ResolvedField(r, d)
  BY DEF FieldsOf
<1>2. /\ f.id = d.id /\ f.role = d.role /\ f.grant = TheOnly(FieldAuthorizations(r, d)).grant
      /\ f.column = Physical(r, f.grant)
  BY <1>1 DEF ResolvedField
<1>3. Found(r, f.grant)
  BY <1>1, <1>2 DEF FieldIssue
<1> QED
  BY <1>1, <1>2, <1>3

(* There are finitely many, and their relations are numbers.               *)
LEMMA RequiredFinite ==
  ASSUME NEW r, WireModel(r)
  PROVE  /\ IsFiniteSet(FieldsOf(r))
         /\ IsFiniteSet(RequiredOf(r)) /\ RequiredOf(r) \in SUBSET Nat
<1>1. IsFiniteSet(Range(r.binding.fields))
  <2>1. IsFiniteSet(DOMAIN r.binding.fields)
    BY Positions DEF WireModel
  <2>2. IsFiniteSet({r.binding.fields[i] : i \in DOMAIN r.binding.fields})
    BY <2>1, ImageFinite
  <2> QED
    BY <2>2 DEF Range
<1>2. IsFiniteSet(FieldsOf(r))
  <2> DEFINE S == {f \in Mandatory(r) : FieldIssue(r, f) = "ok"}
             g == [f \in S |-> ResolvedField(r, f)]
  <2>1. S \in SUBSET Range(r.binding.fields)
    BY DEF Mandatory
  <2>2. IsFiniteSet(S)
    BY <1>1, <2>1, FS_Subset
  <2>3. FieldsOf(r) = {g[f] : f \in S}
    BY DEF FieldsOf
  <2> HIDE DEF S, g
  <2> QED
    BY <2>2, <2>3, ImageFinite
<1>3. IsFiniteSet(RequiredOf(r))
  <2> DEFINE g == [f \in FieldsOf(r) |-> Relation(r, f.column)]
  <2>1. RequiredOf(r) = {g[f] : f \in FieldsOf(r)}
    BY DEF RequiredOf
  <2> HIDE DEF g
  <2> QED
    BY <1>2, <2>1, ImageFinite
<1>4. ASSUME NEW n \in RequiredOf(r) PROVE n \in Nat
  <2>1. PICK f \in FieldsOf(r) : n = Relation(r, f.column)
    BY DEF RequiredOf
  <2>2. PICK i \in DOMAIN r.snapshot.relations : f.column.relation = r.snapshot.relations[i].name
    BY FieldResolved, OnlyColumn
  <2>3. f.column.relation \in DOMAIN Fold
    BY <2>2 DEF WireModel
  <2> QED
    BY <2>1, <2>3, RequestsAssumption DEF Relation, Norm
<1> QED
  BY <1>2, <1>3, <1>4

-----------------------------------------------------------------------------
(* The steps                                                               *)

(* Before the first gate nothing is computed and nothing reported.          *)
LEMMA InitEstablishesIInv == Init => IInv
<1> SUFFICES ASSUME Init PROVE IInv
  OBVIOUS
<1>1. pc = "wire" /\ request = Requests[name] /\ name \in DOMAIN Requests
  BY DEF Init
<1>2. \A S \in {FromKeys, FromResult, FromCandidates, FromClosure, FromReport} : ~Past(S)
  BY <1>1 DEF Past, FromKeys, FromResult, FromCandidates, FromClosure, FromReport
<1> QED
  BY <1>1, <1>2 DEF Init, IInv, Gates, Computed, IssuesSoFar, Traversal, Reported, FromPreflight,
     FromIndex, FromFields, FromKeys, FromResult, FromCandidates, FromClosure, FromReport

(* Where a step leaves the report alone, it leaves what is said of it.      *)
LEMMA ReportedKept ==
  ASSUME Reported, pc # "done", pc' # "done", UNCHANGED <<name, request, report, before>>
  PROVE  Reported'
BY DEF Reported

(* A gate that ends the resolution gives the answer to the request.         *)
LEMMA AcceptKeeps == IInv /\ Accept => IInv'
<1> SUFFICES ASSUME IInv, Accept PROVE IInv'
  OBVIOUS
<1>1. pc = "wire" /\ UNCHANGED <<name, request, issues, fields, keys, result, candidates, seen, pending, joins, before>>
  BY DEF Accept, asked, joinVars
<1>2. fields = {} /\ keys = {} /\ result = {} /\ candidates = {} /\ joins = {} /\ issues = {} /\ seen = {} /\ pending = {}
  BY <1>1 DEF IInv, Computed, IssuesSoFar, Traversal, Past, FromKeys, FromResult, FromCandidates,
     FromClosure, FromReport
<1>3. CASE Accepted(request)
  <2>1. pc' = "preflight" /\ report' = report
    BY <1>3 DEF Accept, Accepted
  <2>2. Gates' /\ Computed' /\ IssuesSoFar' /\ Traversal'
    BY <1>1, <1>2, <1>3, <2>1 DEF IInv, Gates, Computed, IssuesSoFar, Traversal, Past, FromPreflight,
       FromIndex, FromFields, FromKeys, FromResult, FromCandidates, FromClosure, FromReport
  <2>3. Reported'
    BY <1>1, <2>1, ReportedKept DEF IInv
  <2> QED
    BY <2>2, <2>3 DEF IInv
<1>4. CASE ~Accepted(request)
  <2>1. pc' = "done" /\ report' = Report("rejected", {}, {})
    BY <1>4 DEF Accept, Accepted
  <2>2. \A S \in {FromKeys, FromResult, FromCandidates, FromClosure, FromReport} : ~Past(S)'
    BY <1>1, <1>4, <2>1 DEF Past, GatesOpen, FromKeys, FromResult, FromCandidates, FromClosure, FromReport
  <2>3. Gates' /\ Computed' /\ IssuesSoFar' /\ Traversal'
    BY <1>1, <1>2, <1>4, <2>1, <2>2 DEF IInv, Gates, Computed, IssuesSoFar, Traversal, FromPreflight,
       FromIndex, FromFields, FromKeys, FromResult, FromCandidates, FromClosure, FromReport
  <2>4. report' = Answer(request, {})
    BY <1>2, <1>4, <2>1 DEF Answer, Refusal, Report
  <2>5. Reported'
    BY <1>1, <2>1, <2>4 DEF IInv, Reported
  <2> QED
    BY <2>3, <2>5 DEF IInv
<1> QED
  BY <1>3, <1>4

(* The preflight and the index collect what their checks find.             *)
LEMMA GatesKeep == IInv /\ (Preflight \/ Index) => IInv'
<1> SUFFICES ASSUME IInv, Preflight \/ Index PROVE IInv'
  OBVIOUS
<1> DEFINE found == IF pc = "preflight" THEN PreflightFinds(request) ELSE IndexFinds(request)
<1>1. /\ pc \in {"preflight", "index"} /\ issues' = found
      /\ UNCHANGED <<name, request, fields, keys, result, candidates, seen, pending, joins, before>>
  BY DEF Preflight, Index, Gate, asked, joinVars, PreflightFinds, IndexFinds
<1>2. \/ found = {} /\ pc' = (IF pc = "preflight" THEN "index" ELSE "fields") /\ report' = report
      \/ found # {} /\ pc' = "done" /\ report' = Report("blocked", found, {})
  BY DEF Preflight, Index, Gate, PreflightFinds, IndexFinds
<1>3. /\ fields = {} /\ keys = {} /\ result = {} /\ candidates = {} /\ joins = {}
      /\ issues = {} /\ seen = {} /\ pending = {}
  BY <1>1 DEF IInv, Computed, IssuesSoFar, Traversal, Past, FromKeys, FromResult, FromCandidates,
     FromClosure, FromReport
<1>4. /\ Accepted(request)
      /\ pc = "index" => PreflightFinds(request) = {}
  BY <1>1 DEF IInv, Gates, FromPreflight, FromIndex
<1> HIDE DEF found
<1>5. CASE found = {}
  <2>1. /\ pc' = (IF pc = "preflight" THEN "index" ELSE "fields")
        /\ report' = report /\ issues' = {}
    BY <1>1, <1>2, <1>5
  <2>2. /\ pc' \in {"index", "fields"}
        /\ PreflightFinds(request) = {}
        /\ pc' = "fields" => IndexFinds(request) = {}
    BY <1>1, <1>4, <1>5, <2>1 DEF found
  <2>3. Gates' /\ Computed' /\ IssuesSoFar' /\ Traversal'
    BY <1>1, <1>3, <1>4, <2>1, <2>2 DEF IInv, Gates, Computed, IssuesSoFar, Traversal, Past,
       FromPreflight, FromIndex, FromFields, FromKeys, FromResult, FromCandidates, FromClosure,
       FromReport
  <2>4. Reported'
    BY <1>1, <2>1, <2>2, ReportedKept DEF IInv
  <2> QED
    BY <2>3, <2>4 DEF IInv
<1>6. CASE found # {}
  <2>1. pc' = "done" /\ report' = Report("blocked", found, {})
    BY <1>2, <1>6
  <2>2. ~GatesOpen(request)
    BY <1>1, <1>6 DEF GatesOpen, found
  <2>3. \A S \in {FromKeys, FromResult, FromCandidates, FromClosure, FromReport} : ~Past(S)'
    BY <1>1, <2>1, <2>2 DEF Past, FromKeys, FromResult, FromCandidates, FromClosure, FromReport
  <2>4. Gates' /\ Computed' /\ IssuesSoFar' /\ Traversal'
    BY <1>1, <1>3, <2>1, <2>3 DEF IInv, Gates, Computed, IssuesSoFar, Traversal, FromPreflight,
       FromIndex, FromFields, FromKeys, FromResult, FromCandidates, FromClosure, FromReport
  <2>5. report' = Answer(request, {})
    BY <1>1, <1>3, <1>4, <1>6, <2>1 DEF Answer, Refusal, Report, found
  <2>6. Reported'
    BY <1>1, <2>1, <2>5 DEF IInv, Reported
  <2> QED
    BY <2>4, <2>6 DEF IInv
<1> QED
  BY <1>5, <1>6

(* The resolution of the fields computes FieldsOf and their issues, ...    *)
LEMMA ResolveFieldsKeeps == IInv /\ ResolveFields => IInv'
<1> SUFFICES ASSUME IInv, ResolveFields PROVE IInv'
  OBVIOUS
<1>1. /\ pc = "fields" /\ pc' = "keys"
      /\ fields' = FieldsOf(request) /\ issues' = issues \cup FieldIssuesOf(request)
      /\ UNCHANGED <<name, request, keys, result, candidates, seen, pending, joins, report, before>>
  BY DEF ResolveFields, asked, joinVars, FieldsOf, FieldIssuesOf
<1>2. Gates' /\ Computed' /\ IssuesSoFar' /\ Traversal'
  BY <1>1 DEF IInv, Gates, Computed, IssuesSoFar, Traversal, Past, FromPreflight, FromIndex,
     FromFields, FromKeys, FromResult, FromCandidates, FromClosure, FromReport
<1>3. Reported'
  BY <1>1, ReportedKept DEF IInv
<1> QED
  BY <1>2, <1>3 DEF IInv

(* ... that of the entity keys KeysOf, from the fields, ...                *)
LEMMA ResolveEntityKeysKeeps == IInv /\ ResolveEntityKeys => IInv'
<1> SUFFICES ASSUME IInv, ResolveEntityKeys PROVE IInv'
  OBVIOUS
<1>1. fields = FieldsOf(request)
  BY DEF ResolveEntityKeys, IInv, Computed, Past, FromKeys
<1>2. /\ pc = "keys" /\ pc' = "result"
      /\ keys' = KeysOf(request) /\ issues' = issues \cup KeyIssuesOf(request)
      /\ UNCHANGED <<name, request, fields, result, candidates, seen, pending, joins, report, before>>
  BY <1>1 DEF ResolveEntityKeys, asked, joinVars, KeysOf, KeyIssuesOf
<1>3. Gates' /\ Computed' /\ IssuesSoFar' /\ Traversal'
  BY <1>1, <1>2 DEF IInv, Gates, Computed, IssuesSoFar, Traversal, Past, FromPreflight, FromIndex,
     FromFields, FromKeys, FromResult, FromCandidates, FromClosure, FromReport
<1>4. Reported'
  BY <1>2, ReportedKept DEF IInv
<1> QED
  BY <1>3, <1>4 DEF IInv

(* ... and that of the result ResultOf.                                    *)
LEMMA ResolveResultSourceKeeps == IInv /\ ResolveResultSource => IInv'
<1> SUFFICES ASSUME IInv, ResolveResultSource PROVE IInv'
  OBVIOUS
<1>1. fields = FieldsOf(request)
  BY DEF ResolveResultSource, IInv, Computed, Past, FromResult, FromKeys
<1>2. /\ pc = "result" /\ pc' = "candidates"
      /\ result' = ResultOf(request) /\ issues' = issues \cup ResultIssuesOf(request)
      /\ UNCHANGED <<name, request, fields, keys, candidates, seen, pending, joins, report, before>>
  BY <1>1 DEF ResolveResultSource, asked, joinVars, ResultOf, ResultIssuesOf
<1>3. Gates' /\ Computed' /\ IssuesSoFar' /\ Traversal'
  BY <1>1, <1>2 DEF IInv, Gates, Computed, IssuesSoFar, Traversal, Past, FromPreflight, FromIndex,
     FromFields, FromKeys, FromResult, FromCandidates, FromClosure, FromReport
<1>4. Reported'
  BY <1>2, ReportedKept DEF IInv
<1> QED
  BY <1>3, <1>4 DEF IInv

(* The resolution computes the graph of the join grants.                   *)
LEMMA GraphComputed ==
  ASSUME IInv, Past(FromCandidates)
  PROVE  /\ required = RequiredOf(request) /\ Unmatched = UnmatchedOf(request)
         /\ \A j \in Grants(request) :
                Left(j) = EndsOf(request)[j][1] /\ Right(j) = EndsOf(request)[j][2]
         /\ Past(FromClosure) => Usable = UsableOf(request)
         /\ SnapshotEdges = EdgesOf(request)
<1>1. fields = FieldsOf(request)
  BY DEF IInv, Computed, Past, FromKeys, FromResult
<1>2. required = RequiredOf(request)
  BY <1>1 DEF required, RequiredOf
<1>3. Unmatched = UnmatchedOf(request)
  BY DEF Unmatched, UnmatchedOf, GrantEnds, GrantEndsOf, Grant, Grants
<1>4. ASSUME NEW j \in Grants(request)
      PROVE  Left(j) = EndsOf(request)[j][1] /\ Right(j) = EndsOf(request)[j][2]
  BY DEF Left, Right, Grant, EndsOf
<1>5. ASSUME Past(FromClosure) PROVE Usable = UsableOf(request)
  <2>1. candidates = Grants(request) \ UnmatchedOf(request)
    BY <1>5 DEF IInv, Computed
  <2> QED
    BY <1>2, <1>4, <2>1 DEF Usable, UsableOf
<1>6. SnapshotEdges = EdgesOf(request)
  BY DEF SnapshotEdges, EdgesOf
<1> QED
  BY <1>2, <1>3, <1>4, <1>5, <1>6

(* The request in hand is one that the wire model lets through.            *)
LEMMA RequestConforms ==
  ASSUME IInv
  PROVE  WireModel(request)
BY RequestsAssumption DEF IInv, Gates

(* The traversal starts from a required relation.                          *)
LEMMA LeastRequired ==
  ASSUME NEW r, WireModel(r), Cardinality(RequiredOf(r)) > 1
  PROVE  Least(RequiredOf(r)) \in RequiredOf(r)
<1>1. RequiredOf(r) # {}
  BY RequiredFinite, FS_EmptySet
<1> QED
  BY <1>1, RequiredFinite, LeastExists DEF Least

(* The traversal starts over the usable grants, from one relation.         *)
LEMMA AuthorizeJoinsKeeps == IInv /\ AuthorizeJoins => IInv'
<1> SUFFICES ASSUME IInv, AuthorizeJoins PROVE IInv'
  OBVIOUS
<1>1. /\ pc = "candidates" /\ Past(FromCandidates)
      /\ UNCHANGED <<name, request, fields, keys, result, seen, joins, report, before>>
  BY DEF AuthorizeJoins, asked, Past, FromCandidates
<1>2. required = RequiredOf(request) /\ Unmatched = UnmatchedOf(request)
  BY <1>1, GraphComputed
<1>3. /\ candidates' = Grants(request) \ UnmatchedOf(request)
      /\ issues' = issues \cup JoinIssuesOf(request)
  BY <1>2 DEF AuthorizeJoins, Grants, JoinIssuesOf
<1>4. \/ /\ Cardinality(RequiredOf(request)) <= 1
         /\ pc' = "report" /\ pending' = pending
      \/ /\ ~(Cardinality(RequiredOf(request)) <= 1)
         /\ pc' = "closure" /\ pending' = {Least(RequiredOf(request))}
  BY <1>2 DEF AuthorizeJoins
<1>5. Cardinality(RequiredOf(request)) \in Nat
  BY RequestConforms, RequiredFinite, FS_CardinalityType
<1>6. seen = {} /\ pending = {} /\ joins = {}
  BY <1>1 DEF IInv, Computed, Traversal, Past, FromClosure, FromReport
<1>7. Reported'
  BY <1>1, <1>4, ReportedKept DEF IInv
<1>8. CASE pc' = "report"
  <2>1. /\ Cardinality(RequiredOf(request)) <= 1
        /\ JoinsOf(request) = {} /\ ClosureIssuesOf(request) = {}
    BY <1>4, <1>8 DEF JoinsOf, ClosureIssuesOf
  <2>2. Gates' /\ Computed' /\ IssuesSoFar' /\ Traversal'
    BY <1>1, <1>3, <1>6, <1>8, <2>1 DEF IInv, Gates, Computed, IssuesSoFar, Traversal, Past,
       FromPreflight, FromIndex, FromFields, FromKeys, FromResult, FromCandidates, FromClosure,
       FromReport
  <2> QED
    BY <1>7, <2>2 DEF IInv
<1>9. CASE pc' = "closure"
  <2>1. Cardinality(RequiredOf(request)) > 1 /\ pending' = {Least(RequiredOf(request))}
    BY <1>4, <1>5, <1>9
  <2>2. Least(RequiredOf(request)) \in RequiredOf(request)
    BY <2>1, RequestConforms, LeastRequired
  <2>3. Traversal'
    BY <1>1, <1>6, <1>9, <2>1, <2>2 DEF Traversal, FromClosure
  <2>4. Gates' /\ Computed' /\ IssuesSoFar'
    BY <1>1, <1>3, <1>6, <1>9 DEF IInv, Gates, Computed, IssuesSoFar, Past,
       FromPreflight, FromIndex, FromFields, FromKeys, FromResult, FromCandidates, FromClosure,
       FromReport
  <2> QED
    BY <1>7, <2>3, <2>4 DEF IInv
<1> QED
  BY <1>4, <1>8, <1>9

(* A visit keeps to what is reached over the usable grants.                *)
LEMMA VisitKeeps == IInv /\ Visit => IInv'
<1> SUFFICES ASSUME IInv, Visit PROVE IInv'
  OBVIOUS
<1>1. /\ pc = "closure" /\ pc' = pc /\ Past(FromCandidates) /\ Past(FromClosure)
      /\ UNCHANGED <<name, request, issues, fields, keys, result, candidates, joins, report, before>>
  BY DEF Visit, asked, Past, FromCandidates, FromClosure
<1>2. PICK n \in pending :
        seen' = seen \cup {n} /\ pending' = (pending \cup Neighbours(n)) \ seen'
  BY DEF Visit
<1> DEFINE R == RequiredOf(request)
           U == UsableOf(request)
           e == EndsOf(request)
<1>3. Neighbours(n) = {e[j][2] : j \in {j \in U : e[j][1] = n}}
                        \cup {e[j][1] : j \in {j \in U : e[j][2] = n}}
  <2>1. Usable = U /\ \A j \in U : Left(j) = e[j][1] /\ Right(j) = e[j][2]
    BY <1>1, GraphComputed DEF UsableOf
  <2> HIDE DEF U, e
  <2> QED
    BY <2>1 DEF Neighbours
<1>4. \A j \in U : e[j][1] \in R /\ e[j][2] \in R
  BY DEF UsableOf
<1>5. /\ Cardinality(R) > 1 /\ seen \cap pending = {} /\ seen \cup pending \subseteq R
      /\ Least(R) \in seen \cup pending
      /\ \A j \in U :
            /\ e[j][1] \in seen => e[j][2] \in seen \cup pending
            /\ e[j][2] \in seen => e[j][1] \in seen \cup pending
      /\ \A T \in SUBSET R :
            Least(R) \in T /\ (\A j \in U : ~Cuts(e, j, T)) => seen \cup pending \subseteq T
  BY <1>1 DEF IInv, Traversal
<1> HIDE DEF R, U, e
<1>6. seen' \cup pending' = seen \cup pending \cup Neighbours(n)
  BY <1>2
<1>7. seen' \cap pending' = {} /\ seen' \cup pending' \subseteq R /\ Least(R) \in seen' \cup pending'
  BY <1>2, <1>3, <1>4, <1>5
<1>8. ASSUME NEW j \in U
      PROVE  /\ e[j][1] \in seen' => e[j][2] \in seen' \cup pending'
             /\ e[j][2] \in seen' => e[j][1] \in seen' \cup pending'
  <2>1. e[j][1] = n => e[j][2] \in Neighbours(n)
    BY <1>3
  <2>2. e[j][2] = n => e[j][1] \in Neighbours(n)
    BY <1>3
  <2> QED
    BY <1>2, <1>5, <1>6, <2>1, <2>2
<1>9. ASSUME NEW T \in SUBSET R, Least(R) \in T, \A j \in U : ~Cuts(e, j, T)
      PROVE  seen' \cup pending' \subseteq T
  <2>1. seen \cup pending \subseteq T /\ n \in T
    BY <1>2, <1>5, <1>9
  <2>2. Neighbours(n) \subseteq T
    BY <1>3, <1>9, <2>1 DEF Cuts
  <2> QED
    BY <1>6, <2>1, <2>2
<1>10. Traversal'
  BY <1>1, <1>5, <1>7, <1>8, <1>9 DEF Traversal, FromClosure, R, U, e
<1>11. Gates' /\ Computed' /\ IssuesSoFar'
  BY <1>1 DEF IInv, Gates, Computed, IssuesSoFar, Past
<1>12. Reported'
  BY <1>1, ReportedKept DEF IInv
<1> QED
  BY <1>10, <1>11, <1>12 DEF IInv

(* At its end what was visited is all that they reach, so the closure is   *)
(* judged as JoinsOf and ClosureIssuesOf do.                               *)
LEMMA CheckClosureKeeps == IInv /\ CheckClosure => IInv'
<1> SUFFICES ASSUME IInv, CheckClosure PROVE IInv'
  OBVIOUS
<1>1. /\ pc = "closure" /\ pending = {} /\ pc' = "report"
      /\ Past(FromCandidates) /\ Past(FromClosure)
      /\ issues' = issues \cup ClosureIssues
      /\ joins' = IF ClosureIssues = {} THEN Usable ELSE {}
      /\ UNCHANGED <<name, request, fields, keys, result, candidates, seen, pending, report, before>>
  BY DEF CheckClosure, asked, Past, FromCandidates, FromClosure
<1> DEFINE R == RequiredOf(request)
           U == UsableOf(request)
           e == EndsOf(request)
<1>2. required = R /\ Usable = U /\ SnapshotEdges = EdgesOf(request)
  BY <1>1, GraphComputed
<1>3. seen = R <=> Spans(e, R, U)
  <2>1. Inside(e, R, U)
    BY DEF Inside, UsableOf
  <2>2. /\ Cardinality(R) > 1 /\ seen \in SUBSET R /\ Least(R) \in seen
        /\ \A j \in U : (e[j][1] \in seen => e[j][2] \in seen) /\ (e[j][2] \in seen => e[j][1] \in seen)
        /\ \A T \in SUBSET R :
              Least(R) \in T /\ (\A j \in U : ~Cuts(e, j, T)) => seen \subseteq T
    BY <1>1 DEF IInv, Traversal
  <2> HIDE DEF R, U, e
  <2>3. \A j \in U : ~Cuts(e, j, seen)
    BY <2>2 DEF Cuts
  <2> QED
    BY <2>1, <2>2, <2>3, TraversalReaches
<1>4. ~(Cardinality(R) <= 1)
  <2>1. Cardinality(R) > 1 /\ Cardinality(R) \in Nat
    BY <1>1, RequestConforms, RequiredFinite, FS_CardinalityType DEF IInv, Traversal
  <2> QED
    BY <2>1
<1>5. ClosureIssues = ClosureIssuesOf(request)
  BY <1>2, <1>3, <1>4 DEF ClosureIssues, ClosureIssuesOf
<1>6. joins' = JoinsOf(request)
  BY <1>1, <1>2, <1>4, <1>5 DEF JoinsOf
<1>7. Gates' /\ Computed' /\ IssuesSoFar' /\ Traversal'
  BY <1>1, <1>5, <1>6 DEF IInv, Gates, Computed, IssuesSoFar, Traversal, Past,
     FromPreflight, FromIndex, FromFields, FromKeys, FromResult, FromCandidates, FromClosure,
     FromReport
<1>8. Reported'
  BY <1>1, ReportedKept DEF IInv
<1> QED
  BY <1>7, <1>8 DEF IInv

(* The report is put together from all of that.                            *)
LEMMA BuildReportKeeps == IInv /\ BuildReport => IInv'
<1> SUFFICES ASSUME IInv, BuildReport PROVE IInv'
  OBVIOUS
<1>1. /\ pc = "report" /\ pc' = "done"
      /\ UNCHANGED <<name, request, issues, fields, keys, result, candidates, seen, pending, joins, before>>
  BY DEF BuildReport, asked, joinVars
<1>2. GatesOpen(request)
  BY <1>1 DEF IInv, Gates, GatesOpen, FromPreflight, FromIndex, FromFields, FromKeys, FromResult,
     FromCandidates, FromClosure, FromReport
<1>3. Gates' /\ Computed' /\ IssuesSoFar' /\ Traversal'
  BY <1>1, <1>2 DEF IInv, Gates, Computed, IssuesSoFar, Traversal, Past, GatesOpen,
     FromPreflight, FromIndex, FromFields, FromKeys, FromResult, FromCandidates, FromClosure,
     FromReport
<1>4. /\ fields = FieldsOf(request) /\ keys = KeysOf(request) /\ result = ResultOf(request)
      /\ joins = JoinsOf(request) /\ issues = IssuesOf(request)
  BY <1>1 DEF IInv, Computed, IssuesSoFar, Past, IssuesOf, FromKeys, FromResult, FromCandidates,
     FromClosure, FromReport
<1>5. report' = Answer(request, Dispositions)
  BY <1>2, <1>4 DEF BuildReport, Report, Answer, GatesOpen
<1>6. Reported'
  BY <1>1, <1>5 DEF IInv, Reported
<1> QED
  BY <1>3, <1>6 DEF IInv

(* A request analysed again starts over, next to the report before.        *)
LEMMA ReproposeKeeps == IInv /\ Repropose => IInv'
<1> SUFFICES ASSUME IInv, Repropose PROVE IInv'
  OBVIOUS
<1>1. /\ pc = "done" /\ name \in DOMAIN Reproposed
      /\ name' = Reproposed[name] /\ request' = Requests[name'] /\ before' = report
      /\ pc' = "wire" /\ report' = NoReport
      /\ issues' = {} /\ fields' = {} /\ keys' = {} /\ result' = {} /\ candidates' = {}
      /\ seen' = {} /\ pending' = {} /\ joins' = {}
  BY DEF Repropose
<1>2. name' \in DOMAIN Requests
  BY <1>1, RequestsAssumption
<1>3. \A S \in {FromKeys, FromResult, FromCandidates, FromClosure, FromReport} : ~Past(S)'
  BY <1>1 DEF Past, FromKeys, FromResult, FromCandidates, FromClosure, FromReport
<1>4. Gates' /\ Computed' /\ IssuesSoFar' /\ Traversal'
  BY <1>1, <1>2, <1>3 DEF Gates, Computed, IssuesSoFar, Traversal,
     FromPreflight, FromIndex, FromFields, FromKeys, FromResult, FromCandidates, FromClosure,
     FromReport
<1>5. Reported'
  <2>1. PICK d : report = Answer(request, d)
    BY <1>1 DEF IInv, Reported
  <2>2. name \in DOMAIN Requests /\ before' = Answer(Requests[name], d)
    BY <1>1, <2>1 DEF IInv, Gates
  <2> QED
    BY <1>1, <2>2 DEF Reported
<1> QED
  BY <1>4, <1>5 DEF IInv

(* Nothing changes by waiting.                                             *)
LEMMA StutterKeeps == IInv /\ UNCHANGED vars => IInv'
BY DEF vars, asked, joinVars, IInv, Gates, Computed, IssuesSoFar, Traversal, Reported, Past

(* Every step keeps the invariant.                                         *)
LEMMA NextPreservesIInv == IInv /\ [Next]_vars => IInv'
BY AcceptKeeps, GatesKeep, ResolveFieldsKeeps, ResolveEntityKeysKeeps, ResolveResultSourceKeeps,
   AuthorizeJoinsKeeps, VisitKeeps, CheckClosureKeeps, BuildReportKeeps, ReproposeKeeps, StutterKeeps
   DEF Next, Terminated

-----------------------------------------------------------------------------
(* The theorems                                                            *)

\* Whatever the requests, and in whatever order the traversal visits the
\* relations, the report is the answer to the request.
THEOREM Invariant == Spec => []IInv
<1> QED
  BY InitEstablishesIInv, NextPreservesIInv, PTL DEF Spec

(* A binding that leaves something open says so, and is blocked, or hides   *)
(* it, and the gap analysis finds it.                                      *)
LEMMA GapsClosed ==
  ASSUME NEW b, Conforms(b), GapReport(b).status # "blocked",
         \A i \in DOMAIN b.uncertainties : ~b.uncertainties[i].blocking
  PROVE  Closed(b)
<1>1. ReferenceIssues(b) = {} /\ MissingUncertaintyIssues(b) = {}
  <2>1. IntegrityIssues(b) \cup MissingUncertaintyIssues(b) \cup UncertaintyIssues(b, TRUE) = {}
    BY DEF GapReport
  <2> QED
    BY <2>1 DEF IntegrityIssues
<1>2. RequiredUncertainties(b) = {}
  <2>1. Admitted(b) = {}
    BY DEF Admitted
  <2>2. \A code \in RequiredUncertainties(b) \ Admitted(b) :
            Issue("BLOCKING_UNCERTAINTY_MISSING", code, 0) \in MissingUncertaintyIssues(b)
    BY DEF MissingUncertaintyIssues
  <2> QED
    BY <1>1, <2>1, <2>2
<1>3. b.entity.keysResolved /\ b.filters.complete
  BY <1>2 DEF RequiredUncertainties
<1>4. \A i \in DOMAIN b.fields : b.fields[i].required => b.fields[i].resolved
  <2>1. \A i \in {i \in DOMAIN b.fields : b.fields[i].required /\ ~b.fields[i].resolved} :
            Leaves[b.fields[i].role] \in RequiredUncertainties(b)
    BY DEF RequiredUncertainties
  <2> QED
    BY <1>2, <2>1
<1>5. b.aggregation.mode # "unresolved"
  <2>1. b.aggregation.status # "unresolved"
    BY <1>2 DEF RequiredUncertainties
  <2> QED
    BY <2>1 DEF Conforms, AggregationConforms, ExpectedStatus
<1>6. b.time.mode # "unresolved"
  <2>1. b.time.status # "unresolved"
    BY <1>2 DEF RequiredUncertainties
  <2> QED
    BY <2>1 DEF Conforms, TimeRangeConforms
<1>7. /\ b.entity.keys \subseteq DOMAIN b.fact.parameters
      /\ b.aggregation.inputs \cup b.aggregation.groups \subseteq Ids(b.fields)
      /\ b.time.field \subseteq Ids(b.fields)
      /\ ParametersOf(b.time.start) \subseteq DOMAIN b.fact.parameters
      /\ ParametersOf(b.time.end) \subseteq DOMAIN b.fact.parameters
  BY <1>1 DEF ReferenceIssues, Unless
<1>8. \A i \in DOMAIN b.filters.items :
        /\ b.filters.items[i].field \in Ids(b.fields)
        /\ ParametersOf(b.filters.items[i].value) \subseteq DOMAIN b.fact.parameters
  BY <1>1 DEF ReferenceIssues, ForEach
<1>9. Needed(b) \subseteq Ids(b.fields)
  BY <1>7, <1>8 DEF Needed, Range, Ids
<1>10. ParametersOf(UNION {i.value : i \in Range(b.filters.items)}) \subseteq DOMAIN b.fact.parameters
  BY <1>8 DEF ParametersOf, Range
<1>11. ParametersOf(b.time.start \cup b.time.end) \subseteq DOMAIN b.fact.parameters
  BY <1>7 DEF ParametersOf
<1> QED
  BY <1>3, <1>4, <1>5, <1>6, <1>7, <1>9, <1>10, <1>11 DEF Closed, Range

(* Nothing gets past the gates with an upstream gap.                       *)
LEMMA GatesCloseGaps ==
  ASSUME NEW r, GatesOpen(r)
  PROVE  Closed(r.binding) /\ ReferenceIssues(r.binding) = {}
<1>1. ~UpstreamBlocked(r)
  BY DEF GatesOpen, PreflightFinds, UpstreamIssues
<1>2. /\ Conforms(r.binding) /\ GapReport(r.binding).status # "blocked"
      /\ \A i \in DOMAIN r.binding.uncertainties : ~r.binding.uncertainties[i].blocking
  BY <1>1 DEF GatesOpen, Accepted, UpstreamBlocked
<1>3. ReferenceIssues(r.binding) = {}
  BY <1>2 DEF GapReport, IntegrityIssues
<1> QED
  BY <1>2, <1>3, GapsClosed

(* A report with fields, or without issues, is from past the gates.        *)
LEMMA WholeReport ==
  ASSUME IInv, report # NoReport, report.fields # {} \/ report.status = "metadataResolved"
  PROVE  GatesOpen(request) /\ pc = "done"
<1>1. PICK d : pc = "done" /\ report = Answer(request, d)
  BY DEF IInv, Reported
<1> QED
  BY <1>1 DEF Answer, Refusal, GatesOpen

\* resolve_metadata_v2 names no column for a request that leaves something
\* open: what the request admits blocks it, what it hides the gap analysis finds.
THEOREM OpenIsNeverResolved == Spec => []OpenStaysUnresolved
<1>1. IInv => OpenStaysUnresolved
  BY WholeReport, GatesCloseGaps DEF OpenStaysUnresolved
<1> QED
  BY <1>1, Invariant, PTL

(* A document of the wire model has one field for an ID.                   *)
LEMMA FieldOfId ==
  ASSUME NEW s, IsList(s), IdsUnique(s), NEW d \in Range(s), NEW c \in Range(s), d.id = c.id
  PROVE  d = c
<1> DEFINE f == [i \in DOMAIN s |-> s[i].id]
<1>1. f \in Surjection(DOMAIN s, Ids(s))
  BY DEF Surjection, Ids
<1>2. IsFiniteSet(DOMAIN s)
  BY Positions
<1>3. Cardinality(DOMAIN s) = Len(s)
  <2>1. Len(s) \in Nat /\ DOMAIN s = 1..Len(s)
    BY DEF IsList
  <2>2. Cardinality(1..Len(s)) = Len(s)
    <3> DEFINE n == Len(s)
    <3>1. n \in Nat
      BY <2>1
    <3> HIDE DEF n
    <3>2. Cardinality(1..n) = n
      BY <3>1, FS_Interval
    <3> QED
      BY <3>2 DEF n
  <2> QED
    BY <2>1, <2>2
<1>4. f \in Injection(DOMAIN s, Ids(s))
  <2>1. Cardinality(Ids(s)) = Cardinality(DOMAIN s)
    BY <1>3 DEF IdsUnique
  <2> HIDE DEF f
  <2> QED
    BY <1>1, <1>2, <2>1, FS_Surjection
<1>5. PICK i \in DOMAIN s, k \in DOMAIN s : d = s[i] /\ c = s[k]
  BY DEF Range
<1>6. f[i] = f[k]
  BY <1>5
<1>7. i = k
  <2> HIDE DEF f
  <2> QED
    BY <1>4, <1>6 DEF Injection, IsInjective
<1> QED
  BY <1>5, <1>7

(* Without issues, every needed field is resolved, and to one column.      *)
LEMMA NeededResolved ==
  ASSUME NEW r, WireModel(r), GatesOpen(r), FieldIssuesOf(r) = {}, NEW id \in Needed(r.binding)
  PROVE  \E f \in FieldsOf(r) : \A g \in FieldsOf(r) : f.id = id /\ (g.id = id => g = f)
<1>1. PICK d \in Range(r.binding.fields) : d.id = id /\ d \in Mandatory(r)
  <2>1. CASE \E d \in Range(r.binding.fields) : d.required /\ d.id = id
    BY <2>1 DEF Mandatory
  <2>2. CASE id \in {item.field : item \in Range(r.binding.filters.items)}
                \cup r.binding.aggregation.inputs \cup r.binding.aggregation.groups
                \cup r.binding.time.field
    <3>1. id \in Ids(r.binding.fields)
      BY GatesCloseGaps DEF Closed
    <3>2. PICK d \in Range(r.binding.fields) : d.id = id
      BY <3>1 DEF Ids, Range
    <3> QED
      BY <2>2, <3>2 DEF Mandatory
  <2> QED
    BY <2>1, <2>2 DEF Needed
<1>2. FieldIssue(r, d) = "ok"
  BY <1>1 DEF FieldIssuesOf
<1>3. ResolvedField(r, d) \in FieldsOf(r) /\ ResolvedField(r, d).id = id
  BY <1>1, <1>2 DEF FieldsOf, ResolvedField
<1>4. ASSUME NEW g \in FieldsOf(r), g.id = id PROVE g = ResolvedField(r, d)
  <2>1. PICK c \in Mandatory(r) : g = ResolvedField(r, c) /\ g.id = c.id
    BY FieldResolved
  <2>2. c = d
    <3>1. IsList(r.binding.fields) /\ IdsUnique(r.binding.fields) /\ c \in Range(r.binding.fields)
      BY DEF WireModel, GatesOpen, Accepted, Conforms, Mandatory
    <3> QED
      BY <1>1, <1>4, <2>1, <3>1, FieldOfId
  <2> QED
    BY <2>1, <2>2
<1> QED
  BY <1>3, <1>4

(* A key without issue goes with a resolved field.                         *)
LEMMA KeyResolved ==
  ASSUME NEW r, WireModel(r), GatesOpen(r), NEW p, KeyIssue(r, FieldsOf(r), p) = "ok"
  PROVE  \E f \in FieldsOf(r) :
            /\ f.id = ResolvedKey(r, p).field /\ f.role = "entityKey"
            /\ f.column = ResolvedKey(r, p).column
<1> DEFINE a == TheOnly(KeyAuthorizations(r, p))
<1>1. /\ \E c \in Range(r.binding.fields) : c.id = a.field /\ c.role = "entityKey"
      /\ \E f \in FieldsOf(r) : f.id = a.field /\ f.grant = a.grant
  <2> HIDE DEF a
  <2> QED
    BY DEF KeyIssue, a
<1>2. ResolvedKey(r, p).field = a.field /\ ResolvedKey(r, p).column = Physical(r, a.grant)
  BY DEF ResolvedKey
<1> HIDE DEF a
<1>3. PICK c \in Range(r.binding.fields) : c.id = a.field /\ c.role = "entityKey"
  BY <1>1
<1>4. PICK f \in FieldsOf(r) : f.id = a.field /\ f.grant = a.grant
  BY <1>1
<1>5. PICK d \in Mandatory(r) : f.id = d.id /\ f.role = d.role /\ f.column = Physical(r, f.grant)
  BY FieldResolved
<1>6. d = c
  <2>1. IsList(r.binding.fields) /\ IdsUnique(r.binding.fields) /\ d \in Range(r.binding.fields)
    BY DEF WireModel, GatesOpen, Accepted, Conforms, Mandatory
  <2> QED
    BY <1>3, <1>4, <1>5, <2>1, FieldOfId
<1> QED
  BY <1>2, <1>3, <1>4, <1>5, <1>6

(* A resolved report is from past the gates and has no issues.             *)
LEMMA ResolvedReport ==
  ASSUME IInv, IsResolved
  PROVE  /\ GatesOpen(request) /\ WireModel(request) /\ IssuesOf(request) = {}
         /\ report.fields = FieldsOf(request) /\ report.keys = KeysOf(request)
         /\ report.joins = JoinsOf(request)
<1>1. PICK d : report = Answer(request, d)
  BY DEF IInv, Reported, IsResolved
<1>2. GatesOpen(request)
  BY <1>1 DEF Answer, Refusal, GatesOpen, IsResolved
<1>3. report = [status |-> IF IssuesOf(request) = {} THEN "metadataResolved" ELSE "blocked",
          fields |-> FieldsOf(request), keys |-> KeysOf(request), result |-> ResultOf(request),
          joins |-> JoinsOf(request), dispositions |-> d, issues |-> IssuesOf(request)]
  BY <1>1, <1>2 DEF Answer, GatesOpen
<1> QED
  BY <1>2, <1>3, RequestConforms DEF IsResolved

\* A report of resolve_metadata_v2 that says "metadataResolved" has one column
\* for every field that is needed, each of which only one column of the snapshot
\* can be taken for, and an entity key for each parameter, from such a field.
THEOREM ResolvedReportsAreComplete == Spec => []ResolvedIsComplete
<1>1. IInv => ResolvedIsComplete
  <2> SUFFICES ASSUME IInv, IsResolved PROVE ResolvedIsComplete
    BY DEF ResolvedIsComplete
  <2> DEFINE r == request
  <2>1. /\ GatesOpen(r) /\ WireModel(r) /\ FieldIssuesOf(r) = {} /\ KeyIssuesOf(r) = {}
        /\ report.fields = FieldsOf(r) /\ report.keys = KeysOf(r)
    BY ResolvedReport DEF IssuesOf
  <2>2. \A p \in r.binding.entity.keys : KeyIssue(r, FieldsOf(r), p) = "ok"
    BY <2>1 DEF KeyIssuesOf
  <2>3. KeysOf(r) = {ResolvedKey(r, p) : p \in r.binding.entity.keys}
    BY <2>2 DEF KeysOf
  <2>4. \A p : ResolvedKey(r, p).parameter = p
    BY DEF ResolvedKey
  <2>5. r.binding.entity.keys # {}
    BY <2>1, GatesCloseGaps DEF GatesOpen, Accepted, Conforms, EntityConforms, Closed
  <2>6. \A k \in KeysOf(r) : \E f \in FieldsOf(r) :
            f.id = k.field /\ f.role = "entityKey" /\ f.column = k.column
    BY <2>1, <2>2, <2>3, KeyResolved
  <2>7. ASSUME NEW f \in FieldsOf(r)
        PROVE  Cardinality({c \in SnapshotColumns(r) : Key(r, c) = Key(r, f.column)}) = 1
    <3>1. Cardinality(ColumnsAt(r, f.column)) = 1
      BY <2>1, FieldResolved, OnlyColumn
    <3> QED
      BY <3>1 DEF ColumnsAt
  <2>8. \A id \in Needed(r.binding) :
            \E f \in FieldsOf(r) : \A g \in FieldsOf(r) : f.id = id /\ (g.id = id => g = f)
    BY <2>1, NeededResolved
  <2>9. {k.parameter : k \in KeysOf(r)} = r.binding.entity.keys /\ KeysOf(r) # {}
    BY <2>3, <2>4, <2>5
  <2> QED
    BY <2>1, <2>6, <2>7, <2>8, <2>9 DEF ResolvedIsComplete
<1> QED
  BY <1>1, Invariant, PTL

\* The issue of a part that cites evidence outside e, and of parts of a list.
Uncited(e, cited, part) == Unless(cited \subseteq e, "EVIDENCE_ID_UNKNOWN", part)
AllUncited(e, list, part) ==
    {Issue("EVIDENCE_ID_UNKNOWN", part, i) :
        i \in {i \in DOMAIN list : ~(list[i].evidence \subseteq e)}}

(* They are what EvidenceIssues looks for.                                 *)
LEMMA EvidenceParts ==
  ASSUME NEW b
  PROVE  EvidenceIssues(b) = UNION {
            Uncited(b.evidence, b.entity.evidence, "entity"),
            AllUncited(b.evidence, b.fields, "fields"),
            Uncited(b.evidence, b.filters.evidence, "filters"),
            AllUncited(b.evidence, b.filters.items, "filterItems"),
            Uncited(b.evidence, b.aggregation.evidence, "aggregation"),
            Uncited(b.evidence, b.time.evidence, "timeRange"),
            Uncited(b.evidence, b.cited, "usages and examples"),
            AllUncited(b.evidence, b.uncertainties, "uncertainties")}
BY DEF EvidenceIssues, ForEach, Uncited, AllUncited

(* All of them have one code.                                              *)
LEMMA EvidenceCode ==
  ASSUME NEW b, NEW x \in EvidenceIssues(b)
  PROVE  x.code = "EVIDENCE_ID_UNKNOWN"
<1>1. \A e, cited, part : \A y \in Uncited(e, cited, part) : y.code = "EVIDENCE_ID_UNKNOWN"
  BY DEF Uncited, Unless, Issue
<1>2. \A e, list, part : \A y \in AllUncited(e, list, part) : y.code = "EVIDENCE_ID_UNKNOWN"
  BY DEF AllUncited, Issue
<1>3. PICK S : /\ x \in S
               /\ \E e, cited, part : S = Uncited(e, cited, part) \/ S = AllUncited(e, cited, part)
  BY EvidenceParts
<1> QED
  BY <1>1, <1>2, <1>3

(* Of all checks, only the closure itself blames the join path as a whole. *)
ClosureCodes == {"JOIN_PATH_NOT_GRANTED", "JOIN_PATH_UNRESOLVED"}

(* Not the gates, ...                                                      *)
LEMMA GatesBlameOthers ==
  ASSUME NEW r, NEW code \in ClosureCodes,
         Issue(code, "joinGrants", 0) \in PreflightFinds(r) \cup IndexFinds(r)
  PROVE  FALSE
<1> DEFINE x == Issue(code, "joinGrants", 0)
<1>1. x.code \in ClosureCodes /\ x.part = "joinGrants" /\ x.index = 0
  BY DEF Issue
<1> HIDE DEF x
<1>2. x \notin PreflightIssues(r)
  BY <1>1 DEF PreflightIssues, Unless, Issue, ClosureCodes
<1>3. x \notin UpstreamIssues(r)
  <2>1. x \notin ContractIssues(r.binding)
    BY <1>1 DEF ContractIssues, Unless, Issue, ClosureCodes
  <2>2. x \notin EvidenceIssues(r.binding)
    BY <1>1, EvidenceCode DEF ClosureCodes
  <2>3. x \notin ReferenceIssues(r.binding)
    BY <1>1 DEF ReferenceIssues, Unless, ForEach, Issue, ClosureCodes
  <2>4. x \notin MissingUncertaintyIssues(r.binding)
    BY <1>1 DEF MissingUncertaintyIssues, Issue, ClosureCodes
  <2>5. x \notin UncertaintyIssues(r.binding, TRUE)
    BY <1>1 DEF UncertaintyIssues, Issue
  <2>6. x \notin GapReport(r.binding).blocking
    BY <2>1, <2>2, <2>3, <2>4, <2>5 DEF GapReport, IntegrityIssues
  <2>7. x # Issue("UPSTREAM_BINDING_BLOCKED", "bindingGapReport", 0)
    BY <1>1 DEF Issue
  <2> QED
    BY <2>6, <2>7 DEF UpstreamIssues
<1>4. x \notin MetadataIssues(r)
  BY <1>1 DEF MetadataIssues, ForEach, Issue, ClosureCodes
<1>5. x \notin GrantIssues(r)
  BY <1>1 DEF GrantIssues, ForEach, Issue, ClosureCodes
<1> QED
  BY <1>2, <1>3, <1>4, <1>5 DEF PreflightFinds, IndexFinds, x

(* ... and not the fields, keys, result or single grants.                  *)
LEMMA OthersBlameOthers ==
  ASSUME NEW r, WireModel(r), NEW code \in ClosureCodes,
         Issue(code, "joinGrants", 0)
            \in FieldIssuesOf(r) \cup KeyIssuesOf(r) \cup ResultIssuesOf(r) \cup JoinIssuesOf(r)
  PROVE  FALSE
<1> DEFINE x == Issue(code, "joinGrants", 0)
<1>1. x.code \in ClosureCodes /\ x.part = "joinGrants" /\ x.index = 0
  BY DEF Issue
<1> HIDE DEF x
<1>2. x \notin FieldIssuesOf(r)
  <2>1. \A f : FieldIssue(r, f) \notin ClosureCodes
    BY DEF FieldIssue, ClosureCodes
  <2> QED
    BY <1>1, <2>1 DEF FieldIssuesOf, Issue
<1>3. x \notin KeyIssuesOf(r)
  <2>1. \A p : KeyIssue(r, FieldsOf(r), p) \notin ClosureCodes
    BY DEF KeyIssue, ClosureCodes
  <2> QED
    BY <1>1, <2>1 DEF KeyIssuesOf, Issue
<1>4. x \notin ResultIssuesOf(r)
  BY <1>1 DEF ResultIssuesOf, Unless, Issue, ClosureCodes
<1>5. x \notin JoinIssuesOf(r)
  <2>1. 0 \notin Grants(r)
    BY DEF Grants, WireModel, IsList
  <2> QED
    BY <1>1, <2>1 DEF JoinIssuesOf, UnmatchedOf, Issue
<1> QED
  BY <1>2, <1>3, <1>4, <1>5 DEF x

(* So where it is blamed, the gates were open.                             *)
LEMMA BlamedForClosure ==
  ASSUME IInv, NEW code \in ClosureCodes, Blames(Issue(code, "joinGrants", 0))
  PROVE  GatesOpen(request) /\ Issue(code, "joinGrants", 0) \in ClosureIssuesOf(request)
<1>1. PICK d : report = Answer(request, d)
  BY DEF IInv, Reported, Blames
<1>2. Issue(code, "joinGrants", 0) \in Answer(request, d).issues
  BY <1>1 DEF Blames
<1>3. GatesOpen(request)
  BY <1>2, GatesBlameOthers DEF Answer, Refusal, GatesOpen
<1>4. Answer(request, d).issues = IssuesOf(request)
  BY <1>3 DEF Answer, GatesOpen
<1> QED
  BY <1>2, <1>3, <1>4, RequestConforms, OthersBlameOthers DEF IssuesOf

(* The grants that the snapshot backs are those that the closure considers. *)
LEMMA BackedIsUsable ==
  ASSUME IInv, pc = "done", GatesOpen(request)
  PROVE  required = RequiredOf(request) /\ Backed = UsableOf(request)
<1> DEFINE r == request
<1>1. /\ required = RequiredOf(r) /\ Unmatched = UnmatchedOf(r)
      /\ \A j \in Grants(r) : Left(j) = EndsOf(r)[j][1] /\ Right(j) = EndsOf(r)[j][2]
  BY GraphComputed DEF Past
<1>2. ASSUME NEW ends
      PROVE  Cardinality(RelationshipsAt(r, ends)) = 1 <=> RelationshipsAt(r, ends) # {}
  <2>1. IsFiniteSet(RelationshipsAt(r, ends))
    <3>1. RelationshipsAt(r, ends) \in SUBSET DOMAIN r.snapshot.relationships
      BY DEF RelationshipsAt
    <3> QED
      BY <3>1, RequestConforms, SnapshotFinite, FS_Subset
  <2>2. ASSUME RelationshipsAt(r, ends) # {} PROVE Cardinality(RelationshipsAt(r, ends)) = 1
    <3>1. PICK i \in DOMAIN r.snapshot.relationships : Ends(r, r.snapshot.relationships[i]) = ends
      BY <2>2 DEF RelationshipsAt
    <3>2. Cardinality(RelationshipsAt(r, Ends(r, r.snapshot.relationships[i]))) = 1
      BY DEF GatesOpen, IndexFinds, MetadataIssues, ForEach
    <3> QED
      BY <3>1, <3>2
  <2> QED
    BY <2>1, <2>2, FS_EmptySet
<1>3. \A j \in Grants(r) : j \notin UnmatchedOf(r) <=> RelationshipsAt(r, GrantEnds(j)) # {}
  BY <1>2 DEF UnmatchedOf, GrantEndsOf, GrantEnds, Grant
<1> QED
  BY <1>1, <1>3 DEF Backed, UsableOf, Grants

(* So the ways to join the fields are the closures of the graph.           *)
LEMMA TreesAreClosures ==
  ASSUME IInv, pc = "done", GatesOpen(request)
  PROVE  Trees = Closures(EndsOf(request), RequiredOf(request), UsableOf(request))
<1> DEFINE e == EndsOf(request)
           R == RequiredOf(request)
           U == UsableOf(request)
<1>1. required = R /\ Backed = U
  BY BackedIsUsable
<1>2. \A j \in U : Left(j) = e[j][1] /\ Right(j) = e[j][2]
  <2>1. \A j \in Grants(request) : Left(j) = e[j][1] /\ Right(j) = e[j][2]
    BY GraphComputed DEF Past
  <2> QED
    BY <2>1 DEF UsableOf
<1> HIDE DEF e, R, U
<1>3. ASSUME NEW G \in SUBSET U PROVE Connects(G) <=> Spans(e, R, G)
  <2>1. \A T : T \notin {{}, R} <=> T # {} /\ T # R
    OBVIOUS
  <2>2. \A j \in G : \A T : (Left(j) \in T) # (Right(j) \in T) <=> Cuts(e, j, T)
    BY <1>2 DEF Cuts
  <2> QED
    BY <1>1, <2>1, <2>2 DEF Connects, Spans
<1>4. ASSUME NEW G \in SUBSET U
      PROVE  (\A j \in G : ~Connects(G \ {j})) <=> (\A j \in G : ~Spans(e, R, G \ {j}))
  <2>1. \A j \in G : G \ {j} \in SUBSET U
    OBVIOUS
  <2> QED
    BY <1>3, <2>1
<1>5. Trees = Closures(e, R, U)
  BY <1>1, <1>3, <1>4 DEF Trees, Closures
<1> QED
  BY <1>5 DEF e, R, U

\* _select_join_closure decides right, whatever the grants and the snapshot,
\* and its issue says how many ways there are.
THEOREM ClosureIsOnly == Spec => []OnlyClosure
<1>1. IInv => OnlyClosure
  <2> SUFFICES ASSUME IInv PROVE OnlyClosure
    OBVIOUS
  <2> DEFINE r == request
             R == RequiredOf(r)
             U == UsableOf(r)
             closures == Closures(EndsOf(r), R, U)
  <2>1. ASSUME pc = "done", GatesOpen(r), Cardinality(R) > 1
        PROVE  /\ Trees = closures
               /\ ~Spans(EndsOf(r), R, U) => closures = {}
               /\ Spans(EndsOf(r), R, U) /\ Cardinality(U) = Cardinality(R) - 1 => closures = {U}
               /\ Spans(EndsOf(r), R, U) /\ Cardinality(U) # Cardinality(R) - 1
                    => Cardinality(closures) > 1
    <3>1. IsFiniteSet(R) /\ R # {} /\ Cardinality(R) \in Nat
      BY <2>1, RequestConforms, RequiredFinite, FS_EmptySet, FS_CardinalityType
    <3>2. IsFiniteSet(U) /\ Cardinality(U) \in Nat
      <4>1. U \in SUBSET DOMAIN r.context.joinGrants
        BY DEF UsableOf, Grants
      <4>2. IsFiniteSet(DOMAIN r.context.joinGrants)
        BY RequestConforms, Positions DEF WireModel
      <4> QED
        BY <4>1, <4>2, FS_Subset, FS_CardinalityType
    <3>3. Inside(EndsOf(r), R, U) /\ \A j \in U : EndsOf(r)[j][1] # EndsOf(r)[j][2]
      BY DEF Inside, UsableOf
    <3>4. Cardinality(R) = Cardinality(U) + 1 <=> Cardinality(U) = Cardinality(R) - 1
      BY <3>1, <3>2
    <3>5. Trees = closures
      BY <2>1, TreesAreClosures
    <3> HIDE DEF R, U
    <3> QED
      BY <3>1, <3>2, <3>3, <3>4, <3>5, ClosuresByCount
  <2>2. ASSUME IsResolved, Cardinality(required) > 1 PROVE Trees = {report.joins}
    <3>1. /\ GatesOpen(r) /\ ClosureIssuesOf(r) = {} /\ report.joins = JoinsOf(r)
          /\ pc = "done" /\ required = R
      BY <2>2, ResolvedReport, BackedIsUsable DEF IssuesOf, IsResolved
    <3>2. Cardinality(R) > 1 /\ ~(Cardinality(R) <= 1)
      <4>1. Cardinality(R) > 1 /\ Cardinality(R) \in Nat
        BY <2>2, <3>1, RequestConforms, RequiredFinite, FS_CardinalityType
      <4> HIDE DEF R
      <4> QED
        BY <4>1
    <3>3. Spans(EndsOf(r), R, U) /\ Cardinality(U) = Cardinality(R) - 1
      BY <3>1, <3>2 DEF ClosureIssuesOf, Unless
    <3>4. report.joins = U
      BY <3>1, <3>2 DEF JoinsOf
    <3> QED
      BY <2>1, <3>1, <3>2, <3>3, <3>4
  <2>3. ASSUME NEW code \in ClosureCodes, Blames(Issue(code, "joinGrants", 0))
        PROVE  /\ code = "JOIN_PATH_NOT_GRANTED" => Trees = {}
               /\ code = "JOIN_PATH_UNRESOLVED" => Cardinality(Trees) # 1
    <3>1. /\ GatesOpen(r) /\ pc = "done"
          /\ Issue(code, "joinGrants", 0) \in ClosureIssuesOf(r)
      BY <2>3, BlamedForClosure DEF Blames
    <3>2. Cardinality(R) > 1
      <4>1. ~(Cardinality(R) <= 1)
        BY <3>1 DEF ClosureIssuesOf
      <4>2. Cardinality(R) \in Nat
        BY RequestConforms, RequiredFinite, FS_CardinalityType
      <4> HIDE DEF R
      <4> QED
        BY <4>1, <4>2
    <3>3. \/ ~Spans(EndsOf(r), R, U)
          \/ /\ Spans(EndsOf(r), R, U) /\ Cardinality(U) # Cardinality(R) - 1
             /\ code = "JOIN_PATH_UNRESOLVED"
      BY <3>1, <3>2 DEF ClosureIssuesOf, Unless, Issue
    <3>4. CASE ~Spans(EndsOf(r), R, U)
      <4>1. Trees = {}
        BY <2>1, <3>1, <3>2, <3>4
      <4> QED
        BY <4>1, FS_EmptySet
    <3>5. CASE code = "JOIN_PATH_UNRESOLVED" /\ Cardinality(Trees) > 1
      BY <3>5
    <3> QED
      BY <2>1, <3>1, <3>2, <3>3, <3>4, <3>5
  <2> QED
    BY <2>2, <2>3 DEF OnlyClosure, ClosureCodes
<1> QED
  BY <1>1, Invariant, PTL

-----------------------------------------------------------------------------
(* Hints                                                                   *)

\* All that a field says of itself, but for the hint.
SameField(f, g) ==
    /\ f.id = g.id /\ f.role = g.role /\ f.type = g.type
    /\ f.required = g.required /\ f.resolved = g.resolved /\ f.evidence = g.evidence
    /\ (f.candidate = {}) = (g.candidate = {})

(* What the same request with other hints shares with it.                  *)
LEMMA Shared ==
  ASSUME NEW q, NEW r, WireModel(q), WireModel(r), OtherHints(q, r)
  PROVE  /\ q.context = r.context /\ q.snapshot = r.snapshot /\ q.project = r.project
         /\ q.gap = GapReport(q.binding) /\ r.gap = GapReport(r.binding)
         /\ q.binding.contract = r.binding.contract /\ q.binding.status = r.binding.status
         /\ q.binding.requestId = r.binding.requestId /\ q.binding.rule = r.binding.rule
         /\ q.binding.source = r.binding.source /\ q.binding.fact = r.binding.fact
         /\ q.binding.result = r.binding.result /\ q.binding.dialect = r.binding.dialect
         /\ q.binding.needsSnapshot = r.binding.needsSnapshot
         /\ q.binding.tempTables = r.binding.tempTables
         /\ q.binding.entity = r.binding.entity /\ q.binding.filters = r.binding.filters
         /\ q.binding.aggregation = r.binding.aggregation /\ q.binding.time = r.binding.time
         /\ q.binding.evidence = r.binding.evidence /\ q.binding.cited = r.binding.cited
         /\ q.binding.uncertainties = r.binding.uncertainties
         /\ q.binding.mapping.fact = r.binding.mapping.fact
         /\ q.binding.mapping.mapped = r.binding.mapping.mapped
         /\ (q.binding.mapping.column = {}) = (r.binding.mapping.column = {})
         /\ DOMAIN q.binding.fields = DOMAIN r.binding.fields
         /\ Len(q.binding.fields) = Len(r.binding.fields)
         /\ \A i \in DOMAIN q.binding.fields : SameField(q.binding.fields[i], r.binding.fields[i])
<1>1. q.context = r.context /\ q.snapshot = r.snapshot /\ q.project = r.project
  BY DEF OtherHints, Alike
<1>2. q.gap = GapReport(q.binding) /\ r.gap = GapReport(r.binding)
  BY DEF OtherHints
<1>3. /\ q.binding.contract = r.binding.contract /\ q.binding.status = r.binding.status
      /\ q.binding.requestId = r.binding.requestId /\ q.binding.rule = r.binding.rule
      /\ q.binding.source = r.binding.source /\ q.binding.fact = r.binding.fact
      /\ q.binding.result = r.binding.result /\ q.binding.dialect = r.binding.dialect
      /\ q.binding.needsSnapshot = r.binding.needsSnapshot
      /\ q.binding.tempTables = r.binding.tempTables
      /\ q.binding.entity = r.binding.entity /\ q.binding.filters = r.binding.filters
      /\ q.binding.aggregation = r.binding.aggregation /\ q.binding.time = r.binding.time
      /\ q.binding.evidence = r.binding.evidence /\ q.binding.cited = r.binding.cited
      /\ q.binding.uncertainties = r.binding.uncertainties
  BY DEF OtherHints, Alike
<1>4. /\ q.binding.mapping.fact = r.binding.mapping.fact
      /\ q.binding.mapping.mapped = r.binding.mapping.mapped
      /\ (q.binding.mapping.column = {}) = (r.binding.mapping.column = {})
  BY DEF OtherHints, Alike
<1>5. Len(q.binding.fields) = Len(r.binding.fields)
  BY DEF OtherHints
<1>6. DOMAIN q.binding.fields = DOMAIN r.binding.fields
  BY <1>5 DEF WireModel, IsList
<1>7. ASSUME NEW i \in DOMAIN q.binding.fields
      PROVE  SameField(q.binding.fields[i], r.binding.fields[i])
  BY DEF OtherHints, Alike, SameField
<1> QED
  BY <1>1, <1>2, <1>3, <1>4, <1>5, <1>6, <1>7

(* Either of two such requests is the other with other hints.              *)
LEMMA Symmetric ==
  ASSUME NEW q, NEW r, WireModel(q), WireModel(r), OtherHints(q, r)
  PROVE  OtherHints(r, q)
<1>1. DOMAIN q.binding.fields = DOMAIN r.binding.fields
  BY Shared
<1> QED
  BY <1>1 DEF OtherHints, Alike

(* The gap analysis finds the same: what it says of hints are warnings.    *)
LEMMA SameGaps ==
  ASSUME NEW q, NEW r, WireModel(q), WireModel(r), OtherHints(q, r)
  PROVE  /\ GapReport(q.binding).status = GapReport(r.binding).status
         /\ GapReport(q.binding).blocking = GapReport(r.binding).blocking
         /\ GapReport(q.binding).requestId = GapReport(r.binding).requestId
<1> DEFINE b == q.binding
           c == r.binding
<1>1. ContractIssues(b) = ContractIssues(c)
  <2>1. \A x : x \in ContractIssues(b) <=> x \in ContractIssues(c)
    BY Shared DEF ContractIssues, Unless
  <2> QED
    BY <2>1
<1>2. EvidenceIssues(b) = EvidenceIssues(c)
  <2>1. AllUncited(b.evidence, b.fields, "fields") = AllUncited(c.evidence, c.fields, "fields")
    BY Shared DEF AllUncited, SameField
  <2>2. /\ b.evidence = c.evidence /\ b.entity = c.entity /\ b.filters = c.filters
        /\ b.aggregation = c.aggregation /\ b.time = c.time /\ b.cited = c.cited
        /\ b.uncertainties = c.uncertainties
    BY Shared
  <2> HIDE DEF b, c
  <2> QED
    BY <2>1, <2>2, EvidenceParts
<1>3. ReferenceIssues(b) = ReferenceIssues(c)
  <2>1. Ids(b.fields) = Ids(c.fields)
    BY Shared DEF Ids, SameField
  <2>2. \A x : x \in ReferenceIssues(b) <=> x \in ReferenceIssues(c)
    BY <2>1, Shared DEF ReferenceIssues, Unless, ForEach
  <2> QED
    BY <2>2
<1>4. RequiredUncertainties(b) = RequiredUncertainties(c)
  <2>1. {Leaves[b.fields[i].role] :
            i \in {i \in DOMAIN b.fields : b.fields[i].required /\ ~b.fields[i].resolved}}
          = {Leaves[c.fields[i].role] :
            i \in {i \in DOMAIN c.fields : c.fields[i].required /\ ~c.fields[i].resolved}}
    BY Shared DEF SameField
  <2>2. /\ b.entity = c.entity /\ b.filters = c.filters
        /\ b.aggregation = c.aggregation /\ b.time = c.time
    BY Shared
  <2> HIDE DEF b, c
  <2>3. \A x : x \in RequiredUncertainties(b) => x \in RequiredUncertainties(c)
    BY <2>1, <2>2 DEF RequiredUncertainties
  <2>4. \A x : x \in RequiredUncertainties(c) => x \in RequiredUncertainties(b)
    BY <2>1, <2>2 DEF RequiredUncertainties
  <2> QED
    BY <2>3, <2>4
<1>5. MissingUncertaintyIssues(b) = MissingUncertaintyIssues(c)
  BY <1>4, Shared DEF MissingUncertaintyIssues, Admitted
<1>6. UncertaintyIssues(b, TRUE) = UncertaintyIssues(c, TRUE)
  BY Shared DEF UncertaintyIssues
<1>7. b.requestId = c.requestId
  BY Shared
<1> HIDE DEF b, c
<1>8. IntegrityIssues(b) = IntegrityIssues(c)
  BY <1>1, <1>2, <1>3 DEF IntegrityIssues
<1>9. \A d : /\ GapReport(d).requestId = d.requestId
           /\ GapReport(d).blocking = IntegrityIssues(d) \cup MissingUncertaintyIssues(d)
                                        \cup UncertaintyIssues(d, TRUE)
           /\ GapReport(d).status = IF GapReport(d).blocking = {} THEN "readyForMetadataResolution"
                                    ELSE "blocked"
  BY DEF GapReport
<1>10. /\ GapReport(b).status = GapReport(c).status
       /\ GapReport(b).blocking = GapReport(c).blocking
       /\ GapReport(b).requestId = GapReport(c).requestId
  BY <1>5, <1>6, <1>7, <1>8, <1>9
<1> QED
  BY <1>10 DEF b, c

(* Columns are those of the context and the snapshot.                      *)
LEMMA SameColumns ==
  ASSUME NEW q, NEW r, q.context = r.context, q.snapshot = r.snapshot
  PROVE  /\ \A n : Norm(q, n) = Norm(r, n)
         /\ \A c : Relation(q, c) = Relation(r, c) /\ Key(q, c) = Key(r, c)
         /\ SnapshotColumns(q) = SnapshotColumns(r)
         /\ \A n : RelationsAt(q, n) = RelationsAt(r, n)
         /\ \A c : ColumnsAt(q, c) = ColumnsAt(r, c)
         /\ \A e : Ends(q, e) = Ends(r, e) /\ RelationshipsAt(q, e) = RelationshipsAt(r, e)
         /\ \A g : /\ RelationGranted(q, g) = RelationGranted(r, g) /\ Named(q, g) = Named(r, g)
                   /\ Found(q, g) = Found(r, g) /\ Physical(q, g) = Physical(r, g)
<1>1. \A n : Norm(q, n) = Norm(r, n)
  BY DEF Norm
<1>2. \A c : Relation(q, c) = Relation(r, c) /\ Key(q, c) = Key(r, c)
  BY <1>1 DEF Relation, Key
<1>3. SnapshotColumns(q) = SnapshotColumns(r)
  BY DEF SnapshotColumns
<1>4. ASSUME NEW n PROVE RelationsAt(q, n) = RelationsAt(r, n)
  BY <1>1 DEF RelationsAt
<1>5. ASSUME NEW c PROVE ColumnsAt(q, c) = ColumnsAt(r, c)
  BY <1>2, <1>3 DEF ColumnsAt
<1>6. ASSUME NEW e PROVE Ends(q, e) = Ends(r, e)
  BY <1>2 DEF Ends
<1>7. ASSUME NEW e PROVE RelationshipsAt(q, e) = RelationshipsAt(r, e)
  BY <1>6 DEF RelationshipsAt
<1>8. ASSUME NEW g
      PROVE  RelationGranted(q, g) = RelationGranted(r, g) /\ Named(q, g) = Named(r, g)
  BY DEF RelationGranted, Named
<1>9. ASSUME NEW g PROVE Found(q, g) = Found(r, g)
  BY <1>4, <1>5, <1>8 DEF Found
<1>10. ASSUME NEW g PROVE Physical(q, g) = Physical(r, g)
  BY <1>5, <1>8 DEF Physical
<1> QED
  BY <1>1, <1>2, <1>3, <1>4, <1>5, <1>6, <1>7, <1>8, <1>9, <1>10

(* The gates find the same.                                                *)
LEMMA SameGates ==
  ASSUME NEW q, NEW r, WireModel(q), WireModel(r), OtherHints(q, r)
  PROVE  /\ Accepted(q) <=> Accepted(r)
         /\ PreflightFinds(q) = PreflightFinds(r) /\ IndexFinds(q) = IndexFinds(r)
<1> DEFINE b == q.binding
           c == r.binding
<1>1. Ids(b.fields) = Ids(c.fields)
  BY Shared DEF Ids, SameField
<1>2. Accepted(q) <=> Accepted(r)
  <2>1. MappingConforms(b.mapping) <=> MappingConforms(c.mapping)
    BY Shared DEF MappingConforms
  <2>2. (\A i \in DOMAIN b.fields : FieldConforms(b.fields[i]))
          <=> (\A i \in DOMAIN c.fields : FieldConforms(c.fields[i]))
    BY Shared DEF FieldConforms, SameField
  <2>3. IdsUnique(b.fields) <=> IdsUnique(c.fields)
    BY <1>1, Shared DEF IdsUnique
  <2>4. /\ b.entity = c.entity /\ b.filters = c.filters /\ b.aggregation = c.aggregation
        /\ b.time = c.time /\ b.uncertainties = c.uncertainties
        /\ q.context = r.context /\ q.snapshot = r.snapshot
    BY Shared
  <2> HIDE DEF b, c
  <2>5. Conforms(b) <=> Conforms(c)
    BY <2>1, <2>2, <2>3, <2>4 DEF Conforms
  <2> QED
    BY <2>4, <2>5 DEF Accepted, b, c
<1>3. PreflightIssues(q) = PreflightIssues(r)
  <2>1. /\ q.gap = GapReport(b) /\ r.gap = GapReport(c)
        /\ GapReport(b).requestId = b.requestId /\ GapReport(c).requestId = c.requestId
    <3>1. \A d : GapReport(d).requestId = d.requestId
      BY DEF GapReport
    <3> QED
      BY <3>1, Shared
  <2>2. /\ b.requestId = c.requestId /\ b.rule = c.rule /\ b.dialect = c.dialect
        /\ q.project = r.project /\ q.context = r.context /\ q.snapshot = r.snapshot
    BY Shared
  <2>3. \A x : x \in PreflightIssues(q) <=> x \in PreflightIssues(r)
    BY <2>1, <2>2 DEF PreflightIssues, Unless
  <2> QED
    BY <2>3
<1>4. UpstreamIssues(q) = UpstreamIssues(r)
  <2>1. /\ q.gap = GapReport(b) /\ r.gap = GapReport(c) /\ b.uncertainties = c.uncertainties
        /\ GapReport(b).status = GapReport(c).status
        /\ GapReport(b).blocking = GapReport(c).blocking
    BY Shared, SameGaps
  <2>2. UpstreamBlocked(q) <=> UpstreamBlocked(r)
    BY <2>1 DEF UpstreamBlocked
  <2> QED
    BY <2>1, <2>2 DEF UpstreamIssues
<1>5. MetadataIssues(q) = MetadataIssues(r)
  <2>1. q.context = r.context /\ q.snapshot = r.snapshot
    BY Shared
  <2>2. /\ \A n : RelationsAt(q, n) = RelationsAt(r, n)
        /\ \A column : ColumnsAt(q, column) = ColumnsAt(r, column)
        /\ \A e : Ends(q, e) = Ends(r, e) /\ RelationshipsAt(q, e) = RelationshipsAt(r, e)
    BY <2>1, SameColumns
  <2> QED
    BY <2>1, <2>2 DEF MetadataIssues, ForEach
<1>6. GrantIssues(q) = GrantIssues(r)
  <2>1. q.context = r.context /\ q.snapshot = r.snapshot /\ b.requestId = c.requestId
    BY Shared
  <2>2. \A x : x \in GrantIssues(q) <=> x \in GrantIssues(r)
    BY <1>1, <2>1, SameColumns DEF GrantIssues, ForEach
  <2> QED
    BY <2>2
<1> QED
  BY <1>2, <1>3, <1>4, <1>5, <1>6 DEF PreflightFinds, IndexFinds

(* A field resolves, or fails to, by what it says of itself but the hint.  *)
LEMMA SameFieldIssue ==
  ASSUME NEW q, NEW r, WireModel(q), WireModel(r), OtherHints(q, r), NEW f, NEW g, SameField(f, g)
  PROVE  FieldIssue(q, f) = FieldIssue(r, g) /\ ResolvedField(q, f) = ResolvedField(r, g)
<1>1. /\ q.context = r.context /\ q.snapshot = r.snapshot
      /\ q.binding.requestId = r.binding.requestId
  BY Shared
<1>2. AuthorizationsOf(q, f) = AuthorizationsOf(r, g)
  BY <1>1 DEF AuthorizationsOf, SameField
<1>3. FieldAuthorizations(q, f) = FieldAuthorizations(r, g)
  BY <1>2 DEF FieldAuthorizations, SameField
<1>4. \A n : /\ Found(q, n) = Found(r, n) /\ Physical(q, n) = Physical(r, n)
            /\ TypeFits(q, f, n) = TypeFits(r, g, n)
  BY <1>1, SameColumns DEF TypeFits, SameField
<1>5. FieldIssue(q, f) = FieldIssue(r, g)
  BY <1>2, <1>3, <1>4 DEF FieldIssue
<1>6. ResolvedField(q, f) = ResolvedField(r, g)
  BY <1>3, <1>4 DEF ResolvedField, SameField
<1> QED
  BY <1>5, <1>6

(* Which fields are needed does not depend on hints either.                *)
LEMMA FieldsWithin ==
  ASSUME NEW q, NEW r, WireModel(q), WireModel(r), OtherHints(q, r)
  PROVE  FieldsOf(q) \subseteq FieldsOf(r) /\ FieldIssuesOf(q) \subseteq FieldIssuesOf(r)
<1>1. ASSUME NEW f \in Mandatory(q) PROVE \E g \in Mandatory(r) : SameField(f, g)
  <2>1. PICK i \in DOMAIN q.binding.fields : f = q.binding.fields[i]
    BY DEF Mandatory, Range
  <2>2. /\ r.binding.fields[i] \in Range(r.binding.fields)
        /\ SameField(f, r.binding.fields[i])
    BY <2>1, Shared DEF Range
  <2>3. \A p : KeyAuthorizations(q, p) = KeyAuthorizations(r, p)
    BY Shared DEF KeyAuthorizations
  <2>4. /\ q.binding.filters = r.binding.filters /\ q.binding.aggregation = r.binding.aggregation
        /\ q.binding.time = r.binding.time /\ q.binding.entity = r.binding.entity
    BY Shared
  <2>5. r.binding.fields[i] \in Mandatory(r)
    BY <2>2, <2>3, <2>4 DEF Mandatory, SameField
  <2> QED
    BY <2>2, <2>5
<1>2. ASSUME NEW x \in FieldsOf(q) PROVE x \in FieldsOf(r)
  <2>1. PICK f \in Mandatory(q) : FieldIssue(q, f) = "ok" /\ x = ResolvedField(q, f)
    BY DEF FieldsOf
  <2>2. PICK g \in Mandatory(r) : SameField(f, g)
    BY <1>1
  <2>3. FieldIssue(r, g) = "ok" /\ x = ResolvedField(r, g)
    BY <2>1, <2>2, SameFieldIssue
  <2> QED
    BY <2>3 DEF FieldsOf
<1>3. ASSUME NEW x \in FieldIssuesOf(q) PROVE x \in FieldIssuesOf(r)
  <2>1. PICK f \in Mandatory(q) : FieldIssue(q, f) # "ok" /\ x = Issue(FieldIssue(q, f), f.id, 0)
    BY DEF FieldIssuesOf
  <2>2. PICK g \in Mandatory(r) : SameField(f, g)
    BY <1>1
  <2>3. FieldIssue(r, g) = FieldIssue(q, f) /\ g.id = f.id
    BY <2>2, SameFieldIssue DEF SameField
  <2> QED
    BY <2>1, <2>3 DEF FieldIssuesOf
<1> QED
  BY <1>2, <1>3

(* So the hints change nothing in what is resolved of the fields.          *)
LEMMA SameFields ==
  ASSUME NEW q, NEW r, WireModel(q), WireModel(r), OtherHints(q, r)
  PROVE  FieldsOf(q) = FieldsOf(r) /\ FieldIssuesOf(q) = FieldIssuesOf(r)
BY FieldsWithin, Symmetric

(* Nor do they change the entity keys.                                     *)
LEMMA SameKeys ==
  ASSUME NEW q, NEW r, WireModel(q), WireModel(r), OtherHints(q, r)
  PROVE  KeysOf(q) = KeysOf(r) /\ KeyIssuesOf(q) = KeyIssuesOf(r)
<1>1. /\ q.context = r.context /\ q.snapshot = r.snapshot
      /\ q.binding.requestId = r.binding.requestId /\ q.binding.entity = r.binding.entity
      /\ q.binding.fact = r.binding.fact /\ FieldsOf(q) = FieldsOf(r)
  BY Shared, SameFields
<1>2. \A p : KeyAuthorizations(q, p) = KeyAuthorizations(r, p)
  BY <1>1 DEF KeyAuthorizations
<1>3. ASSUME NEW p PROVE ResolvedKey(q, p) = ResolvedKey(r, p)
  BY <1>1, <1>2, SameColumns DEF ResolvedKey
<1>4. ASSUME NEW p PROVE KeyIssue(q, FieldsOf(q), p) = KeyIssue(r, FieldsOf(r), p)
  <2> DEFINE id == TheOnly(KeyAuthorizations(r, p)).field
             declared(x) == {f \in Range(x.binding.fields) : f.id = id}
  <2>1. (\A f \in declared(q) : f.role # "entityKey") <=> (\A f \in declared(r) : f.role # "entityKey")
    BY Shared DEF Range, SameField
  <2>2. (\A f \in declared(q) : q.binding.fact.parameters[p] # f.type)
          <=> (\A f \in declared(r) : r.binding.fact.parameters[p] # f.type)
    BY Shared DEF Range, SameField
  <2> HIDE DEF id
  <2> QED
    BY <1>1, <1>2, <2>1, <2>2 DEF KeyIssue, id
<1>5. KeysOf(q) = KeysOf(r)
  BY <1>1, <1>3, <1>4 DEF KeysOf
<1>6. KeyIssuesOf(q) = KeyIssuesOf(r)
  BY <1>1, <1>4 DEF KeyIssuesOf
<1> QED
  BY <1>5, <1>6

(* Where the value comes from does not depend on them either.              *)
LEMMA SameResult ==
  ASSUME NEW q, NEW r, WireModel(q), WireModel(r), OtherHints(q, r)
  PROVE  ResultOf(q) = ResultOf(r) /\ ResultIssuesOf(q) = ResultIssuesOf(r)
<1>1. q.binding.aggregation = r.binding.aggregation /\ FieldsOf(q) = FieldsOf(r)
  BY Shared, SameFields
<1>2. \A id : (\E d \in Range(q.binding.fields) : d.id = id /\ d.required)
                <=> (\E d \in Range(r.binding.fields) : d.id = id /\ d.required)
  BY Shared DEF Range, SameField
<1>3. ResultFields(q, FieldsOf(q)) = ResultFields(r, FieldsOf(r))
  <2>1. \A F : {f \in F : f.role = "value"
                          /\ \E d \in Range(q.binding.fields) : d.id = f.id /\ d.required}
              = {f \in F : f.role = "value"
                          /\ \E d \in Range(r.binding.fields) : d.id = f.id /\ d.required}
    BY <1>2
  <2> QED
    BY <1>1, <2>1, Zenon DEF ResultFields
<1>4. ResultOf(q) = ResultOf(r)
  <2>1. \A F, G : ResultFields(q, F) = ResultFields(r, G)
                   => ResultSources(q, F) = ResultSources(r, G)
    BY <1>1 DEF ResultSources
  <2> QED
    BY <1>3, <2>1 DEF ResultOf
<1> QED
  BY <1>4 DEF ResultIssuesOf

(* Nor does the graph of the join grants depend on them.                   *)
LEMMA SameJoins ==
  ASSUME NEW q, NEW r, WireModel(q), WireModel(r), OtherHints(q, r)
  PROVE  /\ JoinsOf(q) = JoinsOf(r) /\ JoinIssuesOf(q) = JoinIssuesOf(r)
         /\ ClosureIssuesOf(q) = ClosureIssuesOf(r)
<1>1. q.context = r.context /\ q.snapshot = r.snapshot /\ FieldsOf(q) = FieldsOf(r)
  BY Shared, SameFields
<1>2. Grants(q) = Grants(r)
  BY <1>1 DEF Grants
<1>3. RequiredOf(q) = RequiredOf(r)
  BY <1>1, SameColumns DEF RequiredOf
<1>4. EndsOf(q) = EndsOf(r)
  BY <1>1, <1>2, SameColumns DEF EndsOf
<1>5. \A j : GrantEndsOf(q, j) = GrantEndsOf(r, j)
  BY <1>1, SameColumns DEF GrantEndsOf
<1>6. UnmatchedOf(q) = UnmatchedOf(r)
  BY <1>1, <1>2, <1>5, SameColumns DEF UnmatchedOf
<1>7. UsableOf(q) = UsableOf(r)
  BY <1>2, <1>3, <1>4, <1>6 DEF UsableOf
<1>8. EdgesOf(q) = EdgesOf(r)
  BY <1>1, SameColumns DEF EdgesOf
<1>9. JoinIssuesOf(q) = JoinIssuesOf(r)
  BY <1>6 DEF JoinIssuesOf
<1>10. ClosureIssuesOf(q) = ClosureIssuesOf(r)
  BY <1>3, <1>4, <1>7, <1>8 DEF ClosureIssuesOf
<1>11. JoinsOf(q) = JoinsOf(r)
  BY <1>3, <1>7, <1>10 DEF JoinsOf
<1> QED
  BY <1>9, <1>10, <1>11

(* So the answer is the same.                                              *)
LEMMA SameAnswer ==
  ASSUME NEW q, NEW r, WireModel(q), WireModel(r), OtherHints(q, r), NEW d
  PROVE  Answer(q, d) = Answer(r, d)
<1>1. IssuesOf(q) = IssuesOf(r)
  BY SameFields, SameKeys, SameResult, SameJoins DEF IssuesOf
<1>2. /\ FieldsOf(q) = FieldsOf(r) /\ KeysOf(q) = KeysOf(r) /\ ResultOf(q) = ResultOf(r)
      /\ JoinsOf(q) = JoinsOf(r)
  BY SameFields, SameKeys, SameResult, SameJoins
<1>3. /\ Accepted(q) <=> Accepted(r)
      /\ PreflightFinds(q) = PreflightFinds(r) /\ IndexFinds(q) = IndexFinds(r)
  BY SameGates
<1> QED
  BY <1>1, <1>2, <1>3 DEF Answer

\* "授权结果保持不变": a request analysed again, with other hints from the
\* upstream parser, gets the same answer but for what is said of the hints.
THEOREM HintsDecideNothing == Spec => []HintsNeverDecide
<1>1. IInv => HintsNeverDecide
  <2> SUFFICES ASSUME IInv, pc = "done", before # NoReport
               PROVE  [report EXCEPT !.dispositions = {}] = [before EXCEPT !.dispositions = {}]
    BY DEF HintsNeverDecide
  <2>1. PICK n \in DOMAIN Reproposed :
          /\ n \in DOMAIN Requests /\ Reproposed[n] = name
          /\ \E d : before = Answer(Requests[n], d)
    BY DEF IInv, Reported
  <2>2. PICK e : report = Answer(request, e)
    BY DEF IInv, Reported
  <2>3. /\ WireModel(Requests[n]) /\ WireModel(request) /\ OtherHints(Requests[n], request)
    <3>1. OtherHints(Requests[n], Requests[Reproposed[n]])
      BY RequestsAssumption
    <3> QED
      BY <2>1, <3>1, RequestConforms, RequestsAssumption DEF IInv, Gates
  <2>4. ASSUME NEW r, NEW x PROVE [Answer(r, x) EXCEPT !.dispositions = {}] = Answer(r, {})
    <3>1. \A status, found :
            [Refusal(status, found) EXCEPT !.dispositions = {}] = Refusal(status, found)
      BY DEF Refusal
    <3>2. CASE ~GatesOpen(r)
      <4>1. \E status, found :
              Answer(r, x) = Refusal(status, found) /\ Answer(r, {}) = Refusal(status, found)
        BY <3>2 DEF Answer, GatesOpen
      <4> QED
        BY <3>1, <4>1
    <3>3. CASE GatesOpen(r)
      <4> DEFINE status == IF IssuesOf(r) = {} THEN "metadataResolved" ELSE "blocked"
                 whole(y) ==
                    [status |-> status, fields |-> FieldsOf(r), keys |-> KeysOf(r),
                     result |-> ResultOf(r), joins |-> JoinsOf(r), dispositions |-> y,
                     issues |-> IssuesOf(r)]
      <4>1. Answer(r, x) = whole(x) /\ Answer(r, {}) = whole({})
        BY <3>3 DEF Answer, GatesOpen
      <4>2. [whole(x) EXCEPT !.dispositions = {}] = whole({})
        <5> HIDE DEF status
        <5> QED
          OBVIOUS
      <4> HIDE DEF whole
      <4> QED
        BY <4>1, <4>2
    <3> QED
      BY <3>2, <3>3
  <2>5. PICK d : before = Answer(Requests[n], d)
    BY <2>1
  <2>6. Answer(Requests[n], {}) = Answer(request, {})
    BY <2>3, SameAnswer
  <2> QED
    BY <2>2, <2>4, <2>5, <2>6
<1> QED
  BY <1>1, Invariant, PTL
=============================================================================
