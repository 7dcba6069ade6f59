--------------------- MODULE MetadataResolutionV3_proofs ---------------------
(***************************************************************************)
(* Proofs about MetadataResolutionV3, for any requests: the closure is the *)
(* only one, the plan can be written in its order, a refusal is about what *)
(* is wrong, and both searches come closer to their end with every step.   *)
(***************************************************************************)
EXTENDS MetadataResolutionV3, JoinGraph_proofs

-----------------------------------------------------------------------------
(* The inductive invariant                                                 *)

\* The gates from one on, in the order of the code.
FromPlan == {"plan", "values"}
FromBase == {"base"} \cup FromPlan
FromEvidence == {"evidence"} \cup FromBase
FromCandidates == {"candidates", "closure"} \cup FromEvidence
FromGrants == {"grants"} \cup FromCandidates
FromKeys == {"keys", "filters", "grain"} \cup FromGrants

\* What was checked before these gates was found in order.
Past(S) == pc \in S \/ IsResolved

\* Nothing is computed before its gate.
NotYet ==
    /\ pc \in {"input", "fields"} => keys = {}
    /\ pc \notin FromCandidates \cup {"done"} => candidates = {} /\ seen = {} /\ pending = {}
    /\ pc = "candidates" => seen = {}
    /\ pc \notin FromEvidence \cup {"done"} => selected = {}
    /\ pc \notin FromPlan \cup {"done"} => plan = <<>> /\ edges = {} /\ queue = <<>>

FieldsSound ==
    /\ IsFiniteSet(fields)
    /\ \A f \in fields : ColumnIssue(request, f.grant) = "ok" /\ f.column = Physical(request, f.grant)
    /\ Past(FromKeys) => \E f \in fields : f.id = "factValue"

KeysSound ==
    /\ \A k \in keys : k.field \in fields
    /\ Past(FromGrants) =>
        \A k \in keys : request.context.columnGrants[k.field.grant].relation
                            = request.context.grains[request.binding.entity]

GrantsSound ==
    /\ IsFiniteSet(required) /\ required \subseteq Nat
    /\ IsFiniteSet(DOMAIN ends) /\ DOMAIN ends \subseteq Nat
    /\ Past(FromCandidates) =>
        /\ required = {Relation(request, f.column) : f \in fields}
        /\ DOMAIN ends = DOMAIN request.context.joinGrants
        /\ \A j \in DOMAIN request.context.joinGrants : JoinIssue(request, j) = "ok"

\* The grants between two of the required relations.
Between == {j \in DOMAIN ends : /\ Left(j) # Right(j)
                                /\ Left(j) \in required /\ Right(j) \in required}

\* What is seen is joined with the first relation, and nothing else is joined
\* with what was seen except through what is pending.
Traversal ==
    pc = "closure" =>
        /\ Cardinality(required) > 1
        /\ candidates = Between
        /\ seen \cap pending = {} /\ seen \cup pending \subseteq required
        /\ Least(required) \in seen \cup pending
        /\ \A j \in candidates : \A c, d \in {Left(j), Right(j)} :
              c \in seen => d \in seen \cup pending
        /\ \A T \in SUBSET required :
              Least(required) \in T /\ (\A j \in candidates : ~Cuts(ends, j, T))
                  => seen \cup pending \subseteq T

\* The selected grants are a tree over the required relations.
TreeSelected ==
    /\ Past(FromEvidence) /\ Cardinality(required) > 1 =>
        /\ selected = Between
        /\ Spans(ends, required, selected)
        /\ Cardinality(required) = Cardinality(selected) + 1
    /\ selected # {} => Cardinality(required) > 1

EvidenceSound == Past(FromBase) => EvidenceIssue(request) = "ok"

Prefix(i) == {plan[k] : k \in 1..i}

\* Each join of the plan adds a relation, and the joins up to it connect those
\* that are there.
PlanGrows ==
    /\ plan \in Seq(selected)
    /\ \A i \in 1..Len(plan) :
        /\ Crosses(plan[i], Joined(i - 1))
        /\ Grant(request, plan[i]).type = "left" => Left(plan[i]) \in Joined(i - 1)
        /\ Spans(ends, Joined(i), Prefix(i))

\* The breadth-first search: what is joined is what the plan joins, and every
\* selected grant that leads on from there is still to be looked at.
Search ==
    pc = "plan" =>
        /\ selected # {}
        /\ accumulated = Joined(Len(plan)) /\ accumulated \subseteq required
        /\ queue \in Seq(accumulated)
        /\ \A i, k \in DOMAIN queue : i # k => queue[i] # queue[k]
        /\ edges \subseteq {j \in selected : current \in {Left(j), Right(j)}}
        /\ edges # {} => current \in accumulated /\ current \notin Elements(queue)
        /\ \A j \in selected \ edges : \A c, d \in {Left(j), Right(j)} :
              c \in accumulated \ Elements(queue) => d \in accumulated

\* At the end of the search everything is joined.
PlanComplete ==
    Past({"values"}) => IF selected = {} THEN plan = <<>> ELSE Joined(Len(plan)) = required

\* What the report says.
Reported ==
    pc = "done" =>
        /\ report.status \in {"metadataResolved", "blocked"}
        /\ IsResolved =>
            /\ report.fields = fields /\ report.keys = keys
            /\ DOMAIN report.joins = DOMAIN plan
            /\ \A i \in DOMAIN plan :
                /\ report.joins[i].grant = plan[i]
                /\ report.joins[i].left = LeftColumn(request, plan[i])
                /\ report.joins[i].right = RightColumn(request, plan[i])
        /\ IsBlocked("JOIN_CLOSURE_DISCONNECTED") => Trees = {}
        /\ IsBlocked("JOIN_CLOSURE_AMBIGUOUS") => Cardinality(Trees) > 1
        /\ IsBlocked("JOIN_PLAN_DIRECTION_CONFLICT") => \E j \in selected : PointsBack(j)

IInv ==
    /\ name \in DOMAIN Requests /\ pc \in DOMAIN Rank
    /\ NotYet
    /\ FieldsSound
    /\ KeysSound
    /\ GrantsSound
    /\ Traversal
    /\ TreeSelected
    /\ EvidenceSound
    /\ PlanGrows
    /\ Search
    /\ PlanComplete
    /\ Reported

-----------------------------------------------------------------------------
(* The gates                                                               *)

(* Least does what its name says.                                          *)
LEMMA LeastIsLeast ==
  ASSUME NEW S \in SUBSET Nat, IsFiniteSet(S), S # {}
  PROVE  Least(S) \in S /\ \A j \in S : Least(S) <= j
BY LeastExists DEF Least

(* The positions of a list.                                                *)
LEMMA Positions ==
  ASSUME NEW s, IsList(s)
  PROVE  IsFiniteSet(DOMAIN s) /\ DOMAIN s \subseteq Nat
<1>1. Len(s) \in Nat /\ DOMAIN s = 1..Len(s)
  BY DEF IsList
<1> HIDE DEF IsList
<1>2. IsFiniteSet(1..Len(s))
  BY <1>1, FS_Interval
<1> QED
  BY <1>1, <1>2

(* The first of some positions of a list.                                  *)
LEMMA FirstPosition ==
  ASSUME NEW s, IsList(s), NEW bad \in SUBSET DOMAIN s, bad # {}
  PROVE  Least(bad) \in bad
<1>1. IsFiniteSet(bad) /\ bad \in SUBSET Nat
  BY Positions, FS_Subset
<1> QED
  BY <1>1, LeastIsLeast

(* A resolver that reports no issue found none in any field.               *)
LEMMA FieldsOk ==
  ASSUME NEW r, WireModel(r), FieldsIssue(r) = "ok", NEW i \in DOMAIN r.binding.fields
  PROVE  FieldIssue(r, r.binding.fields[i]) = "ok"
<1> DEFINE bad == {k \in DOMAIN r.binding.fields : FieldIssue(r, r.binding.fields[k]) # "ok"}
<1>1. bad # {} => Least(bad) \in bad
  BY FirstPosition DEF WireModel
<1>2. bad = {}
  BY <1>1 DEF FieldsIssue, FirstOf
<1> QED
  BY <1>2

(* Nor in any entity key.                                                  *)
LEMMA KeysOk ==
  ASSUME NEW r, WireModel(r), KeysIssue(r) = "ok", NEW i \in DOMAIN r.binding.keyParameters
  PROVE  KeyIssue(r, r.binding.keyParameters[i]) = "ok"
<1> DEFINE bad == {k \in DOMAIN r.binding.keyParameters :
                      KeyIssue(r, r.binding.keyParameters[k]) # "ok"}
<1>1. bad # {} => Least(bad) \in bad
  BY FirstPosition DEF WireModel
<1>2. bad = {}
  BY <1>1 DEF KeysIssue, FirstOf
<1> QED
  BY <1>2

(* Nor in any join grant of the context.                                   *)
LEMMA JoinGrantsOk ==
  ASSUME NEW r, WireModel(r), JoinGrantsIssue(r) = "ok", NEW j \in DOMAIN r.context.joinGrants
  PROVE  JoinIssue(r, j) = "ok"
<1> DEFINE bad == {k \in DOMAIN r.context.joinGrants : JoinIssue(r, k) # "ok"}
<1>1. bad # {} => Least(bad) \in bad
  BY FirstPosition DEF WireModel
<1>2. bad = {}
  BY <1>1 DEF JoinGrantsIssue, FirstOf
<1> QED
  BY <1>2

(* A column grant without an issue stands for one column of the snapshot.  *)
LEMMA ColumnFound ==
  ASSUME NEW r, NEW g, ColumnIssue(r, g) = "ok"
  PROVE  \E c \in ColumnsOf(r, g) :
            Physical(r, g) = [relation |-> r.snapshot.relations[c[1]].name,
                              column |-> r.snapshot.relations[c[1]].columns[c[2]]]
<1>1. ColumnsOf(r, g) # {}
  BY DEF ColumnIssue
<1>2. (CHOOSE c \in ColumnsOf(r, g) : TRUE) \in ColumnsOf(r, g)
  BY <1>1
<1> QED
  BY <1>2 DEF Physical

(* Its relation is named by a number.                                      *)
LEMMA RelationIsNumber ==
  ASSUME NEW r, NEW g, WireModel(r), ColumnIssue(r, g) = "ok"
  PROVE  Relation(r, Physical(r, g)) \in Nat
<1>1. PICK c \in ColumnsOf(r, g) :
        Physical(r, g) = [relation |-> r.snapshot.relations[c[1]].name,
                          column |-> r.snapshot.relations[c[1]].columns[c[2]]]
  BY ColumnFound
<1>2. c[1] \in DOMAIN r.snapshot.relations
  BY DEF ColumnsOf, RelationsOf
<1>3. r.snapshot.relations[c[1]].name \in DOMAIN Fold
  BY <1>2 DEF WireModel
<1> QED
  BY <1>1, <1>3, RequestsAssumption DEF Relation, Norm

(* And it is the relation that was granted.                                *)
LEMMA RelationAsGranted ==
  ASSUME NEW r, NEW g, ColumnIssue(r, g) = "ok"
  PROVE  Relation(r, Physical(r, g))
            = Norm(r, r.context.relationGrants[r.context.columnGrants[g].relation])
<1>1. PICK c \in ColumnsOf(r, g) :
        Physical(r, g) = [relation |-> r.snapshot.relations[c[1]].name,
                          column |-> r.snapshot.relations[c[1]].columns[c[2]]]
  BY ColumnFound
<1>2. c[1] \in RelationsOf(r, g)
  BY DEF ColumnsOf
<1>3. Norm(r, r.snapshot.relations[c[1]].name)
        = Norm(r, r.context.relationGrants[r.context.columnGrants[g].relation])
  BY <1>2 DEF RelationsOf
<1> QED
  BY <1>1, <1>3 DEF Relation

(* Under a case policy that tells all columns apart, no other column goes  *)
(* by the name of the one a grant stands for.                              *)
LEMMA ColumnIsOne ==
  ASSUME name \in DOMAIN Requests, NEW g, ColumnIssue(request, g) = "ok"
  PROVE  Cardinality(Same(Physical(request, g))) = 1
<1> DEFINE r == request
           column == Physical(r, g)
<1>1. PICK c \in ColumnsOf(r, g) :
        column = [relation |-> r.snapshot.relations[c[1]].name,
                  column |-> r.snapshot.relations[c[1]].columns[c[2]]]
  BY ColumnFound
<1>2. ~AmbiguousRelation(r) /\ ~AmbiguousColumn(r)
  BY DEF ColumnIssue
<1>3. PICK i, k : /\ c = <<i, k>> /\ i \in DOMAIN r.snapshot.relations
                  /\ k \in DOMAIN r.snapshot.relations[i].columns /\ k \in ColumnIndexes(r)
  BY DEF ColumnsOf, RelationsOf
<1>4. <<i, k>> \in Same(column)
  BY <1>1, <1>3 DEF Same
<1>5. ASSUME NEW d \in Same(column) PROVE d = <<i, k>>
  <2>1. PICK m, n : /\ d = <<m, n>> /\ m \in DOMAIN r.snapshot.relations
                    /\ n \in DOMAIN r.snapshot.relations[m].columns
                    /\ Norm(r, r.snapshot.relations[m].name) = Norm(r, r.snapshot.relations[i].name)
                    /\ Norm(r, r.snapshot.relations[m].columns[n])
                          = Norm(r, r.snapshot.relations[i].columns[k])
    BY <1>1, <1>3, <1>5 DEF Same, Key
  <2>2. m = i
    BY <1>2, <1>3, <2>1 DEF AmbiguousRelation
  <2>3. n = k
    BY <1>2, <1>3, <2>1, <2>2 DEF AmbiguousColumn
  <2> QED
    BY <2>1, <2>2, <2>3
<1>6. Same(column) = {<<i, k>>}
  BY <1>4, <1>5
<1> QED
  BY <1>6, FS_Singleton

-----------------------------------------------------------------------------
(* The codes of the other gates                                            *)

\* What only the closure and the plan are blocked for.
ClosureCodes ==
    {"JOIN_CLOSURE_DISCONNECTED", "JOIN_CLOSURE_AMBIGUOUS", "JOIN_PLAN_DIRECTION_CONFLICT"}

(* The first failing check gives its own code.                             *)
LEMMA FirstIssueIsOne ==
  ASSUME NEW n \in Nat, NEW checks, DOMAIN checks = 1..n, FirstIssue(checks) # "ok"
  PROVE  \E i \in 1..n : FirstIssue(checks) = checks[i][1]
<1> DEFINE failing == {i \in DOMAIN checks : ~checks[i][2]}
<1>1. failing # {} /\ FirstIssue(checks) = checks[Least(failing)][1]
  BY DEF FirstIssue
<1>2. IsFiniteSet(1..n)
  BY FS_Interval
<1>3. IsFiniteSet(failing) /\ failing \in SUBSET Nat
  <2>1. failing \in SUBSET (1..n)
    OBVIOUS
  <2> QED
    BY <1>2, <2>1, FS_Subset
<1>4. Least(failing) \in failing
  BY <1>1, <1>3, LeastIsLeast
<1> QED
  BY <1>1, <1>4

(* Neither the handoff nor the approval nor the rest of the input is       *)
(* refused with a code of the closure.                                     *)
LEMMA InputCodes ==
  ASSUME NEW r
  PROVE  InputIssue(r) \notin ClosureCodes
<1>1. HandoffIssue(r.closure) \notin ClosureCodes
  <2> DEFINE h == r.closure
             checks == <<
    <<"HANDOFF_SCHEMA_REF_MISMATCH", h.schema = FrozenSchema>>,
    <<"HANDOFF_PAYLOAD_SCHEMA_INVALID", h.conforms>>,
    <<"HANDOFF_IDENTITY_MISMATCH",
        h.requestId = h.payload.requestId /\ h.rule = h.payload.rule>>,
    <<"HANDOFF_PAYLOAD_HASH_MISMATCH", h.payloadSha = Sha(h.payload)>>>>
  <2>1. HandoffIssue(h) = FirstIssue(checks)
    BY DEF HandoffIssue
  <2>2. DOMAIN checks = 1..4
    OBVIOUS
  <2>3. \A i \in 1..4 : checks[i][1] \notin ClosureCodes
    BY DEF ClosureCodes
  <2> HIDE DEF checks
  <2>4. FirstIssue(checks) = "ok" \/ \E i \in 1..4 : FirstIssue(checks) = checks[i][1]
    BY <2>2, FirstIssueIsOne
  <2> QED
    BY <2>1, <2>3, <2>4 DEF ClosureCodes
<1>2. ApprovalIssue(r.context, r.snapshot, r.approvalRecord) \notin ClosureCodes
  <2> DEFINE c == r.context
             s == r.snapshot
             a == r.approvalRecord
             checks == <<
    <<"APPROVAL_ID_MISMATCH", c.approval.id = a.id /\ s.approval.id = a.id>>,
    <<"APPROVAL_POLICY_MISMATCH",
        {s.approval.policy, a.policy, c.policy} = {c.approval.policy}>>,
    <<"APPROVAL_TIME_MISMATCH", {s.approval.time, a.time} = {c.approval.time}>>,
    <<"APPROVAL_CONTEXT_REF_MISMATCH",
        a.context = [id |-> c.id, sha |-> ContentSha(c)] /\ c.sha = ContentSha(c)>>,
    <<"APPROVAL_SNAPSHOT_REF_MISMATCH",
        a.snapshot = [id |-> s.id, sha |-> ContentSha(s)] /\ s.sha = ContentSha(s)>>,
    <<"APPROVAL_CONTENT_HASH_MISMATCH", a.sha = ContentSha(a)>>,
    <<"APPROVAL_CONTEXT_NOT_APPROVED", c.status = "approved">>,
    <<"APPROVAL_SNAPSHOT_NOT_APPROVED", s.status = "approved">>,
    <<"APPROVAL_SNAPSHOT_BINDING_MISMATCH", c.snapshot = a.snapshot>>>>
  <2>1. ApprovalIssue(c, s, a) = FirstIssue(checks)
    BY DEF ApprovalIssue
  <2>2. DOMAIN checks = 1..9
    OBVIOUS
  <2>3. \A i \in 1..9 : checks[i][1] \notin ClosureCodes
    BY DEF ClosureCodes
  <2> HIDE DEF checks
  <2>4. FirstIssue(checks) = "ok" \/ \E i \in 1..9 : FirstIssue(checks) = checks[i][1]
    BY <2>2, FirstIssueIsOne
  <2> QED
    BY <2>1, <2>3, <2>4 DEF ClosureCodes
<1> DEFINE closure == HandoffIssue(r.closure)
           approval == ApprovalIssue(r.context, r.snapshot, r.approvalRecord)
           checks == <<
            <<closure, closure = "ok">>,
            <<"HANDOFF_BINDING_REQUEST_MISMATCH", r.closure.payload = r.binding>>,
            <<approval, approval = "ok">>,
            <<"PROJECT_REF_MISMATCH", r.project = r.context.project>>,
            <<"RULE_REF_MISMATCH", r.context.rule = r.binding.rule>>,
            <<"REQUEST_NOT_IN_CONTEXT", r.binding.requestId \in r.context.requestIds>>>>
<1>3. InputIssue(r) = FirstIssue(checks)
  BY DEF InputIssue
<1> HIDE DEF closure, approval
<1>4. DOMAIN checks = 1..6
  OBVIOUS
<1>5. \A i \in 1..6 : checks[i][1] \notin ClosureCodes
  BY <1>1, <1>2 DEF ClosureCodes, closure, approval
<1> HIDE DEF checks
<1>6. FirstIssue(checks) = "ok" \/ \E i \in 1..6 : FirstIssue(checks) = checks[i][1]
  BY <1>4, FirstIssueIsOne
<1> QED
  BY <1>3, <1>5, <1>6 DEF ClosureCodes

(* Nor are columns, fields, keys, filters, the grain, join grants, the     *)
(* evidence or the encoding.                                               *)
LEMMA OtherCodes ==
  ASSUME NEW r
  PROVE  /\ FieldsIssue(r) \notin ClosureCodes
         /\ KeysIssue(r) \notin ClosureCodes
         /\ FiltersIssue(r) \notin ClosureCodes
         /\ GrainIssue(r) \notin ClosureCodes
         /\ JoinGrantsIssue(r) \notin ClosureCodes
         /\ EvidenceIssue(r) \notin ClosureCodes
         /\ EncodingIssue(r) \notin ClosureCodes
<1>1. \A g : ColumnIssue(r, g) \notin ClosureCodes
  BY DEF ColumnIssue, ClosureCodes
<1>2. FieldsIssue(r) \notin ClosureCodes
  <2>1. \A f : FieldIssue(r, f) \notin ClosureCodes
    BY <1>1 DEF FieldIssue, ClosureCodes
  <2> QED
    BY <2>1 DEF FieldsIssue, FirstOf, ClosureCodes
<1>3. KeysIssue(r) \notin ClosureCodes
  <2>1. \A p : KeyIssue(r, p) \notin ClosureCodes
    BY DEF KeyIssue, ClosureCodes
  <2> QED
    BY <2>1 DEF KeysIssue, FirstOf, ClosureCodes
<1>4. FiltersIssue(r) \notin ClosureCodes
  BY DEF FiltersIssue, FirstOf, ClosureCodes
<1>5. GrainIssue(r) \notin ClosureCodes
  BY DEF GrainIssue, ClosureCodes
<1>6. JoinGrantsIssue(r) \notin ClosureCodes
  <2>1. \A j : JoinIssue(r, j) \notin ClosureCodes
    BY <1>1 DEF JoinIssue, ClosureCodes
  <2> QED
    BY <2>1 DEF JoinGrantsIssue, FirstOf, ClosureCodes
<1>7. EvidenceIssue(r) \notin ClosureCodes
  BY DEF EvidenceIssue, ClosureCodes
<1>8. EncodingIssue(r) \notin ClosureCodes
  BY DEF EncodingIssue, ClosureCodes
<1> QED
  BY <1>2, <1>3, <1>4, <1>5, <1>6, <1>7, <1>8

-----------------------------------------------------------------------------
(* The closure                                                             *)

(* The cuts of the module and those of JoinGraph_proofs are the same.      *)
LEMMA CutsOfGrants ==
  /\ \A j, T : Crosses(j, T) <=> Cuts(ends, j, T)
  /\ \A S, G : Connects(S, G) <=> Spans(ends, S, G)
<1>1. \A j, T : Crosses(j, T) <=> Cuts(ends, j, T)
  BY DEF Crosses, Cuts, Left, Right
<1>2. ASSUME NEW S, NEW G PROVE Connects(S, G) <=> Spans(ends, S, G)
  <2>1. \A T : T \notin {{}, S} <=> T # {} /\ T # S
    OBVIOUS
  <2> QED
    BY <1>1, <2>1 DEF Connects, Spans
<1> QED
  BY <1>1, <1>2

(* The usable grants join required relations; there are finitely many.     *)
LEMMA UsableGrants ==
  ASSUME GrantsSound
  PROVE  /\ IsFiniteSet(Usable) /\ Between \subseteq Usable /\ IsFiniteSet(Between)
         /\ \A G \in SUBSET Usable : IsFiniteSet(G) /\ Inside(ends, required, G)
<1>1. Usable \subseteq DOMAIN ends /\ Between \subseteq Usable
  BY DEF Usable, Between
<1>2. IsFiniteSet(Usable)
  BY <1>1, FS_Subset DEF GrantsSound
<1>3. \A G \in SUBSET Usable : IsFiniteSet(G)
  BY <1>2, FS_Subset
<1>4. \A j \in Usable : ends[j][1] \in required /\ ends[j][2] \in required
  BY DEF Usable, Left, Right
<1> QED
  BY <1>1, <1>2, <1>3, <1>4 DEF Inside

(* Grants that connect the relations, one fewer than these, are a tree.    *)
LEMMA EnoughIsTree ==
  ASSUME GrantsSound, required # {}, NEW G \in SUBSET Usable,
         Spans(ends, required, G), Cardinality(required) = Cardinality(G) + 1
  PROVE  G \in Trees
<1>1. IsFiniteSet(G) /\ Inside(ends, required, G) /\ IsFiniteSet(required)
  BY UsableGrants DEF GrantsSound
<1>2. \A j \in G : ~Spans(ends, required, G \ {j})
  BY <1>1, TreeIsMinimal
<1> QED
  BY <1>2, CutsOfGrants DEF Trees

(* No tree has a grant that joins a relation with itself.                  *)
LEMMA TreesAreBetween ==
  ASSUME NEW G \in Trees
  PROVE  G \subseteq Between /\ Spans(ends, required, G)
<1>1. G \in SUBSET Usable /\ Spans(ends, required, G)
      /\ \A j \in G : ~Spans(ends, required, G \ {j})
  BY CutsOfGrants DEF Trees
<1>2. ASSUME NEW j \in G, ends[j][1] = ends[j][2] PROVE FALSE
  <2>1. \A T : ~Cuts(ends, j, T)
    BY <1>2 DEF Cuts
  <2>2. Spans(ends, required, G \ {j})
    BY <1>1, <2>1 DEF Spans
  <2> QED
    BY <1>1, <2>2
<1> QED
  BY <1>1, <1>2 DEF Usable, Between, Left, Right

(* Where the grants between the relations connect them with none to spare, *)
(* they are the only tree.                                                 *)
LEMMA OnlyTree ==
  ASSUME GrantsSound, required # {}, Spans(ends, required, Between),
         Cardinality(required) = Cardinality(Between) + 1
  PROVE  Trees = {Between}
<1>1. Between \in Trees
  BY UsableGrants, EnoughIsTree
<1>2. ASSUME NEW G \in Trees PROVE G = Between
  <2>1. G \subseteq Between /\ Spans(ends, required, G)
    BY TreesAreBetween
  <2>2. ASSUME NEW j \in Between, j \notin G PROVE FALSE
    <3>1. G \subseteq Between \ {j}
      BY <2>1, <2>2
    <3>2. Spans(ends, required, Between \ {j})
      BY <2>1, <3>1, SpansMore
    <3>3. ~Spans(ends, required, Between \ {j})
      BY UsableGrants, TreeIsMinimal DEF GrantsSound
    <3> QED
      BY <3>2, <3>3
  <2> QED
    BY <2>1, <2>2
<1> QED
  BY <1>1, <1>2

(* Two different trees are more than one.                                  *)
LEMMA SeveralTrees ==
  ASSUME GrantsSound, NEW G1 \in Trees, NEW G2 \in Trees, G1 # G2
  PROVE  Cardinality(Trees) > 1
<1>1. IsFiniteSet(Trees)
  <2>1. IsFiniteSet(SUBSET Usable)
    BY UsableGrants, FS_SUBSET
  <2>2. Trees \in SUBSET (SUBSET Usable)
    BY DEF Trees
  <2> QED
    BY <2>1, <2>2, FS_Subset
<1>2. Cardinality(Trees) \in Nat
  BY <1>1, FS_CardinalityType
<1>3. Cardinality(Trees) # 0
  BY <1>1, FS_EmptySet
<1>4. Cardinality(Trees) # 1
  BY <1>1, FS_Singleton
<1> QED
  BY <1>2, <1>3, <1>4

(* When nothing is pending any more, the traversal has seen all that is    *)
(* joined with the first relation, and has decided rightly.                *)
LEMMA TraversalDecides ==
  ASSUME GrantsSound, Traversal, pc = "closure", pending = {}
  PROVE  /\ required # {}
         /\ seen # required => Trees = {}
         /\ seen = required => Spans(ends, required, candidates)
         /\ seen = required /\ Cardinality(candidates) # Cardinality(required) - 1
              => Cardinality(Trees) > 1
         /\ Cardinality(candidates) \in Nat /\ Cardinality(required) \in Nat
<1> USE DEF Traversal
<1>1. required # {}
  BY FS_EmptySet
<1>2. Least(required) \in required /\ Least(required) \in seen /\ seen \subseteq required
  OBVIOUS
<1>3. candidates = Between /\ IsFiniteSet(candidates) /\ IsFiniteSet(required)
  BY UsableGrants DEF GrantsSound
<1>4. Inside(ends, required, candidates)
  BY UsableGrants, <1>3
<1>5. \A j \in candidates : ends[j][1] # ends[j][2]
  BY <1>3 DEF Between, Left, Right
<1>6. ASSUME seen # required PROVE Trees = {}
  <2>1. SUFFICES ASSUME NEW G \in Trees PROVE FALSE
    OBVIOUS
  <2>2. PICK j \in G : Cuts(ends, j, seen)
    BY <1>2, <1>6, TreesAreBetween DEF Spans
  <2>3. j \in candidates
    BY <1>3, TreesAreBetween
  <2> QED
    BY <2>2, <2>3 DEF Cuts, Left, Right
<1>7. ASSUME seen = required PROVE Spans(ends, required, candidates)
  <2> SUFFICES ASSUME NEW T \in SUBSET required, T # {}, T # required,
                      \A j \in candidates : ~Cuts(ends, j, T)
               PROVE  FALSE
    BY DEF Spans
  <2>1. CASE Least(required) \in T
    BY <1>7, <2>1
  <2>2. CASE Least(required) \notin T
    <3>1. \A j \in candidates : ~Cuts(ends, j, required \ T)
      BY <1>4 DEF Cuts, Inside
    <3>2. required \ T \in SUBSET required /\ Least(required) \in required \ T
      BY <1>2, <2>2
    <3>3. seen \subseteq required \ T
      BY <3>1, <3>2
    <3> QED
      BY <1>7, <3>3
  <2> QED
    BY <2>1, <2>2
<1>8. Cardinality(candidates) \in Nat /\ Cardinality(required) \in Nat
  BY <1>3, FS_CardinalityType
<1>9. ASSUME seen = required, Cardinality(candidates) # Cardinality(required) - 1
      PROVE  Cardinality(Trees) > 1
  <2>1. Cardinality(required) # Cardinality(candidates) + 1
    BY <1>8, <1>9
  <2>2. PICK G1 \in SUBSET candidates, G2 \in SUBSET candidates :
            /\ G1 # G2
            /\ Spans(ends, required, G1) /\ Cardinality(required) = Cardinality(G1) + 1
            /\ Spans(ends, required, G2) /\ Cardinality(required) = Cardinality(G2) + 1
    BY <1>1, <1>3, <1>4, <1>5, <1>7, <1>9, <2>1, TwoTrees
  <2>3. G1 \in SUBSET Usable /\ G2 \in SUBSET Usable
    BY <1>3, UsableGrants
  <2>4. G1 \in Trees /\ G2 \in Trees
    BY <1>1, <2>2, <2>3, EnoughIsTree
  <2> QED
    BY <2>2, <2>4, SeveralTrees
<1> QED
  BY <1>1, <1>6, <1>7, <1>8, <1>9

-----------------------------------------------------------------------------
(* The plan                                                                *)

(* factValue is a field, so its relation is required.                      *)
LEMMA BaseRequired ==
  ASSUME FieldsSound, GrantsSound, Past(FromCandidates)
  PROVE  Base \in required
<1>1. \E f \in fields : f.id = "factValue"
  BY DEF FieldsSound, Past, FromKeys, FromGrants
<1>2. FactValue \in fields
  BY <1>1 DEF FactValue
<1> QED
  BY <1>2 DEF GrantsSound, Base

(* The relations joined by a part of the plan.                             *)
LEMMA JoinedRelations ==
  ASSUME NEW i
  PROVE  /\ Base \in Joined(i)
         /\ \A k \in 1..i : Left(plan[k]) \in Joined(i) /\ Right(plan[k]) \in Joined(i)
         /\ Inside(ends, Joined(i), Prefix(i))
<1>1. \A k \in 1..i : Left(plan[k]) \in Joined(i) /\ Right(plan[k]) \in Joined(i)
  BY DEF Joined
<1>2. Inside(ends, Joined(i), Prefix(i))
  BY <1>1 DEF Inside, Prefix, Left, Right
<1> QED
  BY <1>1, <1>2 DEF Joined

(* The first joins of the plan connect what they join.                     *)
LEMMA PrefixConnects ==
  ASSUME PlanGrows, NEW i \in 0..Len(plan)
  PROVE  Prefix(i) \subseteq selected /\ Spans(ends, Joined(i), Prefix(i))
<1>1. Len(plan) \in Nat /\ \A k \in 1..i : plan[k] \in selected
  BY DEF PlanGrows
<1>2. CASE i = 0
  <2>1. Joined(i) = {Base}
    BY <1>2 DEF Joined
  <2> QED
    BY <1>1, <2>1 DEF Spans, Prefix
<1>3. CASE i # 0
  <2>1. i \in 1..Len(plan)
    BY <1>1, <1>3
  <2> QED
    BY <1>1, <2>1 DEF PlanGrows, Prefix
<1> QED
  BY <1>2, <1>3

(* Joins none of which leads out of T do not lead out of T.                *)
LEMMA StaysWithin ==
  ASSUME PlanGrows, NEW i \in 0..Len(plan), NEW T, Base \in T,
         \A j \in Prefix(i) : ~Cuts(ends, j, T)
  PROVE  Joined(i) \subseteq T
<1> SUFFICES ASSUME T \cap Joined(i) # Joined(i) PROVE FALSE
  OBVIOUS
<1>1. T \cap Joined(i) # {} /\ T \cap Joined(i) \in SUBSET Joined(i)
  BY JoinedRelations
<1>2. PICK j \in Prefix(i) : Cuts(ends, j, T \cap Joined(i))
  BY <1>1, PrefixConnects DEF Spans
<1>3. ends[j][1] \in Joined(i) /\ ends[j][2] \in Joined(i)
  BY JoinedRelations DEF Inside
<1> QED
  BY <1>2, <1>3 DEF Cuts

(* What the selection of grants gives the search.                          *)
LEMMA SelectedTree ==
  ASSUME GrantsSound, TreeSelected, Past(FromEvidence), selected # {}
  PROVE  /\ selected = Between /\ required # {} /\ IsFiniteSet(required)
         /\ Spans(ends, required, selected) /\ Inside(ends, required, selected)
         /\ \A j \in selected : ~Spans(ends, required, selected \ {j})
         /\ IsFiniteSet(selected) /\ selected \subseteq Nat
<1>1. /\ selected = Between /\ Spans(ends, required, selected)
      /\ Cardinality(required) = Cardinality(selected) + 1
      /\ Cardinality(required) > 1
  BY DEF TreeSelected
<1>2. required # {}
  BY <1>1, FS_EmptySet
<1>3. IsFiniteSet(required) /\ IsFiniteSet(selected) /\ Inside(ends, required, selected)
  BY <1>1, UsableGrants DEF GrantsSound
<1>4. \A j \in selected : ~Spans(ends, required, selected \ {j})
  BY <1>1, <1>2, <1>3, TreeIsMinimal
<1>5. selected \subseteq Nat
  BY <1>1 DEF Between, GrantsSound
<1> QED
  BY <1>1, <1>2, <1>3, <1>4, <1>5

(* The edge that the search looks at next leads from the current relation. *)
LEMMA NextEdge ==
  ASSUME GrantsSound, TreeSelected, Search, pc = "plan", edges # {}
  PROVE  /\ Least(edges) \in edges /\ Least(edges) \in selected
         /\ current \in accumulated
         /\ \/ Left(Least(edges)) = current /\ NewEnd(Least(edges)) = Right(Least(edges))
            \/ Right(Least(edges)) = current /\ NewEnd(Least(edges)) = Left(Least(edges))
<1>1. edges \subseteq selected /\ selected # {} /\ current \in accumulated
  BY DEF Search
<1>2. IsFiniteSet(edges) /\ edges \in SUBSET Nat
  BY <1>1, SelectedTree, FS_Subset DEF Past, FromEvidence, FromBase, FromPlan
<1>3. Least(edges) \in edges
  BY <1>2, LeastIsLeast
<1>4. current \in {Left(Least(edges)), Right(Least(edges))}
  BY <1>3 DEF Search
<1> QED
  BY <1>1, <1>3, <1>4 DEF NewEnd

(* A search that has run dry has reached every required relation.          *)
LEMMA SearchReaches ==
  ASSUME GrantsSound, TreeSelected, Search, pc = "plan", edges = {}, queue = <<>>
  PROVE  accumulated = required
<1>1. Past(FromEvidence) /\ selected # {} /\ accumulated \subseteq required
  BY DEF Search, Past, FromEvidence, FromBase, FromPlan
<1>2. accumulated # {}
  BY JoinedRelations DEF Search
<1>3. ASSUME accumulated # required PROVE FALSE
  <2>1. PICK j \in selected : Cuts(ends, j, accumulated)
    BY <1>1, <1>2, <1>3, SelectedTree DEF Spans
  <2>2. Elements(queue) = {}
    BY DEF Elements
  <2>3. \A c, d \in {Left(j), Right(j)} : c \in accumulated => d \in accumulated
    BY <2>2 DEF Search
  <2> QED
    BY <2>1, <2>3 DEF Cuts, Left, Right
<1> QED
  BY <1>3

(* A direction conflict is met only at a grant that points back.           *)
LEMMA ConflictPointsBack ==
  ASSUME FieldsSound, GrantsSound, TreeSelected, PlanGrows, Search, pc = "plan", edges # {},
         NewEnd(Least(edges)) \notin accumulated, Conflicts(Least(edges))
  PROVE  \E j \in selected : PointsBack(j)
<1> DEFINE j == Least(edges)
<1>1. Past(FromEvidence) /\ Past(FromCandidates) /\ selected # {}
  BY DEF Search, Past, FromEvidence, FromBase, FromPlan, FromCandidates
<1>2. j \in selected /\ current \in accumulated
  BY NextEdge
<1>3. Right(j) = current /\ Left(j) \notin accumulated /\ Grant(request, j).type = "left"
  BY NextEdge DEF Conflicts
<1> HIDE DEF j
<1>4. PICK T0 \in SUBSET required :
        T0 # {} /\ T0 # required /\ \A k \in selected \ {j} : ~Cuts(ends, k, T0)
  BY <1>1, <1>2, SelectedTree DEF Spans
<1>5. Cuts(ends, j, T0)
  BY <1>1, <1>4, SelectedTree DEF Spans
<1> DEFINE T == IF Base \in T0 THEN T0 ELSE required \ T0
<1>6. T \in SUBSET required /\ Base \in T
  BY <1>1, BaseRequired
<1>7. Inside(ends, required, selected)
  BY <1>1, SelectedTree
<1>8. Cuts(ends, j, T) /\ \A k \in selected \ {j} : ~Cuts(ends, k, T)
  BY <1>2, <1>4, <1>5, <1>7 DEF Cuts, Inside
<1> HIDE DEF T
<1>9. accumulated = Joined(Len(plan)) /\ Len(plan) \in 0..Len(plan)
  BY DEF Search, PlanGrows
<1>10. Prefix(Len(plan)) \subseteq selected \ {j}
  <2>1. Prefix(Len(plan)) \subseteq selected
    BY <1>9, PrefixConnects
  <2>2. Inside(ends, Joined(Len(plan)), Prefix(Len(plan)))
    BY JoinedRelations
  <2>3. j \notin Prefix(Len(plan))
    BY <1>3, <1>9, <2>2 DEF Inside, Left
  <2> QED
    BY <2>1, <2>3
<1>11. accumulated \subseteq T
  BY <1>6, <1>8, <1>9, <1>10, StaysWithin
<1>12. Right(j) \in T /\ Left(j) \notin T
  BY <1>2, <1>3, <1>8, <1>11 DEF Cuts, Left, Right
<1>13. \A k \in selected \ {j} : ~Crosses(k, T)
  BY <1>8, CutsOfGrants
<1>14. PointsBack(j)
  BY <1>3, <1>6, <1>12, <1>13 DEF PointsBack
<1> QED
  BY <1>2, <1>14

(* A complete plan is made of all the selected grants.                     *)
LEMMA PlanIsSelected ==
  ASSUME GrantsSound, TreeSelected, PlanGrows, PlanComplete, IsResolved, selected # {}
  PROVE  selected = Prefix(Len(plan))
<1>1. Past(FromEvidence) /\ Past({"values"}) /\ Len(plan) \in 0..Len(plan)
  BY DEF Past, PlanGrows
<1>2. Joined(Len(plan)) = required
  BY <1>1 DEF PlanComplete
<1>3. Prefix(Len(plan)) \subseteq selected /\ Spans(ends, required, Prefix(Len(plan)))
  BY <1>1, <1>2, PrefixConnects
<1>4. ASSUME NEW j \in selected, j \notin Prefix(Len(plan)) PROVE FALSE
  <2>1. Prefix(Len(plan)) \subseteq selected \ {j}
    BY <1>3, <1>4
  <2>2. Spans(ends, required, selected \ {j})
    BY <1>3, <2>1, SpansMore
  <2> QED
    BY <1>1, <2>2, SelectedTree
<1> QED
  BY <1>3, <1>4

(* No grant of a complete plan points back.                                *)
LEMMA NothingPointsBack ==
  ASSUME GrantsSound, TreeSelected, PlanGrows, PlanComplete, IsResolved,
         NEW j \in selected, PointsBack(j)
  PROVE  FALSE
<1>1. PICK i \in 1..Len(plan) : j = plan[i]
  BY PlanIsSelected DEF Prefix
<1>2. Len(plan) \in Nat /\ i - 1 \in 0..Len(plan)
  BY DEF PlanGrows
<1>3. PICK T \in SUBSET required :
        /\ Base \in T /\ Right(j) \in T /\ Left(j) \notin T
        /\ \A k \in selected \ {j} : ~Crosses(k, T)
  BY DEF PointsBack
<1>4. Crosses(j, Joined(i - 1)) /\ Left(j) \in Joined(i - 1)
  BY <1>1 DEF PlanGrows, PointsBack
<1>5. j \notin Prefix(i - 1)
  <2>1. Inside(ends, Joined(i - 1), Prefix(i - 1))
    BY JoinedRelations
  <2> QED
    BY <1>4, <2>1, CutsOfGrants DEF Inside, Cuts
<1>6. Prefix(i - 1) \subseteq selected
  BY <1>2, PrefixConnects
<1>7. \A k \in Prefix(i - 1) : ~Cuts(ends, k, T)
  BY <1>3, <1>5, <1>6, CutsOfGrants
<1>8. Joined(i - 1) \subseteq T
  BY <1>2, <1>3, <1>7, StaysWithin
<1> QED
  BY <1>3, <1>4, <1>8

-----------------------------------------------------------------------------
(* What a step leaves alone stays true                                     *)

(* What was resolved of the fields.                                        *)
LEMMA KeepFields ==
  ASSUME FieldsSound, UNCHANGED <<name, fields>>, Past(FromKeys)' => Past(FromKeys)
  PROVE  FieldsSound'
BY DEF FieldsSound, request

(* What was resolved of the entity keys.                                   *)
LEMMA KeepKeys ==
  ASSUME KeysSound, UNCHANGED <<name, fields, keys>>, Past(FromGrants)' => Past(FromGrants)
  PROVE  KeysSound'
BY DEF KeysSound, request

(* What was resolved of the join grants.                                   *)
LEMMA KeepGrants ==
  ASSUME GrantsSound, UNCHANGED <<name, fields, required, ends>>,
         Past(FromCandidates)' => Past(FromCandidates)
  PROVE  GrantsSound'
BY DEF GrantsSound, request

(* The selected grants.                                                    *)
LEMMA KeepTree ==
  ASSUME TreeSelected, UNCHANGED <<required, ends, selected>>,
         Past(FromEvidence)' => Past(FromEvidence)
  PROVE  TreeSelected'
BY DEF TreeSelected, Between, Left, Right

(* What was found of the evidence.                                         *)
LEMMA KeepEvidence ==
  ASSUME EvidenceSound, UNCHANGED <<name, selected>>, Past(FromBase)' => Past(FromBase)
  PROVE  EvidenceSound'
BY DEF EvidenceSound, EvidenceIssue, Current, request

\* The relations joined so far depend on nothing else.
LEMMA KeepJoined ==
  ASSUME UNCHANGED <<name, fields, ends, plan>>, NEW i
  PROVE  Joined(i)' = Joined(i) /\ Prefix(i)' = Prefix(i)
BY DEF Joined, Prefix, Base, FactValue, request, Left, Right

(* The plan so far.                                                        *)
LEMMA KeepPlan ==
  ASSUME PlanGrows, UNCHANGED <<name, fields, ends, selected, plan>>
  PROVE  PlanGrows'
<1>1. \A i : Joined(i)' = Joined(i) /\ Prefix(i)' = Prefix(i)
  BY KeepJoined
<1> QED
  BY <1>1 DEF PlanGrows, request, Crosses, Left, Right

(* The completed plan.                                                     *)
LEMMA KeepComplete ==
  ASSUME PlanComplete, UNCHANGED <<name, fields, ends, required, selected, plan>>,
         Past({"values"})' => Past({"values"})
  PROVE  PlanComplete'
<1>1. \A i : Joined(i)' = Joined(i)
  BY KeepJoined
<1> QED
  BY <1>1 DEF PlanComplete

(* What a request that is blocked elsewhere reports.                       *)
LEMMA BlockedReport ==
  ASSUME NEW code, code \notin ClosureCodes, Block(code)
  PROVE  Reported' /\ ~IsResolved'
BY DEF Reported, Block, Blocked, IsResolved, IsBlocked, ClosureCodes

-----------------------------------------------------------------------------
(* The steps                                                               *)

(* The invariant holds of every request before its first gate.             *)
LEMMA InitEstablishesIInv == Init => IInv
<1> SUFFICES ASSUME Init PROVE IInv
  OBVIOUS
<1> USE DEF Init
<1>1. IsFiniteSet({})
  BY FS_EmptySet
<1>2. IsFiniteSet(DOMAIN ends) /\ DOMAIN ends \subseteq Nat
  BY <1>1
<1>3. \A S \in {FromKeys, FromGrants, FromCandidates, FromEvidence, FromBase, {"values"}} : ~Past(S)
  BY DEF Past, IsResolved, FromKeys, FromGrants, FromCandidates, FromEvidence, FromBase, FromPlan
<1>4. NotYet
  BY DEF NotYet
<1>5. FieldsSound /\ KeysSound /\ GrantsSound
  BY <1>1, <1>2, <1>3 DEF FieldsSound, KeysSound, GrantsSound
<1>6. Traversal /\ Search /\ Reported
  BY DEF Traversal, Search, Reported
<1>7. TreeSelected /\ EvidenceSound /\ PlanComplete
  BY <1>3 DEF TreeSelected, EvidenceSound, PlanComplete
<1>8. PlanGrows
  BY DEF PlanGrows
<1>9. pc \in DOMAIN Rank
  BY DEF Rank
<1> QED
  BY <1>4, <1>5, <1>6, <1>7, <1>8, <1>9 DEF IInv

(* The later gates do not matter before them.                              *)
LEMMA PastShrinks ==
  ASSUME pc' # "done" \/ ~IsResolved'
  PROVE  /\ pc' \notin FromKeys => ~Past(FromKeys)'
         /\ pc' \notin FromGrants => ~Past(FromGrants)'
         /\ pc' \notin FromCandidates => ~Past(FromCandidates)'
         /\ pc' \notin FromEvidence => ~Past(FromEvidence)'
         /\ pc' \notin FromBase => ~Past(FromBase)'
         /\ pc' # "values" => ~Past({"values"})'
BY DEF Past, IsResolved

(* A gate before the evidence that lets the request pass, or blocks it,    *)
(* without computing anything.                                             *)
LEMMA EarlyGateKeeps ==
  ASSUME IInv, UNCHANGED <<name, fields, keys, closureVars, planVars>>,
         NEW issue, issue \notin ClosureCodes,
         \/ pc = "input" /\ Gate(issue, "fields")
         \/ pc = "filters" /\ Gate(issue, "grain")
         \/ /\ pc = "grain" /\ Gate(issue, "grants")
            /\ issue = "ok" =>
                \A k \in keys : request.context.columnGrants[k.field.grant].relation
                                    = request.context.grains[request.binding.entity]
  PROVE  IInv'
<1> USE DEF IInv
<1>1. UNCHANGED <<name, fields, keys, required, ends, candidates, seen, pending, selected,
                  accumulated, queue, current, edges, plan>>
  BY DEF closureVars, planVars
<1>2. \/ Block(issue)
      \/ Pass("fields") /\ pc = "input"
      \/ Pass("grain") /\ pc = "filters"
      \/ Pass("grants") /\ pc = "grain" /\ issue = "ok"
  BY DEF Gate
<1>3. Reported' /\ ~IsResolved'
  <2>1. CASE Block(issue)
    BY <2>1, BlockedReport
  <2>2. CASE pc' # "done"
    BY <2>2 DEF Reported, IsResolved
  <2> QED
    BY <1>2, <2>1, <2>2 DEF Pass
<1>4. pc' \in {"fields", "grain", "grants", "done"} /\ name' \in DOMAIN Requests /\ pc' \in DOMAIN Rank
  BY <1>1, <1>2 DEF Block, Pass, Rank
<1>5. NotYet'
  BY <1>1, <1>2 DEF NotYet, Block, Pass, FromCandidates, FromEvidence, FromBase, FromPlan
<1>6. FieldsSound'
  BY <1>1, <1>2, <1>3, KeepFields DEF Past, Block, Pass, FromKeys, FromGrants, FromCandidates,
       FromEvidence, FromBase, FromPlan
<1>7. KeysSound'
  <2>1. CASE pc' = "grants"
    BY <1>1, <1>2, <2>1 DEF KeysSound, request, Block, Pass
  <2>2. CASE pc' # "grants"
    <3>1. ~Past(FromGrants)'
      BY <1>3, <1>4, <2>2, PastShrinks DEF FromGrants, FromCandidates, FromEvidence, FromBase,
           FromPlan
    <3> QED
      BY <1>1, <3>1, KeepKeys
  <2> QED
    BY <2>1, <2>2
<1>8. ~Past(FromCandidates)' /\ ~Past(FromEvidence)' /\ ~Past(FromBase)' /\ ~Past({"values"})'
  BY <1>3, <1>4, PastShrinks DEF FromCandidates, FromEvidence, FromBase, FromPlan
<1>9. GrantsSound' /\ TreeSelected' /\ EvidenceSound' /\ PlanGrows' /\ PlanComplete'
  BY <1>1, <1>8, KeepGrants, KeepTree, KeepEvidence, KeepPlan, KeepComplete
<1>10. Traversal' /\ Search'
  BY <1>4 DEF Traversal, Search
<1> QED
  BY <1>3, <1>4, <1>5, <1>6, <1>7, <1>9, <1>10

(* The relation of the entity is that of the keys.                         *)
LEMMA GrainOk ==
  ASSUME GrainIssue(request) = "ok"
  PROVE  \A k \in keys : request.context.columnGrants[k.field.grant].relation
                             = request.context.grains[request.binding.entity]
BY DEF GrainIssue

(* The gates that compute nothing: input, filters and entity grain.        *)
LEMMA GatesKeep ==
  ASSUME IInv, ValidateInput \/ ResolveFilters \/ MapEntityGrain
  PROVE  IInv'
<1>1. CASE ValidateInput
  BY <1>1, InputCodes, EarlyGateKeeps DEF ValidateInput
<1>2. CASE ResolveFilters
  BY <1>2, OtherCodes, EarlyGateKeeps DEF ResolveFilters
<1>3. CASE MapEntityGrain
  BY <1>3, OtherCodes, GrainOk, EarlyGateKeeps DEF MapEntityGrain
<1> QED
  BY <1>1, <1>2, <1>3

(* The fields: each is the column that its authorization grants.           *)
LEMMA ResolveFieldsKeeps ==
  ASSUME IInv, ResolveFields
  PROVE  IInv'
<1> USE DEF IInv
<1> DEFINE r == request
           issue == FieldsIssue(r)
<1>1. /\ pc = "fields" /\ Gate(issue, "keys")
      /\ fields' = IF issue = "ok" THEN ResolvedFields(r) ELSE {}
      /\ UNCHANGED <<name, keys, required, ends, candidates, seen, pending, selected,
                     accumulated, queue, current, edges, plan>>
  BY DEF ResolveFields, closureVars, planVars
<1>2. \/ Block(issue) /\ issue # "ok"
      \/ Pass("keys") /\ issue = "ok"
  BY <1>1 DEF Gate
<1>3. Reported' /\ ~IsResolved' /\ pc' \in {"keys", "done"}
  <2>1. CASE Block(issue)
    BY <2>1, BlockedReport, OtherCodes DEF Block
  <2>2. CASE Pass("keys")
    BY <2>2 DEF Reported, IsResolved, Pass
  <2> QED
    BY <1>2, <2>1, <2>2
<1>4. keys = {} /\ selected = {} /\ plan = <<>> /\ ~Past(FromCandidates)
  BY <1>1 DEF NotYet, Past, IsResolved, FromCandidates, FromEvidence, FromBase, FromPlan
<1>5. NotYet'
  BY <1>1, <1>3 DEF NotYet, FromCandidates, FromEvidence, FromBase, FromPlan
<1>6. FieldsSound'
  <2>1. CASE issue # "ok"
    <3>1. fields' = {} /\ ~Past(FromKeys)'
      BY <1>1, <1>2, <1>3, <2>1, PastShrinks DEF Block, FromKeys, FromGrants, FromCandidates,
           FromEvidence, FromBase, FromPlan
    <3> QED
      BY <3>1, FS_EmptySet DEF FieldsSound
  <2>2. CASE issue = "ok"
    <3>1. WireModel(r)
      BY RequestsAssumption DEF request
    <3>2. fields' = {ResolvedField(r, r.binding.fields[i]) : i \in DOMAIN r.binding.fields}
      BY <1>1, <2>2 DEF ResolvedFields
    <3>3. IsFiniteSet(fields')
      <4> DEFINE f == [i \in DOMAIN r.binding.fields |-> ResolvedField(r, r.binding.fields[i])]
      <4>1. IsFiniteSet(DOMAIN r.binding.fields)
        BY <3>1, Positions DEF WireModel
      <4>2. IsFiniteSet({f[i] : i \in DOMAIN r.binding.fields})
        BY <4>1, ImageFinite
      <4>3. fields' = {f[i] : i \in DOMAIN r.binding.fields}
        BY <3>2
      <4> QED
        BY <4>2, <4>3
    <3>4. ASSUME NEW f \in fields'
          PROVE  ColumnIssue(r, f.grant) = "ok" /\ f.column = Physical(r, f.grant)
      <4>1. PICK i \in DOMAIN r.binding.fields : f = ResolvedField(r, r.binding.fields[i])
        BY <3>2
      <4>2. FieldIssue(r, r.binding.fields[i]) = "ok"
        BY <2>2, <3>1, FieldsOk
      <4> QED
        BY <4>1, <4>2 DEF FieldIssue, ResolvedField
    <3>5. \E f \in fields' : f.id = "factValue"
      <4>1. PICK i \in DOMAIN r.binding.fields : r.binding.fields[i].id = "factValue"
        BY <3>1 DEF WireModel
      <4>2. ResolvedField(r, r.binding.fields[i]) \in fields'
        BY <3>2
      <4> QED
        BY <4>1, <4>2 DEF ResolvedField
    <3>6. request' = r
      BY <1>1 DEF request
    <3> QED
      BY <3>3, <3>4, <3>5, <3>6 DEF FieldsSound
  <2> QED
    BY <2>1, <2>2
<1>7. /\ ~Past(FromGrants)' /\ ~Past(FromCandidates)' /\ ~Past(FromEvidence)' /\ ~Past(FromBase)'
      /\ ~Past({"values"})'
  BY <1>3, PastShrinks DEF FromGrants, FromCandidates, FromEvidence, FromBase, FromPlan
<1>8. KeysSound' /\ GrantsSound'
  BY <1>1, <1>4, <1>7 DEF KeysSound, GrantsSound
<1>9. TreeSelected' /\ EvidenceSound' /\ PlanComplete'
  BY <1>1, <1>7, KeepTree, KeepEvidence DEF PlanComplete
<1>10. PlanGrows'
  BY <1>1, <1>4 DEF PlanGrows
<1>11. Traversal' /\ Search'
  BY <1>3 DEF Traversal, Search
<1>12. name' \in DOMAIN Requests /\ pc' \in DOMAIN Rank
  BY <1>1, <1>3 DEF Rank
<1> QED
  BY <1>3, <1>5, <1>6, <1>8, <1>9, <1>10, <1>11, <1>12

(* The entity keys: each is a resolved field.                              *)
LEMMA ResolveEntityKeysKeeps ==
  ASSUME IInv, ResolveEntityKeys
  PROVE  IInv'
<1> USE DEF IInv
<1> DEFINE r == request
           issue == KeysIssue(r)
<1>1. /\ pc = "keys" /\ Gate(issue, "filters")
      /\ keys' = IF issue = "ok" THEN ResolvedKeys(r) ELSE {}
      /\ UNCHANGED <<name, fields, required, ends, candidates, seen, pending, selected,
                     accumulated, queue, current, edges, plan>>
  BY DEF ResolveEntityKeys, closureVars, planVars
<1>2. \/ Block(issue) /\ issue # "ok"
      \/ Pass("filters") /\ issue = "ok"
  BY <1>1 DEF Gate
<1>3. Reported' /\ ~IsResolved' /\ pc' \in {"filters", "done"}
  <2>1. CASE Block(issue)
    BY <2>1, BlockedReport, OtherCodes DEF Block
  <2>2. CASE Pass("filters")
    BY <2>2 DEF Reported, IsResolved, Pass
  <2> QED
    BY <1>2, <2>1, <2>2
<1>4. Past(FromKeys)
  BY <1>1 DEF Past, FromKeys
<1>5. NotYet'
  BY <1>1, <1>3 DEF NotYet, FromCandidates, FromEvidence, FromBase, FromPlan
<1>6. /\ ~Past(FromGrants)' /\ ~Past(FromCandidates)' /\ ~Past(FromEvidence)' /\ ~Past(FromBase)'
      /\ ~Past({"values"})'
  BY <1>3, PastShrinks DEF FromGrants, FromCandidates, FromEvidence, FromBase, FromPlan
<1>7. KeysSound'
  <2>1. ASSUME NEW k \in keys' PROVE k.field \in fields
    <3>1. issue = "ok" /\ k \in ResolvedKeys(r)
      BY <1>1
    <3>2. PICK i \in DOMAIN r.binding.keyParameters :
            k = [parameter |-> r.binding.keyParameters[i],
                 field |-> CHOOSE f \in KeyField(r, r.binding.keyParameters[i]) : TRUE]
      BY <3>1 DEF ResolvedKeys
    <3>3. KeyIssue(r, r.binding.keyParameters[i]) = "ok"
      BY <3>1, KeysOk, RequestsAssumption DEF request
    <3>4. KeyField(r, r.binding.keyParameters[i]) # {}
      BY <3>3 DEF KeyIssue
    <3>5. k.field \in KeyField(r, r.binding.keyParameters[i])
      BY <3>2, <3>4
    <3> QED
      BY <3>5 DEF KeyField
  <2> QED
    BY <1>1, <1>6, <2>1 DEF KeysSound
<1>8. FieldsSound' /\ GrantsSound' /\ TreeSelected' /\ EvidenceSound' /\ PlanGrows' /\ PlanComplete'
  BY <1>1, <1>4, <1>6, KeepFields, KeepGrants, KeepTree, KeepEvidence, KeepPlan, KeepComplete
<1>9. Traversal' /\ Search'
  BY <1>3 DEF Traversal, Search
<1>10. name' \in DOMAIN Requests /\ pc' \in DOMAIN Rank
  BY <1>1, <1>3 DEF Rank
<1> QED
  BY <1>3, <1>5, <1>7, <1>8, <1>9, <1>10

(* The join grants: every one of the context has its two columns.          *)
LEMMA ResolveJoinGrantsKeeps ==
  ASSUME IInv, ResolveJoinGrants
  PROVE  IInv'
<1> USE DEF IInv
<1> DEFINE r == request
           issue == JoinGrantsIssue(r)
<1>1. /\ pc = "grants" /\ Gate(issue, "candidates")
      /\ required' = {Relation(r, f.column) : f \in fields}
      /\ ends' = IF issue = "ok"
                 THEN [j \in DOMAIN r.context.joinGrants |->
                          <<Relation(r, LeftColumn(r, j)), Relation(r, RightColumn(r, j))>>]
                 ELSE <<>>
      /\ UNCHANGED <<name, fields, keys, candidates, seen, pending, selected,
                     accumulated, queue, current, edges, plan>>
  BY DEF ResolveJoinGrants, planVars
<1>2. \/ Block(issue) /\ issue # "ok"
      \/ Pass("candidates") /\ issue = "ok"
  BY <1>1 DEF Gate
<1>3. Reported' /\ ~IsResolved' /\ pc' \in {"candidates", "done"}
  <2>1. CASE Block(issue)
    BY <2>1, BlockedReport, OtherCodes DEF Block
  <2>2. CASE Pass("candidates")
    BY <2>2 DEF Reported, IsResolved, Pass
  <2> QED
    BY <1>2, <2>1, <2>2
<1>4. Past(FromKeys) /\ Past(FromGrants) /\ selected = {} /\ plan = <<>>
  BY <1>1 DEF NotYet, Past, FromKeys, FromGrants, FromEvidence, FromBase, FromPlan
<1>5. NotYet'
  BY <1>1, <1>3 DEF NotYet, FromCandidates, FromEvidence, FromBase, FromPlan
<1>6. ~Past(FromEvidence)' /\ ~Past(FromBase)' /\ ~Past({"values"})'
  BY <1>3, PastShrinks DEF FromEvidence, FromBase, FromPlan
<1>7. WireModel(r) /\ request' = r
  BY <1>1, RequestsAssumption DEF request
<1>8. IsFiniteSet(required') /\ required' \subseteq Nat
  <2>1. IsFiniteSet(required')
    <3> DEFINE g == [f \in fields |-> Relation(r, f.column)]
    <3>1. IsFiniteSet({g[f] : f \in fields})
      BY ImageFinite DEF FieldsSound
    <3>2. required' = {g[f] : f \in fields}
      BY <1>1
    <3> QED
      BY <3>1, <3>2
  <2>2. ASSUME NEW f \in fields PROVE Relation(r, f.column) \in Nat
    BY <1>7, RelationIsNumber DEF FieldsSound
  <2> QED
    BY <1>1, <2>1, <2>2
<1>9. IsFiniteSet(DOMAIN ends') /\ DOMAIN ends' \subseteq Nat
  <2>1. CASE issue = "ok"
    <3>1. DOMAIN ends' = DOMAIN r.context.joinGrants
      BY <1>1, <2>1
    <3> QED
      BY <1>7, <3>1, Positions DEF WireModel
  <2>2. CASE issue # "ok"
    <3>1. ends' = <<>>
      BY <1>1, <2>2
    <3> QED
      BY <3>1, FS_EmptySet
  <2> QED
    BY <2>1, <2>2
<1>10. GrantsSound'
  <2>1. CASE Past(FromCandidates)'
    <3>1. issue = "ok"
      BY <1>2, <1>3, <2>1 DEF Past, Block, FromCandidates, FromEvidence, FromBase, FromPlan
    <3>2. DOMAIN ends' = DOMAIN r.context.joinGrants
      BY <1>1, <3>1
    <3>3. \A j \in DOMAIN r.context.joinGrants : JoinIssue(r, j) = "ok"
      BY <1>7, <3>1, JoinGrantsOk
    <3> QED
      BY <1>1, <1>7, <1>8, <1>9, <3>2, <3>3 DEF GrantsSound
  <2>2. CASE ~Past(FromCandidates)'
    BY <1>8, <1>9, <2>2 DEF GrantsSound
  <2> QED
    BY <2>1, <2>2
<1>11. FieldsSound' /\ KeysSound'
  BY <1>1, <1>4, KeepFields, KeepKeys
<1>12. TreeSelected' /\ EvidenceSound' /\ PlanComplete'
  BY <1>1, <1>4, <1>6 DEF TreeSelected, EvidenceSound, PlanComplete
<1>13. PlanGrows'
  BY <1>1, <1>4 DEF PlanGrows
<1>14. Traversal' /\ Search'
  BY <1>3 DEF Traversal, Search
<1>15. name' \in DOMAIN Requests /\ pc' \in DOMAIN Rank
  BY <1>1, <1>3 DEF Rank
<1> QED
  BY <1>3, <1>5, <1>10, <1>11, <1>12, <1>13, <1>14, <1>15

(* The candidates: those between the relations, and the first relation is  *)
(* pending.                                                                *)
LEMMA SelectCandidatesKeeps ==
  ASSUME IInv, SelectCandidates
  PROVE  IInv'
<1> USE DEF IInv
<1>1. /\ pc = "candidates" /\ pc' \in {"evidence", "closure"}
      /\ UNCHANGED <<name, fields, keys, required, ends, seen, selected,
                     accumulated, queue, current, edges, plan, report>>
  BY DEF SelectCandidates, planVars
<1>2. seen = {} /\ selected = {} /\ plan = <<>> /\ edges = {} /\ queue = <<>>
  BY <1>1 DEF NotYet, FromCandidates, FromEvidence, FromBase, FromPlan
<1>3. Past(FromKeys) /\ Past(FromGrants) /\ Past(FromCandidates)
  BY <1>1 DEF Past, FromKeys, FromGrants, FromCandidates
<1>4. NotYet'
  BY <1>1, <1>2 DEF NotYet, FromCandidates, FromEvidence, FromBase, FromPlan
<1>5. FieldsSound' /\ KeysSound' /\ GrantsSound'
  BY <1>1, <1>3, KeepFields, KeepKeys, KeepGrants
<1>6. ~Past(FromBase)' /\ ~Past({"values"})' /\ ~IsResolved'
  BY <1>1 DEF Past, IsResolved, FromBase, FromPlan
<1>7. EvidenceSound' /\ PlanComplete' /\ Search' /\ Reported'
  BY <1>1, <1>6 DEF EvidenceSound, PlanComplete, Search, Reported
<1>8. PlanGrows'
  BY <1>1, <1>2 DEF PlanGrows
<1>9. name' \in DOMAIN Requests /\ pc' \in DOMAIN Rank
  BY <1>1 DEF Rank
<1>10. IsFiniteSet(required) /\ Cardinality(required) \in Nat
  BY FS_CardinalityType DEF GrantsSound
<1>11. CASE Cardinality(required) <= 1
  <2>1. pc' = "evidence"
    BY <1>11 DEF SelectCandidates
  <2>2. ~(Cardinality(required') > 1)
    BY <1>1, <1>10, <1>11
  <2>3. TreeSelected' /\ Traversal'
    BY <1>1, <1>2, <2>1, <2>2 DEF TreeSelected, Traversal
  <2> QED
    BY <1>4, <1>5, <1>7, <1>8, <1>9, <2>3
<1>12. CASE ~(Cardinality(required) <= 1)
  <2>1. pc' = "closure" /\ pending' = {Least(required)} /\ candidates' = Between
    BY <1>12 DEF SelectCandidates, Between
  <2>2. Cardinality(required) > 1 /\ required # {}
    BY <1>10, <1>12, FS_EmptySet
  <2>3. Least(required) \in required
    BY <1>10, <2>2, LeastIsLeast DEF GrantsSound
  <2>4. Between' = Between
    BY <1>1 DEF Between, Left, Right
  <2>5. Traversal'
    BY <1>1, <1>2, <2>1, <2>2, <2>3, <2>4 DEF Traversal
  <2>6. TreeSelected'
    BY <1>1, <1>2, <2>1 DEF TreeSelected, Past, IsResolved, FromEvidence, FromBase, FromPlan
  <2> QED
    BY <1>4, <1>5, <1>7, <1>8, <1>9, <2>5, <2>6
<1> QED
  BY <1>11, <1>12

(* A visit sees a pending relation and puts its neighbours on the stack.   *)
LEMMA VisitKeeps ==
  ASSUME IInv, Visit
  PROVE  IInv'
<1> USE DEF IInv
<1>1. /\ pc = "closure" /\ pc' = "closure"
      /\ UNCHANGED <<name, fields, keys, required, ends, candidates, selected,
                     accumulated, queue, current, edges, plan, report>>
  BY DEF Visit, planVars
<1>2. PICK c \in pending :
        seen' = seen \cup {c} /\ pending' = (pending \cup Neighbours(c)) \ seen'
  BY DEF Visit
<1>3. Past(FromKeys) /\ Past(FromGrants) /\ Past(FromCandidates)
  BY <1>1 DEF Past, FromKeys, FromGrants, FromCandidates
<1>4. NotYet'
  BY <1>1 DEF NotYet, FromCandidates
<1>5. ~Past(FromEvidence)' /\ ~Past(FromBase)' /\ ~Past({"values"})' /\ ~IsResolved'
  BY <1>1 DEF Past, IsResolved, FromEvidence, FromBase, FromPlan
<1>6. FieldsSound' /\ KeysSound' /\ GrantsSound' /\ TreeSelected' /\ PlanGrows'
  BY <1>1, <1>3, <1>5, KeepFields, KeepKeys, KeepGrants, KeepTree, KeepPlan
<1>7. EvidenceSound' /\ PlanComplete' /\ Search' /\ Reported'
  BY <1>1, <1>5 DEF EvidenceSound, PlanComplete, Search, Reported
<1>8. name' \in DOMAIN Requests /\ pc' \in DOMAIN Rank
  BY <1>1
<1>9. Traversal'
  <2> USE DEF Traversal
  <2>1. candidates = Between /\ Between' = Between
    BY <1>1 DEF Between, Left, Right
  <2>2. \A j \in candidates : Left(j) \in required /\ Right(j) \in required
    BY <2>1 DEF Between
  <2>3. \A d \in Neighbours(c) : d \in required
                /\ \E j \in candidates : c \in {Left(j), Right(j)} /\ d \in {Left(j), Right(j)}
    BY <2>2 DEF Neighbours
  <2>4. \A j \in candidates : c \in {Left(j), Right(j)} =>
            \A d \in {Left(j), Right(j)} : d = c \/ d \in Neighbours(c)
    BY DEF Neighbours
  <2>5. seen' \cap pending' = {} /\ seen' \cup pending' = seen \cup pending \cup Neighbours(c)
    BY <1>2
  <2>6. seen' \cup pending' \subseteq required /\ Least(required) \in seen' \cup pending'
    BY <1>1, <2>3, <2>5
  <2>7. ASSUME NEW j \in candidates, NEW a \in {Left(j), Right(j)}, NEW b \in {Left(j), Right(j)},
               a \in seen'
        PROVE  b \in seen' \cup pending'
    <3>1. CASE a \in seen
      BY <1>1, <2>5, <3>1
    <3>2. CASE a = c
      BY <2>4, <2>5, <1>2, <3>2
    <3> QED
      BY <1>2, <2>7, <3>1, <3>2
  <2>8. ASSUME NEW T \in SUBSET required, Least(required) \in T,
               \A j \in candidates : ~Cuts(ends, j, T)
        PROVE  seen' \cup pending' \subseteq T
    <3>1. seen \cup pending \subseteq T
      BY <1>1, <2>8
    <3>2. ASSUME NEW d \in Neighbours(c) PROVE d \in T
      <4>1. PICK j \in candidates : c \in {Left(j), Right(j)} /\ d \in {Left(j), Right(j)}
        BY <2>3
      <4>2. c \in T
        BY <3>1
      <4> QED
        BY <2>8, <4>1, <4>2 DEF Cuts, Left, Right
    <3> QED
      BY <2>5, <3>1, <3>2
  <2>9. \A j : Left(j)' = Left(j) /\ Right(j)' = Right(j)
    BY <1>1 DEF Left, Right
  <2> QED
    BY <1>1, <2>1, <2>5, <2>6, <2>7, <2>8, <2>9
<1> QED
  BY <1>4, <1>6, <1>7, <1>8, <1>9

(* The verdict on the closure.                                             *)
LEMMA CheckClosureKeeps ==
  ASSUME IInv, CheckClosure
  PROVE  IInv'
<1> USE DEF IInv
<1>1. /\ pc = "closure" /\ pending = {} /\ Gate(ClosureIssue, "evidence")
      /\ selected' = IF ClosureIssue = "ok" THEN candidates ELSE {}
      /\ UNCHANGED <<name, fields, keys, required, ends, candidates, seen, pending,
                     accumulated, queue, current, edges, plan>>
  BY DEF CheckClosure, planVars
<1>2. Past(FromKeys) /\ Past(FromGrants) /\ Past(FromCandidates) /\ plan = <<>>
  BY <1>1 DEF NotYet, Past, FromKeys, FromGrants, FromCandidates, FromPlan
<1>3. \/ ClosureIssue = "ok" /\ pc' = "evidence"
      \/ /\ ClosureIssue \in {"JOIN_CLOSURE_DISCONNECTED", "JOIN_CLOSURE_AMBIGUOUS"}
         /\ Block(ClosureIssue)
  BY <1>1 DEF Gate, Pass, ClosureIssue
<1>4. pc' \in {"evidence", "done"} /\ ~IsResolved'
  BY <1>3 DEF IsResolved, Block, Blocked
<1>5. NotYet'
  BY <1>1, <1>4 DEF NotYet, FromCandidates, FromEvidence, FromBase, FromPlan
<1>6. ~Past(FromBase)' /\ ~Past({"values"})'
  BY <1>4, PastShrinks DEF FromBase, FromPlan
<1>7. FieldsSound' /\ KeysSound' /\ GrantsSound'
  BY <1>1, <1>2, KeepFields, KeepKeys, KeepGrants
<1>8. EvidenceSound' /\ PlanComplete' /\ Search' /\ Traversal'
  BY <1>4, <1>6 DEF EvidenceSound, PlanComplete, Search, Traversal
<1>9. PlanGrows'
  BY <1>1, <1>2 DEF PlanGrows
<1>10. name' \in DOMAIN Requests /\ pc' \in DOMAIN Rank
  BY <1>1, <1>4 DEF Rank
<1>11. Trees' = Trees
  BY <1>1 DEF Trees, Usable, Connects, Crosses, Left, Right
<1>12. Between' = Between
  BY <1>1 DEF Between, Left, Right
<1>13. Reported'
  <2>1. CASE pc' = "evidence"
    BY <2>1 DEF Reported
  <2>2. CASE Block(ClosureIssue) /\ ClosureIssue = "JOIN_CLOSURE_DISCONNECTED"
    <3>1. Trees = {}
      BY <1>1, <2>2, TraversalDecides DEF ClosureIssue
    <3> QED
      BY <1>4, <1>11, <2>2, <3>1 DEF Reported, Block, Blocked, IsBlocked
  <2>3. CASE Block(ClosureIssue) /\ ClosureIssue = "JOIN_CLOSURE_AMBIGUOUS"
    <3>1. Cardinality(Trees) > 1
      BY <1>1, <2>3, TraversalDecides DEF ClosureIssue
    <3> QED
      BY <1>4, <1>11, <2>3, <3>1 DEF Reported, Block, Blocked, IsBlocked
  <2> QED
    BY <1>3, <2>1, <2>2, <2>3
<1>14. TreeSelected'
  <2>1. CASE ClosureIssue = "ok"
    <3>1. seen = required /\ Cardinality(candidates) = Cardinality(required) - 1
      BY <2>1 DEF ClosureIssue
    <3>2. /\ Spans(ends, required, candidates)
          /\ Cardinality(candidates) \in Nat /\ Cardinality(required) \in Nat
      BY <1>1, <3>1, TraversalDecides
    <3>3. Cardinality(required) = Cardinality(candidates) + 1
      BY <3>1, <3>2
    <3>4. candidates = Between /\ Cardinality(required) > 1
      BY <1>1 DEF Traversal
    <3>5. selected' = candidates
      BY <1>1, <2>1
    <3>6. required' = required /\ ends' = ends
      BY <1>1
    <3> QED
      BY <1>12, <3>2, <3>3, <3>4, <3>5, <3>6 DEF TreeSelected
  <2>2. CASE ClosureIssue # "ok"
    <3>1. selected' = {} /\ ~Past(FromEvidence)'
      BY <1>1, <1>3, <1>4, <2>2, PastShrinks DEF Block, FromEvidence, FromBase, FromPlan
    <3> QED
      BY <3>1 DEF TreeSelected
  <2> QED
    BY <2>1, <2>2
<1> QED
  BY <1>5, <1>7, <1>8, <1>9, <1>10, <1>13, <1>14

(* The evidence of the selected grants.                                    *)
LEMMA ResolveJoinEvidenceKeeps ==
  ASSUME IInv, ResolveJoinEvidence
  PROVE  IInv'
<1> USE DEF IInv
<1> DEFINE issue == EvidenceIssue(request)
<1>1. /\ pc = "evidence" /\ Gate(issue, "base")
      /\ UNCHANGED <<name, fields, keys, required, ends, candidates, seen, pending, selected,
                     accumulated, queue, current, edges, plan>>
  BY DEF ResolveJoinEvidence, closureVars, planVars
<1>2. \/ Block(issue) /\ issue # "ok"
      \/ Pass("base") /\ issue = "ok"
  BY <1>1 DEF Gate
<1>3. Reported' /\ ~IsResolved' /\ pc' \in {"base", "done"}
  <2>1. CASE Block(issue)
    BY <2>1, BlockedReport, OtherCodes DEF Block
  <2>2. CASE Pass("base")
    BY <2>2 DEF Reported, IsResolved, Pass
  <2> QED
    BY <1>2, <2>1, <2>2
<1>4. Past(FromKeys) /\ Past(FromGrants) /\ Past(FromCandidates) /\ Past(FromEvidence)
  BY <1>1 DEF Past, FromKeys, FromGrants, FromCandidates, FromEvidence
<1>5. NotYet'
  BY <1>1, <1>3 DEF NotYet, FromCandidates, FromEvidence, FromBase, FromPlan
<1>6. ~Past({"values"})'
  BY <1>3, PastShrinks
<1>7. FieldsSound' /\ KeysSound' /\ GrantsSound' /\ TreeSelected' /\ PlanGrows' /\ PlanComplete'
  BY <1>1, <1>4, <1>6, KeepFields, KeepKeys, KeepGrants, KeepTree, KeepPlan, KeepComplete
<1>8. EvidenceSound'
  <2>1. issue' = issue
    BY <1>1 DEF EvidenceIssue, Current, request
  <2>2. CASE issue = "ok"
    BY <2>1, <2>2 DEF EvidenceSound
  <2>3. CASE issue # "ok"
    <3>1. ~Past(FromBase)'
      BY <1>2, <1>3, <2>3, PastShrinks DEF Block, FromBase, FromPlan
    <3> QED
      BY <3>1 DEF EvidenceSound
  <2> QED
    BY <2>2, <2>3
<1>9. Traversal' /\ Search'
  BY <1>3 DEF Traversal, Search
<1>10. name' \in DOMAIN Requests /\ pc' \in DOMAIN Rank
  BY <1>1, <1>3 DEF Rank
<1> QED
  BY <1>3, <1>5, <1>7, <1>8, <1>9, <1>10

(* A queue without its head.                                               *)
LEMMA HeadOfQueue ==
  ASSUME NEW S, NEW q \in Seq(S), q # <<>>, \A i, k \in DOMAIN q : i # k => q[i] # q[k]
  PROVE  /\ Head(q) \in S /\ Tail(q) \in Seq(S)
         /\ Elements(q) = {Head(q)} \cup Elements(Tail(q))
         /\ Head(q) \notin Elements(Tail(q))
         /\ \A i, k \in DOMAIN Tail(q) : i # k => Tail(q)[i] # Tail(q)[k]
<1>1. Len(q) \in Nat /\ Len(q) # 0 /\ DOMAIN q = 1..Len(q) /\ Head(q) = q[1]
  OBVIOUS
<1>2. /\ Tail(q) \in Seq(S) /\ DOMAIN Tail(q) = 1..(Len(q) - 1)
      /\ \A i \in 1..(Len(q) - 1) : Tail(q)[i] = q[i + 1]
  BY <1>1
<1>3. Head(q) \in S
  BY <1>1
<1>4. \A i \in 1..(Len(q) - 1) : i + 1 \in 1..Len(q) /\ i + 1 # 1
  BY <1>1
<1>5. \A i \in 1..Len(q) : i = 1 \/ (i - 1 \in 1..(Len(q) - 1) /\ i = (i - 1) + 1)
  BY <1>1
<1>6. Elements(q) = {Head(q)} \cup Elements(Tail(q))
  <2>1. ASSUME NEW x \in Elements(q) PROVE x = Head(q) \/ x \in Elements(Tail(q))
    <3>1. PICK i \in 1..Len(q) : x = q[i]
      BY <1>1, <2>1 DEF Elements
    <3>2. CASE i = 1
      BY <1>1, <3>1, <3>2
    <3>3. CASE i # 1
      <4>1. i - 1 \in 1..(Len(q) - 1) /\ i = (i - 1) + 1
        BY <1>5, <3>3
      <4>2. Tail(q)[i - 1] = q[i]
        BY <1>2, <4>1
      <4> QED
        BY <1>2, <3>1, <4>1, <4>2 DEF Elements
    <3> QED
      BY <3>2, <3>3
  <2>2. Head(q) \in Elements(q)
    BY <1>1 DEF Elements
  <2>3. Elements(Tail(q)) \subseteq Elements(q)
    BY <1>1, <1>2, <1>4 DEF Elements
  <2> QED
    BY <2>1, <2>2, <2>3
<1>7. Head(q) \notin Elements(Tail(q))
  BY <1>1, <1>2, <1>4 DEF Elements
<1>8. \A i, k \in DOMAIN Tail(q) : i # k => Tail(q)[i] # Tail(q)[k]
  BY <1>1, <1>2, <1>4
<1> QED
  BY <1>2, <1>3, <1>6, <1>7, <1>8

(* A queue with a newcomer behind it.                                      *)
LEMMA EndOfQueue ==
  ASSUME NEW S, NEW q \in Seq(S), NEW x, x \notin S,
         \A i, k \in DOMAIN q : i # k => q[i] # q[k]
  PROVE  /\ Append(q, x) \in Seq(S \cup {x})
         /\ Elements(Append(q, x)) = Elements(q) \cup {x}
         /\ \A i, k \in DOMAIN Append(q, x) : i # k => Append(q, x)[i] # Append(q, x)[k]
<1>1. /\ Len(q) \in Nat /\ DOMAIN q = 1..Len(q)
      /\ DOMAIN Append(q, x) = 1..(Len(q) + 1)
      /\ \A i \in 1..Len(q) : Append(q, x)[i] = q[i] /\ q[i] \in S
      /\ Append(q, x)[Len(q) + 1] = x
  OBVIOUS
<1>2. Append(q, x) \in Seq(S \cup {x})
  <2>1. q \in Seq(S \cup {x})
    BY <1>1
  <2> QED
    BY <2>1
<1>3. \A i \in 1..(Len(q) + 1) : i \in 1..Len(q) \/ i = Len(q) + 1
  BY <1>1
<1>4. 1..Len(q) \subseteq 1..(Len(q) + 1) /\ Len(q) + 1 \in 1..(Len(q) + 1)
  BY <1>1
<1>5. Elements(Append(q, x)) = Elements(q) \cup {x}
  <2>1. Elements(Append(q, x)) \subseteq Elements(q) \cup {x}
    BY <1>1, <1>3 DEF Elements
  <2>2. Elements(q) \cup {x} \subseteq Elements(Append(q, x))
    BY <1>1, <1>4 DEF Elements
  <2> QED
    BY <2>1, <2>2
<1>6. \A i, k \in DOMAIN Append(q, x) : i # k => Append(q, x)[i] # Append(q, x)[k]
  BY <1>1, <1>3
<1> QED
  BY <1>2, <1>5, <1>6

(* What the search leaves alone.                                           *)
LEMMA SearchStepKeeps ==
  ASSUME IInv, pc \in FromBase, pc' \in FromPlan,
         UNCHANGED <<name, fields, keys, closureVars, report>>
  PROVE  /\ name' \in DOMAIN Requests /\ pc' \in DOMAIN Rank
         /\ NotYet' /\ FieldsSound' /\ KeysSound' /\ GrantsSound' /\ TreeSelected'
         /\ EvidenceSound' /\ Traversal' /\ Reported' /\ ~IsResolved'
<1> USE DEF IInv
<1>1. UNCHANGED <<name, fields, keys, required, ends, candidates, seen, pending, selected>>
  BY DEF closureVars
<1>2. /\ Past(FromKeys) /\ Past(FromGrants) /\ Past(FromCandidates) /\ Past(FromEvidence)
      /\ Past(FromBase)
  BY DEF Past, FromKeys, FromGrants, FromCandidates, FromEvidence, FromBase
<1>3. pc' \notin {"done", "closure"} /\ ~IsResolved'
  BY DEF FromPlan, IsResolved
<1>4. NotYet'
  BY DEF NotYet, FromCandidates, FromEvidence, FromBase, FromPlan
<1>5. FieldsSound' /\ KeysSound' /\ GrantsSound' /\ TreeSelected' /\ EvidenceSound'
  BY <1>1, <1>2, KeepFields, KeepKeys, KeepGrants, KeepTree, KeepEvidence
<1>6. Traversal' /\ Reported'
  BY <1>3 DEF Traversal, Reported
<1>7. pc' \in DOMAIN Rank
  BY DEF Rank, FromPlan
<1> QED
  BY <1>1, <1>3, <1>4, <1>5, <1>6, <1>7

(* The plan starts at the relation of factValue, if anything is joined.    *)
LEMMA StartPlanKeeps ==
  ASSUME IInv, StartPlan
  PROVE  IInv'
<1> USE DEF IInv
<1>1. /\ pc = "base" /\ pc' \in FromPlan
      /\ UNCHANGED <<name, fields, keys, closureVars, report>>
      /\ UNCHANGED <<required, ends, selected, current, edges, plan>>
  BY DEF StartPlan, FromPlan, closureVars
<1>2. plan = <<>> /\ edges = {} /\ Past(FromCandidates)
  BY <1>1 DEF NotYet, Past, FromCandidates, FromEvidence, FromBase, FromPlan
<1>3. PlanGrows'
  BY <1>1, KeepPlan
<1>4. Search' /\ PlanComplete'
  <2>1. CASE selected = {}
    <3>1. pc' = "values"
      BY <2>1 DEF StartPlan
    <3> QED
      BY <1>1, <1>2, <2>1, <3>1 DEF Search, PlanComplete
  <2>2. CASE selected # {}
    <3>1. pc' = "plan" /\ accumulated' = {Base} /\ queue' = <<Base>>
      BY <2>2 DEF StartPlan
    <3>2. Joined(0)' = {Base} /\ plan' = <<>> /\ Len(plan') = 0
      <4>1. Joined(0)' = Joined(0)
        BY <1>1, KeepJoined
      <4>2. Joined(0) = {Base}
        BY DEF Joined
      <4> QED
        BY <1>1, <1>2, <4>1, <4>2
    <3>3. Base \in required
      BY <1>2, BaseRequired
    <3>4. Elements(queue') = {Base}
      BY <3>1 DEF Elements
    <3>5. queue' \in Seq({Base}) /\ \A i, k \in DOMAIN queue' : i # k => queue'[i] # queue'[k]
      BY <3>1
    <3>6. Search'
      BY <1>1, <1>2, <2>2, <3>1, <3>2, <3>3, <3>4, <3>5 DEF Search
    <3>7. ~Past({"values"})'
      BY <3>1 DEF Past, IsResolved
    <3> QED
      BY <3>6, <3>7 DEF PlanComplete
  <2> QED
    BY <2>1, <2>2
<1>5. pc \in FromBase
  BY <1>1 DEF FromBase
<1> QED
  BY <1>1, <1>3, <1>4, <1>5, SearchStepKeeps

(* The next relation is taken from the queue, with all its grants.         *)
LEMMA TakeKeeps ==
  ASSUME IInv, Take
  PROVE  IInv'
<1> USE DEF IInv
<1>1. /\ pc = "plan" /\ pc' = "plan" /\ edges = {} /\ queue # <<>>
      /\ current' = Head(queue) /\ queue' = Tail(queue)
      /\ edges' = {j \in selected : Head(queue) \in {Left(j), Right(j)}}
      /\ UNCHANGED <<name, fields, keys, closureVars, report>>
      /\ UNCHANGED <<required, ends, selected, accumulated, plan>>
  BY DEF Take, closureVars
<1>2. PlanGrows'
  BY <1>1, KeepPlan
<1>3. PlanComplete'
  BY <1>1 DEF PlanComplete, Past, IsResolved
<1>4. Search'
  <2>1. /\ queue \in Seq(accumulated) /\ \A i, k \in DOMAIN queue : i # k => queue[i] # queue[k]
        /\ selected # {} /\ accumulated = Joined(Len(plan)) /\ accumulated \subseteq required
        /\ \A j \in selected : \A c, d \in {Left(j), Right(j)} :
              c \in accumulated \ Elements(queue) => d \in accumulated
    BY <1>1 DEF Search
  <2>2. /\ Head(queue) \in accumulated /\ Tail(queue) \in Seq(accumulated)
        /\ Elements(queue) = {Head(queue)} \cup Elements(Tail(queue))
        /\ Head(queue) \notin Elements(Tail(queue))
        /\ \A i, k \in DOMAIN Tail(queue) : i # k => Tail(queue)[i] # Tail(queue)[k]
    BY <1>1, <2>1, HeadOfQueue
  <2>3. \A j : Left(j)' = Left(j) /\ Right(j)' = Right(j)
    BY <1>1 DEF Left, Right
  <2>4. Joined(Len(plan))' = Joined(Len(plan))
    BY <1>1, KeepJoined
  <2>5. ASSUME NEW j \in selected \ edges', NEW c \in {Left(j), Right(j)},
               NEW d \in {Left(j), Right(j)}, c \in accumulated \ Elements(Tail(queue))
        PROVE  d \in accumulated
    <3>1. c # Head(queue)
      BY <1>1, <2>5
    <3> QED
      BY <2>1, <2>2, <2>5, <3>1
  <2> QED
    BY <1>1, <2>1, <2>2, <2>3, <2>4, <2>5 DEF Search
<1>5. pc \in FromBase /\ pc' \in FromPlan
  BY <1>1 DEF FromBase, FromPlan
<1> QED
  BY <1>1, <1>2, <1>3, <1>4, <1>5, SearchStepKeeps

(* An edge to a relation that is joined already is passed over.            *)
LEMMA SkipEdgeKeeps ==
  ASSUME IInv, SkipEdge
  PROVE  IInv'
<1> USE DEF IInv
<1> DEFINE e == Least(edges)
<1>1. /\ pc = "plan" /\ pc' = "plan" /\ edges # {} /\ NewEnd(e) \in accumulated
      /\ edges' = edges \ {e}
      /\ UNCHANGED <<name, fields, keys, closureVars, report>>
      /\ UNCHANGED <<required, ends, selected, accumulated, queue, current, plan>>
  BY DEF SkipEdge, closureVars
<1>2. PlanGrows'
  BY <1>1, KeepPlan
<1>3. PlanComplete'
  BY <1>1 DEF PlanComplete, Past, IsResolved
<1>4. Search'
  <2>1. Left(e) \in accumulated /\ Right(e) \in accumulated
    BY <1>1, NextEdge
  <2> HIDE DEF e
  <2>2. \A j : Left(j)' = Left(j) /\ Right(j)' = Right(j)
    BY <1>1 DEF Left, Right
  <2>3. Joined(Len(plan))' = Joined(Len(plan))
    BY <1>1, KeepJoined
  <2>4. ASSUME NEW j \in selected \ edges', NEW c \in {Left(j), Right(j)},
               NEW d \in {Left(j), Right(j)}, c \in accumulated \ Elements(queue)
        PROVE  d \in accumulated
    <3>1. CASE j = e
      BY <2>1, <3>1
    <3>2. CASE j # e
      BY <1>1, <2>4, <3>2 DEF Search
    <3> QED
      BY <3>1, <3>2
  <2>5. Elements(queue)' = Elements(queue)
    BY <1>1 DEF Elements
  <2> QED
    BY <1>1, <2>2, <2>3, <2>4, <2>5 DEF Search
<1>5. pc \in FromBase /\ pc' \in FromPlan
  BY <1>1 DEF FromBase, FromPlan
<1> QED
  BY <1>1, <1>2, <1>3, <1>4, <1>5, SearchStepKeeps

(* What a join adds to what is joined.                                     *)
LEMMA JoinedGrows ==
  ASSUME NEW j, NEW n, plan \in Seq(selected), n = Len(plan), plan' = Append(plan, j),
         UNCHANGED <<name, fields, ends>>
  PROVE  /\ \A i \in 0..n : Joined(i)' = Joined(i) /\ Prefix(i)' = Prefix(i)
         /\ Joined(n + 1)' = Joined(n) \cup {Left(j), Right(j)}
         /\ Prefix(n + 1)' = Prefix(n) \cup {j}
<1>1. /\ n \in Nat /\ plan'[n + 1] = j
      /\ \A k \in 1..n : plan'[k] = plan[k]
  OBVIOUS
<1>2. \A k : Left(k)' = Left(k) /\ Right(k)' = Right(k)
  BY DEF Left, Right
<1>3. Base' = Base
  BY DEF Base, FactValue, request
<1>4. ASSUME NEW i \in 0..n PROVE Joined(i)' = Joined(i) /\ Prefix(i)' = Prefix(i)
  <2>1. \A k \in 1..i : k \in 1..n
    BY <1>1
  <2>2. \A k \in 1..i : plan'[k] = plan[k]
    BY <1>1, <2>1
  <2> QED
    BY <1>2, <1>3, <2>2 DEF Joined, Prefix, Left, Right
<1>5. /\ \A k \in 1..(n + 1) : k \in 1..n \/ k = n + 1
      /\ \A k \in 1..n : k \in 1..(n + 1)
      /\ n + 1 \in 1..(n + 1)
  BY <1>1
<1>6. Prefix(n + 1)' = Prefix(n) \cup {j}
  <2>1. Prefix(n + 1)' = {plan'[k] : k \in 1..(n + 1)}
    BY DEF Prefix
  <2>2. {plan'[k] : k \in 1..(n + 1)} \subseteq Prefix(n) \cup {j}
    BY <1>1, <1>5 DEF Prefix
  <2>3. Prefix(n) \cup {j} \subseteq {plan'[k] : k \in 1..(n + 1)}
    BY <1>1, <1>5 DEF Prefix
  <2> QED
    BY <2>1, <2>2, <2>3
<1>7. Joined(n + 1)' = Joined(n) \cup {Left(j), Right(j)}
  <2> DEFINE After == {Base} \cup UNION {{Left(plan'[k]), Right(plan'[k])} : k \in 1..(n + 1)}
  <2>1. Joined(n + 1)' = After
    BY <1>2, <1>3 DEF Joined, Left, Right
  <2>2. ASSUME NEW x \in After PROVE x \in Joined(n) \cup {Left(j), Right(j)}
    <3>1. CASE x = Base
      BY <3>1 DEF Joined
    <3>2. CASE x # Base
      <4>1. PICK k \in 1..(n + 1) : x \in {Left(plan'[k]), Right(plan'[k])}
        BY <2>2, <3>2
      <4>2. CASE k \in 1..n
        BY <1>1, <4>1, <4>2 DEF Joined
      <4>3. CASE k = n + 1
        BY <1>1, <4>1, <4>3
      <4> QED
        BY <1>5, <4>2, <4>3
    <3> QED
      BY <3>1, <3>2
  <2>3. ASSUME NEW x \in Joined(n) PROVE x \in After
    <3>1. CASE x = Base
      BY <3>1
    <3>2. CASE x # Base
      <4>1. PICK k \in 1..n : x \in {Left(plan[k]), Right(plan[k])}
        BY <2>3, <3>2 DEF Joined
      <4>2. k \in 1..(n + 1) /\ plan'[k] = plan[k]
        BY <1>1, <1>5
      <4> QED
        BY <4>1, <4>2
    <3> QED
      BY <3>1, <3>2
  <2>4. Left(j) \in After /\ Right(j) \in After
    BY <1>1, <1>5
  <2> HIDE DEF After
  <2> QED
    BY <2>1, <2>2, <2>3, <2>4
<1> QED
  BY <1>4, <1>6, <1>7

(* A join adds one relation to those there, and is put behind the plan.    *)
LEMMA JoinEdgeKeeps ==
  ASSUME IInv, JoinEdge
  PROVE  IInv'
<1> USE DEF IInv
<1> DEFINE e == Least(edges)
           v == NewEnd(e)
<1>0. PICK n : n = Len(plan)
  OBVIOUS
<1>1. /\ pc = "plan" /\ pc' = "plan" /\ edges # {} /\ v \notin accumulated /\ ~Conflicts(e)
      /\ plan' = Append(plan, e) /\ accumulated' = accumulated \cup {v}
      /\ queue' = Append(queue, v) /\ edges' = edges \ {e}
      /\ UNCHANGED <<name, fields, keys, closureVars, report>>
      /\ UNCHANGED <<required, ends, selected, current>>
  BY DEF JoinEdge, closureVars
<1>2. /\ e \in edges /\ e \in selected /\ current \in accumulated
      /\ \/ Left(e) = current /\ v = Right(e)
         \/ Right(e) = current /\ v = Left(e)
  BY <1>1, NextEdge
<1>3. v \in required /\ Past(FromEvidence)
  <2>1. Past(FromEvidence) /\ selected # {}
    BY <1>1, <1>2 DEF Past, FromEvidence, FromBase, FromPlan
  <2>2. Inside(ends, required, selected)
    BY <2>1, SelectedTree
  <2> QED
    BY <1>2, <2>1, <2>2 DEF Inside, Left, Right
<1>4. Grant(request, e).type = "left" => Left(e) \in accumulated
  BY <1>1 DEF Conflicts
<1> HIDE DEF e, v
<1>5. /\ plan \in Seq(selected) /\ n \in Nat /\ accumulated = Joined(n)
      /\ accumulated \subseteq required /\ queue \in Seq(accumulated)
      /\ \A i, k \in DOMAIN queue : i # k => queue[i] # queue[k]
  BY <1>0, <1>1 DEF PlanGrows, Search
<1>6. /\ plan' \in Seq(selected) /\ Len(plan') = n + 1 /\ plan'[n + 1] = e
      /\ \A i \in 1..n : plan'[i] = plan[i]
  BY <1>0, <1>1, <1>2, <1>5
<1>7. /\ \A i \in 0..n : Joined(i)' = Joined(i) /\ Prefix(i)' = Prefix(i)
      /\ Joined(n + 1)' = accumulated \cup {v}
      /\ Prefix(n + 1)' = Prefix(n) \cup {e}
  <2>1. {Left(e), Right(e)} = {current, v}
    BY <1>2
  <2> QED
    BY <1>0, <1>1, <1>2, <1>5, <2>1, JoinedGrows
<1>8. \A j : Left(j)' = Left(j) /\ Right(j)' = Right(j)
  BY <1>1 DEF Left, Right
<1>9. \A j : \A T : Crosses(j, T)' <=> Crosses(j, T')
  BY <1>8 DEF Crosses, Left, Right
<1>10. PlanGrows'
  <2>1. ASSUME NEW i \in 1..(n + 1)
        PROVE  /\ Crosses(plan'[i], Joined(i - 1)')
               /\ Grant(request, plan'[i]).type = "left" => Left(plan'[i]) \in Joined(i - 1)'
               /\ Spans(ends, Joined(i)', Prefix(i)')
    <3>1. CASE i \in 1..n
      <4>1. i \in 0..n /\ i - 1 \in 0..n
        BY <1>5, <3>1
      <4>2. Joined(i)' = Joined(i) /\ Prefix(i)' = Prefix(i) /\ Joined(i - 1)' = Joined(i - 1)
        BY <1>7, <4>1
      <4> QED
        BY <1>0, <1>6, <3>1, <4>2 DEF PlanGrows
    <3>2. CASE i = n + 1
      <4>1. i - 1 = n /\ Joined(i - 1)' = accumulated /\ plan'[i] = e
        BY <1>5, <1>6, <1>7, <3>2
      <4>2. Cuts(ends, e, accumulated)
        BY <1>1, <1>2 DEF Cuts, Left, Right
      <4>3. Spans(ends, accumulated, Prefix(n)) /\ Inside(ends, accumulated, Prefix(n))
        BY <1>0, <1>5, PrefixConnects, JoinedRelations
      <4>4. Spans(ends, accumulated \cup {v}, Prefix(n) \cup {e})
        BY <1>1, <1>2, <4>3, SpansGrows DEF Left, Right
      <4>5. Crosses(e, accumulated)
        BY <4>2, CutsOfGrants
      <4>6. Spans(ends, Joined(i)', Prefix(i)')
        BY <1>7, <3>2, <4>4
      <4> QED
        BY <1>4, <4>1, <4>5, <4>6
    <3> QED
      BY <1>5, <3>1, <3>2
  <2>2. request' = request
    BY <1>1 DEF request
  <2> QED
    BY <1>1, <1>6, <1>8, <2>1, <2>2 DEF PlanGrows, Crosses
<1>11. PlanComplete'
  BY <1>1 DEF PlanComplete, Past, IsResolved
<1>12. Search'
  <2>1. Elements(queue) \subseteq accumulated
    BY <1>5 DEF Elements
  <2>2. /\ queue' \in Seq(accumulated')
        /\ Elements(queue') = Elements(queue) \cup {v}
        /\ \A i, k \in DOMAIN queue' : i # k => queue'[i] # queue'[k]
    <3>1. v \notin accumulated /\ queue' = Append(queue, v) /\ accumulated' = accumulated \cup {v}
      BY <1>1
    <3> HIDE DEF v
    <3>2. /\ Append(queue, v) \in Seq(accumulated \cup {v})
          /\ Elements(Append(queue, v)) = Elements(queue) \cup {v}
          /\ \A i, k \in DOMAIN Append(queue, v) : i # k => Append(queue, v)[i] # Append(queue, v)[k]
      <4>1. queue \in Seq(accumulated) /\ \A i, k \in DOMAIN queue : i # k => queue[i] # queue[k]
        BY <1>5
      <4> QED
        BY <3>1, <4>1, EndOfQueue
    <3> QED
      BY <3>1, <3>2
  <2>3. ASSUME NEW j \in selected \ edges', NEW c \in {Left(j), Right(j)},
               NEW d \in {Left(j), Right(j)}, c \in accumulated' \ Elements(queue')
        PROVE  d \in accumulated'
    <3>1. CASE j = e
      BY <1>1, <1>2, <3>1
    <3>2. CASE j # e
      <4>1. c \in accumulated \ Elements(queue) /\ j \in selected \ edges
        BY <1>1, <2>2, <2>3, <3>2
      <4> QED
        BY <1>1, <4>1 DEF Search
    <3> QED
      BY <3>1, <3>2
  <2>4. accumulated' = Joined(Len(plan))' /\ accumulated' \subseteq required
    <3>1. Joined(Len(plan))' = Joined(n + 1)'
      BY <1>6
    <3> QED
      BY <1>1, <1>3, <1>5, <1>7, <3>1
  <2>5. /\ selected # {} /\ edges' \subseteq {j \in selected : current \in {Left(j), Right(j)}}
        /\ current \in accumulated' /\ current \notin Elements(queue')
    BY <1>1, <1>2, <2>2 DEF Search
  <2>6. Elements(queue)' = Elements(queue')
    BY DEF Elements
  <2> QED
    BY <1>1, <1>8, <2>2, <2>3, <2>4, <2>5, <2>6 DEF Search
<1>13. pc \in FromBase /\ pc' \in FromPlan
  BY <1>1 DEF FromBase, FromPlan
<1> QED
  BY <1>1, <1>10, <1>11, <1>12, <1>13, SearchStepKeeps

(* A join against its direction is reported as the conflict that it is.    *)
LEMMA ConflictingEdgeKeeps ==
  ASSUME IInv, ConflictingEdge
  PROVE  IInv'
<1> USE DEF IInv
<1>1. /\ pc = "plan" /\ edges # {} /\ NewEnd(Least(edges)) \notin accumulated
      /\ Conflicts(Least(edges))
      /\ pc' = "done" /\ report' = Blocked("JOIN_PLAN_DIRECTION_CONFLICT")
      /\ UNCHANGED <<name, fields, keys, required, ends, candidates, seen, pending, selected>>
      /\ UNCHANGED plan
  BY DEF ConflictingEdge, Block, closureVars, planVars
<1>2. ~IsResolved'
  BY <1>1 DEF IsResolved, Blocked
<1>3. /\ ~Past(FromKeys)' /\ ~Past(FromGrants)' /\ ~Past(FromCandidates)' /\ ~Past(FromEvidence)'
      /\ ~Past(FromBase)' /\ ~Past({"values"})'
  BY <1>1, <1>2 DEF Past, FromKeys, FromGrants, FromCandidates, FromEvidence, FromBase, FromPlan
<1>4. NotYet'
  BY <1>1 DEF NotYet, FromCandidates, FromEvidence, FromBase, FromPlan
<1>5. FieldsSound' /\ KeysSound' /\ GrantsSound' /\ TreeSelected' /\ EvidenceSound'
  BY <1>1, <1>3, KeepFields, KeepKeys, KeepGrants, KeepTree, KeepEvidence
<1>6. PlanGrows' /\ PlanComplete'
  BY <1>1, <1>3, KeepPlan, KeepComplete
<1>7. Traversal' /\ Search'
  BY <1>1 DEF Traversal, Search
<1>8. Reported'
  <2>1. PICK j \in selected : PointsBack(j)
    BY <1>1, ConflictPointsBack
  <2>2. PointsBack(j)'
    BY <1>1, <2>1 DEF PointsBack, request, Base, FactValue, Crosses, Left, Right
  <2>3. \E k \in selected' : PointsBack(k)'
    BY <1>1, <2>2
  <2> QED
    BY <1>1, <1>2, <2>3 DEF Reported, Blocked, IsBlocked
<1>9. name' \in DOMAIN Requests /\ pc' \in DOMAIN Rank
  BY <1>1 DEF Rank
<1> QED
  BY <1>4, <1>5, <1>6, <1>7, <1>8, <1>9

(* The plan is finished when the search has run dry.                       *)
LEMMA FinishPlanKeeps ==
  ASSUME IInv, FinishPlan
  PROVE  IInv'
<1> USE DEF IInv
<1>1. /\ pc = "plan" /\ pc' = "values" /\ edges = {} /\ queue = <<>>
      /\ UNCHANGED <<name, fields, keys, closureVars, report>>
      /\ UNCHANGED <<required, ends, selected, plan>>
  BY DEF FinishPlan, closureVars, planVars
<1>2. PlanGrows' /\ Search'
  BY <1>1, KeepPlan DEF Search
<1>3. PlanComplete'
  <2>1. accumulated = required /\ accumulated = Joined(Len(plan)) /\ selected # {}
    BY <1>1, SearchReaches DEF Search
  <2>2. Joined(Len(plan))' = Joined(Len(plan))
    BY <1>1, KeepJoined
  <2> QED
    BY <1>1, <2>1, <2>2 DEF PlanComplete
<1>4. pc \in FromBase /\ pc' \in FromPlan
  BY <1>1 DEF FromBase, FromPlan
<1> QED
  BY <1>1, <1>2, <1>3, <1>4, SearchStepKeeps

(* The report is made of what was resolved, or of an encoding's issue.     *)
LEMMA ResolveValuesKeeps ==
  ASSUME IInv, ResolveValues
  PROVE  IInv'
<1> USE DEF IInv
<1>1. /\ pc = "values" /\ pc' = "done"
      /\ UNCHANGED <<name, fields, keys, required, ends, candidates, seen, pending, selected>>
      /\ UNCHANGED plan
  BY DEF ResolveValues, Block, closureVars, planVars
<1>2. /\ Past(FromKeys) /\ Past(FromGrants) /\ Past(FromCandidates) /\ Past(FromEvidence)
      /\ Past(FromBase) /\ Past({"values"})
  BY <1>1 DEF Past, FromKeys, FromGrants, FromCandidates, FromEvidence, FromBase, FromPlan
<1>3. NotYet'
  BY <1>1 DEF NotYet, FromCandidates, FromEvidence, FromBase, FromPlan
<1>4. FieldsSound' /\ KeysSound' /\ GrantsSound' /\ TreeSelected' /\ EvidenceSound'
  BY <1>1, <1>2, KeepFields, KeepKeys, KeepGrants, KeepTree, KeepEvidence
<1>5. PlanGrows' /\ PlanComplete'
  BY <1>1, <1>2, KeepPlan, KeepComplete
<1>6. Traversal' /\ Search'
  BY <1>1 DEF Traversal, Search
<1>7. Reported'
  <2>1. CASE EncodingIssue(request) = "ok"
    <3>1. report' = Resolved
      BY <2>1 DEF ResolveValues
    <3>2. /\ report'.status = "metadataResolved"
          /\ report'.fields = fields' /\ report'.keys = keys'
          /\ report'.joins = [i \in DOMAIN plan |-> ResolvedJoin(plan[i])]
      BY <1>1, <3>1 DEF Resolved
    <3>3. request' = request /\ \A j : LeftColumn(request, j)' = LeftColumn(request, j)
                           /\ \A k : RightColumn(request, k)' = RightColumn(request, k)
      BY <1>1 DEF request
    <3>4. DOMAIN report'.joins = DOMAIN plan'
      BY <1>1, <3>2
    <3>5. \A i \in DOMAIN plan' :
            /\ report'.joins[i].grant = plan'[i]
            /\ report'.joins[i].left = LeftColumn(request', plan'[i])
            /\ report'.joins[i].right = RightColumn(request', plan'[i])
      BY <1>1, <3>2, <3>3 DEF ResolvedJoin
    <3> QED
      BY <3>2, <3>3, <3>4, <3>5 DEF Reported, IsResolved, IsBlocked
  <2>2. CASE EncodingIssue(request) # "ok"
    <3>1. EncodingIssue(request) \notin ClosureCodes
      BY OtherCodes
    <3> QED
      BY <2>2, <3>1, BlockedReport DEF ResolveValues
  <2> QED
    BY <2>1, <2>2
<1>8. name' \in DOMAIN Requests /\ pc' \in DOMAIN Rank
  BY <1>1 DEF Rank
<1> QED
  BY <1>3, <1>4, <1>5, <1>6, <1>7, <1>8

(* A step that changes nothing.                                            *)
LEMMA StutterKeeps ==
  ASSUME IInv, UNCHANGED vars
  PROVE  IInv'
<1> USE DEF IInv
<1>1. /\ UNCHANGED <<name, pc, fields, keys, required, ends, candidates, seen, pending, selected>>
      /\ UNCHANGED <<accumulated, queue, current, edges, plan, report>>
  BY DEF vars, closureVars, planVars
<1>2. \A S : Past(S)' = Past(S)
  BY <1>1 DEF Past, IsResolved
<1>3. NotYet' /\ FieldsSound' /\ KeysSound' /\ GrantsSound' /\ TreeSelected' /\ EvidenceSound'
  BY <1>1, <1>2, KeepFields, KeepKeys, KeepGrants, KeepTree, KeepEvidence DEF NotYet
<1>4. PlanGrows' /\ PlanComplete'
  BY <1>1, <1>2, KeepPlan, KeepComplete
<1>5. request' = request /\ \A j : Left(j)' = Left(j) /\ Right(j)' = Right(j)
  BY <1>1 DEF request, Left, Right
<1>6. Traversal'
  BY <1>1, <1>5 DEF Traversal, Between
<1>7. Search'
  <2>1. Joined(Len(plan))' = Joined(Len(plan))
    BY <1>1, KeepJoined
  <2>2. Elements(queue)' = Elements(queue)
    BY <1>1 DEF Elements
  <2> QED
    BY <1>1, <1>5, <2>1, <2>2 DEF Search
<1>8. Reported'
  <2>1. Trees' = Trees
    BY <1>1 DEF Trees, Usable, Connects, Crosses, Left, Right
  <2>2. \A j : PointsBack(j)' <=> PointsBack(j)
    BY <1>1 DEF PointsBack, Crosses, Left, Right, Base, FactValue, request
  <2>3. \A j : /\ LeftColumn(request, j)' = LeftColumn(request, j)
              /\ RightColumn(request, j)' = RightColumn(request, j)
    BY <1>5
  <2>4. IsResolved' = IsResolved /\ \A code : IsBlocked(code)' = IsBlocked(code)
    BY <1>1 DEF IsResolved, IsBlocked
  <2> QED
    BY <1>1, <1>5, <2>1, <2>2, <2>3, <2>4 DEF Reported
<1> QED
  BY <1>1, <1>3, <1>4, <1>6, <1>7, <1>8

(* Every step keeps the invariant.                                         *)
LEMMA NextPreservesIInv == IInv /\ [Next]_vars => IInv'
<1> SUFFICES ASSUME IInv, [Next]_vars PROVE IInv'
  OBVIOUS
<1>1. CASE ValidateInput \/ ResolveFilters \/ MapEntityGrain
  BY <1>1, GatesKeep
<1>2. CASE ResolveFields
  BY <1>2, ResolveFieldsKeeps
<1>3. CASE ResolveEntityKeys
  BY <1>3, ResolveEntityKeysKeeps
<1>4. CASE ResolveJoinGrants
  BY <1>4, ResolveJoinGrantsKeeps
<1>5. CASE SelectCandidates
  BY <1>5, SelectCandidatesKeeps
<1>6. CASE Visit
  BY <1>6, VisitKeeps
<1>7. CASE CheckClosure
  BY <1>7, CheckClosureKeeps
<1>8. CASE ResolveJoinEvidence
  BY <1>8, ResolveJoinEvidenceKeeps
<1>9. CASE StartPlan
  BY <1>9, StartPlanKeeps
<1>10. CASE Take
  BY <1>10, TakeKeeps
<1>11. CASE SkipEdge
  BY <1>11, SkipEdgeKeeps
<1>12. CASE ConflictingEdge
  BY <1>12, ConflictingEdgeKeeps
<1>13. CASE JoinEdge
  BY <1>13, JoinEdgeKeeps
<1>14. CASE FinishPlan
  BY <1>14, FinishPlanKeeps
<1>15. CASE ResolveValues
  BY <1>15, ResolveValuesKeeps
<1>16. CASE Terminated \/ UNCHANGED vars
  BY <1>16, StutterKeeps DEF Terminated
<1> QED
  BY <1>1, <1>2, <1>3, <1>4, <1>5, <1>6, <1>7, <1>8, <1>9, <1>10, <1>11, <1>12, <1>13, <1>14,
     <1>15, <1>16 DEF Next

-----------------------------------------------------------------------------
(* The theorems                                                            *)

\* The inductive invariant holds of every resolution, whatever the requests:
\* what the gates passed, the traversal that decides on the closure, and the
\* search that orders its joins.
THEOREM Invariant == Spec => []IInv
<1> QED
  BY InitEstablishesIInv, NextPreservesIInv, PTL DEF Spec

\* Two of at most one relation are the same.
LEMMA AtMostOne ==
  ASSUME NEW S, IsFiniteSet(S), Cardinality(S) <= 1, NEW x \in S, NEW y \in S
  PROVE  x = y
<1> SUFFICES ASSUME x # y PROVE FALSE
  OBVIOUS
<1>1. IsFiniteSet({x}) /\ Cardinality({x}) = 1
  BY FS_Singleton
<1>2. IsFiniteSet({x} \cup {y}) /\ Cardinality({x} \cup {y}) = 2
  <2>1. IsFiniteSet({x} \cup {y}) /\ Cardinality({x} \cup {y}) = Cardinality({x}) + 1
    BY <1>1, FS_AddElement
  <2> QED
    BY <1>1, <2>1
<1>3. Cardinality({x} \cup {y}) <= Cardinality(S)
  BY <1>2, FS_Subset
<1> QED
  BY <1>2, <1>3, FS_CardinalityType

\* More than one relation takes a grant.
LEMMA GrantsAreSelected ==
  ASSUME GrantsSound, TreeSelected, Past(FromEvidence)
  PROVE  Cardinality(required) > 1 <=> selected # {}
<1>1. CASE selected = {} /\ Cardinality(required) > 1
  BY <1>1, FS_EmptySet DEF TreeSelected
<1> QED
  BY <1>1 DEF TreeSelected

\* _select_join_closure_v3 decides right, whatever the grants: "disconnected"
\* means no closure, "ambiguous" several, and a report's joins are the only one.
THEOREM ClosureIsOnly == Spec => []OnlyClosure
<1>1. IInv => OnlyClosure
  <2> SUFFICES ASSUME IInv PROVE OnlyClosure
    OBVIOUS
  <2>1. (IsBlocked("JOIN_CLOSURE_DISCONNECTED") => Trees = {})
        /\ (IsBlocked("JOIN_CLOSURE_AMBIGUOUS") => Cardinality(Trees) > 1)
    BY DEF IInv, Reported, IsBlocked
  <2>2. ASSUME IsResolved, Cardinality(required) > 1
        PROVE  Trees = {{report.joins[i].grant : i \in DOMAIN report.joins}}
    <3>1. GrantsSound /\ TreeSelected /\ PlanGrows /\ PlanComplete /\ Past(FromEvidence)
      BY <2>2 DEF IInv, Past
    <3>2. selected # {} /\ required # {}
      BY <2>2, <3>1, GrantsAreSelected, FS_EmptySet
    <3>3. Trees = {selected}
      BY <2>2, <3>1, <3>2, OnlyTree DEF TreeSelected
    <3>4. selected = Prefix(Len(plan))
      BY <2>2, <3>1, <3>2, PlanIsSelected
    <3>5. DOMAIN plan = 1..Len(plan)
      BY <3>1 DEF PlanGrows
    <3>6. /\ DOMAIN report.joins = DOMAIN plan
          /\ \A i \in DOMAIN plan : report.joins[i].grant = plan[i]
      BY <2>2 DEF IInv, Reported, IsResolved
    <3>7. {report.joins[i].grant : i \in DOMAIN report.joins} = Prefix(Len(plan))
      BY <3>5, <3>6 DEF Prefix
    <3> QED
      BY <3>3, <3>4, <3>7
  <2> QED
    BY <2>1, <2>2 DEF OnlyClosure
<1> QED
  BY <1>1, Invariant, PTL

\* _resolve_joins_v3 orders the joins so that each adds one relation, a left
\* join its right side, and all fields of a report are reached.
THEOREM PlanIsInOrder == Spec => []PlanInOrder
<1>1. IInv => PlanInOrder
  <2> SUFFICES ASSUME IInv PROVE PlanInOrder
    OBVIOUS
  <2>1. \A i \in DOMAIN plan :
          /\ plan[i] \in selected
          /\ Crosses(plan[i], Joined(i - 1))
          /\ Grant(request, plan[i]).type = "left" => Left(plan[i]) \in Joined(i - 1)
    BY DEF IInv, PlanGrows
  <2>2. ASSUME IsResolved, NEW f \in report.fields
        PROVE  Relation(request, f.column) \in Joined(Len(plan))
    <3>1. /\ Past(FromEvidence) /\ Past(FromCandidates) /\ Past({"values"})
          /\ FieldsSound /\ GrantsSound /\ TreeSelected /\ PlanComplete
      BY <2>2 DEF IInv, Past
    <3>2. Relation(request, f.column) \in required
      BY <2>2, <3>1 DEF IInv, Reported, IsResolved, GrantsSound
    <3>3. CASE selected = {}
      <4>1. Cardinality(required) \in Nat /\ ~(Cardinality(required) > 1)
        BY <3>1, <3>3, GrantsAreSelected, FS_CardinalityType DEF GrantsSound
      <4>2. Base \in required
        BY <3>1, BaseRequired
      <4>3. Relation(request, f.column) = Base
        BY <3>1, <3>2, <4>1, <4>2, AtMostOne DEF GrantsSound
      <4> QED
        BY <4>3, JoinedRelations
    <3>4. CASE selected # {}
      BY <3>1, <3>2, <3>4 DEF PlanComplete
    <3> QED
      BY <3>3, <3>4
  <2> QED
    BY <2>1, <2>2 DEF PlanInOrder
<1> QED
  BY <1>1, Invariant, PTL

\* JOIN_PLAN_DIRECTION_CONFLICT is reported exactly when a grant points back:
\* the order in which the search looks at the grants never makes a conflict.
THEOREM ConflictsAreReal == Spec => []ConflictIsReal
<1>1. IInv => ConflictIsReal
  <2> SUFFICES ASSUME IInv PROVE ConflictIsReal
    OBVIOUS
  <2>1. IsBlocked("JOIN_PLAN_DIRECTION_CONFLICT") => \E j \in selected : PointsBack(j)
    BY DEF IInv, Reported, IsBlocked
  <2>2. IsResolved => \A j \in selected : ~PointsBack(j)
    BY NothingPointsBack DEF IInv
  <2> QED
    BY <2>1, <2>2 DEF ConflictIsReal
<1> QED
  BY <1>1, Invariant, PTL

\* No column of a report could be taken for another one of the snapshot, and
\* the entity keys are columns of one relation.
THEOREM ColumnsAreUnmistakable == Spec => []ColumnsUnmistakable
<1>1. IInv => ColumnsUnmistakable
  <2> SUFFICES ASSUME IInv, IsResolved
               PROVE  /\ \A column \in {f.column : f \in report.fields}
                            \cup {report.joins[i].left : i \in DOMAIN report.joins}
                            \cup {report.joins[i].right : i \in DOMAIN report.joins} :
                            Cardinality(Same(column)) = 1
                      /\ \A k, l \in report.keys :
                            Relation(request, k.field.column) = Relation(request, l.field.column)
    BY DEF ColumnsUnmistakable
  <2>1. /\ name \in DOMAIN Requests /\ Past(FromCandidates) /\ Past(FromGrants)
        /\ FieldsSound /\ KeysSound /\ GrantsSound /\ PlanGrows
    BY DEF IInv, Past
  <2>2. /\ report.fields = fields /\ report.keys = keys /\ DOMAIN report.joins = DOMAIN plan
        /\ \A i \in DOMAIN plan : /\ report.joins[i].left = LeftColumn(request, plan[i])
                                  /\ report.joins[i].right = RightColumn(request, plan[i])
    BY DEF IInv, Reported, IsResolved
  <2>3. ASSUME NEW f \in fields PROVE Cardinality(Same(f.column)) = 1
    BY <2>1, ColumnIsOne DEF FieldsSound
  <2>4. ASSUME NEW i \in DOMAIN plan
        PROVE  /\ Cardinality(Same(LeftColumn(request, plan[i]))) = 1
               /\ Cardinality(Same(RightColumn(request, plan[i]))) = 1
    <3>1. plan[i] \in DOMAIN request.context.joinGrants
      <4>1. plan[i] \in selected
        BY <2>1 DEF PlanGrows
      <4>2. selected \subseteq DOMAIN ends
        BY <4>1, SelectedTree DEF IInv, Past, Between
      <4> QED
        BY <2>1, <4>1, <4>2 DEF GrantsSound
    <3>2. JoinIssue(request, plan[i]) = "ok"
      BY <2>1, <3>1 DEF GrantsSound
    <3>3. /\ ColumnIssue(request, Grant(request, plan[i]).left) = "ok"
          /\ ColumnIssue(request, Grant(request, plan[i]).right) = "ok"
      BY <3>2 DEF JoinIssue
    <3> QED
      BY <2>1, <3>3, ColumnIsOne DEF LeftColumn, RightColumn
  <2>5. ASSUME NEW k \in keys, NEW l \in keys
        PROVE  Relation(request, k.field.column) = Relation(request, l.field.column)
    <3>1. \A m \in keys : Relation(request, m.field.column)
            = Norm(request, request.context.relationGrants[
                                request.context.grains[request.binding.entity]])
      <4>1. TAKE m \in keys
      <4>2. /\ ColumnIssue(request, m.field.grant) = "ok"
            /\ m.field.column = Physical(request, m.field.grant)
            /\ request.context.columnGrants[m.field.grant].relation
                  = request.context.grains[request.binding.entity]
        BY <2>1 DEF FieldsSound, KeysSound
      <4> QED
        BY <4>2, RelationAsGranted
    <3> QED
      BY <3>1
  <2> QED
    BY <2>2, <2>3, <2>4, <2>5
<1> QED
  BY <1>1, Invariant, PTL

\* A report was made only after every join grant of the context and every
\* association of join evidence was found in order, used or not.
THEOREM NothingIsSkipped == Spec => []NothingSkipped
<1>1. IInv => NothingSkipped
  <2> SUFFICES ASSUME IInv, IsResolved PROVE NothingSkipped
    BY DEF NothingSkipped
  <2>1. name \in DOMAIN Requests /\ GrantsSound /\ Past(FromCandidates)
        /\ EvidenceIssue(request) = "ok"
    BY DEF IInv, Past, EvidenceSound
  <2>2. ASSUME NEW j \in DOMAIN request.context.joinGrants
        PROVE  \E i \in DOMAIN request.snapshot.relationships :
                  {Key(request, LeftColumn(request, j)), Key(request, RightColumn(request, j))}
                    = {Key(request, c) : c \in Elements(request.snapshot.relationships[i])}
    <3>1. Relationships(request, j) # {}
      BY <2>1 DEF GrantsSound, JoinIssue
    <3>2. PICK i \in Relationships(request, j) : TRUE
      BY <3>1
    <3>3. /\ i \in DOMAIN request.snapshot.relationships
          /\ {Key(request, request.snapshot.relationships[i][1]),
              Key(request, request.snapshot.relationships[i][2])}
               = {Key(request, LeftColumn(request, j)), Key(request, RightColumn(request, j))}
      BY <3>2 DEF Relationships
    <3>4. DOMAIN request.snapshot.relationships[i] = 1..2
      BY <2>1, <3>3, RequestsAssumption DEF WireModel, request
    <3>5. Elements(request.snapshot.relationships[i])
            = {request.snapshot.relationships[i][1], request.snapshot.relationships[i][2]}
      BY <3>4 DEF Elements
    <3> QED
      BY <3>3, <3>5
  <2>3. ASSUME NEW a \in request.context.joinEvidence
        PROVE  /\ a.request \in request.context.requestIds
               /\ a.grant \in DOMAIN request.context.joinGrants
               /\ a.request = request.binding.requestId => a.payloadSha = Sha(request.binding)
    BY <2>1 DEF EvidenceIssue, Current
  <2> QED
    BY <2>2, <2>3 DEF NothingSkipped
<1> QED
  BY <1>1, Invariant, PTL

\* Every step of the resolution comes closer to its report: it passes a gate,
\* visits a relation for the first time, takes one that it never takes again,
\* or is done with an edge.  So neither search goes round in circles.
THEOREM EveryStepAdvances == Spec => Advances
<1> DEFINE Closer ==
      \/ Rank[pc'] > Rank[pc]
      \/ pc' = pc /\ seen \subseteq seen' /\ seen' # seen
      \/ pc' = pc /\ Untaken' \subseteq Untaken /\ Untaken' # Untaken
      \/ pc' = pc /\ Untaken' = Untaken /\ edges' \subseteq edges /\ edges' # edges
<1>1. IInv /\ [Next]_vars => [Closer]_vars
  <2> SUFFICES ASSUME IInv, Next, ~(UNCHANGED vars) PROVE Closer
    OBVIOUS
  <2>1. CASE ValidateInput \/ ResolveFields \/ ResolveEntityKeys \/ ResolveFilters
             \/ MapEntityGrain \/ ResolveJoinGrants
    BY <2>1 DEF ValidateInput, ResolveFields, ResolveEntityKeys, ResolveFilters, MapEntityGrain,
                ResolveJoinGrants, Gate, Pass, Block, Rank
  <2>2. CASE SelectCandidates \/ CheckClosure \/ ResolveJoinEvidence \/ StartPlan
             \/ ConflictingEdge \/ FinishPlan \/ ResolveValues
    BY <2>2 DEF SelectCandidates, CheckClosure, ResolveJoinEvidence, StartPlan, ConflictingEdge,
                FinishPlan, ResolveValues, Gate, Pass, Block, Rank
  <2>3. CASE Visit
    <3>1. seen \cap pending = {}
      BY <2>3 DEF IInv, Traversal, Visit
    <3> QED
      BY <2>3, <3>1 DEF Visit
  <2>4. CASE Take
    <3>1. /\ queue \in Seq(accumulated) /\ queue # <<>>
          /\ \A i, k \in DOMAIN queue : i # k => queue[i] # queue[k]
          /\ queue' = Tail(queue) /\ accumulated' = accumulated /\ required' = required
          /\ pc' = pc
      BY <2>4 DEF IInv, Search, Take, closureVars
    <3>2. /\ Head(queue) \in accumulated /\ Head(queue) \notin Elements(Tail(queue))
          /\ Elements(queue) = {Head(queue)} \cup Elements(Tail(queue))
      BY <3>1, HeadOfQueue
    <3>3. Untaken = (required \ accumulated) \cup {Head(queue)} \cup Elements(Tail(queue))
      BY <3>2 DEF Untaken
    <3>4. Untaken' = (required \ accumulated) \cup Elements(Tail(queue))
      BY <3>1 DEF Untaken, Elements
    <3> QED
      BY <3>1, <3>2, <3>3, <3>4
  <2>5. CASE SkipEdge
    <3>1. Least(edges) \in edges
      BY <2>5, NextEdge DEF IInv, SkipEdge
    <3> QED
      BY <2>5, <3>1 DEF SkipEdge, Untaken, Elements, closureVars
  <2>6. CASE JoinEdge
    <3> DEFINE v == NewEnd(Least(edges))
    <3>1. /\ pc = "plan" /\ pc' = pc /\ edges # {} /\ v \notin accumulated
          /\ accumulated' = accumulated \cup {v} /\ queue' = Append(queue, v)
          /\ edges' = edges \ {Least(edges)} /\ required' = required
      BY <2>6 DEF JoinEdge, closureVars
    <3>2. /\ Least(edges) \in edges /\ Least(edges) \in selected
          /\ v \in {Left(Least(edges)), Right(Least(edges))}
      BY <3>1, NextEdge DEF IInv
    <3>3. v \in required
      <4>1. Past(FromEvidence) /\ selected # {}
        BY <3>1, <3>2 DEF Past, FromEvidence, FromBase, FromPlan
      <4>2. Inside(ends, required, selected)
        BY <4>1, SelectedTree DEF IInv
      <4> QED
        BY <3>2, <4>2 DEF Inside, Left, Right
    <3> HIDE DEF v
    <3>4. queue \in Seq(accumulated) /\ \A i, k \in DOMAIN queue : i # k => queue[i] # queue[k]
      BY <3>1 DEF IInv, Search
    <3>5. Elements(Append(queue, v)) = Elements(queue) \cup {v}
      BY <3>1, <3>4, EndOfQueue
    <3>6. Untaken' = (required \ (accumulated \cup {v})) \cup Elements(Append(queue, v))
      BY <3>1 DEF Untaken, Elements
    <3>7. Untaken' = Untaken
      BY <3>1, <3>3, <3>5, <3>6 DEF Untaken
    <3> QED
      BY <3>1, <3>2, <3>7
  <2>7. CASE Terminated
    BY <2>7 DEF Terminated
  <2> QED
    BY <2>1, <2>2, <2>3, <2>4, <2>5, <2>6, <2>7 DEF Next
<1> QED
  BY <1>1, Invariant, PTL DEF Spec, Advances
=============================================================================
