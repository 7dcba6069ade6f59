--------------------------- MODULE SqlGateV3_proofs ---------------------------
(***************************************************************************)
(* For any requests, answers and edits: what passes the gate is what was   *)
(* assembled, what was assembled is inspected, what passes returns what    *)
(* its request wants of every row, and what the prompt asks for passes.    *)
(* The first two rest on how the cross references of the generation and    *)
(* the reference checks of the validation divide the work between them,    *)
(* the others on the syntactic checks, read one by one as facts about what *)
(* a statement returns.  JoinGraph_proofs is here for LeastExists.         *)
(***************************************************************************)
EXTENDS SqlGateV3, JoinGraph_proofs

\* No request gets past its scope with an issue, or a resolution that is not
\* current.
CurrentRequest ==
    pc \notin {"scope", "refused"} =>
        /\ ScopeIssues(Requests[name]) = {}
        /\ Requests[name].resolves = "metadataResolved"
        /\ Requests[name].carried = Recomputed(Requests[name])

\* The candidate is an assembled one with at most its SQL replaced.
AssembledFrom(g, sql) ==
    /\ WellFormed(g) /\ CrossReferenced(Requests[name], g)
    /\ candidate = [Assembled(name, g) EXCEPT !.sql = sql]
Provenance ==
    candidate # NoCandidate =>
        \E g \in Payloads[name] : \E sql \in Edits[name] \cup {g.sql} : AssembledFrom(g, sql)

\* A report is that of the candidate, which did not change since.
ReportOfCandidate == report # NoReport => report = Validated(judged, candidate)

\* The invariant.
IInv == TypeOK /\ CurrentRequest /\ Provenance /\ ReportOfCandidate

-----------------------------------------------------------------------------
\* A candidate for request n that declares what g does, with its SQL and hash.
Record(n, g, sql, sha) ==
    [input |-> n, report |-> Recomputed(Requests[n]), sql |-> sql,
     parameters |-> g.parameters, cardinality |-> g.cardinality,
     objects |-> Relations(Requests[n]), usages |-> g.usages,
     trace |-> Requests[n].usages, sha |-> sha]

(* Its hash and its SQL can be replaced and read.                          *)
LEMMA RecordFields ==
  ASSUME NEW n, NEW g, NEW sql, NEW sha, NEW x
  PROVE  /\ [Record(n, g, sql, sha) EXCEPT !.sha = x] = Record(n, g, sql, x)
         /\ [Record(n, g, sql, sha) EXCEPT !.sql = x] = Record(n, g, x, sha)
         /\ Record(n, g, sql, sha).sql = sql /\ Record(n, g, sql, sha).sha = sha
<1>1. [Record(n, g, sql, sha) EXCEPT !.sha = x] = Record(n, g, sql, x)
  BY DEF Record
<1>2. [Record(n, g, sql, sha) EXCEPT !.sql = x] = Record(n, g, x, sha)
  BY DEF Record
<1>3. Record(n, g, sql, sha).sql = sql /\ Record(n, g, sql, sha).sha = sha
  BY DEF Record
<1> QED
  BY <1>1, <1>2, <1>3

(* An assembled candidate with other SQL keeps the hash of its own.        *)
LEMMA AssembledRecord ==
  ASSUME NEW n, NEW g, NEW sql
  PROVE  [Assembled(n, g) EXCEPT !.sql = sql]
           = Record(n, g, sql, Record(n, g, g.sql, "omitted"))
<1> DEFINE bare == Record(n, g, g.sql, "omitted")
<1>1. Assembled(n, g) = [bare EXCEPT !.sha = ContentSha(bare)]
  BY DEF Record, Assembled
<1>2. ContentSha(bare) = bare
  BY RecordFields DEF ContentSha
<1>3. Assembled(n, g) = Record(n, g, g.sql, bare)
  BY <1>1, <1>2, RecordFields
<1> QED
  BY <1>3, RecordFields

(* With the SQL of the answer it is the assembled candidate.               *)
LEMMA SameSql ==
  ASSUME NEW n, NEW g
  PROVE  [Assembled(n, g) EXCEPT !.sql = g.sql] = Assembled(n, g)
<1> DEFINE bare == Record(n, g, g.sql, "omitted")
<1>1. Assembled(n, g) = [bare EXCEPT !.sha = ContentSha(bare)]
  BY DEF Record, Assembled
<1>2. Assembled(n, g) = Record(n, g, g.sql, ContentSha(bare))
  BY <1>1, RecordFields
<1> QED
  BY <1>2, RecordFields

-----------------------------------------------------------------------------
(* Every issue is a code.                                                  *)
LEMMA IssuesAreCodes ==
  ASSUME NEW r, NEW c
  PROVE  Issues(r, c) \subseteq Codes
<1>1. PortIssues(r, c.sql) \subseteq Codes
  BY DEF PortIssues, TableIssues, Codes
<1>2. ResultIssues(r, c.sql) \subseteq Codes
  BY DEF ResultIssues, Codes
<1>3. KeyIssues(r, c.sql) \subseteq Codes
  BY DEF KeyIssues, Codes
<1>4. FilterIssues(r, c.sql) \subseteq Codes
  BY DEF FilterIssues, Codes
<1>5. EncodingIssues(r, c.sql) \subseteq Codes
  BY DEF EncodingIssues, Codes
<1>6. CardinalityIssues(r, c.sql, c) \subseteq Codes
  BY DEF CardinalityIssues, Codes
<1>7. SemanticIssues(r, c) \subseteq Codes
  <2>1. {"SQL_OBJ_COUNT", "SQL_PARAM_MISMATCH"} \subseteq Codes
    BY DEF Codes
  <2> QED
    BY <1>2, <1>3, <1>4, <1>5, <1>6, <2>1 DEF SemanticIssues
<1> QED
  BY <1>1, <1>7 DEF Issues, Codes

(* So a validation yields a report.                                        *)
LEMMA ValidatedIsReport ==
  ASSUME NEW n, NEW c
  PROVE  Validated(n, c) \in Reports /\ Validated(n, c) # NoReport
<1>1. Validated(n, c) \in Reports
  BY IssuesAreCodes DEF Validated, Reports
<1> QED
  BY <1>1, GateAssumption

(* Nothing is there at first.                                              *)
LEMMA InitEstablishesIInv == Init => IInv
  BY DEF Init, IInv, TypeOK, CurrentRequest, Provenance, ReportOfCandidate

(* Every step keeps the invariant.                                         *)
LEMMA NextPreservesIInv == IInv /\ [Next]_vars => IInv'
<1> SUFFICES ASSUME IInv, [Next]_vars PROVE IInv'
  OBVIOUS
<1>1. CASE UNCHANGED vars
  BY <1>1 DEF vars, IInv, TypeOK, CurrentRequest, Provenance, AssembledFrom,
              ReportOfCandidate
<1>2. CASE CheckScope
  BY <1>2 DEF CheckScope, IInv, TypeOK, CurrentRequest, Provenance, ReportOfCandidate
<1>3. CASE Answer
  <2>1. PICK g \in Payloads[name] :
          IF WellFormed(g) /\ CrossReferenced(Requests[name], g)
          THEN pc' = "assembled" /\ candidate' = Assembled(name, g)
          ELSE pc' = "rejected" /\ UNCHANGED candidate
    BY <1>3 DEF Answer
  <2>2. pc = "model" /\ UNCHANGED <<name, judged, report>>
    BY <1>3 DEF Answer
  <2>3. candidate = NoCandidate /\ report = NoReport /\ name \in DOMAIN Requests
    BY <2>2 DEF IInv, TypeOK
  <2>4. [Assembled(name, g) EXCEPT !.sql = g.sql] = Assembled(name, g)
    BY SameSql
  <2>5. Assembled(name, g) # NoCandidate
    BY <2>3, <2>4, GateAssumption
  <2>6. TypeOK'
    BY <2>1, <2>2, <2>3, <2>5 DEF IInv, TypeOK
  <2>7. CurrentRequest' /\ ReportOfCandidate'
    BY <2>1, <2>2, <2>3 DEF IInv, CurrentRequest, ReportOfCandidate
  <2>8. Provenance'
    BY <2>1, <2>2, <2>3, <2>4 DEF Provenance, AssembledFrom
  <2> QED
    BY <2>6, <2>7, <2>8 DEF IInv
<1>4. CASE Edit
  <2>1. PICK sql \in Edits[name] : candidate' = [candidate EXCEPT !.sql = sql]
    BY <1>4 DEF Edit
  <2>2. pc = "assembled" /\ pc' = "edited" /\ UNCHANGED <<name, judged, report>>
    BY <1>4 DEF Edit
  <2>3. name \in DOMAIN Requests /\ candidate # NoCandidate /\ report = NoReport
    BY <2>2 DEF IInv, TypeOK
  <2>4. PICK g \in Payloads[name] : \E old \in Edits[name] \cup {g.sql} : AssembledFrom(g, old)
    BY <2>3 DEF IInv, Provenance
  <2>5. candidate' = [Assembled(name, g) EXCEPT !.sql = sql]
    BY <2>1, <2>4 DEF AssembledFrom
  <2>6. candidate' # NoCandidate
    BY <2>3, <2>5, GateAssumption
  <2>7. TypeOK'
    BY <2>2, <2>3, <2>6 DEF IInv, TypeOK
  <2>8. CurrentRequest' /\ ReportOfCandidate'
    BY <2>2, <2>3 DEF IInv, CurrentRequest, ReportOfCandidate
  <2>9. Provenance'
    BY <2>2, <2>4, <2>5 DEF Provenance, AssembledFrom
  <2> QED
    BY <2>7, <2>8, <2>9 DEF IInv
<1>5. CASE Validate
  <2>1. PICK n \in Judges[name] : judged' = n /\ report' = Validated(n, candidate)
    BY <1>5 DEF Validate
  <2>2. pc \in {"assembled", "edited"} /\ pc' = "validated" /\ UNCHANGED <<name, candidate>>
    BY <1>5 DEF Validate
  <2>3. report' \in Reports /\ report' # NoReport
    BY <2>1, ValidatedIsReport
  <2>4. n \in DOMAIN Requests
    BY <2>1, GateAssumption DEF IInv, TypeOK
  <2>5. TypeOK'
    BY <2>1, <2>2, <2>3, <2>4 DEF IInv, TypeOK
  <2>6. CurrentRequest' /\ Provenance'
    BY <2>2 DEF IInv, CurrentRequest, Provenance, AssembledFrom
  <2>7. ReportOfCandidate'
    BY <2>1, <2>2 DEF ReportOfCandidate
  <2> QED
    BY <2>5, <2>6, <2>7 DEF IInv
<1> QED
  BY <1>1, <1>2, <1>3, <1>4, <1>5 DEF Next, Terminated

-----------------------------------------------------------------------------
(* The hash of a candidate is that of its content only if its SQL is the   *)
(* one it was assembled with: SQL that was put in its place is noticed.    *)
LEMMA HashTellsSql ==
  ASSUME NEW g, NEW sql, AssembledFrom(g, sql)
  PROVE  candidate.sha = ContentSha(candidate) <=> sql = g.sql
<1> DEFINE bare == Record(name, g, g.sql, "omitted")
<1>1. candidate = Record(name, g, sql, bare)
  BY AssembledRecord DEF AssembledFrom
<1>2. candidate.sha = bare /\ ContentSha(candidate) = Record(name, g, sql, "omitted")
  BY <1>1, RecordFields DEF ContentSha
<1>3. bare.sql = g.sql /\ Record(name, g, sql, "omitted").sql = sql
  BY RecordFields
<1> HIDE DEF bare
<1>4. sql = g.sql => Record(name, g, sql, "omitted") = bare
  BY DEF bare
<1> QED
  BY <1>2, <1>3, <1>4

(* A candidate agrees with the references of the request it was assembled  *)
(* for if its hash does, and with those of no other.                       *)
LEMMA AgreementIsTheHash ==
  ASSUME IInv, pc = "validated", NEW g, NEW sql, AssembledFrom(g, sql), NEW n
  PROVE  ReferencesAgree(n, candidate) <=> n = name /\ sql = g.sql
<1>1. candidate.sha = ContentSha(candidate) <=> sql = g.sql
  BY HashTellsSql
<1>2. candidate.input = name
  BY DEF AssembledFrom, Assembled
<1>3. /\ candidate.report = Recomputed(Requests[name])
      /\ candidate.parameters = g.parameters /\ candidate.cardinality = g.cardinality
      /\ candidate.objects = Relations(Requests[name])
      /\ candidate.usages = g.usages /\ candidate.trace = Requests[name].usages
  BY DEF AssembledFrom, Assembled
<1>4. /\ g.parameters = Requests[name].parameters
      /\ g.cardinality = Consumer(Requests[name]) /\ g.usages = Requests[name].usages
  BY DEF AssembledFrom, CrossReferenced
<1>5. /\ Requests[name].resolves = "metadataResolved"
      /\ Requests[name].carried = Recomputed(Requests[name])
  BY DEF IInv, CurrentRequest
<1> QED
  BY <1>1, <1>2, <1>3, <1>4, <1>5 DEF ReferencesAgree

-----------------------------------------------------------------------------
(* What the checks leave                                                   *)

(* What a request without a scope issue asks of a row: its fields are of   *)
(* one relation, and each filter is one that an entity key enforces.       *)
LEMMA InScope ==
  ASSUME NEW r, WireRequest(r), ScopeIssues(r) = {}
  PROVE  /\ RowLevel(r)
         /\ Keys(r) = DOMAIN r.parameters
         /\ \A f \in Elements(r.filters) : FilterQualifies(r, f)
         /\ r.filters # <<>> => Qualified(r) # {}
<1>1. r.kind = "source" /\ r.aggregation = "none" /\ r.timeRange = "none"
  <2>1. "FACT_KIND" \notin ScopeIssues(r) /\ "AGGREGATION" \notin ScopeIssues(r)
        /\ "TIME_RANGE" \notin ScopeIssues(r)
    OBVIOUS
  <2> QED
    BY <2>1 DEF ScopeIssues
<1>2. Cardinality(Relations(r)) = 1
  <2>1. ~(Cardinality(Relations(r)) > 1)
    <3>1. "MULTIPLE_RELATIONS" \notin ScopeIssues(r)
      OBVIOUS
    <3> QED
      BY <3>1 DEF ScopeIssues
  <2>2. IsFiniteSet(Relations(r))
    <3> DEFINE F == [id \in DOMAIN r.fields |-> r.fields[id].relation]
    <3>1. F \in Surjection(DOMAIN r.fields, Relations(r))
      BY DEF Surjection, Relations
    <3>2. IsFiniteSet(DOMAIN r.fields)
      BY DEF WireRequest
    <3> HIDE DEF F
    <3> QED
      BY <3>1, <3>2, FS_Surjection
  <2>3. r.fields["factValue"].relation \in Relations(r)
    BY DEF WireRequest, Relations
  <2>4. Cardinality(Relations(r)) \in Nat /\ Cardinality(Relations(r)) # 0
    BY <2>2, <2>3, FS_CardinalityType, FS_EmptySet
  <2> QED
    BY <2>1, <2>4
<1>3. Keys(r) = DOMAIN r.parameters
  <2>1. "PARAMETERS" \notin ScopeIssues(r)
    OBVIOUS
  <2>2. \A q \in DOMAIN r.parameters : r.parameters[q].role = "entityKey"
    BY <2>1 DEF ScopeIssues
  <2> QED
    BY <2>2 DEF WireRequest
<1>4. r.filters # <<>> => Qualified(r) # {}
  <2>1. "FILTERS" \notin ScopeIssues(r)
    OBVIOUS
  <2> QED
    BY <2>1 DEF ScopeIssues
<1>5. \A f \in Elements(r.filters) : FilterQualifies(r, f)
  <2>1. CASE r.filters = <<>>
    <3>1. Elements(r.filters) = {}
      BY <2>1 DEF Elements
    <3> QED
      BY <3>1
  <2>2. CASE r.filters # <<>>
    BY <1>4, <2>2 DEF Qualified
  <2> QED
    BY <2>1, <2>2
<1> QED
  BY <1>1, <1>2, <1>3, <1>4, <1>5 DEF RowLevel

(* A column that a reference denotes is one of the snapshot.               *)
LEMMA PhysicalIsColumn ==
  ASSUME NEW r, NEW s, NEW ref, Physical(r, s, ref) # Nowhere
  PROVE  /\ Physical(r, s, ref) \in DOMAIN r.columns
         /\ ~ref.extra
         /\ \E i \in DOMAIN s.from : s.from[i].kind = "plain" /\ Allowed(r, s.from[i])
<1> DEFINE found == {c \in DOMAIN r.columns :
                       \E i \in Sources(r, s, ref.qualifier) :
                          /\ Norm(r, c[1]) = Norm(r, s.from[i].relation)
                          /\ Norm(r, c[2]) = Norm(r, ref.column)
                          /\ s.from[i].kind = "plain"}
<1>1. ~ref.extra /\ found # {} /\ Physical(r, s, ref) = CHOOSE c \in found : TRUE
  BY DEF Physical
<1>2. PICK c \in found : TRUE
  BY <1>1
<1>3. PICK i \in Sources(r, s, ref.qualifier) :
        Norm(r, c[1]) = Norm(r, s.from[i].relation) /\ s.from[i].kind = "plain"
  BY <1>2
<1>4. i \in DOMAIN s.from /\ c \in DOMAIN r.columns
  BY <1>2, <1>3 DEF Sources
<1>5. Allowed(r, s.from[i])
  BY <1>3, <1>4 DEF Allowed
<1>6. (CHOOSE x \in found : TRUE) \in found
  BY <1>1
<1> QED
  BY <1>1, <1>3, <1>4, <1>5, <1>6

(* The condition that binds a parameter to a column compares the two.      *)
LEMMA BoundCompares ==
  ASSUME NEW r, NEW s, NEW c, c.op = "eq", Binds(r, s, c), NEW row, NEW args
  PROVE  /\ Bound(r, s, c).column \in DOMAIN r.columns
         /\ Holds(r, s, c, row, args) <=>
              Comparable("eq", row[Bound(r, s, c).column], args[Bound(r, s, c).parameter])
<1>1. CASE Column(r, s, c.left) # Nowhere
  <2>1. /\ c.left.kind = "column" /\ Column(r, s, c.left) = Physical(r, s, c.left.ref)
        /\ c.right.kind = "parameter"
    BY <1>1 DEF Binds, Column, IsParameter
  <2>2. Bound(r, s, c) = [parameter |-> c.right.name, column |-> Column(r, s, c.left)]
    BY <1>1 DEF Bound
  <2>3. /\ Term(r, s, c.left, row, args) = row[Physical(r, s, c.left.ref)]
        /\ Term(r, s, c.right, row, args) = args[c.right.name]
    BY <2>1 DEF Term
  <2> QED
    BY <1>1, <2>1, <2>2, <2>3, PhysicalIsColumn DEF Holds, Comparable
<1>2. CASE Column(r, s, c.left) = Nowhere
  <2>1. /\ c.right.kind = "column" /\ Column(r, s, c.right) = Physical(r, s, c.right.ref)
        /\ c.left.kind = "parameter" /\ Column(r, s, c.right) # Nowhere
    BY <1>2 DEF Binds, Column, IsParameter
  <2>2. Bound(r, s, c) = [parameter |-> c.left.name, column |-> Column(r, s, c.right)]
    BY <1>2 DEF Bound
  <2>3. /\ Term(r, s, c.right, row, args) = row[Physical(r, s, c.right.ref)]
        /\ Term(r, s, c.left, row, args) = args[c.left.name]
    BY <2>1 DEF Term
  <2> QED
    BY <2>1, <2>2, <2>3, PhysicalIsColumn DEF Holds, Comparable
<1> QED
  BY <1>1, <1>2

(* WHERE without an issue is one equality for each entity key.             *)
LEMMA KeysBound ==
  ASSUME NEW r, NEW s, Parsed(s), ~Forbidden(s), KeyIssues(r, s) = {}
  PROVE  /\ \A i \in DOMAIN s.where :
              /\ s.where[i].op = "eq" /\ Binds(r, s, s.where[i])
              /\ Bound(r, s, s.where[i]).parameter \in Keys(r)
              /\ Bound(r, s, s.where[i]).column = KeyColumn(r, Bound(r, s, s.where[i]).parameter)
         /\ \A k \in Keys(r) : \E i \in DOMAIN s.where : Bound(r, s, s.where[i]).parameter = k
<1> DEFINE cs == Comparisons(s)
           self == {i \in DOMAIN cs : IsParameter(cs[i].left) /\ IsParameter(cs[i].right)}
           literal == {i \in DOMAIN cs \ self : IsLiteral(cs[i])}
           shaped == {i \in DOMAIN cs \ (self \cup literal) : Binds(r, s, cs[i])}
           equal == {i \in shaped : cs[i].op = "eq"}
           on(k) == {i \in equal : Bound(r, s, cs[i]).parameter = k}
           first(k) == CHOOSE i \in on(k) : \A j \in on(k) : i <= j
<1>1. \A i \in DOMAIN s.where : s.where[i].op = "eq" /\ ~IsLiteral(s.where[i])
  BY DEF Forbidden, IsLiteral
<1>2. cs = s.where
  BY <1>1 DEF Comparisons
<1>3. /\ "SQL_SELF_CMP" \notin KeyIssues(r, s) /\ "SQL_CMP_SHAPE" \notin KeyIssues(r, s)
      /\ "SQL_KEY_DUPLICATE" \notin KeyIssues(r, s) /\ "SQL_KEY_MISSING" \notin KeyIssues(r, s)
      /\ "SQL_KEY_WRONG" \notin KeyIssues(r, s) /\ "SQL_KEY_EXTRA" \notin KeyIssues(r, s)
  OBVIOUS
<1>4. self = {}
  BY <1>3 DEF KeyIssues
<1>5. shaped = DOMAIN cs \ (self \cup literal)
  BY <1>3 DEF KeyIssues
<1>6. \A i, j \in equal : i # j => Bound(r, s, cs[i]).parameter # Bound(r, s, cs[j]).parameter
  BY <1>3 DEF KeyIssues
<1>7. \A k \in Keys(r) : on(k) # {}
  BY <1>3 DEF KeyIssues
<1>8. \A k \in Keys(r) : on(k) # {} => Bound(r, s, cs[first(k)]).column = KeyColumn(r, k)
  BY <1>3 DEF KeyIssues
<1>9. \A i \in equal : Bound(r, s, cs[i]).parameter \in Keys(r)
  BY <1>3 DEF KeyIssues
<1>10. equal = DOMAIN s.where /\ DOMAIN s.where \subseteq Nat
  <2>1. literal = {}
    BY <1>1, <1>2
  <2>2. DOMAIN s.where \subseteq Nat
    BY DEF Parsed, IsList
  <2> QED
    BY <1>1, <1>2, <1>4, <1>5, <2>1, <2>2
<1> HIDE DEF cs, self, literal, shaped, equal
<1>11. ASSUME NEW i \in DOMAIN s.where
       PROVE  Bound(r, s, s.where[i]).column = KeyColumn(r, Bound(r, s, s.where[i]).parameter)
  <2> DEFINE k == Bound(r, s, cs[i]).parameter
  <2>1. k \in Keys(r)
    BY <1>9, <1>10
  <2>2. on(k) = {i}
    BY <1>6, <1>10
  <2>3. first(k) = i
    <3>1. \E j \in on(k) : \A m \in on(k) : j <= m
      BY <1>10, <2>2
    <3>2. first(k) \in on(k)
      BY <3>1
    <3> QED
      BY <2>2, <3>2
  <2> QED
    BY <1>2, <1>8, <2>1, <2>2, <2>3
<1>12. ASSUME NEW i \in DOMAIN s.where PROVE Binds(r, s, s.where[i])
  <2>1. i \in shaped
    BY <1>10 DEF equal
  <2> QED
    BY <1>2, <2>1 DEF shaped
<1> QED
  BY <1>1, <1>2, <1>7, <1>9, <1>10, <1>11, <1>12

(* What such a WHERE keeps are the rows of the entity.                     *)
LEMMA WhereIsTheKeys ==
  ASSUME NEW r, NEW s, Parsed(s), ~Forbidden(s), KeyIssues(r, s) = {}, NEW row, NEW args
  PROVE  /\ (\A i \in DOMAIN s.where : Holds(r, s, s.where[i], row, args))
              <=> (\A k \in Keys(r) : Comparable("eq", row[KeyColumn(r, k)], args[k]))
         /\ \A k \in Keys(r) : KeyColumn(r, k) \in DOMAIN r.columns
<1>1. ASSUME NEW i \in DOMAIN s.where
      PROVE  LET k == Bound(r, s, s.where[i]).parameter IN
             /\ Holds(r, s, s.where[i], row, args) <=> Comparable("eq", row[KeyColumn(r, k)], args[k])
             /\ KeyColumn(r, k) \in DOMAIN r.columns
  <2>1. /\ s.where[i].op = "eq" /\ Binds(r, s, s.where[i])
        /\ Bound(r, s, s.where[i]).column = KeyColumn(r, Bound(r, s, s.where[i]).parameter)
    BY KeysBound
  <2>2. /\ Bound(r, s, s.where[i]).column \in DOMAIN r.columns
        /\ Holds(r, s, s.where[i], row, args) <=>
              Comparable("eq", row[Bound(r, s, s.where[i]).column],
                         args[Bound(r, s, s.where[i]).parameter])
    BY <2>1, BoundCompares
  <2> QED
    BY <2>1, <2>2
<1>2. \A i \in DOMAIN s.where : Bound(r, s, s.where[i]).parameter \in Keys(r)
  BY KeysBound
<1>3. \A k \in Keys(r) : \E i \in DOMAIN s.where : Bound(r, s, s.where[i]).parameter = k
  BY KeysBound
<1> QED
  BY <1>1, <1>2, <1>3

(* The result without an issue is one expression over the value's column.  *)
LEMMA ResultIsTheFact ==
  ASSUME NEW r, NEW s, WireRequest(r), Parsed(s), ResultIssues(r, s) = {}
  PROVE  /\ Len(s.projections) = 1 /\ DOMAIN s.projections = {1}
         /\ s.projections[1].alias = "fact_value" /\ s.projections[1].kind \in {"column", "case"}
         /\ Physical(r, s, s.projections[1].ref) = FactColumn(r)
         /\ \A ref \in References(s) : Physical(r, s, ref) # Nowhere
<1>1. /\ Len(ResultColumns(r, s)) = 1
      /\ ResultColumns(r, s)[1].alias = "fact_value"
      /\ ResultColumns(r, s)[1].source = FactColumn(r)
  BY DEF ResultIssues
<1>2. \A ref \in References(s) : Physical(r, s, ref) # Nowhere
  BY <1>1 DEF ResultColumns
<1>3. Len(s.projections) \in Nat /\ DOMAIN s.projections = 1..Len(s.projections)
  BY DEF Parsed, IsList
<1>4. ResultColumns(r, s) = [i \in 1..Len(s.projections) |->
          [alias |-> s.projections[i].alias,
           source |-> IF s.projections[i].kind = "other" THEN Nowhere
                      ELSE Physical(r, s, s.projections[i].ref)]]
  BY <1>2, <1>3 DEF ResultColumns
<1>5. Len(s.projections) = 1
  <2>1. Len(ResultColumns(r, s)) = Len(s.projections)
    BY <1>3, <1>4
  <2> QED
    BY <1>1, <2>1
<1>6. DOMAIN s.projections = {1}
  BY <1>3, <1>5
<1>7. ResultColumns(r, s)[1] = [alias |-> s.projections[1].alias,
           source |-> IF s.projections[1].kind = "other" THEN Nowhere
                      ELSE Physical(r, s, s.projections[1].ref)]
  BY <1>4, <1>5
<1>8. s.projections[1].kind \in {"column", "case", "other"}
  BY <1>6 DEF Parsed
<1>9. FactColumn(r) # Nowhere
  BY DEF WireRequest
<1> QED
  BY <1>1, <1>2, <1>5, <1>6, <1>7, <1>8, <1>9

(* Tables without an issue, one of which is allowed, are one table.        *)
LEMMA OneTable ==
  ASSUME NEW r, NEW s, Parsed(s), TableIssues(r, s) = {},
         Cardinality({i \in DOMAIN s.from : Allowed(r, s.from[i])}) = 1
  PROVE  Len(s.from) = 1 /\ s.from[1].kind = "plain"
<1>1. /\ "SQL_OBJECT_NOT_ALLOWED" \notin TableIssues(r, s) /\ "SQL_TEMP_OBJECT" \notin TableIssues(r, s)
      /\ "SQL_CROSS_DATABASE" \notin TableIssues(r, s)
  OBVIOUS
<1>2. \A i \in DOMAIN s.from :
        /\ ~(s.from[i].kind = "plain" /\ ~Allowed(r, s.from[i]))
        /\ s.from[i].kind # "temp" /\ s.from[i].kind # "catalog"
  BY <1>1 DEF TableIssues
<1>3. \A i \in DOMAIN s.from : s.from[i].kind = "plain" /\ Allowed(r, s.from[i])
  BY <1>2 DEF Parsed
<1>4. {i \in DOMAIN s.from : Allowed(r, s.from[i])} = 1..Len(s.from) /\ Len(s.from) \in Nat
  BY <1>3 DEF Parsed, IsList
<1>5. Cardinality(1..Len(s.from)) = Len(s.from)
  <2> DEFINE n == Len(s.from)
  <2>1. n \in Nat
    BY <1>4
  <2> HIDE DEF n
  <2>2. 1 \in Int /\ n \in Int
    BY ONLY <2>1
  <2>3. Cardinality(1..n) = IF 1 > n THEN 0 ELSE n - 1 + 1
    BY ONLY <2>2, FS_Interval
  <2>4. Cardinality(1..n) = n
    BY ONLY <2>1, <2>3
  <2> QED
    BY <2>4 DEF n
<1>6. Len(s.from) = 1
  BY <1>4, <1>5
<1> QED
  BY <1>3, <1>6 DEF Parsed, IsList

(* What a request's encoding makes of a value.                             *)
Encoded(r, v) ==
    IF r.encoding.kind # "mappedCase" THEN v
    ELSE IF \E e \in r.encoding.entries : v # Null /\ e[1] = v
    THEN (CHOOSE e \in r.encoding.entries : e[1] = v)[2]
    ELSE Null

(* A CASE with the arms of the encoding, in any order, decodes as it says. *)
LEMMA ArmsDecode ==
  ASSUME NEW r, NEW p, NEW v, WireRequest(r), r.encoding.kind = "mappedCase", IsList(p.arms),
         Elements(p.arms) = r.encoding.entries, p.otherwise = Null
  PROVE  Decoded(p, v) = Encoded(r, v)
<1> DEFINE matching == {i \in DOMAIN p.arms : v # Null /\ p.arms[i][1] = v}
           first == CHOOSE i \in matching : \A j \in matching : i <= j
<1>1. CASE matching = {}
  <2>1. ~\E e \in r.encoding.entries : v # Null /\ e[1] = v
    BY <1>1 DEF Elements
  <2> QED
    BY <1>1, <2>1 DEF Decoded, Encoded
<1>2. CASE matching # {}
  <2>1. \E i \in matching : \A j \in matching : i <= j
    <3>1. IsFiniteSet(1..Len(p.arms)) /\ DOMAIN p.arms = 1..Len(p.arms) /\ Len(p.arms) \in Nat
      BY FS_Interval DEF IsList
    <3>2. IsFiniteSet(matching) /\ matching \in SUBSET Nat
      BY <3>1, FS_Subset
    <3> HIDE DEF matching
    <3> QED
      BY <1>2, <3>2, LeastExists
  <2>2. first \in matching
    BY <2>1
  <2>3. Decoded(p, v) = p.arms[first][2]
    BY <1>2 DEF Decoded
  <2>4. p.arms[first] \in r.encoding.entries /\ v # Null /\ p.arms[first][1] = v
    BY <2>2 DEF Elements
  <2> HIDE DEF first
  <2>5. (CHOOSE e \in r.encoding.entries : e[1] = v) = p.arms[first]
    <3>1. \A e \in r.encoding.entries : e[1] = v => e = p.arms[first]
      BY <2>4 DEF WireRequest
    <3>2. (CHOOSE e \in r.encoding.entries : e[1] = v) \in r.encoding.entries
          /\ (CHOOSE e \in r.encoding.entries : e[1] = v)[1] = v
      BY <2>4
    <3> QED
      BY <3>1, <3>2
  <2> QED
    BY <2>3, <2>4, <2>5 DEF Encoded
<1> QED
  BY <1>1, <1>2

(* A projection without an issue yields the encoded value.                 *)
LEMMA ProjectionEncodes ==
  ASSUME NEW r, NEW s, WireRequest(r), Parsed(s), ResultIssues(r, s) = {},
         EncodingIssues(r, s) = {}, NEW row
  PROVE  Projected(r, s, s.projections[1], row) = Encoded(r, row[FactColumn(r)])
<1> DEFINE p == s.projections[1]
           v == row[FactColumn(r)]
<1>1. /\ DOMAIN s.projections = {1} /\ p.kind \in {"column", "case"}
      /\ Physical(r, s, p.ref) = FactColumn(r)
  BY ResultIsTheFact
<1>2. Projected(r, s, p, row) = IF p.kind = "case" THEN Decoded(p, v) ELSE v
  BY <1>1 DEF Projected
<1>3. CASE r.encoding.kind # "mappedCase"
  <2>1. ~HasCase(s)
    BY <1>3 DEF EncodingIssues
  <2>2. p.kind # "case"
    BY <1>1, <2>1 DEF HasCase
  <2> QED
    BY <1>2, <1>3, <2>2 DEF Encoded
<1>4. CASE r.encoding.kind = "mappedCase"
  <2>1. Cardinality(EncodingCases(r, s)) = 1
    BY <1>4 DEF EncodingIssues
  <2>2. EncodingCases(r, s) \subseteq {1}
    BY <1>1 DEF EncodingCases
  <2>3. EncodingCases(r, s) = {1}
    BY <2>1, <2>2, FS_EmptySet
  <2>4. p.kind = "case"
    BY <2>3 DEF EncodingCases
  <2>5. (CHOOSE i \in EncodingCases(r, s) : TRUE) = 1
    BY <2>3
  <2>6. "SQL_ENCODING_ARMS" \notin EncodingIssues(r, s) /\ "SQL_ENCODING_ELSE" \notin EncodingIssues(r, s)
    OBVIOUS
  <2>7. Elements(p.arms) = r.encoding.entries /\ p.otherwise = Null
    BY <1>4, <2>1, <2>5, <2>6 DEF EncodingIssues
  <2>8. IsList(p.arms)
    BY <1>1 DEF Parsed
  <2> QED
    BY <1>2, <1>4, <2>4, <2>7, <2>8, ArmsDecode
<1> QED
  BY <1>3, <1>4

(* The filters that entity keys enforce change nothing of what is wanted.  *)
LEMMA WantedByKeys ==
  ASSUME NEW r, \A f \in Elements(r.filters) : FilterQualifies(r, f),
         \A k \in Keys(r) : KeyColumn(r, k) \in DOMAIN r.columns,
         NEW row \in Rows(r), NEW args
  PROVE  Wanted(r, row, args) =
           IF \A k \in Keys(r) : Comparable("eq", row[KeyColumn(r, k)], args[k])
           THEN <<Encoded(r, row[FactColumn(r)])>> ELSE <<>>
<1>1. ASSUME NEW f \in Elements(r.filters)
      PROVE  /\ f.operand \in Keys(r) /\ f.required /\ f.operator = "eq"
             /\ Operand(f, args) = args[f.operand]
             /\ FieldColumn(r, f.field) = KeyColumn(r, f.operand)
             /\ row[FieldColumn(r, f.field)] # Null
  <2>1. FilterQualifies(r, f)
    OBVIOUS
  <2>2. KeyColumn(r, f.operand) \in DOMAIN r.columns /\ ~r.columns[KeyColumn(r, f.operand)]
    BY <2>1 DEF FilterQualifies
  <2>3. row[KeyColumn(r, f.operand)] # Null
    BY <2>2 DEF Rows
  <2>4. FieldColumn(r, f.field) = KeyColumn(r, f.operand)
    BY <2>1 DEF FilterQualifies, KeyColumn
  <2> QED
    BY <2>1, <2>3, <2>4 DEF FilterQualifies, Operand
<1>2. CASE \A k \in Keys(r) : Comparable("eq", row[KeyColumn(r, k)], args[k])
  BY <1>1, <1>2 DEF Wanted, Encoded
<1>3. CASE ~\A k \in Keys(r) : Comparable("eq", row[KeyColumn(r, k)], args[k])
  BY <1>1, <1>3 DEF Wanted
<1> QED
  BY <1>2, <1>3

(* What passes all checks is exact.                                        *)
LEMMA NoIssueIsExact ==
  ASSUME NEW r, NEW c, WireRequest(r), Parsed(c.sql), ScopeIssues(r) = {}, Issues(r, c) = {}
  PROVE  Exact(r, c.sql)
<1> DEFINE s == c.sql
<1>1. s.statements = 1 /\ s.root = "Select" /\ PortIssues(r, s) = {} /\ SemanticIssues(r, c) = {}
  BY DEF Issues
<1>2. TableIssues(r, s) = {} /\ ~Forbidden(s)
  <2>1. "SQL_NODE_FORBIDDEN" \notin PortIssues(r, s)
    BY <1>1
  <2> QED
    BY <1>1, <2>1 DEF PortIssues
<1>3. /\ Cardinality({i \in DOMAIN s.from : Allowed(r, s.from[i])}) = 1
      /\ Placeholders(s) = DOMAIN r.parameters
      /\ ResultIssues(r, s) = {} /\ KeyIssues(r, s) = {} /\ EncodingIssues(r, s) = {}
  BY <1>1 DEF SemanticIssues
<1> HIDE DEF s
<1>4. Parsed(s)
  BY DEF s
<1>5. Plain(r, s)
  <2>1. Len(s.from) = 1 /\ s.from[1].kind = "plain"
    BY <1>2, <1>3, <1>4, OneTable
  <2>2. s.nodes = {}
    BY <1>2 DEF Forbidden
  <2>3. /\ Len(s.projections) = 1 /\ s.projections[1].alias = "fact_value"
        /\ s.projections[1].kind \in {"column", "case"}
        /\ \A ref \in References(s) : Physical(r, s, ref) # Nowhere
    BY <1>3, <1>4, ResultIsTheFact
  <2> QED
    BY <1>1, <1>3, <2>1, <2>2, <2>3 DEF Plain
<1>6. ASSUME NEW row \in Rows(r), NEW args \in [DOMAIN r.parameters -> Values \cup {Null}]
      PROVE  Returned(r, s, row, args) = Wanted(r, row, args)
  <2>1. /\ (\A i \in DOMAIN s.where : Holds(r, s, s.where[i], row, args))
              <=> (\A k \in Keys(r) : Comparable("eq", row[KeyColumn(r, k)], args[k]))
        /\ \A k \in Keys(r) : KeyColumn(r, k) \in DOMAIN r.columns
    BY <1>2, <1>3, <1>4, WhereIsTheKeys
  <2>2. Projected(r, s, s.projections[1], row) = Encoded(r, row[FactColumn(r)])
    BY <1>3, <1>4, ProjectionEncodes
  <2>3. \A f \in Elements(r.filters) : FilterQualifies(r, f)
    BY InScope
  <2>4. Wanted(r, row, args) =
           IF \A k \in Keys(r) : Comparable("eq", row[KeyColumn(r, k)], args[k])
           THEN <<Encoded(r, row[FactColumn(r)])>> ELSE <<>>
    BY <2>1, <2>3, WantedByKeys
  <2> QED
    BY <2>1, <2>2, <2>4 DEF Returned
<1>7. RowLevel(r)
  BY InScope
<1> QED
  BY <1>5, <1>6, <1>7 DEF Exact, s

-----------------------------------------------------------------------------
(* What the prompt asks for                                                *)

(* As many conditions as entity keys, one for each key, are one for each.  *)
LEMMA OneConditionEach ==
  ASSUME NEW r, NEW s, Parsed(s), IsFiniteSet(Keys(r)), Len(s.where) = Cardinality(Keys(r)),
         \A k \in Keys(r) : \E i \in DOMAIN s.where : Bound(r, s, s.where[i]).parameter = k
  PROVE  /\ \A i \in DOMAIN s.where : Bound(r, s, s.where[i]).parameter \in Keys(r)
         /\ \A i, j \in DOMAIN s.where :
              Bound(r, s, s.where[i]).parameter = Bound(r, s, s.where[j]).parameter => i = j
<1> DEFINE W == DOMAIN s.where
           param(i) == Bound(r, s, s.where[i]).parameter
           I == {i \in W : param(i) \in Keys(r)}
           F == [i \in I |-> param(i)]
<1>1. IsFiniteSet(W) /\ Cardinality(W) = Cardinality(Keys(r))
  <2>1. Len(s.where) \in Nat /\ W = 1..Len(s.where)
    BY DEF Parsed, IsList
  <2>2. /\ IsFiniteSet(1..Len(s.where))
        /\ Cardinality(1..Len(s.where)) = IF 1 > Len(s.where) THEN 0 ELSE Len(s.where) - 1 + 1
    BY <2>1, FS_Interval
  <2>3. Cardinality(1..Len(s.where)) = Len(s.where)
    BY <2>1, <2>2
  <2> QED
    BY <2>1, <2>2, <2>3
<1>2. IsFiniteSet(I) /\ Cardinality(I) <= Cardinality(W)
      /\ (Cardinality(W) = Cardinality(I) => W = I)
  <2>1. I \in SUBSET W
    OBVIOUS
  <2> HIDE DEF I, W
  <2> QED
    BY <1>1, <2>1, FS_Subset
<1>3. F \in Surjection(I, Keys(r))
  BY DEF Surjection
<1>4. Cardinality(Keys(r)) <= Cardinality(I)
      /\ (Cardinality(Keys(r)) = Cardinality(I) => F \in Injection(I, Keys(r)))
  <2> HIDE DEF F, I
  <2> QED
    BY <1>2, <1>3, FS_Surjection
<1>5. Cardinality(Keys(r)) \in Nat /\ Cardinality(I) \in Nat
  BY <1>2, FS_CardinalityType
<1>6. Cardinality(I) = Cardinality(W)
  BY <1>1, <1>2, <1>4, <1>5
<1>7. W = I /\ F \in Injection(I, Keys(r))
  BY <1>1, <1>2, <1>4, <1>6
<1> QED
  BY <1>7 DEF Injection, IsInjective

(* A rendering has a condition for each key.                               *)
LEMMA RenderedKeys ==
  ASSUME NEW r, NEW s, Rendering(r, s), NEW k \in Keys(r)
  PROVE  \E i \in DOMAIN s.where :
            /\ s.where[i].op = "eq"
            /\ {s.where[i].left.kind, s.where[i].right.kind} = {"column", "parameter"}
            /\ Bound(r, s, s.where[i]).parameter = k
            /\ Bound(r, s, s.where[i]).column = KeyColumn(r, k)
<1>1. PICK i \in DOMAIN s.where :
        /\ s.where[i].op = "eq"
        /\ {s.where[i].left.kind, s.where[i].right.kind} = {"column", "parameter"}
        /\ Bound(r, s, s.where[i]) = [parameter |-> k, column |-> KeyColumn(r, k)]
  BY DEF Rendering
<1> QED
  BY <1>1

(* Each condition of a rendering is the equality of a key.                 *)
LEMMA RenderedConditions ==
  ASSUME NEW r, NEW s, WireRequest(r), Parsed(s), Rendering(r, s), NEW i \in DOMAIN s.where
  PROVE  LET c == s.where[i] IN
         /\ c.op = "eq" /\ Binds(r, s, c) /\ ~IsLiteral(c)
         /\ ~(IsParameter(c.left) /\ IsParameter(c.right))
         /\ Bound(r, s, c).parameter \in Keys(r)
         /\ Bound(r, s, c).column = KeyColumn(r, Bound(r, s, c).parameter)
         /\ Bound(r, s, c).parameter \in Placeholders(s)
         /\ \A j \in DOMAIN s.where :
              Bound(r, s, c).parameter = Bound(r, s, s.where[j]).parameter => i = j
<1> DEFINE c == s.where[i]
           k == Bound(r, s, c).parameter
<1>1. /\ \A q \in Keys(r) : \E j \in DOMAIN s.where : Bound(r, s, s.where[j]).parameter = q
      /\ Len(s.where) = Cardinality(Keys(r))
  BY RenderedKeys DEF Rendering
<1>2. IsFiniteSet(Keys(r))
  BY FS_Subset DEF WireRequest
<1>3. /\ k \in Keys(r)
      /\ \A j \in DOMAIN s.where : k = Bound(r, s, s.where[j]).parameter => i = j
  BY <1>1, <1>2, OneConditionEach
<1>4. /\ c.op = "eq" /\ {c.left.kind, c.right.kind} = {"column", "parameter"}
      /\ Bound(r, s, c).column = KeyColumn(r, k)
  <2>1. PICK j \in DOMAIN s.where :
          /\ s.where[j].op = "eq"
          /\ {s.where[j].left.kind, s.where[j].right.kind} = {"column", "parameter"}
          /\ Bound(r, s, s.where[j]).parameter = k
          /\ Bound(r, s, s.where[j]).column = KeyColumn(r, k)
    BY <1>3, RenderedKeys
  <2>2. j = i
    BY <1>3, <2>1
  <2> QED
    BY <2>1, <2>2
<1>5. \A ref \in References(s) : Physical(r, s, ref) # Nowhere
  BY DEF Rendering, Plain
<1>6. {c.left, c.right} \subseteq UNION {{s.where[j].left, s.where[j].right} : j \in DOMAIN s.where}
  OBVIOUS
<1>7. \A side \in {c.left, c.right} : side.kind = "column" => Column(r, s, side) # Nowhere
  <2>1. \A side \in {c.left, c.right} : side.kind = "column" => side.ref \in References(s)
    BY <1>6 DEF References
  <2> QED
    BY <1>5, <2>1 DEF Column
<1>8. \A side \in {c.left, c.right} : side.kind = "parameter" => side.name \in Placeholders(s)
  BY <1>6 DEF Placeholders, IsParameter
<1> HIDE DEF c
<1>9. /\ Binds(r, s, c) /\ ~IsLiteral(c) /\ ~(IsParameter(c.left) /\ IsParameter(c.right))
      /\ Bound(r, s, c).parameter \in Placeholders(s)
  <2>1. CASE c.left.kind = "column" /\ c.right.kind = "parameter"
    BY <1>7, <1>8, <2>1 DEF Binds, IsLiteral, IsParameter, Bound
  <2>2. CASE c.left.kind = "parameter" /\ c.right.kind = "column"
    <3>1. Column(r, s, c.left) = Nowhere
      BY <2>2 DEF Column
    <3> QED
      BY <1>7, <1>8, <2>2, <3>1 DEF Binds, IsLiteral, IsParameter, Bound
  <2> QED
    BY <1>4, <2>1, <2>2
<1> QED
  BY <1>3, <1>4, <1>9 DEF c

(* The gate has nothing against a rendering.                               *)
LEMMA RenderingHasNoIssue ==
  ASSUME NEW r, NEW c, WireRequest(r), Parsed(c.sql), ScopeIssues(r) = {},
         Rendering(r, c.sql), c.cardinality = Consumer(r)
  PROVE  Issues(r, c) = {}
<1> DEFINE s == c.sql
           p == s.projections[1]
<1>1. /\ s.statements = 1 /\ s.root = "Select" /\ s.nodes = {} /\ Len(s.from) = 1
      /\ s.from[1].kind = "plain" /\ Len(s.projections) = 1 /\ p.alias = "fact_value"
      /\ \A ref \in References(s) : Physical(r, s, ref) # Nowhere
      /\ Placeholders(s) \subseteq DOMAIN r.parameters
      /\ Physical(r, s, p.ref) = FactColumn(r) /\ FactColumn(r) # Nowhere
      /\ p.kind \in {"column", "case"}
  BY DEF Rendering, Plain, WireRequest
<1>2. DOMAIN s.from = {1} /\ DOMAIN s.projections = {1}
  BY <1>1 DEF Parsed, IsList
<1>3. \A i \in DOMAIN s.where :
        /\ s.where[i].op = "eq" /\ Binds(r, s, s.where[i]) /\ ~IsLiteral(s.where[i])
        /\ ~(IsParameter(s.where[i].left) /\ IsParameter(s.where[i].right))
        /\ Bound(r, s, s.where[i]).parameter \in Keys(r)
        /\ Bound(r, s, s.where[i]).column = KeyColumn(r, Bound(r, s, s.where[i]).parameter)
        /\ Bound(r, s, s.where[i]).parameter \in Placeholders(s)
        /\ \A j \in DOMAIN s.where :
              Bound(r, s, s.where[i]).parameter = Bound(r, s, s.where[j]).parameter => i = j
  BY RenderedConditions
<1>4. \A k \in Keys(r) : \E i \in DOMAIN s.where : Bound(r, s, s.where[i]).parameter = k
  BY RenderedKeys
<1>5. Comparisons(s) = s.where
  BY <1>3 DEF Comparisons
<1>6. Allowed(r, s.from[1])
  BY <1>1, <1>2, PhysicalIsColumn
<1>7. PortIssues(r, s) = {}
  <2>1. TableIssues(r, s) = {}
    BY <1>1, <1>2, <1>6 DEF TableIssues
  <2>2. ~Forbidden(s)
    BY <1>1, <1>3 DEF Forbidden, IsLiteral
  <2>3. \A ref \in References(s) : ~ref.extra
    BY <1>1, PhysicalIsColumn
  <2>4. \A i \in DOMAIN s.where : s.where[i].op # "ne"
    BY <1>3
  <2>5. ~(s.where # <<>> /\ Comparisons(s) = <<>>)
    BY <1>5
  <2> QED
    BY <2>1, <2>2, <2>3, <2>4, <2>5 DEF PortIssues
<1>8. ResultIssues(r, s) = {}
  <2>1. ResultColumns(r, s) = [i \in {1} |->
            [alias |-> s.projections[i].alias,
             source |-> IF s.projections[i].kind = "other" THEN Nowhere
                        ELSE Physical(r, s, s.projections[i].ref)]]
    BY <1>1, <1>2 DEF ResultColumns
  <2>2. Len(ResultColumns(r, s)) = 1
    <3>1. ResultColumns(r, s) = [i \in 1..1 |->
              [alias |-> s.projections[i].alias,
               source |-> IF s.projections[i].kind = "other" THEN Nowhere
                          ELSE Physical(r, s, s.projections[i].ref)]]
      BY <2>1
    <3> QED
      BY <3>1
  <2>3. ResultColumns(r, s)[1].alias = "fact_value" /\ ResultColumns(r, s)[1].source = FactColumn(r)
    BY <1>1, <2>1
  <2> QED
    BY <2>2, <2>3 DEF ResultIssues
<1>9. KeyIssues(r, s) = {}
  <2> DEFINE cs == Comparisons(s)
             self == {i \in DOMAIN cs : IsParameter(cs[i].left) /\ IsParameter(cs[i].right)}
             literal == {i \in DOMAIN cs \ self : IsLiteral(cs[i])}
             shaped == {i \in DOMAIN cs \ (self \cup literal) : Binds(r, s, cs[i])}
             equal == {i \in shaped : cs[i].op = "eq"}
             on(k) == {i \in equal : Bound(r, s, cs[i]).parameter = k}
             first(k) == CHOOSE i \in on(k) : \A j \in on(k) : i <= j
  <2>1. self = {} /\ literal = {}
    BY <1>3, <1>5
  <2>2. shaped = DOMAIN cs
    BY <1>3, <1>5, <2>1
  <2>3. equal = DOMAIN s.where
    BY <1>3, <1>5, <2>2
  <2>4. \A k \in Keys(r) : on(k) # {}
    BY <1>4, <1>5, <2>3
  <2>5. ASSUME NEW k \in Keys(r) PROVE Bound(r, s, cs[first(k)]).column = KeyColumn(r, k)
    <3>1. PICK i \in DOMAIN s.where : Bound(r, s, s.where[i]).parameter = k
      BY <1>4
    <3>2. on(k) = {i} /\ i <= i
      <4>1. i \in Nat
        BY DEF Parsed, IsList
      <4> QED
        BY <1>3, <1>5, <2>3, <3>1, <4>1
    <3> HIDE DEF on
    <3>3. first(k) = i
      <4>1. \E j \in on(k) : \A m \in on(k) : j <= m
        BY <3>2
      <4>2. first(k) \in on(k)
        BY <4>1
      <4> QED
        BY <3>2, <4>2
    <3> QED
      BY <1>3, <1>5, <3>1, <3>3
  <2>6. \A i \in equal : Bound(r, s, cs[i]).parameter \in Keys(r)
    BY <1>3, <1>5, <2>3
  <2>7. \A i, j \in equal : i # j => Bound(r, s, cs[i]).parameter # Bound(r, s, cs[j]).parameter
    BY <1>3, <1>5, <2>3
  <2>8. equal = shaped /\ shaped = DOMAIN cs \ (self \cup literal)
    BY <1>5, <2>1, <2>2, <2>3
  <2> SUFFICES ASSUME NEW code \in KeyIssues(r, s) PROVE FALSE
    OBVIOUS
  <2>9. code \notin {"SQL_SELF_CMP", "SQL_LITERAL", "SQL_CMP_SHAPE", "SQL_CMP_OP"}
    BY <2>1, <2>8 DEF KeyIssues
  <2>10. code \notin {"SQL_KEY_MISSING", "SQL_KEY_WRONG"}
    BY <2>4, <2>5 DEF KeyIssues
  <2>11. code \notin {"SQL_KEY_DUPLICATE", "SQL_KEY_EXTRA"}
    BY <2>6, <2>7 DEF KeyIssues
  <2> QED
    BY <2>9, <2>10, <2>11 DEF KeyIssues
<1>10. FilterIssues(r, s) = {}
  <2> DEFINE bound == {Bound(r, s, Comparisons(s)[i]).parameter :
                         i \in {i \in DOMAIN Comparisons(s) :
                                  /\ Comparisons(s)[i].op = "eq" /\ ~IsLiteral(Comparisons(s)[i])
                                  /\ Binds(r, s, Comparisons(s)[i])}}
  <2>1. Keys(r) \subseteq bound
    BY <1>3, <1>4, <1>5
  <2>2. \A f \in Elements(r.filters) : f.operand \in Keys(r)
    BY InScope DEF FilterQualifies
  <2>3. Qualified(r) \subseteq Keys(r)
    BY <2>2 DEF Qualified
  <2>4. r.filters # <<>> => Qualified(r) # {}
    BY InScope
  <2> QED
    BY <2>1, <2>3, <2>4 DEF FilterIssues
<1>11. EncodingIssues(r, s) = {}
  <2>1. CASE r.encoding.kind # "mappedCase"
    <3>1. p.kind = "column"
      BY <2>1 DEF Rendering
    <3> QED
      BY <1>2, <2>1, <3>1 DEF EncodingIssues, HasCase
  <2>2. CASE r.encoding.kind = "mappedCase"
    <3>1. p.kind = "case" /\ p.otherwise = Null /\ Elements(p.arms) = r.encoding.entries
      BY <2>2 DEF Rendering
    <3>2. p.arms # <<>>
      BY <2>2, <3>1 DEF WireRequest, Elements
    <3>3. EncodingCases(r, s) = {1}
      BY <1>1, <1>2, <3>1, <3>2 DEF EncodingCases
    <3>4. Cardinality(EncodingCases(r, s)) = 1 /\ (CHOOSE i \in EncodingCases(r, s) : TRUE) = 1
      BY <3>3, FS_Singleton
    <3> QED
      BY <1>1, <2>2, <3>1, <3>4 DEF EncodingIssues
  <2> QED
    BY <2>1, <2>2
<1>12. CardinalityIssues(r, s, c) = {}
  BY <1>1 DEF CardinalityIssues, Consumer
<1>13. SemanticIssues(r, c) = {}
  <2>1. {i \in DOMAIN s.from : Allowed(r, s.from[i])} = {1}
    BY <1>2, <1>6
  <2>2. Cardinality({i \in DOMAIN s.from : Allowed(r, s.from[i])}) = 1
    BY <2>1, FS_Singleton
  <2>3. Placeholders(s) = DOMAIN r.parameters
    <3>1. Keys(r) = DOMAIN r.parameters
      BY InScope
    <3>2. ASSUME NEW k \in Keys(r) PROVE k \in Placeholders(s)
      <4>1. PICK i \in DOMAIN s.where : Bound(r, s, s.where[i]).parameter = k
        BY <1>4
      <4> QED
        BY <1>3, <4>1
    <3> HIDE DEF s
    <3> QED
      BY <1>1, <3>1, <3>2
  <2> QED
    BY <1>8, <1>9, <1>10, <1>11, <1>12, <2>2, <2>3 DEF SemanticIssues
<1> QED
  BY <1>1, <1>7, <1>13 DEF Issues

-----------------------------------------------------------------------------
(* The strengthened invariant holds of every behaviour.                    *)
THEOREM InductiveInvariant == Spec => []IInv
<1> QED
  BY InitEstablishesIInv, NextPreservesIInv, PTL DEF Spec

(* Candidate, report and step go together.                                 *)
THEOREM TypeCorrect == Spec => []TypeOK
<1>1. IInv => TypeOK
  BY DEF IInv
<1> QED
  BY <1>1, InductiveInvariant, PTL

(* No edited candidate and no candidate of another request ever passes.    *)
THEOREM OnlyAssembledPasses == Spec => []PassedWasGenerated
<1>1. IInv => PassedWasGenerated
  <2> SUFFICES ASSUME IInv, Passed
               PROVE  /\ judged = name
                      /\ \E g \in Payloads[name] :
                           /\ WellFormed(g) /\ CrossReferenced(Requests[name], g)
                           /\ candidate = Assembled(name, g)
    BY DEF PassedWasGenerated
  <2>1. report = Validated(judged, candidate) /\ report.status = "passed"
    BY DEF IInv, ReportOfCandidate, Passed
  <2>2. pc = "validated" /\ candidate # NoCandidate
    BY DEF IInv, TypeOK, Passed
  <2>3. PICK g \in Payloads[name] : \E sql \in Edits[name] \cup {g.sql} : AssembledFrom(g, sql)
    BY <2>2 DEF IInv, Provenance
  <2>4. PICK sql \in Edits[name] \cup {g.sql} : AssembledFrom(g, sql)
    BY <2>3
  <2>5. ReferencesAgree(judged, candidate)
    BY <2>1 DEF Validated
  <2>6. judged = name /\ sql = g.sql
    BY <2>2, <2>4, <2>5, AgreementIsTheHash
  <2>7. candidate = Assembled(name, g)
    BY <2>4, <2>6, SameSql DEF AssembledFrom
  <2> QED
    BY <2>4, <2>6, <2>7 DEF AssembledFrom
<1> QED
  BY <1>1, InductiveInvariant, PTL

(* What the generation accepted is never refused for its references.       *)
THEOREM AssembledIsInspected == Spec => []GeneratedIsInspected
<1>1. IInv => GeneratedIsInspected
  <2> SUFFICES ASSUME IInv, report # NoReport, judged = name,
                      candidate.sha = ContentSha(candidate)
               PROVE  report.inspected
    BY DEF GeneratedIsInspected
  <2>1. report = Validated(judged, candidate)
    BY DEF IInv, ReportOfCandidate
  <2>2. pc = "validated" /\ candidate # NoCandidate
    BY DEF IInv, TypeOK
  <2>3. PICK g \in Payloads[name] : \E sql \in Edits[name] \cup {g.sql} : AssembledFrom(g, sql)
    BY <2>2 DEF IInv, Provenance
  <2>4. PICK sql \in Edits[name] \cup {g.sql} : AssembledFrom(g, sql)
    BY <2>3
  <2>5. sql = g.sql
    BY <2>4, HashTellsSql
  <2>6. ReferencesAgree(judged, candidate)
    BY <2>2, <2>4, <2>5, AgreementIsTheHash
  <2> QED
    BY <2>1, <2>6 DEF Validated
<1> QED
  BY <1>1, InductiveInvariant, PTL

(* A passed report is of a candidate with the SQL of an answer, for its    *)
(* own request, which has no scope issue.                                  *)
LEMMA PassedWithoutIssue ==
  ASSUME IInv, PassedWasGenerated, Passed
  PROVE  LET r == Requests[judged] IN
         /\ WireRequest(r) /\ Parsed(candidate.sql) /\ ScopeIssues(r) = {}
         /\ Issues(r, candidate) = {}
<1>1. report = Validated(judged, candidate) /\ report.status = "passed"
  BY DEF IInv, ReportOfCandidate, Passed
<1>2. Issues(Requests[judged], candidate) = {}
  BY <1>1 DEF Validated
<1>3. judged = name /\ \E g \in Payloads[name] : candidate = Assembled(name, g)
  BY DEF PassedWasGenerated
<1>4. PICK g \in Payloads[name] : candidate = Assembled(name, g)
  BY <1>3
<1>5. candidate.sql = g.sql
  BY <1>4 DEF Assembled
<1>6. name \in DOMAIN Requests /\ pc = "validated"
  BY DEF IInv, TypeOK, Passed
<1>7. WireRequest(Requests[name]) /\ Parsed(g.sql)
  BY <1>6, GateAssumption
<1>8. ScopeIssues(Requests[name]) = {}
  BY <1>6 DEF IInv, CurrentRequest
<1> QED
  BY <1>2, <1>3, <1>5, <1>7, <1>8

\* What validate_sql_candidate_v3 lets pass returns, for every content of the
\* table and every parameter, what the request asks for.
THEOREM PassedIsExactAlways == Spec => []PassedIsExact
<1>1. IInv /\ PassedWasGenerated => PassedIsExact
  BY PassedWithoutIssue, NoIssueIsExact DEF PassedIsExact
<1> QED
  BY <1>1, InductiveInvariant, OnlyAssembledPasses, PTL

\* The gate never refuses a candidate whose SQL is what the prompt asks for.
THEOREM RenderingsPass == Spec => []RenderingPasses
<1>1. IInv => RenderingPasses
  <2> SUFFICES ASSUME IInv, report # NoReport, report.inspected,
                      Rendering(Requests[judged], candidate.sql)
               PROVE  report.status = "passed"
    BY DEF RenderingPasses
  <2>1. report = Validated(judged, candidate)
    BY DEF IInv, ReportOfCandidate
  <2>2. pc = "validated" /\ candidate # NoCandidate /\ name \in DOMAIN Requests
    BY DEF IInv, TypeOK
  <2>3. PICK g \in Payloads[name] : \E sql \in Edits[name] \cup {g.sql} : AssembledFrom(g, sql)
    BY <2>2 DEF IInv, Provenance
  <2>4. PICK sql \in Edits[name] \cup {g.sql} : AssembledFrom(g, sql)
    BY <2>3
  <2>5. ReferencesAgree(judged, candidate)
    BY <2>1 DEF Validated
  <2>6. judged = name /\ sql = g.sql
    BY <2>2, <2>4, <2>5, AgreementIsTheHash
  <2>7. candidate.sql = g.sql
    BY <2>4, <2>6 DEF AssembledFrom, Assembled
  <2>8. WireRequest(Requests[judged]) /\ Parsed(candidate.sql)
    BY <2>2, <2>6, <2>7, GateAssumption
  <2>9. ScopeIssues(Requests[judged]) = {}
    BY <2>2, <2>6 DEF IInv, CurrentRequest
  <2>10. candidate.cardinality = Consumer(Requests[judged])
    BY <2>5 DEF ReferencesAgree
  <2>11. Issues(Requests[judged], candidate) = {}
    BY <2>8, <2>9, <2>10, RenderingHasNoIssue
  <2> QED
    BY <2>1, <2>5, <2>11 DEF Validated
<1> QED
  BY <1>1, InductiveInvariant, PTL
=============================================================================
