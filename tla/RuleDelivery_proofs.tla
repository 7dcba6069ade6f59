------------------------ MODULE RuleDelivery_proofs ------------------------
(***************************************************************************)
(* The components on the way of a rule version to its consumer; each part  *)
(* is about one of their specifications.                                   *)
(*  - RuleStoreApi: for any number of requests, documents and adapters, a  *)
(*    response tells of the collection as it was during the request, and a *)
(*    failure of the database shows in everything that arrives after it.   *)
(*  - CompleteIntakeV31: a selected 3.1.0 delivery is of one publication.  *)
(*  - RuleDecisionV31: the CASE columns decide every rule tree as the loop *)
(*    of the evaluator does.                                               *)
(*  - PlaceholdersV31: the literals of a statement keep their values.      *)
(*  - CompleteDeliveryV31: on any tables the compiled condition of a rule  *)
(*    says what the evaluator says of it, over any tree.                   *)
(***************************************************************************)
EXTENDS RuleStoreApi, CompleteDeliveryV31, RuleDecisionV31, PlaceholdersV31,
        FiniteSetTheorems, WellFoundedInduction, TLAPS

----------------------------------------------------------------------------
(* Part 1: the rule store and its API.                                    *)

\* A rule version has at most one V3 batch.
OneBatch == \A k, l \in stored["batches"] : k = l

\* A request has no answer before it has finished reading, a cursor has passed
\* nothing that was there when the request arrived, and the lifespan waits for
\* the requests.
InFlight ==
    \A r \in Requests :
        /\ pc[r] # "answered" => code[r] = "none"
        /\ pc[r] = "idle" => got[r] = {}
        /\ pc[r] = "reading" =>
            /\ phase = "serving" /\ "database" \in configured
            /\ kind[r] \in Collections /\ ~doomed[r]
            /\ before[r] \in SUBSET stored[kind[r]]
            /\ got[r] \in SUBSET stored[kind[r]]
            /\ kind[r] # "handoffs" => got[r] = {}
            /\ \A k \in before[r] : k \in got[r] \/ \A g \in got[r] : g < k

\* The status tells whether the store has failed, from the end of its
\* initialize() on, which is the first of the lifespan.
StatusTells ==
    /\ phase = "starting" => step > 0 /\ (step = 1 => status # "ready")
    /\ status = "disabled" <=> "database" \notin configured
    /\ failed => status = "unavailable" /\ (phase = "starting" => step > 1)
    /\ status = "unavailable" =>
        failed \/ (phase = "starting" /\ step = 1) \/ phase \in {"stopping", "stopped"}

\* While it stops, the lifespan has closed all adapters beyond the next one.
ClosedBehind ==
    /\ phase = "stopping" =>
        \A i \in 1..4 : client[Adapters[i]] = "open" => i <= step
    /\ phase = "stopped" => \A i \in 1..4 : client[Adapters[i]] # "open"

IInv ==
    /\ TypeOK
    /\ OneBatch
    /\ InFlight
    /\ StatusTells
    /\ ResponseCurrent
    /\ UnavailableShows

-----------------------------------------------------------------------------

\* The store that requests use is the first of four adapters.
LEMMA AdapterOrder ==
    /\ Len(Adapters) = 4
    /\ \A i \in 1..4 : Adapters[i] \in AdapterNames /\ (Adapters[i] = "database" <=> i = 1)
    /\ \A a \in AdapterNames : \E i \in 1..4 : a = Adapters[i]
  <1>1. Len(Adapters) = 4
    BY DEF Adapters
  <1>2. /\ Adapters[1] = "database" /\ Adapters[2] = "candidateStore"
        /\ Adapters[3] = "approvalPortV3" /\ Adapters[4] = "candidateStoreV3"
    BY DEF Adapters
  <1>3. ASSUME NEW i \in 1..4
        PROVE  Adapters[i] \in AdapterNames /\ (Adapters[i] = "database" <=> i = 1)
    <2>1. i = 1 \/ i = 2 \/ i = 3 \/ i = 4
      OBVIOUS
    <2> QED
      BY <1>2, <2>1 DEF AdapterNames
  <1>4. ASSUME NEW a \in AdapterNames PROVE \E i \in 1..4 : a = Adapters[i]
    BY <1>2 DEF AdapterNames
  <1> QED
    BY <1>1, <1>3, <1>4

\* The invariant holds before the first adapter is initialised.
LEMMA InitIInv == Init => IInv
  <1> SUFFICES ASSUME Init PROVE IInv
    OBVIOUS
  <1>1. TypeOK
    <2>1. configured \in SUBSET AdapterNames
      BY KeysAssumption DEF Init
    <2>2. step \in 0..Len(Adapters) + 1
      BY AdapterOrder DEF Init
    <2> QED
      BY <2>1, <2>2 DEF Init, TypeOK
  <1>2. OneBatch /\ InFlight /\ StatusTells
    BY DEF Init, OneBatch, InFlight, StatusTells, Collections
  <1>3. ResponseCurrent /\ UnavailableShows
    BY DEF Init, ResponseCurrent, UnavailableShows, Collections
  <1> QED
    BY <1>1, <1>2, <1>3 DEF IInv

\* RuleReader only adds documents, so no response becomes untrue.
LEMMA InsertPreservesIInv ==
    ASSUME IInv, NEW c \in Collections, NEW k \in Keys, Insert(c, k) PROVE IInv'
  <1> USE DEF IInv
  <1>0. /\ stored' = [stored EXCEPT ![c] = @ \cup {k}]
        /\ c = "batches" => stored[c] = {}
        /\ UNCHANGED <<appVars, status, requestVars, failed>>
    BY DEF Insert
  <1>1. \A d \in Collections : stored[d] \in SUBSET stored'[d]
    BY <1>0 DEF TypeOK
  <1>2. TypeOK'
    BY <1>0 DEF TypeOK, appVars, requestVars
  <1>3. OneBatch'
    BY <1>0 DEF TypeOK, OneBatch, Collections
  <1>4. InFlight'
    <2>1. UNCHANGED <<configured, phase, pc, kind, got, code, before, doomed>>
      BY <1>0 DEF appVars, requestVars
    <2>2. SUFFICES ASSUME NEW r \in Requests, pc[r] = "reading"
                   PROVE  /\ before[r] \in SUBSET stored'[kind[r]]
                          /\ got[r] \in SUBSET stored'[kind[r]]
      BY <2>1 DEF InFlight
    <2>3. /\ kind[r] \in Collections
          /\ before[r] \in SUBSET stored[kind[r]] /\ got[r] \in SUBSET stored[kind[r]]
      BY <2>2 DEF InFlight
    <2> QED
      BY ONLY <1>1, <2>3
  <1>5. StatusTells' /\ UnavailableShows'
    BY <1>0 DEF StatusTells, UnavailableShows, appVars, requestVars
  <1>6. ResponseCurrent'
    <2>1. UNCHANGED <<kind, got, code, before>>
      BY <1>0 DEF requestVars
    <2>2. ResponseCurrent
      OBVIOUS
    <2>3. \A r \in Requests : kind[r] \in Collections => stored[kind[r]] \in SUBSET stored'[kind[r]]
      BY <1>1
    <2>4. SUFFICES ASSUME NEW r \in Requests, kind[r] \in Collections
                   PROVE  /\ code[r] = "502" => stored'[kind[r]] \cap Damaged # {}
                          /\ code[r] = "200" => got[r] \in SUBSET stored'[kind[r]]
      BY <2>1, <2>2 DEF ResponseCurrent
    <2>5. /\ code[r] = "502" => stored[kind[r]] \cap Damaged # {}
          /\ code[r] = "200" => got[r] \in SUBSET stored[kind[r]]
      BY ONLY <2>2, <2>4 DEF ResponseCurrent
    <2> QED
      BY ONLY <2>3, <2>4, <2>5
  <1> QED
    BY <1>2, <1>3, <1>4, <1>5, <1>6

\* The lifespan touches no request; only the first adapter's initialize()
\* and close() touch the status.
LEMMA LifespanPreservesIInv ==
    ASSUME IInv, Initialize \/ InitializeDegrades \/ Serve \/ Shutdown \/ Close \/ Exit
    PROVE  IInv'
  <1> USE DEF IInv
  <1>1. UNCHANGED <<stored, configured, requestVars>>
    BY DEF Initialize, InitializeDegrades, Serve, Shutdown, Close, Exit
  <1>2. OneBatch' /\ ResponseCurrent'
    BY <1>1 DEF OneBatch, ResponseCurrent, requestVars
  <1>3. InFlight'
    BY <1>1 DEF Initialize, InitializeDegrades, Serve, Shutdown, Close, Exit, InFlight, requestVars
  <1>4. TypeOK'
    <2>1. (phase \in {"starting", "serving", "stopping", "stopped"})'
      BY DEF Initialize, InitializeDegrades, Serve, Shutdown, Close, Exit, TypeOK
    <2>2. step' \in 0..5
      <3>1. step \in 0..5
        BY AdapterOrder DEF TypeOK
      <3>2. CASE Initialize \/ InitializeDegrades
        <4>1. step <= 4 /\ step' = step + 1
          BY <3>2, AdapterOrder DEF Initialize, InitializeDegrades
        <4> QED
          BY <3>1, <4>1
      <3>3. CASE Shutdown
        BY <3>3, AdapterOrder DEF Shutdown
      <3>4. CASE Close
        <4>1. step > 0 /\ step' = step - 1
          BY <3>4 DEF Close
        <4> QED
          BY <3>1, <4>1
      <3> QED
        BY <3>1, <3>2, <3>3, <3>4 DEF Serve, Exit
    <2>3. client' \in [AdapterNames -> {"none", "open", "closed"}]
      <3>1. CASE Initialize
        BY <3>1, AdapterOrder DEF Initialize, Opened, TypeOK
      <3>2. CASE Close
        BY <3>2, AdapterOrder DEF Close, Closed, TypeOK
      <3> QED
        BY <3>1, <3>2 DEF InitializeDegrades, Serve, Shutdown, Exit, TypeOK
    <2>4. failed' \in BOOLEAN
      BY DEF Initialize, InitializeDegrades, Serve, Shutdown, Close, Exit, TypeOK
    <2>5. (status \in {"ready", "unavailable", "disabled"})'
      BY DEF Initialize, InitializeDegrades, Serve, Shutdown, Close, Exit, TypeOK
    <2> QED
      BY <1>1, <2>1, <2>2, <2>3, <2>4, <2>5, AdapterOrder DEF TypeOK, requestVars
  <1>5. StatusTells'
    <2>1. CASE Initialize
      BY <2>1, AdapterOrder DEF Initialize, StatusTells, TypeOK
    <2>2. CASE InitializeDegrades
      <3>1. /\ phase = "starting" /\ step <= Len(Adapters) /\ step' = step + 1
            /\ failed' = (failed \/ (Adapters[step] = "database" /\ "database" \in configured))
            /\ UNCHANGED <<phase, configured, status>>
        BY <2>2 DEF InitializeDegrades
      <3>2. step \in 0..5 /\ step > 0
        BY <3>1, AdapterOrder DEF StatusTells, TypeOK
      <3>3. step \in 1..4 /\ step' > 1 /\ step' > 0 /\ step' # 1
        BY <3>1, <3>2, AdapterOrder
      <3>4. Adapters[step] = "database" <=> step = 1
        BY <3>3, AdapterOrder
      <3>5. failed' <=> failed \/ (step = 1 /\ "database" \in configured)
        BY <3>1, <3>4
      <3>6. status = "disabled" <=> "database" \notin configured
        BY DEF StatusTells
      <3>7. failed => status = "unavailable"
        BY DEF StatusTells
      <3>8. status = "unavailable" => failed \/ step = 1
        BY <3>1 DEF StatusTells
      <3>9. step = 1 /\ "database" \in configured => status = "unavailable"
        BY <3>1, <3>6 DEF StatusTells, TypeOK
      <3> QED
        BY <3>1, <3>3, <3>5, <3>6, <3>7, <3>8, <3>9 DEF StatusTells
    <2>3. CASE Serve \/ Shutdown \/ Exit
      BY <2>3, AdapterOrder DEF Serve, Shutdown, Exit, StatusTells, TypeOK
    <2>4. CASE Close
      BY <2>4 DEF Close, StatusTells, TypeOK
    <2> QED
      BY <2>1, <2>2, <2>3, <2>4
  <1>6. UnavailableShows'
    <2>1. failed => failed'
      BY DEF Initialize, InitializeDegrades, Serve, Shutdown, Close, Exit
    <2>2. status = "disabled" => status' = "disabled"
      BY <1>1, <1>5 DEF StatusTells
    <2> QED
      BY <1>1, <2>1, <2>2 DEF UnavailableShows, requestVars
  <1> QED
    BY <1>2, <1>3, <1>4, <1>5, <1>6

\* A request that arrives is answered from the status, or starts to read.
LEMMA ArrivalPreservesIInv ==
    ASSUME IInv, NEW r \in Requests,
           Ready(r) \/ \E c \in Collections : Refuse(r, c) \/ Query(r, c)
    PROVE  IInv'
  <1> USE DEF IInv
  <1>1. PICK k \in Collections \cup {"ready"} : Arrive(r, k)
    BY DEF Ready, Refuse, Query
  <1>2. UNCHANGED <<stored, appVars, status, got, failed>>
    BY DEF Ready, Refuse, Query
  <1>3. OneBatch' /\ StatusTells'
    BY <1>2 DEF OneBatch, StatusTells, appVars
  <1>4. /\ phase = "serving" /\ code[r] = "none" /\ got[r] = {}
        /\ kind' = [kind EXCEPT ![r] = k]
        /\ before' = [before EXCEPT ![r] = IF k = "ready" THEN {} ELSE stored[k]]
        /\ doomed' = [doomed EXCEPT ![r] = failed]
    BY <1>1 DEF Arrive, InFlight
  <1>5. CASE /\ pc' = [pc EXCEPT ![r] = "reading"] /\ UNCHANGED code
             /\ k \in Collections /\ status = "ready"
    <2>1. TypeOK'
      BY <1>2, <1>4, <1>5 DEF TypeOK, appVars
    <2>2. ~failed /\ "database" \in configured
      BY <1>5 DEF StatusTells
    <2>3. InFlight'
      BY <1>2, <1>4, <1>5, <2>2 DEF InFlight, TypeOK, Collections, appVars
    <2>4. ResponseCurrent' /\ UnavailableShows'
      BY <1>2, <1>4, <1>5 DEF ResponseCurrent, UnavailableShows, TypeOK
    <2> QED
      BY <1>3, <2>1, <2>3, <2>4
  <1>6. ASSUME NEW s \in {"200", "503"}, Respond(r, s),
               s = "503" => status # "ready",
               s = "200" => k = "ready" /\ status # "unavailable"
        PROVE  IInv'
    <2>1. TypeOK'
      BY <1>2, <1>4, <1>6 DEF Respond, TypeOK, appVars
    <2>2. InFlight'
      BY <1>2, <1>4, <1>6 DEF Respond, InFlight, TypeOK, appVars
    <2>3. ResponseCurrent'
      BY <1>2, <1>4, <1>6 DEF Respond, ResponseCurrent, TypeOK, Collections
    <2>4. /\ failed => s = "503"
          /\ s = "503" => failed \/ status = "disabled"
      BY <1>4, <1>6 DEF StatusTells, TypeOK
    <2>5. UnavailableShows'
      BY <1>2, <1>4, <1>6, <2>4 DEF Respond, UnavailableShows, TypeOK
    <2> QED
      BY <1>3, <2>1, <2>2, <2>3, <2>5
  <1> QED
    BY <1>1, <1>5, <1>6 DEF Ready, Refuse, Query, Arrive, TypeOK

\* A query that ends answers from what it read.
LEMMA AnswerPreservesIInv ==
    ASSUME IInv, NEW r \in Requests, pc[r] = "reading", NEW S \in SUBSET stored[kind[r]],
           Judge(r, S), got' = [got EXCEPT ![r] = S],
           UNCHANGED <<stored, appVars, status, kind, before, doomed, failed>>,
           IF kind[r] = "rules"
             THEN (S = {} => before[r] = {}) /\ \A k \in before[r], g \in S : k <= g
             ELSE before[r] \in SUBSET S
    PROVE  IInv'
  <1> USE DEF IInv
  <1>1. OneBatch' /\ StatusTells'
    BY DEF OneBatch, StatusTells, appVars
  <1>2. PICK s \in {"404", "502", "200"} :
          /\ Respond(r, s)
          /\ s = "404" <=> S = {}
          /\ s = "502" => S \cap Damaged # {}
          /\ s = "200" => S \cap Damaged = {}
    BY DEF Judge
  <1>3. kind[r] \in Collections /\ ~doomed[r] /\ stored[kind[r]] \in SUBSET Keys
    BY DEF InFlight, TypeOK
  <1>4. TypeOK'
    BY <1>2, <1>3 DEF Respond, TypeOK, appVars
  <1>5. InFlight'
    BY <1>2 DEF Respond, InFlight, TypeOK, appVars
  <1>6. UnavailableShows'
    BY <1>2, <1>3 DEF Respond, UnavailableShows, TypeOK
  <1>7. ResponseCurrent'
    <2> SUFFICES ASSUME NEW q \in Requests, kind[q] \in Collections
                 PROVE  ResponseCurrent!(q)'
      BY DEF ResponseCurrent
    <2> QED
      BY <1>2, <1>3 DEF Respond, ResponseCurrent, TypeOK
  <1> QED
    BY <1>1, <1>4, <1>5, <1>6, <1>7

\* Every step keeps the invariant.
LEMMA NextPreservesIInv == ASSUME IInv, [Next]_vars PROVE IInv'
  <1> USE DEF IInv
  <1>1. ASSUME NEW r \in Requests, FindOne(r) PROVE IInv'
    <2>1. CASE stored[kind[r]] = {} /\ Judge(r, {}) /\ UNCHANGED got
      <3>1. before[r] = {} /\ got[r] = {}
        BY <1>1, <2>1 DEF FindOne, InFlight
      <3>2. got' = [got EXCEPT ![r] = {}]
        BY <2>1, <3>1 DEF TypeOK
      <3> QED
        BY <1>1, <2>1, <3>1, <3>2, AnswerPreservesIInv DEF FindOne
    <2>2. ASSUME NEW k \in stored[kind[r]], \A l \in stored[kind[r]] : l <= k,
                 got' = [got EXCEPT ![r] = {k}], Judge(r, {k})
          PROVE  IInv'
      <3>1. before[r] \in SUBSET stored[kind[r]]
        BY <1>1 DEF FindOne, InFlight
      <3>2. kind[r] = "batches" => before[r] \in SUBSET {k}
        BY <2>2, <3>1 DEF OneBatch
      <3> QED
        BY <1>1, <2>2, <3>1, <3>2, AnswerPreservesIInv DEF FindOne
    <2> QED
      BY <1>1, <2>1, <2>2 DEF FindOne
  <1>2. ASSUME NEW r \in Requests, Fetch(r) PROVE IInv'
    <2>1. PICK k \in Ahead(r) :
            /\ \A l \in Ahead(r) : k <= l
            /\ got' = [got EXCEPT ![r] = @ \cup {k}]
      BY <1>2 DEF Fetch
    <2>2. /\ pc[r] = "reading" /\ kind[r] = "handoffs"
          /\ UNCHANGED <<stored, appVars, status, pc, kind, code, before, doomed, failed>>
      BY <1>2 DEF Fetch
    <2>3. k \in stored["handoffs"] /\ stored["handoffs"] \in SUBSET Keys
      BY DEF Ahead, TypeOK, Collections
    <2>4. TypeOK'
      BY <2>1, <2>2, <2>3 DEF TypeOK, appVars
    <2>5. \A b \in before[r] : b \in got'[r] \/ \A g \in got'[r] : g < b
      <3> SUFFICES ASSUME NEW b \in before[r], b \notin got'[r] PROVE \A g \in got'[r] : g < b
        OBVIOUS
      <3>1. b \in stored["handoffs"] /\ \A g \in got[r] : g < b
        BY <2>1, <2>2 DEF InFlight, TypeOK
      <3>2. b \in Ahead(r) /\ b # k /\ b \in Nat /\ k \in Nat
        BY <2>1, <2>3, <3>1, KeysAssumption DEF Ahead, TypeOK
      <3> QED
        BY <2>1, <3>1, <3>2 DEF TypeOK
    <2>6. InFlight'
      BY <2>1, <2>2, <2>3, <2>5 DEF InFlight, TypeOK, appVars
    <2>7. OneBatch' /\ StatusTells' /\ UnavailableShows'
      BY <2>2 DEF OneBatch, StatusTells, UnavailableShows, appVars
    <2>8. ResponseCurrent'
      BY <2>1, <2>2 DEF ResponseCurrent, InFlight, TypeOK
    <2> QED
      BY <2>4, <2>6, <2>7, <2>8
  <1>3. ASSUME NEW r \in Requests, Exhausted(r) PROVE IInv'
    <2>1. before[r] \in SUBSET got[r] /\ got[r] \in SUBSET stored[kind[r]]
      BY <1>3 DEF Exhausted, Ahead, InFlight
    <2>2. got' = [got EXCEPT ![r] = got[r]]
      BY <1>3 DEF Exhausted, TypeOK
    <2> QED
      BY <1>3, <2>1, <2>2, AnswerPreservesIInv DEF Exhausted
  <1>4. ASSUME NEW r \in Requests, QueryErrors(r) PROVE IInv'
    <2>1. TypeOK' /\ OneBatch'
      BY <1>4 DEF QueryErrors, Respond, TypeOK, OneBatch, appVars
    <2>2. InFlight'
      BY <1>4 DEF QueryErrors, Respond, InFlight, TypeOK, appVars
    <2>3. ResponseCurrent'
      BY <1>4 DEF QueryErrors, Respond, ResponseCurrent, TypeOK
    <2>4. UnavailableShows'
      BY <1>4 DEF QueryErrors, Respond, UnavailableShows, TypeOK
    <2>5. StatusTells'
      BY <1>4 DEF QueryErrors, InFlight, StatusTells, appVars
    <2> QED
      BY <2>1, <2>2, <2>3, <2>4, <2>5
  <1>5. CASE UNCHANGED vars
    BY <1>5 DEF vars, TypeOK, OneBatch, InFlight, StatusTells, ResponseCurrent, UnavailableShows
  <1> QED
    BY <1>1, <1>2, <1>3, <1>4, <1>5, InsertPreservesIInv, LifespanPreservesIInv,
       ArrivalPreservesIInv
       DEF Next

\* IInv holds in every reachable state.
THEOREM InductiveInvariant == Spec => []IInv
  BY InitIInv, NextPreservesIInv, PTL DEF Spec

\* The variables keep their domains.
THEOREM TypeCorrect == Spec => []TypeOK
  <1>1. IInv => TypeOK
    BY DEF IInv
  <1> QED
    BY InductiveInvariant, <1>1, PTL

\* Every read of the API answers with what was in the collection at some time
\* between its arrival and its answer, also the one that a cursor reads in
\* pieces while RuleReader inserts.
THEOREM ResponsesAreCurrent == Spec => []ResponseCurrent
  <1>1. IInv => ResponseCurrent
    BY DEF IInv
  <1> QED
    BY InductiveInvariant, <1>1, PTL

\* A failed ping or query shows in /ready and in every read that arrives
\* later, and nothing else is answered with 503.
THEOREM FailuresShow == Spec => []UnavailableShows
  <1>1. IInv => UnavailableShows
    BY DEF IInv
  <1> QED
    BY InductiveInvariant, <1>1, PTL

\* close() has been called on every client when the application has stopped:
\* the loop passes each adapter, whether the close before it raised or not.
THEOREM ClientsAreClosed == Spec => []AllClosed
  <1>1. Init => ClosedBehind
    BY DEF Init, ClosedBehind
  <1>2. IInv /\ ClosedBehind /\ [Next]_vars => ClosedBehind'
    <2> SUFFICES ASSUME IInv, ClosedBehind, [Next]_vars PROVE ClosedBehind'
      OBVIOUS
    <2>0. step \in 0..5 /\ client \in [AdapterNames -> {"none", "open", "closed"}]
      BY AdapterOrder DEF IInv, TypeOK
    <2>1. CASE Shutdown
      BY <2>1, AdapterOrder DEF Shutdown, ClosedBehind
    <2>2. CASE Close
      <3>1. /\ phase' = "stopping" /\ phase = "stopping" /\ step > 0 /\ step' = step - 1
            /\ Closed(Adapters[step])
        BY <2>2 DEF Close
      <3> SUFFICES ASSUME NEW i \in 1..4, client'[Adapters[i]] = "open" PROVE i <= step'
        BY <3>1 DEF ClosedBehind
      <3>2. Adapters[i] \in AdapterNames
        BY AdapterOrder
      <3>3. client[Adapters[i]] = "open" /\ Adapters[i] # Adapters[step]
        BY <2>0, <3>1, <3>2 DEF Closed
      <3>4. i <= step /\ i # step
        BY <3>1, <3>3 DEF ClosedBehind
      <3> QED
        BY <2>0, <3>1, <3>4
    <2>3. CASE Exit
      <3>1. phase = "stopping" /\ step = 0 /\ phase' = "stopped" /\ UNCHANGED client
        BY <2>3 DEF Exit
      <3> QED
        BY <3>1 DEF ClosedBehind
    <2>4. CASE Initialize \/ InitializeDegrades \/ Serve
      BY <2>4 DEF Initialize, InitializeDegrades, Serve, ClosedBehind
    <2>5. ASSUME UNCHANGED <<phase, step, client>> PROVE ClosedBehind'
      BY <2>5 DEF ClosedBehind
    <2>6. CASE \E c \in Collections, k \in Keys : Insert(c, k)
      BY <2>5, <2>6 DEF Insert, appVars
    <2>7. CASE \E r \in Requests :
                  \/ Ready(r)
                  \/ \E c \in Collections : Refuse(r, c) \/ Query(r, c)
                  \/ FindOne(r) \/ Fetch(r) \/ Exhausted(r) \/ QueryErrors(r)
      BY <2>5, <2>7 DEF Ready, Refuse, Query, FindOne, Fetch, Exhausted, QueryErrors, appVars
    <2>8. CASE UNCHANGED vars
      BY <2>5, <2>8 DEF vars, appVars
    <2> QED
      BY <2>1, <2>2, <2>3, <2>4, <2>6, <2>7, <2>8 DEF Next
  <1>3. ClosedBehind => AllClosed
    BY AdapterOrder DEF ClosedBehind, AllClosed
  <1> QED
    BY <1>1, <1>2, <1>3, InductiveInvariant, PTL DEF Spec

----------------------------------------------------------------------------
(* Part 2: the intake of a complete delivery.                             *)

\* The parts a source has, each of them stored.
LEMMA SourceParts ==
  ASSUME NEW source
  PROVE  /\ Len(Parts(source)) \in Nat \ {0} /\ DOMAIN Parts(source) = 1..Len(Parts(source))
         /\ \A i \in DOMAIN Parts(source) : Home(Parts(source)[i]) \in Stored(source)
         /\ source = "mongodb" => \A part \in {"rule", "batch"} :
              \E i \in DOMAIN Parts(source) : Parts(source)[i] = part
         /\ source # "mongodb" =>
              \A part \in {"peek", "catalog", "candidate", "result", "requests", "manifest"} :
                \E i \in DOMAIN Parts(source) : Parts(source)[i] = part
<1>1. CASE source = "mongodb"
  <2>1. Parts(source) = <<"rule", "batch">>
    BY <1>1 DEF Parts
  <2>2. DOMAIN Parts(source) = 1..2 /\ Len(Parts(source)) = 2
    BY <2>1
  <2>3. Parts(source)[1] = "rule" /\ Parts(source)[2] = "batch"
    BY <2>1
  <2>4. \A i \in DOMAIN Parts(source) : Parts(source)[i] \in {"rule", "batch"}
    BY <2>2, <2>3
  <2>5. \A i \in DOMAIN Parts(source) : Home(Parts(source)[i]) \in Stored(source)
    BY <2>4 DEF Home, Stored
  <2> QED BY <1>1, <2>2, <2>3, <2>5
<1>2. CASE source # "mongodb"
  <2>1. Parts(source) = <<"peek", "catalog", "candidate", "result", "requests", "manifest">>
    BY <1>2 DEF Parts
  <2>2. DOMAIN Parts(source) = 1..6 /\ Len(Parts(source)) = 6
    BY <2>1
  <2>3. /\ Parts(source)[1] = "peek" /\ Parts(source)[2] = "catalog"
        /\ Parts(source)[3] = "candidate" /\ Parts(source)[4] = "result"
        /\ Parts(source)[5] = "requests" /\ Parts(source)[6] = "manifest"
    BY <2>1
  <2>4. \A i \in DOMAIN Parts(source) : Home(Parts(source)[i]) \in Stored(source)
    <3> SUFFICES ASSUME NEW i \in DOMAIN Parts(source)
                 PROVE  Home(Parts(source)[i]) \in Stored(source)
      OBVIOUS
    <3>1. i = 1 \/ i = 2 \/ i = 3 \/ i = 4 \/ i = 5 \/ i = 6
      BY <2>2
    <3>2. Parts(source)[4] \in Stored(source)
      BY <2>2, <2>3 DEF Stored
    <3>3. CASE i = 1
      BY <2>3, <3>2, <3>3 DEF Home
    <3>4. CASE i # 1
      BY <2>3, <3>1, <3>4 DEF Home, Stored
    <3> QED BY <3>3, <3>4
  <2> QED BY <1>2, <2>2, <2>3, <2>4
<1> QED BY <1>1, <1>2

\* When everything is read, a part is of a publication.
LEMMA PartRead ==
  ASSUME IntakeTypeOK, Len(copied) = Len(Parts(request.source)),
         NEW part, \E i \in DOMAIN Parts(request.source) : Parts(request.source)[i] = part
  PROVE  \E p \in DOMAIN Publications : At(part) = Publications[p]
<1> DEFINE parts == Parts(request.source)
           n == CHOOSE i \in DOMAIN parts : parts[i] = part
<1>1. n \in DOMAIN parts
  <2> HIDE DEF parts
  <2> QED BY DEF parts
<1>2. DOMAIN parts = 1..Len(parts)
  BY SourceParts
<1>3. copied[n] \in DOMAIN Publications
  <2> HIDE DEF n
  <2> QED BY <1>1, <1>2 DEF IntakeTypeOK
<1> QED BY <1>3 DEF At

\* The fact requests of a delivery, as Payloads has them.
PayloadsOf(d) == [i \in DOMAIN d.batch.requests |-> d.batch.requests[i].payload]

\* Every part of a delivery is that of some publication, and it has a request.
Whole(d) ==
  \E c, k, s, r \in DOMAIN Publications :
    /\ d.catalog = Publications[c].catalog /\ d.candidate = Publications[k].candidate
    /\ d.result = Publications[s].result
    /\ d.batch # None =>
         PayloadsOf(d) = Publications[r].payloads /\ ~Empty(Publications[r].payloads)

\* The envelope of the parts read is made of parts of publications.
LEMMA EnvelopeWhole ==
  ASSUME IntakeTypeOK, Len(copied) = Len(Parts(request.source)), ~Unreadable, Envelope # None
  PROVE  Whole(Envelope)
<1>1. \A p \in DOMAIN Publications :
        LET batch == Publications[p].batch
        IN Publications[p].payloads = [i \in DOMAIN batch.requests |-> batch.requests[i].payload]
  BY ContentAssumption
<1>2. CASE request.source = "mongodb"
  <2>1. PICK c \in DOMAIN Publications : At("rule") = Publications[c]
    BY <1>2, PartRead, SourceParts
  <2>2. PICK r \in DOMAIN Publications : At("batch") = Publications[r]
    BY <1>2, PartRead, SourceParts
  <2>3. Delivered(At("rule")) /\ Envelope = MongoEnvelope(At("rule"), At("batch"))
    BY <1>2 DEF Envelope
  <2>4. /\ Envelope.catalog = Publications[c].catalog
        /\ Envelope.candidate = Publications[c].candidate
        /\ Envelope.result = Publications[c].result
        /\ Envelope.batch =
             IF Publications[r].contract = "3.1.0" THEN Publications[r].batch ELSE None
    BY <2>1, <2>2, <2>3 DEF MongoEnvelope
  <2>5. ASSUME Envelope.batch # None
        PROVE  PayloadsOf(Envelope) = Publications[r].payloads /\ ~Empty(Publications[r].payloads)
    <3>1. Publications[r].contract = "3.1.0" /\ Envelope.batch = Publications[r].batch
      BY <2>4, <2>5
    <3>2. PayloadsOf(Envelope) = Publications[r].payloads
      BY <1>1, <3>1 DEF PayloadsOf
    <3>3. DOMAIN Publications[r].payloads = DOMAIN Publications[r].batch.requests
      BY <1>1
    <3>4. ~Empty(Publications[r].batch.requests)
      BY <1>2, <2>2, <2>3, <3>1 DEF Unreadable
    <3> QED BY <3>2, <3>3, <3>4 DEF Empty
  <2> QED BY <2>4, <2>5 DEF Whole
<1>3. CASE request.source # "mongodb"
  <2>1. PICK c \in DOMAIN Publications : At("catalog") = Publications[c]
    BY <1>3, PartRead, SourceParts
  <2>2. PICK k \in DOMAIN Publications : At("candidate") = Publications[k]
    BY <1>3, PartRead, SourceParts
  <2>3. PICK s \in DOMAIN Publications : At("result") = Publications[s]
    BY <1>3, PartRead, SourceParts
  <2>4. PICK r \in DOMAIN Publications : At("requests") = Publications[r]
    BY <1>3, PartRead, SourceParts
  <2>5. Indexed /\ Envelope = FileEnvelope(At("catalog").catalog, At("candidate").candidate,
                         At("result").result, At("requests").payloads,
                         At("manifest").manifest)
    BY <1>3 DEF Envelope
  <2>6. /\ Envelope.catalog = Publications[c].catalog
        /\ Envelope.candidate = Publications[k].candidate
        /\ Envelope.result = Publications[s].result
        /\ Envelope.batch = Batch(Publications[s].result.version, Publications[r].payloads)
    BY <2>1, <2>3, <2>5, <2>2, <2>4 DEF FileEnvelope
  <2>7. ~Empty(Publications[r].payloads)
    BY <1>3, <2>4, <2>5 DEF Unreadable
  <2>8. PayloadsOf(Envelope) = Publications[r].payloads
    <3> DEFINE payloads == Publications[r].payloads
    <3>1. /\ DOMAIN Envelope.batch.requests = DOMAIN payloads
          /\ \A i \in DOMAIN payloads : Envelope.batch.requests[i].payload = payloads[i]
      <4> DEFINE version == Publications[s].result.version
                 request1(i) == [id |-> PayloadId(payloads[i]), version |-> payloads[i].ruleVersion,
                                 fact |-> payloads[i].fact, sha |-> Sha(payloads[i]),
                                 payload |-> payloads[i]]
      <4>1. Batch(version, payloads).requests = [i \in DOMAIN payloads |-> request1(i)]
        BY DEF Batch
      <4>2. Envelope.batch.requests = [i \in DOMAIN payloads |-> request1(i)]
        BY <2>6, <4>1
      <4>3. \A i \in DOMAIN payloads : request1(i).payload = payloads[i]
        OBVIOUS
      <4> HIDE DEF request1, payloads
      <4> QED BY <4>2, <4>3
    <3>2. PayloadsOf(Envelope) = [i \in DOMAIN payloads |-> payloads[i]]
      BY <3>1 DEF PayloadsOf
    <3>3. payloads = [i \in DOMAIN payloads |-> payloads[i]]
      BY <1>1
    <3> QED BY <3>2, <3>3
  <2> QED BY <2>6, <2>7, <2>8 DEF Whole
<1> QED BY <1>2, <1>3

\* What the gates have checked of a delivery that passes them.
LEMMA Gates ==
  ASSUME NEW d, Selection(d) = "selected"
  PROVE  /\ Lacks(d) = {} /\ PayloadsValid(d) /\ CatalogCloses(d) /\ CandidateCloses(d)
         /\ RequestsClose(d)
<1>1. d # None /\ EnvelopeHolds(d) /\ Lacks(d) = {} /\ PayloadsValid(d)
  BY Zenon DEF Selection
<1>2. d.candidate.tree \notin Malformed
  BY <1>1 DEF Selection
<1>3. CatalogCloses(d) /\ CandidateCloses(d) /\ RequestsClose(d)
  BY <1>1, <1>2 DEF Selection
<1> QED BY <1>1, <1>3

\* The parts of a delivery are of publications of one catalog and one candidate.
OnePublicationOf(d) ==
  \E p \in DOMAIN Publications :
    /\ d.catalog = Publications[p].catalog /\ d.candidate = Publications[p].candidate
    /\ \E q \in DOMAIN Publications : Alike(p, q) /\ d.result = Publications[q].result
    /\ \E q \in DOMAIN Publications : Alike(p, q) /\ PayloadsOf(d) = Publications[q].payloads

\* Hash closure makes one publication of them.
LEMMA OnePublication ==
  ASSUME NEW d, Whole(d), Selection(d) = "selected"
  PROVE  OnePublicationOf(d)
<1>1. /\ Lacks(d) = {} /\ PayloadsValid(d) /\ CatalogCloses(d) /\ CandidateCloses(d)
      /\ RequestsClose(d)
  BY Gates
<1>2. d.catalog # None /\ d.candidate # None /\ d.result # None /\ d.batch # None
  BY <1>1 DEF Lacks
<1>3. PICK c, k, s, r \in DOMAIN Publications :
        /\ d.catalog = Publications[c].catalog /\ d.candidate = Publications[k].candidate
        /\ d.result = Publications[s].result
        /\ PayloadsOf(d) = Publications[r].payloads /\ ~Empty(Publications[r].payloads)
  BY <1>2 DEF Whole
<1>4. d.catalog \in Catalogs /\ d.candidate \in Candidates
  BY <1>2, <1>3 DEF Catalogs, Candidates
<1>5. PICK p \in DOMAIN Publications :
        /\ Publications[p].result = d.result
        /\ Publications[p].catalog = d.catalog /\ Publications[p].candidate = d.candidate
  <2>1. States(d.result, d.catalog, d.candidate)
    BY <1>1 DEF States, CatalogCloses, CandidateCloses
  <2>2. Publications[s].result # None /\ States(Publications[s].result, d.catalog, d.candidate)
    BY <1>2, <1>3, <2>1
  <2>3. PICK p \in DOMAIN Publications :
          /\ Publications[p].result = Publications[s].result
          /\ Publications[p].catalog = d.catalog /\ Publications[p].candidate = d.candidate
    BY <1>4, <2>2, ResultAssumption
  <2> QED BY <1>3, <2>3
<1>6. \A i \in DOMAIN Publications[r].payloads :
        Publications[r].payloads[i].candidateSha = Sha(d.candidate)
  BY <1>1, <1>3 DEF RequestsClose, PayloadsOf
<1>7. PICK q \in DOMAIN Publications :
        /\ Publications[q].payloads = Publications[r].payloads
        /\ Publications[q].candidate = d.candidate
        /\ Publications[q].catalog # None /\ Publications[q].catalog.valid
        /\ Publications[q].catalog.body = d.candidate.digest
        /\ Publications[q].catalog.digest = d.candidate.digest
  BY <1>3, <1>4, <1>6, PayloadAssumption
<1>8. Publications[q].catalog = d.catalog
  <2> DEFINE x == Publications[q].catalog
             y == d.catalog
  <2>1. x \in Catalogs /\ y \in Catalogs
    BY <1>4, <1>7 DEF Catalogs
  <2>2. x.body = y.body /\ x.digest = y.digest
    BY <1>1, <1>7 DEF CatalogCloses
  <2>3. x.valid /\ y.valid
    BY <1>1, <1>7 DEF PayloadsValid
  <2> HIDE DEF x, y
  <2>4. x.valid = TRUE /\ y.valid = TRUE
    BY <2>1, <2>3, ContentAssumption
  <2>5. /\ x = [body |-> x.body, digest |-> x.digest, valid |-> x.valid]
        /\ y = [body |-> y.body, digest |-> y.digest, valid |-> y.valid]
    BY <2>1, ContentAssumption
  <2>6. x = y
    BY <2>2, <2>4, <2>5, Zenon
  <2> QED BY <2>6 DEF x, y
<1>9. Alike(p, q)
  BY <1>5, <1>7, <1>8 DEF Alike
<1>10. Alike(p, p)
  BY DEF Alike
<1> QED BY <1>3, <1>5, <1>7, <1>9, <1>10 DEF OnePublicationOf

----------------------------------------------------------------------------
\* The inductive invariant: as many parts are read as the state says, and what
\* is selected is of one publication.
IntakeInv ==
  /\ IntakeTypeOK
  /\ intake = "start" => copied = <<>>
  /\ intake = "reading" => Len(copied) < Len(Parts(request.source))
  /\ intake = "read" => Len(copied) = Len(Parts(request.source))
  /\ intake = "selected" => OnePublicationOf(delivery)

\* Nothing is read yet.
LEMMA InitIntakeInv == IntakeInit => IntakeInv
<1> SUFFICES ASSUME IntakeInit PROVE IntakeInv
  OBVIOUS
<1>1. request \in Commands /\ copied = <<>> /\ intake = "start" /\ delivery = None
  BY DEF IntakeInit
<1>2. request.first \in DOMAIN Publications
  BY <1>1, CommandAssumption
<1>3. store \in [Stored(request.source) -> DOMAIN Publications]
  BY <1>2 DEF IntakeInit
<1>4. copied \in Seq(DOMAIN Publications) /\ Len(copied) = 0
  BY <1>1
<1>5. Len(Parts(request.source)) \in Nat \ {0}
  BY SourceParts
<1>6. IntakeTypeOK
  BY <1>1, <1>3, <1>4, <1>5 DEF IntakeTypeOK
<1> QED BY <1>1, <1>6 DEF IntakeInv

\* What a selected delivery is made of.
LEMMA SelectedIsOne ==
  ASSUME IntakeInv, Select, intake' = "selected"
  PROVE  OnePublicationOf(delivery')
<1>1. /\ ~Unreadable /\ Selection(Envelope) = "selected" /\ delivery' = Envelope
  BY DEF Select
<1>2. Envelope # None
  BY <1>1 DEF Selection
<1>3. Len(copied) = Len(Parts(request.source)) /\ IntakeTypeOK
  BY DEF IntakeInv, Select
<1>4. Whole(Envelope)
  BY <1>1, <1>2, <1>3, EnvelopeWhole
<1> QED BY <1>1, <1>4, OnePublication

\* The outcomes of the gates.
LEMMA SelectionOutcome ==
  ASSUME NEW d
  PROVE  Selection(d) \in {"selected", "invalid", "notFound", "notConsumable", "raised"}
BY Zenon DEF Selection

\* Every step keeps the invariant.
LEMMA StepIntakeInv == IntakeInv /\ [IntakeNext]_intakeVars => IntakeInv'
<1> SUFFICES ASSUME IntakeInv, [IntakeNext]_intakeVars PROVE IntakeInv'
  OBVIOUS
<1>1. ASSUME NEW part \in DOMAIN store, Republish(part) PROVE IntakeInv'
  <2>1. request.second \in DOMAIN Publications
    BY CommandAssumption DEF IntakeInv, IntakeTypeOK
  <2>2. store' \in [Stored(request.source) -> DOMAIN Publications]
    BY <1>1, <2>1 DEF IntakeInv, IntakeTypeOK, Republish
  <2> QED BY <1>1, <2>2 DEF IntakeInv, IntakeTypeOK, Republish
<1>2. CASE CheckPurpose
  <2>1. /\ copied = <<>> /\ intake' \in {"reading", "invalid"}
        /\ UNCHANGED <<request, store, copied, delivery>>
    BY <1>2 DEF CheckPurpose, IntakeInv
  <2>2. Len(copied) = 0 /\ Len(Parts(request.source)) \in Nat \ {0}
    BY <2>1, SourceParts
  <2>3. delivery = None
    BY <1>2 DEF CheckPurpose, IntakeInv, IntakeTypeOK
  <2>4. IntakeTypeOK'
    BY <2>1, <2>3 DEF IntakeInv, IntakeTypeOK
  <2> QED BY <2>1, <2>2, <2>4 DEF IntakeInv
<1>3. CASE ReadPart
  <2> DEFINE parts == Parts(request.source)
             next == Len(copied) + 1
             read == store[Home(parts[next])]
  <2>1. /\ intake = "reading" /\ copied' = Append(copied, read)
        /\ intake' = IF next = Len(parts) THEN "read" ELSE "reading"
        /\ UNCHANGED <<request, store, delivery>>
    BY <1>3 DEF ReadPart
  <2>2. copied \in Seq(DOMAIN Publications) /\ Len(copied) < Len(parts) /\ delivery = None
    BY <2>1 DEF IntakeInv, IntakeTypeOK
  <2>3. Len(parts) \in Nat \ {0} /\ DOMAIN parts = 1..Len(parts)
    BY SourceParts
  <2>4. next \in DOMAIN parts
    BY <2>2, <2>3
  <2>5. Home(parts[next]) \in Stored(request.source)
    BY <2>4, SourceParts
  <2>6. read \in DOMAIN Publications
    BY <2>5 DEF IntakeInv, IntakeTypeOK
  <2> HIDE DEF parts, read
  <2>7. copied' \in Seq(DOMAIN Publications) /\ Len(copied') = next
    BY <2>1, <2>2, <2>6
  <2>8. Len(copied) \in Nat
    BY <2>2
  <2>9. /\ intake' = "reading" => Len(copied') < Len(parts)
        /\ intake' = "read" => Len(copied') = Len(parts)
        /\ Len(copied') <= Len(parts) /\ intake' \in {"reading", "read"}
    <3> DEFINE read1 == Len(copied')
               all == Len(parts)
               some == Len(copied)
    <3>1. /\ intake' = IF some + 1 = all THEN "read" ELSE "reading"
          /\ read1 = some + 1 /\ all \in Nat /\ some \in Nat /\ some < all
      BY <2>1, <2>2, <2>3, <2>7, <2>8
    <3> HIDE DEF read1, all, some
    <3>2. /\ intake' = "reading" => read1 < all
          /\ intake' = "read" => read1 = all
          /\ read1 <= all /\ intake' \in {"reading", "read"}
      BY <3>1
    <3> QED BY <3>2 DEF read1, all
  <2>10. Parts(request.source)' = parts
    BY <2>1 DEF parts
  <2>11. IntakeTypeOK'
    BY <2>1, <2>2, <2>7, <2>9, <2>10 DEF IntakeInv, IntakeTypeOK
  <2> QED BY <2>9, <2>10, <2>11 DEF IntakeInv
<1>4. CASE ReadFails
  BY <1>4 DEF ReadFails, IntakeInv, IntakeTypeOK
<1>5. CASE Select
  <2>1. /\ intake' \in {"unavailable", "selected", "invalid", "notFound", "notConsumable", "raised"}
        /\ intake' # "selected" => delivery' = None
        /\ UNCHANGED <<request, store, copied>>
    BY <1>5, SelectionOutcome DEF Select
  <2>2. IntakeTypeOK'
    BY <2>1 DEF IntakeInv, IntakeTypeOK
  <2>3. intake' = "selected" => OnePublicationOf(delivery')
    BY <1>5, SelectedIsOne
  <2> QED BY <2>1, <2>2, <2>3 DEF IntakeInv, OnePublicationOf, PayloadsOf
<1>6. CASE UNCHANGED intakeVars
  BY <1>6 DEF intakeVars, IntakeInv, IntakeTypeOK, OnePublicationOf, PayloadsOf
<1> QED BY <1>1, <1>2, <1>3, <1>4, <1>5, <1>6 DEF IntakeNext

\* The invariant holds at all times.
LEMMA InductiveIntakeInv == IntakeSpec => []IntakeInv
BY InitIntakeInv, StepIntakeInv, PTL DEF IntakeSpec

\* The types of the intake hold at all times.
THEOREM IntakeTypeCorrect == IntakeSpec => []IntakeTypeOK
<1>1. IntakeInv => IntakeTypeOK
  BY DEF IntakeInv
<1> QED BY <1>1, InductiveIntakeInv, PTL

\* Whatever the publisher rewrites between two reads, a selected delivery is put
\* together from publications of one catalog and one candidate.
THEOREM DeliveriesAreOnePublication == IntakeSpec => []DeliveryIsOnePublication
<1>1. IntakeInv => DeliveryIsOnePublication
  BY DEF IntakeInv, OnePublicationOf, PayloadsOf, Payloads, DeliveryIsOnePublication
<1> QED BY <1>1, InductiveIntakeInv, PTL

----------------------------------------------------------------------------
(* Part 3: the decision of a rule tree.  The CASE expressions first.      *)

\* A set of numbers that is not empty has a least one.
LEMMA LeastNumber ==
  ASSUME NEW S \in SUBSET Nat, S # {}
  PROVE  \E i \in S : \A j \in S : i <= j
<1>1. PICK i \in S : \A j \in S : <<j, i>> \notin OpToRel(<, Nat)
  BY WFMin, NatLessThanWellFounded, Zenon
<1>2. \A j \in S : ~(j < i)
  BY <1>1, Zenon DEF OpToRel
<1> QED
  BY <1>2

\* A CASE none of whose branches holds has its default.
LEMMA CaseNone ==
  ASSUME NEW whens, NEW d, \A i \in DOMAIN whens : ~whens[i].guard
  PROVE  CaseOf(whens, d) = d
BY DEF CaseOf

\* A CASE has the value of its first branch that holds.
LEMMA CaseFirst ==
  ASSUME NEW whens, NEW d, DOMAIN whens \in SUBSET Nat,
         NEW k \in DOMAIN whens, whens[k].guard,
         \A j \in DOMAIN whens : j < k => ~whens[j].guard
  PROVE  CaseOf(whens, d) = whens[k].then
<1> DEFINE held == {i \in DOMAIN whens : whens[i].guard}
           first == CHOOSE i \in held : \A j \in held : i <= j
<1>1. k \in held /\ \A j \in held : k <= j
  OBVIOUS
<1>2. first \in held /\ \A j \in held : first <= j
  BY <1>1, Zenon
<1>3. first = k
  <2> HIDE DEF first
  <2> QED BY <1>1, <1>2
<1> QED
  BY <1>1, <1>3 DEF CaseOf

\* Branches after others are asked when none of these holds.
LEMMA CaseAppend ==
  ASSUME NEW S, NEW a \in Seq(S), NEW b \in Seq(S), NEW d
  PROVE  CaseOf(a \o b, d) = CaseOf(a, CaseOf(b, d))
<1> DEFINE m == Len(a)
           n == Len(b)
           c == a \o b
           holds(s) == {i \in DOMAIN s : s[i].guard}
<1>1. m \in Nat /\ n \in Nat /\ DOMAIN a = 1..m /\ DOMAIN b = 1..n
  OBVIOUS
<1>2. c \in Seq(S) /\ Len(c) = m + n
  OBVIOUS
<1>3. DOMAIN c = 1..(m + n)
  <2> HIDE DEF c
  <2> QED BY <1>2
<1>4. \A i \in 1..m : c[i] = a[i]
  OBVIOUS
<1>5. \A i \in 1..n : c[m + i] = b[i]
  OBVIOUS
<1> HIDE DEF m, n, c
<1>6. \A j \in DOMAIN c : j \in 1..m \/ (j - m \in 1..n /\ m + (j - m) = j)
  BY <1>1, <1>3
<1>7. holds(a) \in SUBSET Nat /\ holds(b) \in SUBSET Nat /\ DOMAIN c \in SUBSET Nat
      /\ DOMAIN a \in SUBSET Nat /\ DOMAIN b \in SUBSET Nat
  BY <1>1, <1>3
<1>8. CASE holds(a) # {}
  <2>1. PICK k \in holds(a) : \A j \in holds(a) : k <= j
    BY <1>7, <1>8, LeastNumber
  <2>2. k \in 1..m /\ \A j \in 1..m : j < k => ~a[j].guard
    BY <1>1, <2>1
  <2>3. CaseOf(a, CaseOf(b, d)) = a[k].then
    BY <1>1, <1>7, <2>1, <2>2, CaseFirst
  <2>4. k \in DOMAIN c /\ c[k].guard
    BY <1>1, <1>3, <1>4, <2>1, <2>2
  <2>5. \A j \in DOMAIN c : j < k => ~c[j].guard
    <3> SUFFICES ASSUME NEW j \in DOMAIN c, j < k PROVE ~c[j].guard
      OBVIOUS
    <3>1. j \in 1..m
      BY <1>1, <1>3, <2>2
    <3> QED BY <1>4, <2>2, <3>1
  <2>6. CaseOf(c, d) = c[k].then
    BY <1>7, <2>4, <2>5, CaseFirst
  <2> QED BY <1>4, <2>2, <2>3, <2>6 DEF c
<1>9. CASE holds(a) = {} /\ holds(b) # {}
  <2>1. PICK k \in holds(b) : \A j \in holds(b) : k <= j
    BY <1>7, <1>9, LeastNumber
  <2>2. k \in 1..n /\ b[k].guard /\ \A j \in 1..n : j < k => ~b[j].guard
    BY <1>1, <2>1
  <2>3. CaseOf(b, d) = b[k].then
    BY <1>1, <1>7, <2>1, <2>2, CaseFirst
  <2>4. CaseOf(a, CaseOf(b, d)) = CaseOf(b, d)
    BY <1>9, CaseNone
  <2>5. m + k \in DOMAIN c /\ c[m + k].guard /\ c[m + k].then = b[k].then
    <3>1. m + k \in DOMAIN c
      BY <1>1, <1>3, <2>2
    <3> QED BY <1>5, <2>2, <3>1
  <2>6. \A j \in DOMAIN c : j < m + k => ~c[j].guard
    <3> SUFFICES ASSUME NEW j \in DOMAIN c, j < m + k PROVE ~c[j].guard
      OBVIOUS
    <3>1. CASE j \in 1..m
      BY <1>1, <1>4, <1>9, <3>1
    <3>2. CASE j - m \in 1..n /\ m + (j - m) = j
      <4>1. j - m < k
        BY <1>1, <1>3, <2>2, <3>2
      <4>2. c[j] = b[j - m]
        BY <1>5, <3>2
      <4> QED BY <2>2, <3>2, <4>1, <4>2
    <3> QED BY <1>6, <3>1, <3>2
  <2>7. CaseOf(c, d) = c[m + k].then
    BY <1>7, <2>5, <2>6, CaseFirst
  <2> QED BY <2>3, <2>4, <2>5, <2>7 DEF c
<1>10. CASE holds(a) = {} /\ holds(b) = {}
  <2>1. \A j \in DOMAIN c : ~c[j].guard
    <3> SUFFICES ASSUME NEW j \in DOMAIN c PROVE ~c[j].guard
      OBVIOUS
    <3>1. CASE j \in 1..m
      BY <1>1, <1>4, <1>10, <3>1
    <3>2. CASE j - m \in 1..n /\ m + (j - m) = j
      <4>1. c[j] = b[j - m]
        BY <1>5, <3>2
      <4> QED BY <1>1, <1>10, <3>2, <4>1
    <3> QED BY <1>6, <3>1, <3>2
  <2>2. CaseOf(b, d) = d
    BY <1>10, CaseNone
  <2>3. CaseOf(a, CaseOf(b, d)) = CaseOf(b, d)
    BY <1>10, CaseNone
  <2>4. CaseOf(c, d) = d
    BY <2>1, CaseNone
  <2> QED BY <2>2, <2>3, <2>4 DEF c
<1> QED BY <1>8, <1>9, <1>10

-----------------------------------------------------------------------------
(* The columns, stage by stage.                                            *)

\* What a stage can have come to, and the first of its rules to pass.
AllFail(s) == \A i \in DOMAIN RulesOf(s) : verdict[<<s, i>>] = "fail"
NoPass(s) == \A i \in DOMAIN RulesOf(s) : verdict[<<s, i>>] # "pass"
Open(s) == \E i \in DOMAIN RulesOf(s) : verdict[<<s, i>>] = "indeterminate"
FirstPass(s, i) ==
  /\ i \in DOMAIN RulesOf(s) /\ verdict[<<s, i>>] = "pass"
  /\ \A j \in DOMAIN RulesOf(s) : j < i => verdict[<<s, j>>] # "pass"

\* The branches of one stage, then what comes after them.
StageCase(s, thens, unknown, rest) ==
  CaseOf(StageWhens(s, thens), CaseOf(StageUnknownWhen(s, unknown), rest))

\* A hit column is 1 for a rule that passes and NULL for an undecided one.
LEMMA BitValue ==
  ASSUME NEW v \in Verdicts
  PROVE  (Bit(v) = 1 <=> v = "pass") /\ (Bit(v) = Null <=> v = "indeterminate")
<1>1. Null # 0 /\ Null # 1
  BY RuleDecisionAssumption
<1>2. CASE v = "pass"
  BY <1>1, <1>2 DEF Bit
<1>3. CASE v = "fail"
  BY <1>1, <1>3 DEF Bit
<1>4. CASE v = "indeterminate"
  BY <1>1, <1>4 DEF Bit
<1> QED BY <1>2, <1>3, <1>4 DEF Verdicts

\* The rules of a stage, and what their hit columns hold.
LEMMA StageRules ==
  ASSUME DecisionTypeOK, NEW s \in Stages
  PROVE  /\ RulesOf(s) \in Seq(Rules) /\ Len(RulesOf(s)) \in Nat
         /\ DOMAIN RulesOf(s) = 1..Len(RulesOf(s))
         /\ DOMAIN RulesOf(s) \in SUBSET Nat
         /\ RulesOf(s) = <<>> <=> DOMAIN RulesOf(s) = {}
         /\ \A i \in DOMAIN RulesOf(s) :
              /\ <<s, i>> \in Places(structure)
              /\ RuleAt(<<s, i>>) = RulesOf(s)[i] /\ RuleAt(<<s, i>>) \in Rules
              /\ verdict[<<s, i>>] \in Verdicts
              /\ Hits[<<s, i>>] = 1 <=> verdict[<<s, i>>] = "pass"
              /\ Hits[<<s, i>>] = Null <=> verdict[<<s, i>>] = "indeterminate"
<1>1. structure.rules \in [Stages -> Seq(Rules)]
  BY RuleDecisionAssumption DEF DecisionTypeOK
<1>2. /\ RulesOf(s) \in Seq(Rules) /\ Len(RulesOf(s)) \in Nat
      /\ DOMAIN RulesOf(s) = 1..Len(RulesOf(s))
      /\ RulesOf(s) = <<>> <=> DOMAIN RulesOf(s) = {}
  <2>1. RulesOf(s) \in Seq(Rules)
    BY <1>1 DEF RulesOf
  <2> HIDE DEF RulesOf
  <2> QED BY <2>1
<1>3. ASSUME NEW i \in DOMAIN RulesOf(s)
      PROVE  /\ <<s, i>> \in Places(structure)
             /\ RuleAt(<<s, i>>) = RulesOf(s)[i] /\ RuleAt(<<s, i>>) \in Rules
             /\ verdict[<<s, i>>] \in Verdicts
             /\ Hits[<<s, i>>] = 1 <=> verdict[<<s, i>>] = "pass"
             /\ Hits[<<s, i>>] = Null <=> verdict[<<s, i>>] = "indeterminate"
  <2>1. <<s, i>> \in Places(structure)
    <3> DEFINE row(r) == {<<r, j>> : j \in DOMAIN structure.rules[r]}
    <3>1. <<s, i>> \in row(s)
      BY <1>3 DEF RulesOf
    <3>2. Places(structure) = UNION {row(r) : r \in Stages}
      BY DEF Places
    <3> HIDE DEF row
    <3> QED BY <3>1, <3>2, Zenon
  <2>2. RuleAt(<<s, i>>) = RulesOf(s)[i]
    BY DEF RuleAt, RulesOf
  <2>3. RuleAt(<<s, i>>) \in Rules
    BY <1>2, <2>2
  <2>4. verdict[<<s, i>>] \in Verdicts
    BY <2>1 DEF DecisionTypeOK
  <2>5. Hits[<<s, i>>] = Bit(verdict[<<s, i>>])
    BY <2>1, Zenon DEF Hits
  <2>6. /\ Bit(verdict[<<s, i>>]) = 1 <=> verdict[<<s, i>>] = "pass"
        /\ Bit(verdict[<<s, i>>]) = Null <=> verdict[<<s, i>>] = "indeterminate"
    BY <2>4, BitValue
  <2> QED BY <2>1, <2>2, <2>3, <2>4, <2>5, <2>6
<1> QED BY <1>2, <1>3

\* The branches for the hits of a stage, in the order of its rules.
LEMMA HitBranches ==
  ASSUME DecisionTypeOK, NEW s \in Stages, NEW thens
  PROVE  LET whens == StageWhens(s, thens) IN
         /\ DOMAIN whens = DOMAIN RulesOf(s)
         /\ \A i \in DOMAIN RulesOf(s) :
              /\ whens[i].guard <=> verdict[<<s, i>>] = "pass"
              /\ whens[i].then = thens[<<s, i>>]
BY StageRules DEF StageWhens

\* Only the third stage lets the later ones speak.
LEMMA OnlyEligibility ==
  ASSUME NEW s \in Stages
  PROVE  StageOrder[s] = "eligibility" <=> s = 3
<1>1. /\ StageOrder[1] = "stateGuards" /\ StageOrder[2] = "prerequisites"
      /\ StageOrder[3] = "eligibility" /\ StageOrder[4] = "postGates"
      /\ StageOrder[5] = "exclusions"
  BY DEF StageOrder
<1>2. s = 1 \/ s = 2 \/ s = 3 \/ s = 4 \/ s = 5
  BY DEF Stages
<1> QED BY <1>1, <1>2

\* The branch for an undecided stage.
LEMMA UnknownBranch ==
  ASSUME DecisionTypeOK, NEW s \in Stages, NEW then, NEW rest
  PROVE  CaseOf(StageUnknownWhen(s, then), rest) =
           IF Open(s) /\ (s = 3 => NoPass(s)) THEN then ELSE rest
<1> DEFINE flags == {Hits[<<s, i>>] : i \in DOMAIN RulesOf(s)}
           guard == Null \in flags /\ (StageOrder[s] = "eligibility" => 1 \notin flags)
<1>1. Null \in flags <=> Open(s)
  BY StageRules DEF Open
<1>2. 1 \notin flags <=> NoPass(s)
  BY StageRules DEF NoPass
<1>3. StageOrder[s] = "eligibility" <=> s = 3
  BY OnlyEligibility
<1>4. guard <=> (Open(s) /\ (s = 3 => NoPass(s)))
  BY <1>1, <1>2, <1>3
<1>5. CASE RulesOf(s) = <<>>
  <2>1. ~Open(s)
    BY <1>5, StageRules DEF Open
  <2>2. StageUnknownWhen(s, then) = <<>>
    BY <1>5 DEF StageUnknownWhen
  <2>3. CaseOf(<<>>, rest) = rest
    BY CaseNone
  <2> QED BY <2>1, <2>2, <2>3
<1>6. CASE RulesOf(s) # <<>>
  <2>1. StageUnknownWhen(s, then) = <<[guard |-> guard, then |-> then]>>
    BY <1>6 DEF StageUnknownWhen
  <2>2. ASSUME NEW g PROVE LET branches == <<[guard |-> g, then |-> then]>>
                           IN /\ DOMAIN branches = {1}
                              /\ branches[1].then = then /\ branches[1].guard = g
    OBVIOUS
  <2>3. CaseOf(<<[guard |-> TRUE, then |-> then]>>, rest) = then
    BY <2>2, CaseFirst
  <2>4. CaseOf(<<[guard |-> FALSE, then |-> then]>>, rest) = rest
    BY <2>2, CaseNone
  <2> HIDE DEF guard
  <2>5. CASE guard
    BY <1>4, <2>1, <2>3, <2>5, guard = TRUE
  <2>6. CASE ~guard
    BY <1>4, <2>1, <2>4, <2>6, guard = FALSE
  <2> QED BY <2>5, <2>6
<1> QED BY <1>5, <1>6

\* A stage is a branch of its first rule that passes, or none.
LEMMA HitCase ==
  ASSUME DecisionTypeOK, NEW s \in Stages, NEW thens, NEW rest
  PROVE  /\ NoPass(s) => CaseOf(StageWhens(s, thens), rest) = rest
         /\ \A i : FirstPass(s, i) => CaseOf(StageWhens(s, thens), rest) = thens[<<s, i>>]
<1> DEFINE whens == StageWhens(s, thens)
<1>1. /\ DOMAIN whens = DOMAIN RulesOf(s)
      /\ \A i \in DOMAIN RulesOf(s) : /\ whens[i].guard <=> verdict[<<s, i>>] = "pass"
                                      /\ whens[i].then = thens[<<s, i>>]
  BY HitBranches, Zenon
<1> HIDE DEF whens
<1>2. ASSUME NoPass(s) PROVE CaseOf(whens, rest) = rest
  <2>1. \A i \in DOMAIN whens : ~whens[i].guard
    BY <1>1, <1>2 DEF NoPass
  <2> QED BY <2>1, CaseNone
<1>3. ASSUME NEW i, FirstPass(s, i) PROVE CaseOf(whens, rest) = thens[<<s, i>>]
  <2>1. /\ DOMAIN whens \in SUBSET Nat /\ i \in DOMAIN whens /\ whens[i].guard
        /\ \A j \in DOMAIN whens : j < i => ~whens[j].guard
    BY <1>1, <1>3, StageRules DEF FirstPass
  <2>2. CaseOf(whens, rest) = whens[i].then
    BY <2>1, CaseFirst
  <2> QED BY <1>1, <2>1, <2>2
<1> QED BY <1>2, <1>3, Zenon DEF whens

\* What the branches of one stage come to: its first hit, its unknown, or the rest.
LEMMA StageCaseValue ==
  ASSUME DecisionTypeOK, NEW s \in Stages, NEW thens, NEW unknown, NEW rest
  PROVE  /\ AllFail(s) => StageCase(s, thens, unknown, rest) = rest
         /\ NoPass(s) /\ Open(s) => StageCase(s, thens, unknown, rest) = unknown
         /\ \A i : FirstPass(s, i) => StageCase(s, thens, unknown, rest) = thens[<<s, i>>]
<1>1. AllFail(s) => NoPass(s) /\ ~Open(s)
  BY DEF AllFail, NoPass, Open
<1>2. CaseOf(StageUnknownWhen(s, unknown), rest) =
        IF Open(s) /\ (s = 3 => NoPass(s)) THEN unknown ELSE rest
  BY UnknownBranch, Zenon
<1> DEFINE after == CaseOf(StageUnknownWhen(s, unknown), rest)
<1>3. /\ NoPass(s) => CaseOf(StageWhens(s, thens), after) = after
      /\ \A i : FirstPass(s, i) => CaseOf(StageWhens(s, thens), after) = thens[<<s, i>>]
  <2> HIDE DEF after
  <2> QED BY HitCase, Zenon
<1>4. StageCase(s, thens, unknown, rest) = CaseOf(StageWhens(s, thens), after)
  BY DEF StageCase
<1> HIDE DEF after
<1>5. after = IF Open(s) /\ (s = 3 => NoPass(s)) THEN unknown ELSE rest
  BY <1>2 DEF after
<1> QED BY <1>1, <1>3, <1>4, <1>5, Zenon
-----------------------------------------------------------------------------
(* The columns, branch after branch.                                       *)

\* A column over the ten lists of branches in the order they are asked.
Column(early, override, unknown, overrideUnknown, default) ==
  CaseOf(DecisionWhens(early, override, unknown, overrideUnknown), default)

\* The branches of a stage are a sequence of guards and values.
LEMMA BranchTypes ==
  ASSUME DecisionTypeOK, NEW s \in Stages, NEW T, NEW thens, NEW unknown \in T,
         \A i \in DOMAIN RulesOf(s) : thens[<<s, i>>] \in T
  PROVE  /\ StageWhens(s, thens) \in Seq([guard : BOOLEAN, then : T])
         /\ StageUnknownWhen(s, unknown) \in Seq([guard : BOOLEAN, then : T])
<1> DEFINE Branches == [guard : BOOLEAN, then : T]
           n == Len(RulesOf(s))
<1>1. StageWhens(s, thens) \in Seq(Branches)
  <2>1. n \in Nat /\ DOMAIN RulesOf(s) = 1..n
    BY StageRules
  <2>2. \A i \in 1..n : thens[<<s, i>>] \in T
    BY <2>1, StageRules
  <2>3. \A i \in 1..n : [guard |-> Hits[<<s, i>>] = 1, then |-> thens[<<s, i>>]] \in Branches
    BY <2>2
  <2>4. StageWhens(s, thens) \in [1..n -> Branches]
    BY <2>1, <2>3 DEF StageWhens
  <2> HIDE DEF Branches, n
  <2> QED BY <2>1, <2>4
<1>2. StageUnknownWhen(s, unknown) \in Seq(Branches)
  <2>1. ASSUME NEW g \in BOOLEAN
        PROVE  <<[guard |-> g, then |-> unknown]>> \in Seq(Branches)
    <3>1. [guard |-> g, then |-> unknown] \in Branches
      OBVIOUS
    <3> HIDE DEF Branches
    <3> QED BY <3>1
  <2>2. <<>> \in Seq(Branches)
    OBVIOUS
  <2> HIDE DEF Branches
  <2> QED BY <2>1, <2>2, Zenon DEF StageUnknownWhen
<1> QED BY <1>1, <1>2

\* A column asks the early stages, whether eligibility is undecided, the
\* overriding stages, and eligibility last.
LEMMA ColumnStages ==
  ASSUME DecisionTypeOK, NEW e, NEW o, NEW u, NEW ou, NEW d
  PROVE  Column(e, o, u, ou, d) =
           StageCase(1, e, u, StageCase(2, e, u, CaseOf(StageUnknownWhen(3, u),
             StageCase(4, o, ou, StageCase(5, o, ou, CaseOf(StageWhens(3, e), d))))))
<1> DEFINE T == {e[p] : p \in Places(structure)} \cup {o[p] : p \in Places(structure)}
                \cup {u, ou}
           B == Seq([guard : BOOLEAN, then : T])
           w1 == StageWhens(1, e)
           u1 == StageUnknownWhen(1, u)
           w2 == StageWhens(2, e)
           u2 == StageUnknownWhen(2, u)
           u3 == StageUnknownWhen(3, u)
           w4 == StageWhens(4, o)
           u4 == StageUnknownWhen(4, ou)
           w5 == StageWhens(5, o)
           u5 == StageUnknownWhen(5, ou)
           w3 == StageWhens(3, e)
<1>1. /\ w1 \in B /\ u1 \in B /\ w2 \in B /\ u2 \in B /\ u3 \in B
      /\ w4 \in B /\ u4 \in B /\ w5 \in B /\ u5 \in B /\ w3 \in B
  <2>1. 1 \in Stages /\ 2 \in Stages /\ 3 \in Stages /\ 4 \in Stages /\ 5 \in Stages
    BY DEF Stages
  <2>2. \A s \in Stages : \A i \in DOMAIN RulesOf(s) : e[<<s, i>>] \in T /\ o[<<s, i>>] \in T
    BY StageRules
  <2>3. u \in T /\ ou \in T
    OBVIOUS
  <2> HIDE DEF T
  <2>4. \A s \in Stages : /\ StageWhens(s, e) \in B /\ StageWhens(s, o) \in B
                          /\ StageUnknownWhen(s, u) \in B /\ StageUnknownWhen(s, ou) \in B
    BY <2>2, <2>3, BranchTypes
  <2> HIDE DEF B
  <2> QED BY <2>1, <2>4
<1>2. Column(e, o, u, ou, d) =
        CaseOf((w1 \o u1) \o (w2 \o u2) \o u3 \o (w4 \o u4) \o (w5 \o u5) \o w3, d)
  BY DEF Column, DecisionWhens
<1>3. /\ StageCase(1, e, u, StageCase(2, e, u, CaseOf(StageUnknownWhen(3, u),
           StageCase(4, o, ou, StageCase(5, o, ou, CaseOf(StageWhens(3, e), d)))))) =
         CaseOf(w1, CaseOf(u1, CaseOf(w2, CaseOf(u2, CaseOf(u3, CaseOf(w4, CaseOf(u4,
           CaseOf(w5, CaseOf(u5, CaseOf(w3, d))))))))))
  BY DEF StageCase
<1> HIDE DEF w1, u1, w2, u2, u3, w4, u4, w5, u5, w3, B
<1>4. \A a, b \in B : a \o b \in B
  BY DEF B
<1>5. \A a, b \in B : \A r : CaseOf(a \o b, r) = CaseOf(a, CaseOf(b, r))
  BY CaseAppend DEF B
<1>6. /\ w1 \o u1 \in B /\ w2 \o u2 \in B /\ w4 \o u4 \in B /\ w5 \o u5 \in B
      /\ (w1 \o u1) \o (w2 \o u2) \in B
      /\ (w1 \o u1) \o (w2 \o u2) \o u3 \in B
      /\ (w1 \o u1) \o (w2 \o u2) \o u3 \o (w4 \o u4) \in B
      /\ (w1 \o u1) \o (w2 \o u2) \o u3 \o (w4 \o u4) \o (w5 \o u5) \in B
  BY <1>1, <1>4
<1> QED BY <1>1, <1>2, <1>3, <1>5, <1>6

\* What a column says when an early stage decides.
LEMMA ColumnEarly ==
  ASSUME DecisionTypeOK, NEW e, NEW o, NEW u, NEW ou, NEW d,
         NEW s \in {1, 2}, \A r \in Stages : r < s => AllFail(r)
  PROVE  /\ \A i : FirstPass(s, i) => Column(e, o, u, ou, d) = e[<<s, i>>]
         /\ NoPass(s) /\ Open(s) => Column(e, o, u, ou, d) = u
<1> DEFINE rest3 == CaseOf(StageUnknownWhen(3, u),
             StageCase(4, o, ou, StageCase(5, o, ou, CaseOf(StageWhens(3, e), d))))
           rest2 == StageCase(2, e, u, rest3)
<1>1. Column(e, o, u, ou, d) = StageCase(1, e, u, rest2)
  BY ColumnStages
<1> HIDE DEF rest3
<1>2. 1 \in Stages /\ 2 \in Stages
  BY DEF Stages
<1>3. CASE s = 1
  <2> HIDE DEF rest2
  <2> QED BY <1>1, <1>2, <1>3, StageCaseValue
<1>4. CASE s = 2
  <2>1. AllFail(1)
    BY <1>2, <1>4
  <2>2. StageCase(1, e, u, rest2) = rest2
    BY <1>2, <2>1, StageCaseValue
  <2> QED BY <1>1, <1>2, <1>4, <2>2, StageCaseValue
<1> QED BY <1>3, <1>4

\* Past the early stages, an undecided eligibility comes first.
LEMMA ColumnLate ==
  ASSUME DecisionTypeOK, NEW e, NEW o, NEW u, NEW ou, NEW d,
         AllFail(1), AllFail(2)
  PROVE  /\ NoPass(3) /\ Open(3) => Column(e, o, u, ou, d) = u
         /\ ~(NoPass(3) /\ Open(3)) =>
              Column(e, o, u, ou, d) =
                StageCase(4, o, ou, StageCase(5, o, ou, CaseOf(StageWhens(3, e), d)))
<1> DEFINE rest4 == StageCase(4, o, ou, StageCase(5, o, ou, CaseOf(StageWhens(3, e), d)))
           rest3 == CaseOf(StageUnknownWhen(3, u), rest4)
           rest2 == StageCase(2, e, u, rest3)
<1>1. Column(e, o, u, ou, d) = StageCase(1, e, u, rest2)
  BY ColumnStages
<1> HIDE DEF rest4
<1>2. 1 \in Stages /\ 2 \in Stages /\ 3 \in Stages
  BY DEF Stages
<1>3. rest3 = IF NoPass(3) /\ Open(3) THEN u ELSE rest4
  BY <1>2, UnknownBranch
<1> HIDE DEF rest3
<1>4. rest2 = rest3
  BY <1>2, StageCaseValue
<1> HIDE DEF rest2
<1>5. StageCase(1, e, u, rest2) = rest2
  BY <1>2, StageCaseValue
<1> QED BY <1>1, <1>3, <1>4, <1>5 DEF rest4

\* What a column says when an overriding stage decides, and when none does.
LEMMA ColumnOverride ==
  ASSUME DecisionTypeOK, NEW e, NEW o, NEW u, NEW ou, NEW d,
         NEW s \in {4, 5}, \A r \in Stages : r < s /\ r # 3 => AllFail(r),
         ~(NoPass(3) /\ Open(3))
  PROVE  /\ \A i : FirstPass(s, i) => Column(e, o, u, ou, d) = o[<<s, i>>]
         /\ NoPass(s) /\ Open(s) => Column(e, o, u, ou, d) = ou
         /\ s = 5 /\ AllFail(5) => Column(e, o, u, ou, d) = CaseOf(StageWhens(3, e), d)
<1> DEFINE rest3 == CaseOf(StageWhens(3, e), d)
           rest5 == StageCase(5, o, ou, rest3)
<1>1. 1 \in Stages /\ 2 \in Stages /\ 3 \in Stages /\ 4 \in Stages /\ 5 \in Stages
  BY DEF Stages
<1>2. AllFail(1) /\ AllFail(2)
  BY <1>1
<1>3. Column(e, o, u, ou, d) = StageCase(4, o, ou, rest5)
  BY <1>2, ColumnLate, Zenon
<1> HIDE DEF rest3
<1>4. CASE s = 4
  <2> HIDE DEF rest5
  <2> QED BY <1>1, <1>3, <1>4, StageCaseValue
<1>5. CASE s = 5
  <2>1. AllFail(4)
    BY <1>1, <1>5
  <2>2. StageCase(4, o, ou, rest5) = rest5
    BY <1>1, <2>1, StageCaseValue
  <2>3. AllFail(5) => rest5 = rest3
    BY <1>1, StageCaseValue
  <2> QED BY <1>1, <1>3, <1>5, <2>2, <2>3, StageCaseValue DEF rest3
<1> QED BY <1>4, <1>5
-----------------------------------------------------------------------------
(* The row, for each way the stages can end.                               *)

OutcomeThens == [place \in Places(structure) |-> OrEmpty(RuleAt(place).outcome)]
ReasonThens == [place \in Places(structure) |-> OrEmpty(RuleAt(place).reason)]
CodeThens == [place \in Places(structure) |-> <<RuleAt(place).code>>]
OverrideThens ==
  [place \in Places(structure) |-> EligibilityFirstMatch \o <<RuleAt(place).code>>]

Row(outcome, reason, text) ==
  [outcome |-> outcome, reason |-> reason, matched |-> CodesIn(text)]
\* What the branches of a rule that decides say.
RuleRow(rule, text) == Row(OrEmpty(rule.outcome), OrEmpty(rule.reason), text)
OpenOutcome == "INDETERMINATE"
OpenReason == "FACT_VALUE_MISSING_OR_INVALID"

\* The columns of the row, each with its branches.
LEMMA RowColumns ==
  ViewRow =
    Row(Column(OutcomeThens, OutcomeThens, OpenOutcome, OpenOutcome, structure.defaultOutcome),
        Column(ReasonThens, ReasonThens, OpenReason, OpenReason, structure.defaultReason),
        Column(CodeThens, OverrideThens, EmptyText, EligibilityFirstMatch, EmptyText))
BY DEF ViewRow, Row, OutcomeCase, ReasonCase, MatchedCase, Column, OutcomeThens, ReasonThens,
       CodeThens, OverrideThens, OpenOutcome, OpenReason

\* What the branches of a rule say.
LEMMA ThenValues ==
  ASSUME DecisionTypeOK, NEW s \in Stages, NEW i \in DOMAIN RulesOf(s)
  PROVE  /\ OutcomeThens[<<s, i>>] = OrEmpty(RuleAt(<<s, i>>).outcome)
         /\ ReasonThens[<<s, i>>] = OrEmpty(RuleAt(<<s, i>>).reason)
         /\ CodeThens[<<s, i>>] = <<RuleAt(<<s, i>>).code>>
         /\ OverrideThens[<<s, i>>] = EligibilityFirstMatch \o <<RuleAt(<<s, i>>).code>>
<1> DEFINE p == <<s, i>>
<1>1. p \in Places(structure)
  BY StageRules
<1> HIDE DEF p
<1>2. /\ OutcomeThens[p] = OrEmpty(RuleAt(p).outcome)
      /\ ReasonThens[p] = OrEmpty(RuleAt(p).reason)
      /\ CodeThens[p] = <<RuleAt(p).code>>
      /\ OverrideThens[p] = EligibilityFirstMatch \o <<RuleAt(p).code>>
  BY <1>1 DEF OutcomeThens, ReasonThens, CodeThens, OverrideThens
<1> QED BY <1>2 DEF p

\* A code is a text of its own, and stays one behind the code of eligibility.
LEMMA CodeTexts ==
  /\ CodesIn(EmptyText) = <<>> /\ CodesIn(<<>>) = <<>>
  /\ \A c \in Codes : CodesIn(<<c>>) = <<c>> /\ CodesIn(<<>> \o <<c>>) = <<c>>
  /\ \A b, c \in Codes : CodesIn(<<b>> \o <<c>>) = <<b, c>>
<1>1. "" \notin Codes
  BY RuleDecisionAssumption
<1>2. EmptyText # <<>> /\ Len(EmptyText) = 1 /\ EmptyText[1] = ""
  BY DEF EmptyText
<1>3. ASSUME NEW c \in Codes PROVE <<c>> # EmptyText /\ <<>> \o <<c>> = <<c>>
  <2>1. <<c>>[1] = c
    OBVIOUS
  <2>2. <<c>> # EmptyText
    BY <1>1, <1>2, <2>1
  <2>3. <<>> \o <<c>> = <<c>>
    OBVIOUS
  <2> QED BY <2>2, <2>3
<1>4. ASSUME NEW b \in Codes, NEW c \in Codes
      PROVE  <<b>> \o <<c>> = <<b, c>> /\ <<b, c>> # EmptyText
  <2> DEFINE x == <<b>> \o <<c>>
             y == <<b, c>>
  <2>1. x \in Seq(Codes) /\ y \in Seq(Codes) /\ Len(x) = 2 /\ Len(y) = 2
    OBVIOUS
  <2>2. x[1] = b /\ x[2] = c /\ y[1] = b /\ y[2] = c
    OBVIOUS
  <2> HIDE DEF x, y
  <2>3. \A i \in 1..2 : x[i] = y[i]
    BY <2>2
  <2>4. x = y
    BY <2>1, <2>3
  <2>5. y # EmptyText
    <3>1. Len(y) = 2 /\ Len(EmptyText) = 1
      BY <1>2, <2>1, Zenon
    <3>2. y = EmptyText => Len(y) = Len(EmptyText)
      BY Zenon
    <3> QED BY <3>1, <3>2
  <2> QED BY <2>4, <2>5 DEF x, y
<1> QED BY <1>2, <1>3, <1>4 DEF CodesIn

\* The code the text of eligibility has.
LEMMA EligibilityText ==
  ASSUME DecisionTypeOK
  PROVE  /\ RulesOf(3) = <<>> => EligibilityFirstMatch = EmptyText
         /\ RulesOf(3) # <<>> /\ NoPass(3) => EligibilityFirstMatch = <<>>
         /\ \A i : FirstPass(3, i) => EligibilityFirstMatch = <<RuleAt(<<3, i>>).code>>
<1>1. /\ RulesOf(3) = <<>> => EligibilityFirstMatch = EmptyText
      /\ RulesOf(3) # <<>> => EligibilityFirstMatch = CaseOf(StageWhens(3, CodeThens), <<>>)
  BY DEF EligibilityFirstMatch, CodeThens
<1>2. 3 \in Stages
  BY DEF Stages
<1>3. \A i : FirstPass(3, i) => CodeThens[<<3, i>>] = <<RuleAt(<<3, i>>).code>>
  BY <1>2, ThenValues DEF FirstPass
<1>4. \A i : FirstPass(3, i) => RulesOf(3) # <<>>
  BY <1>2, StageRules DEF FirstPass
<1> QED BY <1>1, <1>2, <1>3, <1>4, HitCase

\* An early stage decides.
LEMMA RowEarly ==
  ASSUME DecisionTypeOK, NEW s \in {1, 2}, \A r \in Stages : r < s => AllFail(r)
  PROVE  /\ \A i : FirstPass(s, i) =>
              ViewRow = RuleRow(RuleAt(<<s, i>>), <<RuleAt(<<s, i>>).code>>)
         /\ NoPass(s) /\ Open(s) => ViewRow = Row(OpenOutcome, OpenReason, EmptyText)
<1> DEFINE out == Column(OutcomeThens, OutcomeThens, OpenOutcome, OpenOutcome,
                         structure.defaultOutcome)
           rea == Column(ReasonThens, ReasonThens, OpenReason, OpenReason,
                         structure.defaultReason)
           mat == Column(CodeThens, OverrideThens, EmptyText, EligibilityFirstMatch, EmptyText)
<1>1. ViewRow = Row(out, rea, mat)
  BY RowColumns
<1>2. /\ \A i : FirstPass(s, i) => out = OutcomeThens[<<s, i>>]
      /\ NoPass(s) /\ Open(s) => out = OpenOutcome
  BY ColumnEarly
<1>3. /\ \A i : FirstPass(s, i) => rea = ReasonThens[<<s, i>>]
      /\ NoPass(s) /\ Open(s) => rea = OpenReason
  BY ColumnEarly
<1>4. /\ \A i : FirstPass(s, i) => mat = CodeThens[<<s, i>>]
      /\ NoPass(s) /\ Open(s) => mat = EmptyText
  BY ColumnEarly
<1> HIDE DEF out, rea, mat
<1>5. \A i : FirstPass(s, i) => s \in Stages /\ i \in DOMAIN RulesOf(s)
  BY DEF FirstPass, Stages
<1>6. ASSUME NEW i, FirstPass(s, i)
      PROVE  ViewRow = RuleRow(RuleAt(<<s, i>>), <<RuleAt(<<s, i>>).code>>)
  <2>1. out = OutcomeThens[<<s, i>>] /\ rea = ReasonThens[<<s, i>>] /\ mat = CodeThens[<<s, i>>]
    BY <1>2, <1>3, <1>4, <1>6, Zenon
  <2>2. s \in Stages /\ i \in DOMAIN RulesOf(s)
    BY <1>5, <1>6, Zenon
  <2>3. /\ OutcomeThens[<<s, i>>] = OrEmpty(RuleAt(<<s, i>>).outcome)
        /\ ReasonThens[<<s, i>>] = OrEmpty(RuleAt(<<s, i>>).reason)
        /\ CodeThens[<<s, i>>] = <<RuleAt(<<s, i>>).code>>
    BY <2>2, ThenValues, Zenon
  <2> QED BY <1>1, <2>1, <2>3, Zenon DEF RuleRow
<1>7. ASSUME NoPass(s), Open(s) PROVE ViewRow = Row(OpenOutcome, OpenReason, EmptyText)
  BY <1>1, <1>2, <1>3, <1>4, <1>7
<1> QED BY <1>6, <1>7

\* Eligibility is undecided.
LEMMA RowOpen ==
  ASSUME DecisionTypeOK, AllFail(1), AllFail(2), NoPass(3), Open(3)
  PROVE  ViewRow = Row(OpenOutcome, OpenReason, EmptyText)
<1> DEFINE out == Column(OutcomeThens, OutcomeThens, OpenOutcome, OpenOutcome,
                         structure.defaultOutcome)
           rea == Column(ReasonThens, ReasonThens, OpenReason, OpenReason,
                         structure.defaultReason)
           mat == Column(CodeThens, OverrideThens, EmptyText, EligibilityFirstMatch, EmptyText)
<1>1. ViewRow = Row(out, rea, mat)
  BY RowColumns
<1>2. out = OpenOutcome
  BY ColumnLate
<1>3. rea = OpenReason
  BY ColumnLate
<1>4. mat = EmptyText
  BY ColumnLate
<1> HIDE DEF out, rea, mat
<1> QED BY <1>1, <1>2, <1>3, <1>4

\* An overriding stage decides, or the stages are through.
LEMMA RowOverride ==
  ASSUME DecisionTypeOK, NEW s \in {4, 5},
         \A r \in Stages : r < s /\ r # 3 => AllFail(r),
         ~(NoPass(3) /\ Open(3))
  PROVE  /\ \A i : FirstPass(s, i) =>
              ViewRow = RuleRow(RuleAt(<<s, i>>), EligibilityFirstMatch \o <<RuleAt(<<s, i>>).code>>)
         /\ NoPass(s) /\ Open(s) =>
              ViewRow = Row(OpenOutcome, OpenReason, EligibilityFirstMatch)
         /\ s = 5 /\ AllFail(5) =>
              /\ NoPass(3) => ViewRow = Row(structure.defaultOutcome,
                                            structure.defaultReason, EmptyText)
              /\ \A i : FirstPass(3, i) =>
                   ViewRow = RuleRow(RuleAt(<<3, i>>), <<RuleAt(<<3, i>>).code>>)
<1> DEFINE out == Column(OutcomeThens, OutcomeThens, OpenOutcome, OpenOutcome,
                         structure.defaultOutcome)
           rea == Column(ReasonThens, ReasonThens, OpenReason, OpenReason,
                         structure.defaultReason)
           mat == Column(CodeThens, OverrideThens, EmptyText, EligibilityFirstMatch, EmptyText)
<1>1. ViewRow = Row(out, rea, mat)
  BY RowColumns
<1>2. /\ \A i : FirstPass(s, i) => out = OutcomeThens[<<s, i>>]
      /\ NoPass(s) /\ Open(s) => out = OpenOutcome
      /\ s = 5 /\ AllFail(5) => out = CaseOf(StageWhens(3, OutcomeThens), structure.defaultOutcome)
  BY ColumnOverride
<1>3. /\ \A i : FirstPass(s, i) => rea = ReasonThens[<<s, i>>]
      /\ NoPass(s) /\ Open(s) => rea = OpenReason
      /\ s = 5 /\ AllFail(5) => rea = CaseOf(StageWhens(3, ReasonThens), structure.defaultReason)
  BY ColumnOverride
<1>4. /\ \A i : FirstPass(s, i) => mat = OverrideThens[<<s, i>>]
      /\ NoPass(s) /\ Open(s) => mat = EligibilityFirstMatch
      /\ s = 5 /\ AllFail(5) => mat = CaseOf(StageWhens(3, CodeThens), EmptyText)
  BY ColumnOverride
<1> HIDE DEF out, rea, mat
<1>5. s \in Stages /\ 3 \in Stages
  BY DEF Stages
<1>6. \A i : FirstPass(s, i) => i \in DOMAIN RulesOf(s)
  BY DEF FirstPass
<1>7. ASSUME NEW i, FirstPass(s, i)
      PROVE  ViewRow = RuleRow(RuleAt(<<s, i>>), EligibilityFirstMatch \o <<RuleAt(<<s, i>>).code>>)
  <2>1. out = OutcomeThens[<<s, i>>] /\ rea = ReasonThens[<<s, i>>] /\ mat = OverrideThens[<<s, i>>]
    BY <1>2, <1>3, <1>4, <1>7, Zenon
  <2>2. s \in Stages /\ i \in DOMAIN RulesOf(s)
    BY <1>5, <1>6, <1>7, Zenon
  <2>3. /\ OutcomeThens[<<s, i>>] = OrEmpty(RuleAt(<<s, i>>).outcome)
        /\ ReasonThens[<<s, i>>] = OrEmpty(RuleAt(<<s, i>>).reason)
        /\ OverrideThens[<<s, i>>] = EligibilityFirstMatch \o <<RuleAt(<<s, i>>).code>>
    BY <2>2, ThenValues, Zenon
  <2> QED BY <1>1, <2>1, <2>3, Zenon DEF RuleRow
<1>8. ASSUME NoPass(s), Open(s) PROVE ViewRow = Row(OpenOutcome, OpenReason, EligibilityFirstMatch)
  BY <1>1, <1>2, <1>3, <1>4, <1>8
<1>9. ASSUME s = 5, AllFail(5), NoPass(3)
      PROVE  ViewRow = Row(structure.defaultOutcome, structure.defaultReason, EmptyText)
  <2>1. \A thens, rest : CaseOf(StageWhens(3, thens), rest) = rest
    BY <1>5, <1>9, HitCase
  <2> QED BY <1>1, <1>2, <1>3, <1>4, <1>9, <2>1
<1>10. ASSUME s = 5, AllFail(5), NEW i, FirstPass(3, i)
       PROVE  ViewRow = RuleRow(RuleAt(<<3, i>>), <<RuleAt(<<3, i>>).code>>)
  <2>1. /\ out = OutcomeThens[<<3, i>>] /\ rea = ReasonThens[<<3, i>>]
        /\ mat = CodeThens[<<3, i>>]
    BY <1>2, <1>3, <1>4, <1>5, <1>10, HitCase
  <2>2. i \in DOMAIN RulesOf(3)
    BY <1>10 DEF FirstPass
  <2>3. /\ out = OrEmpty(RuleAt(<<3, i>>).outcome) /\ rea = OrEmpty(RuleAt(<<3, i>>).reason)
        /\ mat = <<RuleAt(<<3, i>>).code>>
    BY <1>5, <2>1, <2>2, ThenValues
  <2> QED BY <1>1, <2>3 DEF RuleRow
<1> QED BY <1>7, <1>8, <1>9, <1>10
-----------------------------------------------------------------------------
(* How far the evaluator is.                                               *)

\* Behind eligibility: no rule of it counted, or the first that passed did.
Carried(d) ==
  \/ AllFail(3) /\ d = Default
  \/ \E i : FirstPass(3, i) /\ d = Spoken(Default, RuleAt(<<3, i>>))

\* What the loop knows of the rules it has asked, with decision d in its hands.
Asking(d) ==
  /\ ~structure.blocking
  /\ \A s \in Stages : s < stage /\ s # 3 => AllFail(s)
  /\ \A i \in DOMAIN RulesOf(stage) : i < position => verdict[<<stage, i>>] # "pass"
  /\ undecided <=> \E i \in DOMAIN RulesOf(stage) :
                     i < position /\ verdict[<<stage, i>>] = "indeterminate"
  /\ stage <= 3 => d = Default
  /\ stage > 3 => Carried(d)

\* How it came to its decision.
Passed(d) ==
  /\ position \in DOMAIN RulesOf(stage) /\ stage # 3
  /\ verdict[<<stage, position>>] = "pass"
  /\ decision = Spoken(d, RulesOf(stage)[position])
LeftOpen(d) ==
  /\ position > Len(RulesOf(stage)) /\ undecided
  /\ decision = [outcome |-> OpenOutcome, reason |-> OpenReason, matched |-> d.matched]
Through(d) ==
  position > Len(RulesOf(stage)) /\ ~undecided /\ stage = 5 /\ decision = d

\* The inductive invariant: what the loop knows while it asks, and how it came
\* to what it decided.
DecisionInv ==
  /\ DecisionTypeOK
  /\ progress = "start" =>
       /\ stage = 1 /\ position = 1 /\ undecided = FALSE
       /\ decision = Default
  /\ progress = "evaluating" => Asking(decision)
  /\ progress = "decided" =>
       \/ structure.blocking
       \/ \E d \in Decisions : Asking(d) /\ (Passed(d) \/ LeftOpen(d) \/ Through(d))

\* Where the loop has come to the end of a stage.
LEMMA StageThrough ==
  ASSUME DecisionTypeOK, NEW d, Asking(d), position > Len(RulesOf(stage))
  PROVE  /\ \A i \in DOMAIN RulesOf(stage) : verdict[<<stage, i>>] # "pass"
         /\ undecided => \E i \in DOMAIN RulesOf(stage) :
                           verdict[<<stage, i>>] = "indeterminate"
         /\ ~undecided => AllFail(stage)
<1>1. stage \in Stages /\ position \in 1..Len(RulesOf(stage)) + 1
  BY DEF DecisionTypeOK
<1>2. \A i \in DOMAIN RulesOf(stage) : i < position
  BY <1>1, StageRules
<1>3. \A i \in DOMAIN RulesOf(stage) : verdict[<<stage, i>>] \in Verdicts
  BY <1>1, StageRules
<1> QED BY <1>2, <1>3 DEF Asking, AllFail, Verdicts

\* Short tuples, element by element.
LEMMA AppendValues ==
  ASSUME NEW S, NEW b \in S, NEW c \in S
  PROVE  Append(<<>>, b) = <<b>> /\ Append(<<b>>, c) = <<b, c>>
<1> DEFINE x == Append(<<b>>, c)
           y == <<b, c>>
<1>1. Append(<<>>, b) = <<b>>
  OBVIOUS
<1>2. x \in Seq(S) /\ y \in Seq(S) /\ Len(x) = 2 /\ Len(y) = 2
  OBVIOUS
<1>3. x[1] = b /\ x[2] = c /\ y[1] = b /\ y[2] = c
  OBVIOUS
<1> HIDE DEF x, y
<1>4. \A i \in 1..2 : x[i] = y[i]
  BY <1>3
<1>5. x = y
  BY <1>2, <1>4
<1> QED BY <1>1, <1>5 DEF x, y

\* What the text of the matched rules may say when the evaluator matched codes.
TextOf(text, codes) ==
  CodesIn(text) = codes \/ (RulesOf(3) = <<>> /\ CodesIn(text) = EmptyText \o codes)

\* What eligibility left behind, and what its text says of it.
LEMMA CarriedText ==
  ASSUME DecisionTypeOK, NEW d, Carried(d)
  PROVE  /\ ~(NoPass(3) /\ Open(3))
         /\ CodesIn(EligibilityFirstMatch) = d.matched
         /\ \A c \in Codes : TextOf(EligibilityFirstMatch \o <<c>>, Append(d.matched, c))
<1>1. CASE AllFail(3) /\ d = Default
  <2>1. NoPass(3) /\ ~Open(3)
    BY <1>1 DEF AllFail, NoPass, Open
  <2>2. d.matched = <<>> /\ \A c : Append(<<>>, c) = <<c>>
    BY <1>1 DEF Default
  <2>3. CASE RulesOf(3) # <<>>
    <3>1. EligibilityFirstMatch = <<>>
      BY <2>1, <2>3, EligibilityText
    <3> QED BY <2>1, <2>2, <3>1, CodeTexts DEF TextOf
  <2>4. CASE RulesOf(3) = <<>>
    <3>1. EligibilityFirstMatch = EmptyText
      BY <2>4, EligibilityText
    <3>2. ASSUME NEW c \in Codes
          PROVE  TextOf(EligibilityFirstMatch \o <<c>>, Append(d.matched, c))
      <4>1. Len(EmptyText \o <<c>>) = 2 /\ Len(EmptyText) = 1
        BY DEF EmptyText
      <4>2. EmptyText \o <<c>> # EmptyText
        BY <4>1
      <4> QED BY <2>2, <2>4, <3>1, <4>2 DEF TextOf, CodesIn
    <3> QED BY <2>1, <2>2, <3>1, <3>2, CodeTexts
  <2> QED BY <2>3, <2>4
<1>2. ASSUME NEW i, FirstPass(3, i), d = Spoken(Default, RuleAt(<<3, i>>))
      PROVE  /\ ~(NoPass(3) /\ Open(3))
             /\ CodesIn(EligibilityFirstMatch) = d.matched
             /\ \A c \in Codes : TextOf(EligibilityFirstMatch \o <<c>>, Append(d.matched, c))
  <2> DEFINE b == RuleAt(<<3, i>>).code
  <2>1. ~NoPass(3)
    BY <1>2 DEF FirstPass, NoPass
  <2>2. 3 \in Stages /\ i \in DOMAIN RulesOf(3)
    BY <1>2 DEF FirstPass, Stages
  <2>3. b \in Codes
    BY <2>2, StageRules DEF Rules
  <2>4. EligibilityFirstMatch = <<b>>
    BY <1>2, EligibilityText
  <2>5. d.matched = Append(<<>>, b)
    BY <1>2 DEF Spoken, Default
  <2>6. Append(<<>>, b) = <<b>> /\ \A c \in Codes : Append(<<b>>, c) = <<b, c>>
    BY <2>3, AppendValues, Zenon
  <2>7. CodesIn(<<b>>) = <<b>> /\ \A c \in Codes : CodesIn(<<b>> \o <<c>>) = <<b, c>>
    BY <2>3, CodeTexts
  <2> HIDE DEF b
  <2>8. EligibilityFirstMatch = <<b>> /\ d.matched = <<b>>
    BY <2>4, <2>5, <2>6
  <2>9. ASSUME NEW c \in Codes
        PROVE  TextOf(EligibilityFirstMatch \o <<c>>, Append(d.matched, c))
    BY <2>6, <2>7, <2>8, Zenon DEF TextOf
  <2> QED BY <2>1, <2>7, <2>8, <2>9
<1> QED BY <1>1, <1>2 DEF Carried

\* What RowFollowsTheTree says of a decision.
RowSays ==
  /\ \A field \in {"outcome", "reason"} :
       ViewRow[field] = decision[field] \/ (ViewRow[field] = "" /\ LastIsSilent(field))
  /\ \/ ViewRow.matched = decision.matched
     \/ RulesOf(3) = <<>> /\ ViewRow.matched = EmptyText \o decision.matched

\* A row that says what the last rule to pass says follows the decision.
LEMMA SpokenRow ==
  ASSUME DecisionTypeOK, NEW d \in Decisions, NEW place \in Places(structure),
         verdict[place] = "pass", RuleAt(place) \in Rules,
         decision = Spoken(d, RuleAt(place)), NEW text,
         ViewRow = RuleRow(RuleAt(place), text), TextOf(text, Append(d.matched, RuleAt(place).code))
  PROVE  RowSays
<1> DEFINE rule == RuleAt(place)
           codes == Append(d.matched, rule.code)
<1>1. rule.code \in Codes /\ d.matched \in Seq(Codes)
  BY DEF Rules, Decisions
<1>2. codes # <<>> /\ codes[Len(codes)] = rule.code
  BY <1>1
<1>3. /\ decision.outcome = IF rule.outcome = Null THEN d.outcome ELSE rule.outcome
      /\ decision.reason = IF rule.reason = Null THEN d.reason ELSE rule.reason
      /\ decision.matched = codes
  BY DEF Spoken
<1>4. /\ ViewRow.outcome = OrEmpty(rule.outcome) /\ ViewRow.reason = OrEmpty(rule.reason)
      /\ ViewRow.matched = CodesIn(text)
  BY DEF RuleRow, Row
<1> HIDE DEF codes
<1>5. /\ rule.outcome = Null => LastIsSilent("outcome")
      /\ rule.reason = Null => LastIsSilent("reason")
  BY <1>2, <1>3 DEF LastIsSilent
<1>6. TextOf(text, codes)
  BY DEF codes
<1> HIDE DEF rule
<1>7. /\ ViewRow.outcome = decision.outcome \/ (ViewRow.outcome = "" /\ LastIsSilent("outcome"))
      /\ ViewRow.reason = decision.reason \/ (ViewRow.reason = "" /\ LastIsSilent("reason"))
  BY <1>3, <1>4, <1>5 DEF OrEmpty
<1> QED BY <1>3, <1>4, <1>6, <1>7 DEF RowSays, TextOf

\* The first rule of a stage that passes decides as the row says.
LEMMA PassRow ==
  ASSUME DecisionTypeOK, NEW d \in Decisions, Asking(d), Passed(d)
  PROVE  RowSays
<1> DEFINE place == <<stage, position>>
<1>1. stage \in Stages /\ position \in DOMAIN RulesOf(stage)
  <2>1. stage \in Stages /\ position \in 1..Len(RulesOf(stage)) + 1
    BY DEF DecisionTypeOK
  <2> QED BY <2>1, StageRules DEF Passed
<1>2. /\ RuleAt(place) = RulesOf(stage)[position] /\ RuleAt(place) \in Rules
      /\ place \in Places(structure) /\ RuleAt(place).code \in Codes
  BY <1>1, StageRules DEF Rules
<1>3. FirstPass(stage, position)
  BY <1>1 DEF FirstPass, Asking, Passed
<1>4. verdict[place] = "pass" /\ decision = Spoken(d, RuleAt(place))
  BY <1>2 DEF Passed
<1>5. CASE stage \in {1, 2}
  <2>1. d.matched = <<>>
    BY <1>5 DEF Asking, Default
  <2>2. \A r \in Stages : r < stage => AllFail(r)
    BY <1>5 DEF Asking, Stages
  <2>3. ViewRow = RuleRow(RuleAt(place), <<RuleAt(place).code>>)
    BY <1>3, <1>5, <2>2, RowEarly
  <2>4. CodesIn(<<RuleAt(place).code>>) = <<RuleAt(place).code>>
    BY <1>2, CodeTexts
  <2>5. Append(<<>>, RuleAt(place).code) = <<RuleAt(place).code>>
    OBVIOUS
  <2> HIDE DEF place
  <2>6. TextOf(<<RuleAt(place).code>>, Append(d.matched, RuleAt(place).code))
    BY <2>1, <2>4, <2>5 DEF TextOf
  <2> QED BY <1>2, <1>4, <2>3, <2>6, SpokenRow
<1>6. CASE stage \in {4, 5}
  <2>1. /\ \A r \in Stages : r < stage /\ r # 3 => AllFail(r)
        /\ Carried(d)
    BY <1>6 DEF Asking
  <2>2. ViewRow = RuleRow(RuleAt(place), EligibilityFirstMatch \o <<RuleAt(place).code>>)
    BY <1>3, <1>6, <2>1, CarriedText, RowOverride
  <2> HIDE DEF place
  <2>3. TextOf(EligibilityFirstMatch \o <<RuleAt(place).code>>,
               Append(d.matched, RuleAt(place).code))
    BY <1>2, <2>1, CarriedText
  <2> QED BY <1>2, <1>4, <2>2, <2>3, SpokenRow
<1> QED BY <1>1, <1>5, <1>6 DEF Stages, Passed

\* So does a stage that ends undecided.
LEMMA UndecidedRow ==
  ASSUME DecisionTypeOK, NEW d \in Decisions, Asking(d), LeftOpen(d)
  PROVE  RowSays
<1>1. stage \in Stages /\ d \in Decisions
  BY DEF DecisionTypeOK
<1>2. NoPass(stage) /\ Open(stage)
  BY <1>1, StageThrough DEF NoPass, Open, LeftOpen
<1>3. decision = [outcome |-> OpenOutcome, reason |-> OpenReason, matched |-> d.matched]
  BY DEF LeftOpen
<1>4. ViewRow = decision
  <2>1. CASE stage \in {1, 2}
    <3>1. d.matched = <<>>
      BY <2>1 DEF Asking, Default
    <3>2. \A r \in Stages : r < stage => AllFail(r)
      BY <2>1 DEF Asking, Stages
    <3>3. ViewRow = Row(OpenOutcome, OpenReason, EmptyText)
      BY <1>2, <2>1, <3>2, RowEarly
    <3> QED BY <1>3, <3>1, <3>3, CodeTexts DEF Row
  <2>2. CASE stage = 3
    <3>1. d.matched = <<>>
      BY <2>2 DEF Asking, Default
    <3>2. AllFail(1) /\ AllFail(2)
      BY <2>2 DEF Asking, Stages
    <3>3. ViewRow = Row(OpenOutcome, OpenReason, EmptyText)
      BY <1>2, <2>2, <3>2, RowOpen
    <3> QED BY <1>3, <3>1, <3>3, CodeTexts DEF Row
  <2>3. CASE stage \in {4, 5}
    <3>1. /\ \A r \in Stages : r < stage /\ r # 3 => AllFail(r)
          /\ Carried(d)
      BY <2>3 DEF Asking
    <3>2. ViewRow = Row(OpenOutcome, OpenReason, EligibilityFirstMatch)
      BY <1>2, <2>3, <3>1, CarriedText, RowOverride
    <3>3. CodesIn(EligibilityFirstMatch) = d.matched
      BY <3>1, CarriedText
    <3> QED BY <1>3, <3>2, <3>3 DEF Row
  <2> QED BY <1>1, <2>1, <2>2, <2>3 DEF Stages
<1> QED BY <1>4 DEF RowSays

\* And the end of the last stage.
LEMMA ThroughRow ==
  ASSUME DecisionTypeOK, NEW d \in Decisions, Asking(d), Through(d)
  PROVE  RowSays
<1>1. AllFail(5)
  BY StageThrough DEF Through
<1>2. (\A r \in Stages : r < 5 /\ r # 3 => AllFail(r)) /\ Carried(d) /\ decision = d
  BY DEF Asking, Through
<1>3. ~(NoPass(3) /\ Open(3))
  BY <1>2, CarriedText
<1>4. /\ NoPass(3) => ViewRow = Row(structure.defaultOutcome, structure.defaultReason, EmptyText)
      /\ \A i : FirstPass(3, i) =>
           ViewRow = RuleRow(RuleAt(<<3, i>>), <<RuleAt(<<3, i>>).code>>)
  BY <1>1, <1>2, <1>3, RowOverride
<1>5. CASE AllFail(3) /\ d = Default
  <2>1. NoPass(3)
    BY <1>5 DEF AllFail, NoPass
  <2>2. ViewRow = decision
    BY <1>2, <1>4, <1>5, <2>1, CodeTexts DEF Row, Default
  <2> QED BY <2>2 DEF RowSays
<1>6. ASSUME NEW i, FirstPass(3, i), d = Spoken(Default, RuleAt(<<3, i>>))
      PROVE  RowSays
  <2> DEFINE place == <<3, i>>
  <2>1. 3 \in Stages /\ i \in DOMAIN RulesOf(3)
    BY <1>6 DEF FirstPass, Stages
  <2>2. /\ place \in Places(structure) /\ RuleAt(place) \in Rules
        /\ RuleAt(place).code \in Codes /\ verdict[place] = "pass"
    BY <1>6, <2>1, StageRules DEF Rules, FirstPass
  <2>3. ViewRow = RuleRow(RuleAt(place), <<RuleAt(place).code>>)
    BY <1>4, <1>6
  <2>4. CodesIn(<<RuleAt(place).code>>) = <<RuleAt(place).code>>
    BY <2>2, CodeTexts
  <2>5. Append(<<>>, RuleAt(place).code) = <<RuleAt(place).code>>
    OBVIOUS
  <2>6. decision = Spoken(Default, RuleAt(place))
    BY <1>2, <1>6
  <2>7. Default \in Decisions /\ Default.matched = <<>>
    <3>1. structure.defaultOutcome \in Outcomes /\ structure.defaultReason \in Reasons
      BY RuleDecisionAssumption DEF DecisionTypeOK
    <3>2. <<>> \in Seq(Codes)
      OBVIOUS
    <3> QED BY <3>1, <3>2 DEF Default, Decisions
  <2> HIDE DEF place
  <2>8. TextOf(<<RuleAt(place).code>>, Append(Default.matched, RuleAt(place).code))
    BY <2>4, <2>5, <2>7 DEF TextOf
  <2> QED BY <2>2, <2>3, <2>6, <2>7, <2>8, SpokenRow
<1> QED BY <1>2, <1>5, <1>6 DEF Carried

\* When the evaluator has decided, the row says the same.
LEMMA DecisionInvRow ==
  ASSUME DecisionInv
  PROVE  RowFollowsTheTree
<1> SUFFICES ASSUME progress = "decided", ~structure.blocking
             PROVE  RowSays
  BY DEF RowFollowsTheTree, RowSays
<1>1. DecisionTypeOK
  BY DEF DecisionInv
<1>2. PICK d \in Decisions : Asking(d) /\ (Passed(d) \/ LeftOpen(d) \/ Through(d))
  BY DEF DecisionInv
<1> QED BY <1>1, <1>2, PassRow, UndecidedRow, ThroughRow
-----------------------------------------------------------------------------
(* The steps of the loop.                                                  *)

\* No step changes the tree or the verdicts.
LEMMA TreeUnchanged ==
  ASSUME structure' = structure, verdict' = verdict
  PROVE  /\ Default' = Default
         /\ Places(structure)' = Places(structure)
         /\ \A s : RulesOf(s)' = RulesOf(s) /\ AllFail(s)' = AllFail(s)
         /\ \A d : Carried(d)' = Carried(d)
<1>1. Places(structure)' = Places(structure)
  BY DEF Places
<1>2. \A s : RulesOf(s)' = RulesOf(s)
  BY DEF RulesOf
<1>3. \A p : RuleAt(p)' = RuleAt(p)
  BY DEF RuleAt
<1>4. Default' = Default
  BY DEF Default
<1>5. \A s : AllFail(s)' = AllFail(s)
  BY DEF AllFail, RulesOf
<1>6. \A d : Carried(d)' = Carried(d)
  BY DEF Carried, AllFail, FirstPass, RulesOf, RuleAt, Default, Spoken
<1> QED BY <1>1, <1>2, <1>4, <1>5, <1>6

\* The decision stays one.
LEMMA DecisionTypes ==
  ASSUME DecisionTypeOK
  PROVE  /\ Default \in Decisions
         /\ \A s \in Stages : \A i \in DOMAIN RulesOf(s) :
              Spoken(decision, RulesOf(s)[i]) \in Decisions
         /\ [outcome |-> OpenOutcome, reason |-> OpenReason,
             matched |-> decision.matched] \in Decisions
         /\ [outcome |-> "INDETERMINATE", reason |-> "BUSINESS_CONFIRMATION_REQUIRED",
             matched |-> <<>>] \in Decisions
<1>1. /\ structure.defaultOutcome \in Outcomes /\ structure.defaultReason \in Reasons
      /\ OpenOutcome \in Outcomes /\ OpenReason \in Reasons
      /\ "BUSINESS_CONFIRMATION_REQUIRED" \in Reasons
  BY RuleDecisionAssumption DEF DecisionTypeOK, OpenOutcome, OpenReason
<1>2. decision \in Decisions
  BY DEF DecisionTypeOK
<1>3. <<>> \in Seq(Codes)
  OBVIOUS
<1>4. Default \in Decisions
  BY <1>1, <1>3 DEF Default, Decisions
<1>5. ASSUME NEW s \in Stages, NEW i \in DOMAIN RulesOf(s)
      PROVE  Spoken(decision, RulesOf(s)[i]) \in Decisions
  <2> DEFINE rule == RulesOf(s)[i]
             matched == Append(decision.matched, rule.code)
  <2>1. rule \in Rules
    BY StageRules
  <2>2. /\ rule.code \in Codes
        /\ rule.outcome = Null \/ rule.outcome \in Outcomes
        /\ rule.reason = Null \/ rule.reason \in Reasons
    <3> HIDE DEF rule
    <3> QED BY <2>1 DEF Rules
  <2>3. decision.outcome \in Outcomes /\ decision.reason \in Reasons
        /\ decision.matched \in Seq(Codes)
    BY <1>2 DEF Decisions
  <2>4. matched \in Seq(Codes)
    <3> HIDE DEF rule
    <3> QED BY <2>2, <2>3
  <2> HIDE DEF rule, matched
  <2>5. [outcome |-> IF rule.outcome = Null THEN decision.outcome ELSE rule.outcome,
         reason |-> IF rule.reason = Null THEN decision.reason ELSE rule.reason,
         matched |-> matched] \in Decisions
    BY <2>2, <2>3, <2>4 DEF Decisions
  <2> QED BY <2>5 DEF Spoken, rule, matched
<1>6. [outcome |-> OpenOutcome, reason |-> OpenReason, matched |-> decision.matched] \in Decisions
  BY <1>1, <1>2 DEF Decisions
<1>7. [outcome |-> "INDETERMINATE", reason |-> "BUSINESS_CONFIRMATION_REQUIRED",
       matched |-> <<>>] \in Decisions
  BY <1>1, <1>3 DEF Decisions, OpenOutcome
<1> QED BY <1>4, <1>5, <1>6, <1>7

\* It has asked nothing yet.
LEMMA DecisionInvInit ==
  ASSUME DecisionInit
  PROVE  DecisionInv
<1>1. structure \in Structures /\ verdict \in [Places(structure) -> Verdicts]
  BY DEF DecisionInit
<1>2. RulesOf(1) \in Seq(Rules)
  <2>1. structure.rules \in [Stages -> Seq(Rules)]
    BY <1>1, RuleDecisionAssumption
  <2>2. 1 \in Stages
    BY DEF Stages
  <2> QED BY <2>1, <2>2 DEF RulesOf
<1>3. Len(RulesOf(1)) \in Nat
  BY <1>2
<1>4. Default \in Decisions
  <2>1. structure.defaultOutcome \in Outcomes /\ structure.defaultReason \in Reasons
    BY <1>1, RuleDecisionAssumption
  <2>2. <<>> \in Seq(Codes)
    OBVIOUS
  <2> QED BY <2>1, <2>2 DEF Default, Decisions
<1>5. DecisionTypeOK
  <2>1. stage = 1 /\ position = 1 /\ progress = "start" /\ undecided = FALSE /\ decision = Default
    BY DEF DecisionInit
  <2>2. stage \in Stages /\ position \in 1..Len(RulesOf(stage)) + 1
    BY <1>3, <2>1 DEF Stages
  <2> QED BY <1>1, <1>4, <2>1, <2>2 DEF DecisionTypeOK
<1> QED BY <1>5 DEF DecisionInit, DecisionInv

\* Each step asks one rule more, or goes to the next stage, or decides.
LEMMA DecisionInvStep ==
  ASSUME DecisionInv, [DecisionNext]_decisionVars
  PROVE  DecisionInv'
<1>1. DecisionTypeOK
  BY DEF DecisionInv
<1>2. structure' = structure /\ verdict' = verdict
  BY DEF DecisionNext, decisionVars, StartEvaluation, RulePasses, RuleDoesNotPass, StageEnds,
         Decided
<1>3. /\ Default' = Default
      /\ Places(structure)' = Places(structure)
      /\ \A s : RulesOf(s)' = RulesOf(s) /\ AllFail(s)' = AllFail(s)
      /\ \A d : Carried(d)' = Carried(d)
  BY <1>2, TreeUnchanged
<1>4. /\ \A s \in Stages : Len(RulesOf(s)) \in Nat /\ DOMAIN RulesOf(s) = 1..Len(RulesOf(s))
      /\ stage \in Stages /\ position \in 1..Len(RulesOf(stage)) + 1
      /\ undecided \in BOOLEAN /\ decision \in Decisions
  BY <1>1, StageRules DEF DecisionTypeOK
<1>5. (structure \in Structures /\ verdict \in [Places(structure) -> Verdicts])'
  BY <1>1, <1>2, <1>3 DEF DecisionTypeOK
<1>6. ASSUME stage' \in Stages, position' = 1
       PROVE  /\ position' \in 1..Len(RulesOf(stage)') + 1
              /\ (\A i \in DOMAIN RulesOf(stage) : ~(i < position))'
  <2>1. Len(RulesOf(stage')) \in Nat /\ DOMAIN RulesOf(stage') = 1..Len(RulesOf(stage'))
    BY <1>4, <1>6
  <2> QED BY <1>3, <1>6, <2>1
<1>7. CASE StartEvaluation
  <2>1. /\ progress = "start" /\ stage = 1 /\ position = 1 /\ undecided = FALSE
        /\ decision = Default
        /\ stage' = stage /\ position' = position /\ undecided' = undecided
    BY <1>7 DEF StartEvaluation, DecisionInv
  <2>2. DecisionTypeOK'
    BY <1>1, <1>3, <1>4, <1>5, <1>7, <2>1, DecisionTypes DEF DecisionTypeOK, StartEvaluation
  <2>3. CASE structure.blocking
    BY <1>2, <1>7, <2>2, <2>3 DEF StartEvaluation, DecisionInv
  <2>4. CASE ~structure.blocking
    <3>1. progress' = "evaluating" /\ decision' = decision
      BY <1>7, <2>4 DEF StartEvaluation
    <3>2. (\A i \in DOMAIN RulesOf(stage) : ~(i < position))'
      BY <1>4, <1>6, <2>1
    <3>3. Asking(decision)'
      <4>1. stage' = 1 /\ undecided' = FALSE /\ decision' = Default'
        BY <1>3, <2>1, <3>1
      <4>2. \A s \in Stages : ~(s < 1)
        BY DEF Stages
      <4>3. ~structure'.blocking
        BY <1>2, <2>4
      <4>4. (undecided <=> \E i \in DOMAIN RulesOf(stage) :
                             i < position /\ verdict[<<stage, i>>] = "indeterminate")'
        BY <3>2, <4>1
      <4>5. (stage <= 3 => decision = Default)' /\ ~(stage > 3)'
        BY <4>1
      <4>6. (\A s \in Stages : s < stage /\ s # 3 => AllFail(s))'
        BY <4>1, <4>2
      <4> QED BY <3>2, <4>3, <4>4, <4>5, <4>6 DEF Asking
    <3> QED BY <2>2, <3>1, <3>3 DEF DecisionInv
  <2> QED BY <2>3, <2>4
<1>8. CASE RulePasses
  <2>1. /\ progress = "evaluating" /\ Asking(decision) /\ position \in DOMAIN RulesOf(stage)
        /\ verdict[<<stage, position>>] = "pass"
        /\ decision' = Spoken(decision, RulesOf(stage)[position])
    BY <1>4, <1>8 DEF RulePasses, Asked, DecisionInv
  <2>2. decision' \in Decisions
    BY <1>1, <1>4, <2>1, DecisionTypes
  <2>3. StageOrder[stage] = "eligibility" <=> stage = 3
    BY <1>4, OnlyEligibility
  <2>4. CASE stage = 3
    <3>1. stage' = 4 /\ position' = 1 /\ undecided' = FALSE /\ progress' = progress
      BY <1>8, <2>3, <2>4 DEF RulePasses, NextStage
    <3>2. stage' \in Stages
      BY <3>1 DEF Stages
    <3>3. DecisionTypeOK'
      BY <1>5, <1>6, <2>1, <2>2, <3>1, <3>2 DEF DecisionTypeOK
    <3>4. FirstPass(3, position)
      BY <2>1, <2>4 DEF FirstPass, Asking
    <3>5. decision' = Spoken(Default, RuleAt(<<3, position>>))
      BY <2>1, <2>4 DEF Asking, RuleAt, RulesOf
    <3>6. Carried(decision')
      BY <3>4, <3>5 DEF Carried
    <3>7. Carried(decision)'
      BY <1>3, <3>6
    <3>8. Asking(decision)'
      <4>1. \A s \in Stages : s < 4 /\ s # 3 => AllFail(s)
        BY <2>1, <2>4 DEF Asking, Stages
      <4>2. (\A s \in Stages : s < stage /\ s # 3 => AllFail(s))'
        BY <1>3, <3>1, <4>1
      <4>3. (\A i \in DOMAIN RulesOf(stage) : ~(i < position))'
        BY <1>6, <3>1, <3>2
      <4>4. ~structure'.blocking
        BY <1>2, <2>1 DEF Asking
      <4>5. (undecided <=> \E i \in DOMAIN RulesOf(stage) :
                             i < position /\ verdict[<<stage, i>>] = "indeterminate")'
        BY <3>1, <4>3
      <4>6. ~(stage <= 3)'
        BY <3>1
      <4> QED BY <3>7, <4>2, <4>3, <4>4, <4>5, <4>6 DEF Asking
    <3> QED BY <2>1, <3>1, <3>3, <3>8 DEF DecisionInv
  <2>5. CASE stage # 3
    <3>1. stage' = stage /\ position' = position /\ undecided' = undecided /\ progress' = "decided"
      BY <1>8, <2>3, <2>5 DEF RulePasses
    <3>2. DecisionTypeOK'
      BY <1>1, <1>3, <1>4, <1>5, <2>2, <3>1 DEF DecisionTypeOK
    <3>3. ASSUME NEW d \in Decisions, d = decision
          PROVE  Asking(d)' /\ Passed(d)'
      BY <1>2, <1>3, <1>4, <2>1, <2>5, <3>1, <3>3 DEF Asking, Passed
    <3>4. \E d \in Decisions : Asking(d)' /\ Passed(d)'
      BY <1>4, <3>3
    <3> QED BY <3>1, <3>2, <3>4 DEF DecisionInv
  <2> QED BY <2>4, <2>5
<1>9. CASE RuleDoesNotPass
  <2>1. /\ progress = "evaluating" /\ Asking(decision) /\ position \in DOMAIN RulesOf(stage)
        /\ verdict[<<stage, position>>] # "pass" /\ position' = position + 1
        /\ undecided' = (undecided \/ verdict[<<stage, position>>] = "indeterminate")
        /\ stage' = stage /\ progress' = progress /\ decision' = decision
    BY <1>4, <1>9 DEF RuleDoesNotPass, Asked, DecisionInv
  <2>2. DecisionTypeOK'
    BY <1>1, <1>3, <1>4, <1>5, <2>1 DEF DecisionTypeOK
  <2>3. \A i \in DOMAIN RulesOf(stage) : i < position' <=> (i < position \/ i = position)
    BY <1>4, <2>1
  <2>4. Asking(decision)'
    BY <1>2, <1>3, <1>4, <2>1, <2>3 DEF Asking
  <2> QED BY <2>1, <2>2, <2>4 DEF DecisionInv
<1>10. CASE StageEnds
  <2>1. progress = "evaluating" /\ Asking(decision) /\ position > Len(RulesOf(stage))
    BY <1>10 DEF StageEnds, DecisionInv
  <2>2. CASE undecided
    <3>1. /\ stage' = stage /\ position' = position /\ undecided' = undecided
          /\ progress' = "decided"
          /\ decision' = [outcome |-> OpenOutcome, reason |-> OpenReason,
                          matched |-> decision.matched]
      BY <1>10, <2>2 DEF StageEnds, OpenOutcome, OpenReason
    <3>2. DecisionTypeOK'
      BY <1>1, <1>3, <1>4, <1>5, <3>1, DecisionTypes DEF DecisionTypeOK
    <3>3. ASSUME NEW d \in Decisions, d = decision
          PROVE  Asking(d)' /\ LeftOpen(d)'
      BY <1>2, <1>3, <1>4, <2>1, <2>2, <3>1, <3>3 DEF Asking, LeftOpen
    <3>4. \E d \in Decisions : Asking(d)' /\ LeftOpen(d)'
      BY <1>4, <3>3
    <3> QED BY <3>1, <3>2, <3>4 DEF DecisionInv
  <2>3. CASE ~undecided /\ stage = 5
    <3>1. /\ stage' = stage /\ position' = position /\ undecided' = undecided
          /\ progress' = "decided" /\ decision' = decision
      BY <1>10, <2>3 DEF StageEnds
    <3>2. DecisionTypeOK'
      BY <1>1, <1>3, <1>4, <1>5, <3>1 DEF DecisionTypeOK
    <3>3. ASSUME NEW d \in Decisions, d = decision
          PROVE  Asking(d)' /\ Through(d)'
      BY <1>2, <1>3, <1>4, <2>1, <2>3, <3>1, <3>3 DEF Asking, Through
    <3>4. \E d \in Decisions : Asking(d)' /\ Through(d)'
      BY <1>4, <3>3
    <3> QED BY <3>1, <3>2, <3>4 DEF DecisionInv
  <2>4. CASE ~undecided /\ stage # 5
    <3>1. /\ stage' = stage + 1 /\ position' = 1 /\ undecided' = FALSE
          /\ progress' = progress /\ decision' = decision
      BY <1>10, <2>4 DEF StageEnds, NextStage
    <3>2. stage' \in Stages
      BY <1>4, <2>4, <3>1 DEF Stages
    <3>3. DecisionTypeOK'
      BY <1>4, <1>5, <1>6, <2>1, <3>1, <3>2 DEF DecisionTypeOK
    <3>4. AllFail(stage)
      BY <1>1, <2>1, <2>4, StageThrough
    <3>5. \A s \in Stages : s < stage' /\ s # 3 => AllFail(s)
      <4>1. \A s \in Stages : s < stage' => s < stage \/ s = stage
        BY <1>4, <3>1 DEF Stages
      <4> QED BY <2>1, <3>4, <4>1 DEF Asking
    <3>6. stage' > 3 => Carried(decision)
      <4>1. stage' > 3 => stage > 3 \/ stage = 3
        BY <1>4, <3>1 DEF Stages
      <4>2. stage = 3 => decision = Default
        BY <2>1 DEF Asking
      <4> QED BY <2>1, <3>4, <4>1, <4>2 DEF Asking, Carried
    <3>7. stage' <= 3 => decision = Default
      BY <1>4, <2>1, <3>1 DEF Asking, Stages
    <3>8. (\A i \in DOMAIN RulesOf(stage) : ~(i < position))'
      BY <1>6, <3>1, <3>2
    <3>9. Asking(decision)'
      BY <1>2, <1>3, <2>1, <3>1, <3>5, <3>6, <3>7, <3>8 DEF Asking
    <3> QED BY <2>1, <3>1, <3>3, <3>9 DEF DecisionInv
  <2> QED BY <2>2, <2>3, <2>4
<1>11. CASE UNCHANGED decisionVars
  <2>1. /\ progress' = progress /\ stage' = stage /\ position' = position
        /\ undecided' = undecided /\ decision' = decision
    BY <1>11 DEF decisionVars
  <2>2. DecisionTypeOK'
    BY <1>1, <1>3, <1>5, <2>1 DEF DecisionTypeOK
  <2>3. /\ \A d : Asking(d)' = Asking(d) /\ Passed(d)' = Passed(d)
        /\ \A d : LeftOpen(d)' = LeftOpen(d) /\ Through(d)' = Through(d)
    BY <1>2, <1>3, <2>1 DEF Asking, Passed, LeftOpen, Through
  <2>4. Asking(decision)' = Asking(decision)
    BY <1>2, <1>3, <2>1 DEF Asking
  <2> QED BY <1>2, <1>3, <2>1, <2>2, <2>3, <2>4 DEF DecisionInv
<1> QED BY <1>7, <1>8, <1>9, <1>10, <1>11 DEF DecisionNext, Decided

\* The invariant holds at all times.
LEMMA DecisionInvHolds == DecisionSpec => []DecisionInv
<1>1. DecisionInit => DecisionInv
  BY DecisionInvInit
<1>2. DecisionInv /\ [DecisionNext]_decisionVars => DecisionInv'
  BY DecisionInvStep
<1> QED BY <1>1, <1>2, PTL DEF DecisionSpec

\* The evaluator's state has its types: the decision is one of its outcomes, its
\* reasons and its codes at every step (evaluate_rule_structure_v31).
THEOREM DecisionTypeCorrect == DecisionSpec => []DecisionTypeOK
<1>1. DecisionInv => DecisionTypeOK
  BY DEF DecisionInv
<1> QED BY <1>1, DecisionInvHolds, PTL

\* For every tree without blocking issues and every verdict on its rules, the row of
\* the compiled statement is the evaluator's decision, save for the empty text of a
\* silent rule and the empty part before the codes of a tree without an eligibility
\* rule: the branches of _decision_whens, asked in their order, are the stages of
\* evaluate_rule_structure_v31, with their early stops.
THEOREM RowFollows == DecisionSpec => []RowFollowsTheTree
<1>1. DecisionInv => RowFollowsTheTree
  BY DecisionInvRow
<1> QED BY <1>1, DecisionInvHolds, PTL

----------------------------------------------------------------------------
(* Part 4: the placeholders of the statement.                             *)

\* The number in the name of an expression's literal is below the count of the
\* bound names, unless a blank test has taken that name.
NumbersBelow ==
  \A n \in 0..MaxUses :
    LiteralName(ExprId[n]) \in DOMAIN literals =>
      Taken(LiteralName(ExprId[n]), TRUE) \/ n < Cardinality(DOMAIN literals)

\* The inductive invariant.
PlaceholderInv ==
  /\ PlaceholderTypeOK
  /\ IsFiniteSet(DOMAIN literals) /\ Cardinality(DOMAIN literals) <= Len(uses)
  /\ NumbersBelow
  /\ \A i \in DOMAIN uses : uses[i].blank => uses[i].value = EmptyValue
  /\ UnsharedLiteralsStand

\* No literal is bound yet.
LEMMA InitPlaceholderInv == PlaceholderInit => PlaceholderInv
<1> SUFFICES ASSUME PlaceholderInit PROVE PlaceholderInv
  OBVIOUS
<1>1. DOMAIN literals = {} /\ uses = <<>> /\ parameters = <<>> /\ writing = "writing"
  BY DEF PlaceholderInit
<1>2. PlaceholderTypeOK /\ NumbersBelow
  BY <1>1 DEF PlaceholderTypeOK, NumbersBelow
<1>3. IsFiniteSet(DOMAIN literals) /\ Cardinality(DOMAIN literals) <= Len(uses)
  BY <1>1, FS_EmptySet
<1>4. UnsharedLiteralsStand
  BY <1>1 DEF UnsharedLiteralsStand
<1> QED BY <1>1, <1>2, <1>3, <1>4 DEF PlaceholderInv

\* While another literal fits, the next expression's is numbered by the count of
\* the bound names; if its name is bound all the same, a blank test took it.
LEMMA NextName ==
  ASSUME PlaceholderInv, Len(uses) < MaxUses
  PROVE  /\ Cardinality(DOMAIN literals) \in 0..MaxUses
         /\ NextExprId = ExprId[Cardinality(DOMAIN literals)] /\ NextExprId \in DOMAIN Slug
         /\ LiteralName(NextExprId) \in DOMAIN literals => Taken(LiteralName(NextExprId), TRUE)
<1>1. Cardinality(DOMAIN literals) \in 0..MaxUses
  <2>1. Cardinality(DOMAIN literals) \in Nat
    BY FS_CardinalityType DEF PlaceholderInv
  <2>2. Cardinality(DOMAIN literals) <= Len(uses) /\ Len(uses) \in Nat
    BY DEF PlaceholderInv, PlaceholderTypeOK
  <2> QED BY <2>1, <2>2, PlaceholderAssumption
<1>2. NextExprId \in DOMAIN Slug
  BY <1>1, PlaceholderAssumption DEF NextExprId
<1>3. ASSUME LiteralName(NextExprId) \in DOMAIN literals
      PROVE  Taken(LiteralName(NextExprId), TRUE)
  <2>1. ~(Cardinality(DOMAIN literals) < Cardinality(DOMAIN literals))
    BY <1>1
  <2> QED BY <1>1, <1>3, <2>1 DEF PlaceholderInv, NumbersBelow, NextExprId
<1> QED BY <1>1, <1>2, <1>3 DEF NextExprId

\* A name is a parameter once it has been added, and those before it remain.
LEMMA Added ==
  ASSUME parameters \in Seq(Names), NEW name \in Names, AddParam(name)
  PROVE  /\ parameters' \in Seq(Names)
         /\ \E j \in DOMAIN parameters' : parameters'[j] = name
         /\ \A other : (\E j \in DOMAIN parameters : parameters[j] = other)
                       => \E j \in DOMAIN parameters' : parameters'[j] = other
<1>1. CASE \E i \in DOMAIN parameters : parameters[i] = name
  BY <1>1 DEF AddParam
<1>2. CASE ~\E i \in DOMAIN parameters : parameters[i] = name
  <2>1. parameters' = Append(parameters, name)
    BY <1>2 DEF AddParam
  <2>2. /\ parameters' \in Seq(Names) /\ Len(parameters) \in Nat
        /\ DOMAIN parameters = 1..Len(parameters)
        /\ DOMAIN parameters' = 1..Len(parameters) + 1
        /\ parameters'[Len(parameters) + 1] = name
        /\ \A j \in DOMAIN parameters : parameters'[j] = parameters[j]
    BY <2>1
  <2>3. Len(parameters) + 1 \in DOMAIN parameters'
    BY <2>2
  <2>4. DOMAIN parameters \subseteq DOMAIN parameters'
    BY <2>2
  <2> HIDE <2>1
  <2> QED BY <2>2, <2>3, <2>4
<1> QED BY <1>1, <1>2

\* Neither kind of literal takes the value of an earlier placeholder, unless
\* the two are of different kinds and share their name.
LEMMA Bound ==
  ASSUME PlaceholderInv, NEW id \in DOMAIN Slug, NEW value \in Values \cup Others,
         NEW blank \in BOOLEAN, Lit(id, value, blank),
         blank => value = EmptyValue, ~blank => id = NextExprId
  PROVE  PlaceholderInv'
<1>1. CASE value \in Others
  <2>1. writing' = "refused" /\ UNCHANGED <<uses, literals, parameters>>
    BY <1>1 DEF Lit
  <2> QED BY <2>1 DEF PlaceholderInv, PlaceholderTypeOK, NumbersBelow, UnsharedLiteralsStand,
                      Declared, Shared, Taken
<1>2. CASE value \notin Others
  <2> DEFINE was == DOMAIN literals
             name == LiteralName(id)
             use == [name |-> name, value |-> value, blank |-> blank]
             Uses == [name : LiteralNames, value : Values, blank : BOOLEAN]
             Kept(n, b) == \E i \in DOMAIN uses' : uses'[i].name = n /\ uses'[i].blank = b
             Both(n) == Kept(n, TRUE) /\ Kept(n, FALSE)
  <2>1. /\ literals' = [n \in was \cup {name} |-> IF n = name THEN value ELSE literals[n]]
        /\ AddParam(name) /\ uses' = Append(uses, use) /\ writing' = writing
        /\ Len(uses) < MaxUses
    BY <1>2 DEF Lit
  <2>2. /\ DOMAIN literals' = was \cup {name} /\ literals'[name] = value
        /\ \A n \in was \ {name} : literals'[n] = literals[n]
    BY <2>1
  <2>3. value \in Values /\ was \subseteq LiteralNames /\ name \in LiteralNames
    BY <1>2 DEF PlaceholderInv, PlaceholderTypeOK, LiteralNames
  <2>4. use \in Uses /\ uses \in Seq(Uses)
    BY <2>3 DEF PlaceholderInv, PlaceholderTypeOK
  <2>5. /\ uses' \in Seq(Uses) /\ Len(uses') = Len(uses) + 1 /\ Len(uses) \in Nat
        /\ uses'[Len(uses) + 1] = use
        /\ DOMAIN uses = 1..Len(uses) /\ DOMAIN uses' = 1..Len(uses) + 1
        /\ \A i \in DOMAIN uses : uses'[i] = uses[i]
    <3> HIDE DEF use, Uses
    <3> QED BY <2>1, <2>4
  <2>6. Len(uses) + 1 \in DOMAIN uses' /\ DOMAIN uses \subseteq DOMAIN uses'
    BY <2>5
  <2>7. /\ Kept(name, blank)
        /\ \A n : \A b \in BOOLEAN : Taken(n, b) => Kept(n, b)
    <3>1. Kept(name, blank)
      BY <2>5, <2>6
    <3>2. ASSUME NEW n, NEW b \in BOOLEAN, Taken(n, b) PROVE Kept(n, b)
      BY <2>5, <2>6, <3>2 DEF Taken
    <3> QED BY <3>1, <3>2
  <2>8. /\ parameters' \in Seq(Names)
        /\ \E j \in DOMAIN parameters' : parameters'[j] = name
        /\ \A other : (\E j \in DOMAIN parameters : parameters[j] = other)
                      => \E j \in DOMAIN parameters' : parameters'[j] = other
    <3>1. name \in Names /\ parameters \in Seq(Names)
      BY <2>3 DEF Names, PlaceholderInv, PlaceholderTypeOK
    <3>2. AddParam(name)
      BY <2>1
    <3> HIDE DEF name
    <3> QED BY <3>1, <3>2, Added
  <2>9. PlaceholderTypeOK'
    <3>1. /\ DOMAIN literals' \subseteq LiteralNames
          /\ \A n \in DOMAIN literals' : literals'[n] \in Values
      BY <2>2, <2>3 DEF PlaceholderInv, PlaceholderTypeOK
    <3> QED BY <2>1, <2>5, <2>8, <3>1 DEF PlaceholderInv, PlaceholderTypeOK
  <2>10. /\ IsFiniteSet(DOMAIN literals') /\ IsFiniteSet(was)
         /\ Cardinality(was) \in Nat /\ Cardinality(was) <= Len(uses)
         /\ Cardinality(DOMAIN literals') = IF name \in was THEN Cardinality(was)
                                            ELSE Cardinality(was) + 1
    BY <2>2, FS_CardinalityType, FS_AddElement DEF PlaceholderInv
  <2>11. NumbersBelow'
    <3>1. SUFFICES ASSUME NEW n \in 0..MaxUses, LiteralName(ExprId[n]) \in DOMAIN literals'
                   PROVE  \/ Kept(LiteralName(ExprId[n]), TRUE)
                          \/ n < Cardinality(DOMAIN literals')
      BY DEF NumbersBelow, Taken
    <3>2. CASE LiteralName(ExprId[n]) \in was
      <4>1. Taken(LiteralName(ExprId[n]), TRUE) \/ n < Cardinality(was)
        BY <3>2 DEF PlaceholderInv, NumbersBelow
      <4>2. Cardinality(was) <= Cardinality(DOMAIN literals')
            /\ Cardinality(DOMAIN literals') \in Nat
        BY <2>10
      <4>3. n < Cardinality(was) => n < Cardinality(DOMAIN literals')
        BY <2>10, <4>2
      <4> QED BY <2>7, <4>1, <4>3
    <3>3. CASE LiteralName(ExprId[n]) \notin was
      <4>1. LiteralName(ExprId[n]) = name /\ name \notin was
        BY <2>2, <3>1, <3>3
      <4>2. CASE blank
        BY <2>7, <4>1, <4>2
      <4>3. CASE ~blank
        <5>1. /\ Cardinality(was) \in 0..MaxUses
              /\ id = ExprId[Cardinality(was)]
          BY <2>1, <4>3, NextName
        <5>2. n = Cardinality(was)
          BY <4>1, <5>1, PlaceholderAssumption DEF LiteralName
        <5>3. Cardinality(DOMAIN literals') = Cardinality(was) + 1 /\ Cardinality(was) \in Nat
          BY <2>10, <4>1
        <5> QED BY <5>2, <5>3
      <4> QED BY <4>2, <4>3
    <3> QED BY <3>2, <3>3
  <2>12. \A i \in DOMAIN uses' : uses'[i].blank => uses'[i].value = EmptyValue
    <3>1. SUFFICES ASSUME NEW i \in DOMAIN uses', uses'[i].blank
                   PROVE  uses'[i].value = EmptyValue
      OBVIOUS
    <3>2. CASE i \in DOMAIN uses
      BY <2>5, <3>1, <3>2 DEF PlaceholderInv
    <3>3. CASE i \notin DOMAIN uses
      <4>1. uses'[i] = use
        BY <2>5, <3>1, <3>3
      <4> QED BY <3>1, <4>1
    <3> QED BY <3>2, <3>3
  <2>13. ASSUME NEW i \in DOMAIN uses
         PROVE  /\ uses[i].name \in DOMAIN literals'
                /\ \E j \in DOMAIN parameters' : parameters'[j] = uses[i].name
                /\ Both(uses[i].name) \/ literals'[uses[i].name] = uses[i].value
    <3>1. /\ uses[i].name \in was /\ \E j \in DOMAIN parameters : parameters[j] = uses[i].name
          /\ Shared(uses[i].name) \/ literals[uses[i].name] = uses[i].value
      BY DEF PlaceholderInv, UnsharedLiteralsStand, Declared
    <3>2. uses[i].blank \in BOOLEAN /\ Taken(uses[i].name, uses[i].blank)
      <4>1. uses[i] \in Uses
        <5> HIDE DEF Uses, use
        <5> QED BY <2>4
      <4> QED BY <4>1 DEF Taken
    <3>3. CASE uses[i].name # name
      <4>1. literals'[uses[i].name] = literals[uses[i].name]
        BY <2>2, <3>1, <3>3
      <4>2. Shared(uses[i].name) => Both(uses[i].name)
        BY <2>7 DEF Shared
      <4> QED BY <2>2, <2>8, <3>1, <4>1, <4>2
    <3>4. CASE uses[i].name = name
      <4>1. CASE blank # uses[i].blank
        <5>1. Both(name)
          BY <2>7, <3>2, <3>4, <4>1 DEF Shared
        <5> QED BY <2>2, <2>8, <3>4, <5>1
      <4>2. CASE blank /\ uses[i].blank
        <5>1. uses[i].value = value
          BY <4>2 DEF PlaceholderInv
        <5> QED BY <2>2, <2>8, <3>4, <5>1
      <4>3. CASE ~blank /\ ~uses[i].blank
        <5>1. name \in was => Taken(name, TRUE)
          BY <2>1, <4>3, NextName
        <5>2. Both(name)
          BY <2>7, <3>1, <3>4, <4>3, <5>1 DEF Shared
        <5> QED BY <2>2, <2>8, <3>4, <5>2
      <4> QED BY <3>2, <4>1, <4>2, <4>3
    <3> QED BY <3>3, <3>4
  <2>14. UnsharedLiteralsStand'
    <3>1. SUFFICES ASSUME NEW i \in DOMAIN uses'
                   PROVE  /\ uses'[i].name \in DOMAIN literals'
                          /\ \E j \in DOMAIN parameters' : parameters'[j] = uses'[i].name
                          /\ Both(uses'[i].name) \/ literals'[uses'[i].name] = uses'[i].value
      BY DEF UnsharedLiteralsStand, Declared, Shared, Taken
    <3>2. CASE i \in DOMAIN uses
      BY <2>5, <2>13, <3>2
    <3>3. CASE i \notin DOMAIN uses
      <4>1. uses'[i] = use
        BY <2>5, <3>1, <3>3
      <4> QED BY <2>2, <2>8, <4>1
    <3> QED BY <3>2, <3>3
  <2>15. Cardinality(DOMAIN literals') <= Len(uses')
    BY <2>5, <2>10
  <2> QED BY <2>9, <2>10, <2>11, <2>12, <2>14, <2>15 DEF PlaceholderInv
<1> QED BY <1>1, <1>2

\* Every step keeps the invariant.
LEMMA StepPlaceholderInv ==
  PlaceholderInv /\ [PlaceholderNext]_placeholderVars => PlaceholderInv'
<1> SUFFICES ASSUME PlaceholderInv, [PlaceholderNext]_placeholderVars PROVE PlaceholderInv'
  OBVIOUS
<1>1. ASSUME NEW given \in Given, GiveParameter(given) PROVE PlaceholderInv'
  <2>1. AddParam(<<"given", given>>) /\ UNCHANGED <<writing, uses, literals>>
    BY <1>1 DEF GiveParameter
  <2>2. <<"given", given>> \in Names /\ parameters \in Seq(Names)
    BY DEF Names, PlaceholderInv, PlaceholderTypeOK
  <2>3. /\ parameters' \in Seq(Names)
        /\ \A other : (\E j \in DOMAIN parameters : parameters[j] = other)
                      => \E j \in DOMAIN parameters' : parameters'[j] = other
    BY <2>1, <2>2, Added
  <2>4. UnsharedLiteralsStand'
    BY <2>1, <2>3 DEF PlaceholderInv, UnsharedLiteralsStand, Declared, Shared, Taken
  <2>5. PlaceholderTypeOK' /\ NumbersBelow'
    BY <2>1, <2>3 DEF PlaceholderInv, PlaceholderTypeOK, NumbersBelow, Taken
  <2> QED BY <2>1, <2>4, <2>5 DEF PlaceholderInv
<1>2. ASSUME NEW value \in Values \cup Others, ExpressionLiteral(value) PROVE PlaceholderInv'
  <2>1. Lit(NextExprId, value, FALSE) /\ Len(uses) < MaxUses
    BY <1>2 DEF ExpressionLiteral, Lit
  <2>2. NextExprId \in DOMAIN Slug
    BY <2>1, NextName
  <2> QED BY <2>1, <2>2, Bound
<1>3. ASSUME NEW id \in Conditions, BlankTest(id) PROVE PlaceholderInv'
  <2>1. id \in DOMAIN Slug /\ EmptyValue \in Values \cup Others /\ Lit(id, EmptyValue, TRUE)
    BY <1>3, PlaceholderAssumption DEF BlankTest
  <2> QED BY <2>1, Bound
<1>4. CASE StatementWritten
  BY <1>4 DEF StatementWritten, PlaceholderInv, PlaceholderTypeOK, NumbersBelow,
              UnsharedLiteralsStand, Declared, Shared, Taken
<1>5. CASE PlaceholdersDone \/ UNCHANGED placeholderVars
  BY <1>5 DEF PlaceholdersDone, placeholderVars, PlaceholderInv, PlaceholderTypeOK, NumbersBelow,
              UnsharedLiteralsStand, Declared, Shared, Taken
<1> QED BY <1>1, <1>2, <1>3, <1>4, <1>5 DEF PlaceholderNext

\* The invariant holds at all times.
LEMMA InductivePlaceholderInv == PlaceholderSpec => []PlaceholderInv
BY InitPlaceholderInv, StepPlaceholderInv, PTL DEF PlaceholderSpec

\* The types of the literals and the parameters hold at all times.
THEOREM PlaceholderTypeCorrect == PlaceholderSpec => []PlaceholderTypeOK
<1>1. PlaceholderInv => PlaceholderTypeOK
  BY DEF PlaceholderInv
<1> QED BY <1>1, InductivePlaceholderInv, PTL

\* Every placeholder written into the statement is a parameter of it, and only
\* one whose name a blank test shares with an expression loses its value,
\* whatever the ids of the conditions and however many literals there are.
THEOREM OnlySharedNamesLoseLiterals == PlaceholderSpec => []UnsharedLiteralsStand
<1>1. PlaceholderInv => UnsharedLiteralsStand
  BY DEF PlaceholderInv
<1> QED BY <1>1, InductivePlaceholderInv, PTL

----------------------------------------------------------------------------
(* Part 5: the hit columns of the compiled statement.                     *)

(* Recursive functions on trees.  Their definitions say of every node what *)
(* their steps say, because the nodes come one after the other.            *)

\* A set of numbers that has 0, and every number up to N with its predecessor, has N.
LEMMA UpTo ==
  ASSUME NEW N \in Nat, NEW S, 0 \in S, \A k \in 0..N - 1 : k \in S => k + 1 \in S
  PROVE  N \in S
<1> DEFINE out == {k \in 0..N : k \notin S}
<1> SUFFICES ASSUME out # {} PROVE FALSE
  OBVIOUS
<1>1. PICK i \in out : \A j \in out : i <= j
  <2> HIDE DEF out
  <2>1. out \in SUBSET Nat
    BY DEF out
  <2> QED BY <2>1, LeastNumber
<1>2. i - 1 \in 0..N - 1 /\ i - 1 \notin out
  BY <1>1
<1> QED BY <1>1, <1>2

\* The evaluator's values are what ValueOf says of every node: the nodes are
\* defined one after the other.
LEMMA ValuesUnfold ==
  ASSUME NEW e, ExpressionFormed(e), NEW facts, NEW runtime, NEW n \in DOMAIN e
  PROVE  ValueAt(e, facts, runtime)[n] =
           ValueOf(e[n], [i \in DOMAIN e[n].children |-> ValueAt(e, facts, runtime)[e[n].children[i]]],
                   facts, runtime)
<1> DEFINE Step(f, m) ==
             ValueOf(e[m], [i \in DOMAIN e[m].children |-> f[e[m].children[i]]], facts, runtime)
           N == Len(e)
           Built(f, k) == \A m \in 1..k : f[m] = Step(f, m)
           built == {k \in 0..N : \E f : Built(f, k)}
<1>1. N \in Nat /\ DOMAIN e = 1..N
      /\ \A m \in 1..N : \A i \in DOMAIN e[m].children : e[m].children[i] \in 1..m - 1
  <2>1. N \in Nat /\ DOMAIN e = 1..N
    BY DEF ExpressionFormed
  <2> QED BY <2>1 DEF ExpressionFormed
<1>2. ASSUME NEW f, NEW g, NEW m \in 1..N, \A j \in 1..m - 1 : f[j] = g[j]
      PROVE  Step(f, m) = Step(g, m)
  <2>1. [i \in DOMAIN e[m].children |-> f[e[m].children[i]]]
        = [i \in DOMAIN e[m].children |-> g[e[m].children[i]]]
    BY <1>1, <1>2
  <2> QED BY <2>1
<1> HIDE DEF Step, N
<1>3. 0 \in built
  BY <1>1
<1>4. ASSUME NEW k \in 0..N - 1, k \in built PROVE k + 1 \in built
  <2>1. PICK f : Built(f, k)
    BY <1>4
  <2> DEFINE g == [m \in 1..k + 1 |-> IF m <= k THEN f[m] ELSE Step(f, k + 1)]
  <2>2. ASSUME NEW m \in 1..k + 1 PROVE g[m] = Step(g, m)
    <3>1. m \in 1..N /\ \A j \in 1..m - 1 : f[j] = g[j]
      BY <1>1
    <3>2. Step(f, m) = Step(g, m)
      BY <3>1, <1>2
    <3>3. CASE m <= k
      BY <3>2, <3>3, <2>1
    <3>4. CASE m = k + 1
      BY <3>2, <3>4
    <3> QED BY <3>3, <3>4
  <2> HIDE DEF g
  <2> QED BY <1>1, <2>2
<1>5. N \in built
  <2> HIDE DEF built
  <2> QED BY <1>1, <1>3, <1>4, UpTo
<1>6. \E f : f = [m \in DOMAIN e |-> Step(f, m)]
  <2>1. PICK f : Built(f, N)
    BY <1>5
  <2> DEFINE g == [m \in DOMAIN e |-> f[m]]
  <2>2. ASSUME NEW m \in DOMAIN e PROVE g[m] = Step(g, m)
    <3>1. m \in 1..N /\ \A j \in 1..m - 1 : f[j] = g[j]
      BY <1>1
    <3>2. Step(f, m) = Step(g, m)
      BY <3>1, <1>2
    <3> QED BY <3>1, <3>2, <2>1
  <2>3. g = [m \in DOMAIN e |-> g[m]]
    OBVIOUS
  <2> HIDE DEF g
  <2>4. g = [m \in DOMAIN e |-> Step(g, m)]
    BY <2>2, <2>3
  <2> WITNESS g
  <2> QED BY <2>4
<1>7. ValueAt(e, facts, runtime) = CHOOSE f : f = [m \in DOMAIN e |-> Step(f, m)]
  BY DEF ValueAt, Step
<1>8. ValueAt(e, facts, runtime) = [m \in DOMAIN e |-> Step(ValueAt(e, facts, runtime), m)]
  BY <1>6, <1>7
<1>9. ValueAt(e, facts, runtime)[n] = Step(ValueAt(e, facts, runtime), n)
  BY <1>8
<1> QED BY <1>9 DEF Step

\* So are those of the statement.
LEMMA SqlValuesUnfold ==
  ASSUME NEW e, ExpressionFormed(e), NEW row, NEW runtime, NEW n \in DOMAIN e
  PROVE  SqlValueAt(e, row, runtime)[n] =
           SqlValueOf(e[n], [i \in DOMAIN e[n].children |-> SqlValueAt(e, row, runtime)[e[n].children[i]]],
                   row, runtime)
<1> DEFINE Step(f, m) ==
             SqlValueOf(e[m], [i \in DOMAIN e[m].children |-> f[e[m].children[i]]], row, runtime)
           N == Len(e)
           Built(f, k) == \A m \in 1..k : f[m] = Step(f, m)
           built == {k \in 0..N : \E f : Built(f, k)}
<1>1. N \in Nat /\ DOMAIN e = 1..N
      /\ \A m \in 1..N : \A i \in DOMAIN e[m].children : e[m].children[i] \in 1..m - 1
  <2>1. N \in Nat /\ DOMAIN e = 1..N
    BY DEF ExpressionFormed
  <2> QED BY <2>1 DEF ExpressionFormed
<1>2. ASSUME NEW f, NEW g, NEW m \in 1..N, \A j \in 1..m - 1 : f[j] = g[j]
      PROVE  Step(f, m) = Step(g, m)
  <2>1. [i \in DOMAIN e[m].children |-> f[e[m].children[i]]]
        = [i \in DOMAIN e[m].children |-> g[e[m].children[i]]]
    BY <1>1, <1>2
  <2> QED BY <2>1
<1> HIDE DEF Step, N
<1>3. 0 \in built
  BY <1>1
<1>4. ASSUME NEW k \in 0..N - 1, k \in built PROVE k + 1 \in built
  <2>1. PICK f : Built(f, k)
    BY <1>4
  <2> DEFINE g == [m \in 1..k + 1 |-> IF m <= k THEN f[m] ELSE Step(f, k + 1)]
  <2>2. ASSUME NEW m \in 1..k + 1 PROVE g[m] = Step(g, m)
    <3>1. m \in 1..N /\ \A j \in 1..m - 1 : f[j] = g[j]
      BY <1>1
    <3>2. Step(f, m) = Step(g, m)
      BY <3>1, <1>2
    <3>3. CASE m <= k
      BY <3>2, <3>3, <2>1
    <3>4. CASE m = k + 1
      BY <3>2, <3>4
    <3> QED BY <3>3, <3>4
  <2> HIDE DEF g
  <2> QED BY <1>1, <2>2
<1>5. N \in built
  <2> HIDE DEF built
  <2> QED BY <1>1, <1>3, <1>4, UpTo
<1>6. \E f : f = [m \in DOMAIN e |-> Step(f, m)]
  <2>1. PICK f : Built(f, N)
    BY <1>5
  <2> DEFINE g == [m \in DOMAIN e |-> f[m]]
  <2>2. ASSUME NEW m \in DOMAIN e PROVE g[m] = Step(g, m)
    <3>1. m \in 1..N /\ \A j \in 1..m - 1 : f[j] = g[j]
      BY <1>1
    <3>2. Step(f, m) = Step(g, m)
      BY <3>1, <1>2
    <3> QED BY <3>1, <3>2, <2>1
  <2>3. g = [m \in DOMAIN e |-> g[m]]
    OBVIOUS
  <2> HIDE DEF g
  <2>4. g = [m \in DOMAIN e |-> Step(g, m)]
    BY <2>2, <2>3
  <2> WITNESS g
  <2> QED BY <2>4
<1>7. SqlValueAt(e, row, runtime) = CHOOSE f : f = [m \in DOMAIN e |-> Step(f, m)]
  BY DEF SqlValueAt, Step
<1>8. SqlValueAt(e, row, runtime) = [m \in DOMAIN e |-> Step(SqlValueAt(e, row, runtime), m)]
  BY <1>6, <1>7
<1>9. SqlValueAt(e, row, runtime)[n] = Step(SqlValueAt(e, row, runtime), n)
  BY <1>8
<1> QED BY <1>9 DEF Step

\* The verdict on a node, by those on the nodes below it and on the members.
VerdictStep(c, context, at, n, scope) ==
  VerdictOf(c[n], [i \in DOMAIN c[n].children |-> at[<<c[n].children[i], scope>>]],
            IF c[n].kind = "allMembers"
            THEN {IF key \in DOMAIN context.members THEN at[<<c[n].predicate, key>>]
                   ELSE c[n].missing :
                     key \in ValueIn(FactsFor(context, scope), c[n].collection)} ELSE {},
            FactsFor(context, scope), context.runtime)

\* The verdicts are what VerdictOf says of every node in every scope.
LEMMA VerdictsUnfold ==
  ASSUME NEW c, ConditionFormed(c), NEW context, NEW n \in DOMAIN c,
         NEW scope \in {Null} \cup DOMAIN context.members
  PROVE  VerdictAt(c, context)[<<n, scope>>] = VerdictStep(c, context, VerdictAt(c, context), n, scope)
<1> DEFINE S == {Null} \cup DOMAIN context.members
           Step(f, m, s) ==
             VerdictStep(c, context, f, m, s)
           N == Len(c)
           Built(f, k) == \A m \in 1..k, s \in S : f[<<m, s>>] = Step(f, m, s)
           built == {k \in 0..N : \E f : Built(f, k)}
<1>1. /\ scope \in S /\ N \in Nat /\ DOMAIN c = 1..N
      /\ \A m \in 1..N : \A i \in DOMAIN c[m].children : c[m].children[i] \in 1..m - 1
      /\ \A m \in 1..N : c[m].kind = "allMembers" => c[m].predicate \in 1..m - 1
  <2>1. N \in Nat /\ DOMAIN c = 1..N
    BY DEF ConditionFormed
  <2> QED BY <2>1 DEF ConditionFormed
<1>2. ASSUME NEW f, NEW g, NEW m \in 1..N, NEW s \in S,
             \A j \in 1..m - 1, t \in S : f[<<j, t>>] = g[<<j, t>>]
      PROVE  Step(f, m, s) = Step(g, m, s)
  <2>1. [i \in DOMAIN c[m].children |-> f[<<c[m].children[i], s>>]]
        = [i \in DOMAIN c[m].children |-> g[<<c[m].children[i], s>>]]
    BY <1>1, <1>2
  <2> DEFINE OfMembers(h) ==
               {IF key \in DOMAIN context.members THEN h[<<c[m].predicate, key>>]
                ELSE c[m].missing : key \in ValueIn(FactsFor(context, s), c[m].collection)}
  <2>2. c[m].kind = "allMembers" => OfMembers(f) = OfMembers(g)
    BY <1>1, <1>2
  <2> QED BY <2>1, <2>2 DEF VerdictStep
<1> HIDE DEF Step, N, S
<1>3. 0 \in built
  BY <1>1
<1>4. ASSUME NEW k \in 0..N - 1, k \in built PROVE k + 1 \in built
  <2>1. PICK f : Built(f, k)
    BY <1>4
  <2> DEFINE g == [p \in (1..k + 1) \X S |-> IF p[1] <= k THEN f[p] ELSE Step(f, p[1], p[2])]
  <2>2. \A m \in 1..k + 1, s \in S :
          g[<<m, s>>] = IF m <= k THEN f[<<m, s>>] ELSE Step(f, m, s)
    OBVIOUS
  <2> HIDE DEF g
  <2>3. k \in Nat /\ k + 1 \in 0..N
    BY <1>1
  <2>4. ASSUME NEW m \in 1..k, NEW s \in S PROVE g[<<m, s>>] = f[<<m, s>>]
    <3>1. m \in 1..k + 1 /\ m <= k
      BY <2>3
    <3> QED BY <3>1, <2>2
  <2>5. ASSUME NEW m \in 1..k + 1, NEW s \in S PROVE g[<<m, s>>] = Step(g, m, s)
    <3>1. m \in 1..N /\ 1..m - 1 \subseteq 1..k
      BY <1>1, <2>3
    <3>2. \A j \in 1..m - 1, t \in S : f[<<j, t>>] = g[<<j, t>>]
      BY <3>1, <2>4
    <3>3. Step(f, m, s) = Step(g, m, s)
      BY <3>1, <3>2, <1>2
    <3>4. CASE m <= k
      BY <3>3, <3>4, <2>1, <2>2, <2>3
    <3>5. CASE m = k + 1
      BY <3>3, <3>5, <2>2, <2>3
    <3> QED BY <3>4, <3>5, <2>3
  <2>6. Built(g, k + 1)
    BY <2>5
  <2> QED BY <2>3, <2>6
<1>5. N \in built
  <2> HIDE DEF built
  <2> QED BY <1>1, <1>3, <1>4, UpTo
<1>6. \E f : f = [p \in (DOMAIN c) \X S |-> Step(f, p[1], p[2])]
  <2>1. PICK f : Built(f, N)
    BY <1>5
  <2> DEFINE g == [p \in (DOMAIN c) \X S |-> f[p]]
  <2>2. /\ \A m \in DOMAIN c, s \in S : g[<<m, s>>] = f[<<m, s>>]
        /\ g = [p \in (DOMAIN c) \X S |-> g[p]]
    OBVIOUS
  <2> HIDE DEF g
  <2>3. ASSUME NEW m \in DOMAIN c, NEW s \in S PROVE g[<<m, s>>] = Step(g, m, s)
    <3>1. m \in 1..N /\ 1..m - 1 \subseteq DOMAIN c
      BY <1>1
    <3>2. \A j \in 1..m - 1, t \in S : f[<<j, t>>] = g[<<j, t>>]
      BY <3>1, <2>2
    <3>3. Step(f, m, s) = Step(g, m, s)
      BY <3>1, <3>2, <1>2
    <3> QED BY <3>1, <3>3, <2>1, <2>2
  <2>4. \A p \in (DOMAIN c) \X S : g[p] = Step(g, p[1], p[2])
    <3> TAKE p \in (DOMAIN c) \X S
    <3>1. p = <<p[1], p[2]>> /\ p[1] \in DOMAIN c /\ p[2] \in S
      OBVIOUS
    <3>2. g[<<p[1], p[2]>>] = Step(g, p[1], p[2])
      BY <3>1, <2>3
    <3> QED BY <3>1, <3>2
  <2>5. g = [p \in (DOMAIN c) \X S |-> Step(g, p[1], p[2])]
    BY <2>2, <2>4
  <2> WITNESS g
  <2> QED BY <2>5
<1>7. VerdictAt(c, context) = CHOOSE f : f = [p \in (DOMAIN c) \X S |-> Step(f, p[1], p[2])]
  BY DEF VerdictAt, Step, S, VerdictStep
<1>8. VerdictAt(c, context) = [p \in (DOMAIN c) \X S |-> Step(VerdictAt(c, context), p[1], p[2])]
  BY <1>6, <1>7
<1>9. VerdictAt(c, context)[<<n, scope>>] = Step(VerdictAt(c, context), n, scope)
  BY <1>1, <1>8
<1> QED BY <1>9 DEF Step

\* Its predicate likewise.
PredicateStep(c, env, at, n, scope) ==
  SqlConditionOf(c[n], [i \in DOMAIN c[n].children |-> at[<<c[n].children[i], scope>>]],
                 env.members,
                 IF c[n].kind = "allMembers"
                 THEN {at[<<c[n].predicate, key>>] : key \in env.members} ELSE {},
                 RowFor(env, scope), env.runtime)

\* The predicates are what SqlConditionOf says of every node in every scope.
LEMMA PredicatesUnfold ==
  ASSUME NEW c, ConditionFormed(c), NEW env, NEW n \in DOMAIN c,
         NEW scope \in {Null} \cup env.members
  PROVE  SqlConditionAt(c, env)[<<n, scope>>] = PredicateStep(c, env, SqlConditionAt(c, env), n, scope)
<1> DEFINE S == {Null} \cup env.members
           Step(f, m, s) ==
             PredicateStep(c, env, f, m, s)
           N == Len(c)
           Built(f, k) == \A m \in 1..k, s \in S : f[<<m, s>>] = Step(f, m, s)
           built == {k \in 0..N : \E f : Built(f, k)}
<1>1. /\ scope \in S /\ N \in Nat /\ DOMAIN c = 1..N
      /\ \A m \in 1..N : \A i \in DOMAIN c[m].children : c[m].children[i] \in 1..m - 1
      /\ \A m \in 1..N : c[m].kind = "allMembers" => c[m].predicate \in 1..m - 1
  <2>1. N \in Nat /\ DOMAIN c = 1..N
    BY DEF ConditionFormed
  <2> QED BY <2>1 DEF ConditionFormed
<1>2. ASSUME NEW f, NEW g, NEW m \in 1..N, NEW s \in S,
             \A j \in 1..m - 1, t \in S : f[<<j, t>>] = g[<<j, t>>]
      PROVE  Step(f, m, s) = Step(g, m, s)
  <2>1. [i \in DOMAIN c[m].children |-> f[<<c[m].children[i], s>>]]
        = [i \in DOMAIN c[m].children |-> g[<<c[m].children[i], s>>]]
    BY <1>1, <1>2
  <2>2. c[m].kind = "allMembers" =>
          {f[<<c[m].predicate, key>>] : key \in env.members}
          = {g[<<c[m].predicate, key>>] : key \in env.members}
    BY <1>1, <1>2
  <2> QED BY <2>1, <2>2 DEF PredicateStep
<1> HIDE DEF Step, N, S
<1>3. 0 \in built
  BY <1>1
<1>4. ASSUME NEW k \in 0..N - 1, k \in built PROVE k + 1 \in built
  <2>1. PICK f : Built(f, k)
    BY <1>4
  <2> DEFINE g == [p \in (1..k + 1) \X S |-> IF p[1] <= k THEN f[p] ELSE Step(f, p[1], p[2])]
  <2>2. \A m \in 1..k + 1, s \in S :
          g[<<m, s>>] = IF m <= k THEN f[<<m, s>>] ELSE Step(f, m, s)
    OBVIOUS
  <2> HIDE DEF g
  <2>3. k \in Nat /\ k + 1 \in 0..N
    BY <1>1
  <2>4. ASSUME NEW m \in 1..k, NEW s \in S PROVE g[<<m, s>>] = f[<<m, s>>]
    <3>1. m \in 1..k + 1 /\ m <= k
      BY <2>3
    <3> QED BY <3>1, <2>2
  <2>5. ASSUME NEW m \in 1..k + 1, NEW s \in S PROVE g[<<m, s>>] = Step(g, m, s)
    <3>1. m \in 1..N /\ 1..m - 1 \subseteq 1..k
      BY <1>1, <2>3
    <3>2. \A j \in 1..m - 1, t \in S : f[<<j, t>>] = g[<<j, t>>]
      BY <3>1, <2>4
    <3>3. Step(f, m, s) = Step(g, m, s)
      BY <3>1, <3>2, <1>2
    <3>4. CASE m <= k
      BY <3>3, <3>4, <2>1, <2>2, <2>3
    <3>5. CASE m = k + 1
      BY <3>3, <3>5, <2>2, <2>3
    <3> QED BY <3>4, <3>5, <2>3
  <2>6. Built(g, k + 1)
    BY <2>5
  <2> QED BY <2>3, <2>6
<1>5. N \in built
  <2> HIDE DEF built
  <2> QED BY <1>1, <1>3, <1>4, UpTo
<1>6. \E f : f = [p \in (DOMAIN c) \X S |-> Step(f, p[1], p[2])]
  <2>1. PICK f : Built(f, N)
    BY <1>5
  <2> DEFINE g == [p \in (DOMAIN c) \X S |-> f[p]]
  <2>2. /\ \A m \in DOMAIN c, s \in S : g[<<m, s>>] = f[<<m, s>>]
        /\ g = [p \in (DOMAIN c) \X S |-> g[p]]
    OBVIOUS
  <2> HIDE DEF g
  <2>3. ASSUME NEW m \in DOMAIN c, NEW s \in S PROVE g[<<m, s>>] = Step(g, m, s)
    <3>1. m \in 1..N /\ 1..m - 1 \subseteq DOMAIN c
      BY <1>1
    <3>2. \A j \in 1..m - 1, t \in S : f[<<j, t>>] = g[<<j, t>>]
      BY <3>1, <2>2
    <3>3. Step(f, m, s) = Step(g, m, s)
      BY <3>1, <3>2, <1>2
    <3> QED BY <3>1, <3>3, <2>1, <2>2
  <2>4. \A p \in (DOMAIN c) \X S : g[p] = Step(g, p[1], p[2])
    <3> TAKE p \in (DOMAIN c) \X S
    <3>1. p = <<p[1], p[2]>> /\ p[1] \in DOMAIN c /\ p[2] \in S
      OBVIOUS
    <3>2. g[<<p[1], p[2]>>] = Step(g, p[1], p[2])
      BY <3>1, <2>3
    <3> QED BY <3>1, <3>2
  <2>5. g = [p \in (DOMAIN c) \X S |-> Step(g, p[1], p[2])]
    BY <2>2, <2>4
  <2> WITNESS g
  <2> QED BY <2>5
<1>7. SqlConditionAt(c, env) = CHOOSE f : f = [p \in (DOMAIN c) \X S |-> Step(f, p[1], p[2])]
  BY DEF SqlConditionAt, Step, S, PredicateStep
<1>8. SqlConditionAt(c, env) = [p \in (DOMAIN c) \X S |-> Step(SqlConditionAt(c, env), p[1], p[2])]
  BY <1>6, <1>7
<1>9. SqlConditionAt(c, env)[<<n, scope>>] = Step(SqlConditionAt(c, env), n, scope)
  BY <1>1, <1>8
<1> QED BY <1>9 DEF Step

\* What is reached from a node, by what is reached from those below it.
ReachedStep(c, from, n, ofMember) ==
  IF ~c[n].enabled THEN {}
  ELSE {<<n, ofMember>>} \cup (UNION {from[<<c[n].children[i], ofMember>>] : i \in DOMAIN c[n].children})
       \cup (IF c[n].kind = "allMembers" THEN from[<<c[n].predicate, TRUE>>] ELSE {})

\* What is reached from a node is what the definition says of every node.
LEMMA ReachedUnfolds ==
  ASSUME NEW c, ConditionFormed(c), NEW n \in DOMAIN c,
         NEW scope \in BOOLEAN
  PROVE  ReachedFrom(c)[<<n, scope>>] = ReachedStep(c, ReachedFrom(c), n, scope)
<1> DEFINE S == BOOLEAN
           Step(f, m, s) ==
             ReachedStep(c, f, m, s)
           N == Len(c)
           Built(f, k) == \A m \in 1..k, s \in S : f[<<m, s>>] = Step(f, m, s)
           built == {k \in 0..N : \E f : Built(f, k)}
<1>1. /\ scope \in S /\ N \in Nat /\ DOMAIN c = 1..N
      /\ \A m \in 1..N : \A i \in DOMAIN c[m].children : c[m].children[i] \in 1..m - 1
      /\ \A m \in 1..N : c[m].kind = "allMembers" => c[m].predicate \in 1..m - 1
  <2>1. N \in Nat /\ DOMAIN c = 1..N
    BY DEF ConditionFormed
  <2> QED BY <2>1 DEF ConditionFormed
<1>2. ASSUME NEW f, NEW g, NEW m \in 1..N, NEW s \in S,
             \A j \in 1..m - 1, t \in S : f[<<j, t>>] = g[<<j, t>>]
      PROVE  Step(f, m, s) = Step(g, m, s)
  <2>1. {f[<<c[m].children[i], s>>] : i \in DOMAIN c[m].children}
        = {g[<<c[m].children[i], s>>] : i \in DOMAIN c[m].children}
    BY <1>1, <1>2
  <2>2. c[m].kind = "allMembers" => f[<<c[m].predicate, TRUE>>] = g[<<c[m].predicate, TRUE>>]
    BY <1>1, <1>2
  <2> QED BY <2>1, <2>2 DEF ReachedStep
<1> HIDE DEF Step, N, S
<1>3. 0 \in built
  BY <1>1
<1>4. ASSUME NEW k \in 0..N - 1, k \in built PROVE k + 1 \in built
  <2>1. PICK f : Built(f, k)
    BY <1>4
  <2> DEFINE g == [p \in (1..k + 1) \X S |-> IF p[1] <= k THEN f[p] ELSE Step(f, p[1], p[2])]
  <2>2. \A m \in 1..k + 1, s \in S :
          g[<<m, s>>] = IF m <= k THEN f[<<m, s>>] ELSE Step(f, m, s)
    OBVIOUS
  <2> HIDE DEF g
  <2>3. k \in Nat /\ k + 1 \in 0..N
    BY <1>1
  <2>4. ASSUME NEW m \in 1..k, NEW s \in S PROVE g[<<m, s>>] = f[<<m, s>>]
    <3>1. m \in 1..k + 1 /\ m <= k
      BY <2>3
    <3> QED BY <3>1, <2>2
  <2>5. ASSUME NEW m \in 1..k + 1, NEW s \in S PROVE g[<<m, s>>] = Step(g, m, s)
    <3>1. m \in 1..N /\ 1..m - 1 \subseteq 1..k
      BY <1>1, <2>3
    <3>2. \A j \in 1..m - 1, t \in S : f[<<j, t>>] = g[<<j, t>>]
      BY <3>1, <2>4
    <3>3. Step(f, m, s) = Step(g, m, s)
      BY <3>1, <3>2, <1>2
    <3>4. CASE m <= k
      BY <3>3, <3>4, <2>1, <2>2, <2>3
    <3>5. CASE m = k + 1
      BY <3>3, <3>5, <2>2, <2>3
    <3> QED BY <3>4, <3>5, <2>3
  <2>6. Built(g, k + 1)
    BY <2>5
  <2> QED BY <2>3, <2>6
<1>5. N \in built
  <2> HIDE DEF built
  <2> QED BY <1>1, <1>3, <1>4, UpTo
<1>6. \E f : f = [p \in (DOMAIN c) \X S |-> Step(f, p[1], p[2])]
  <2>1. PICK f : Built(f, N)
    BY <1>5
  <2> DEFINE g == [p \in (DOMAIN c) \X S |-> f[p]]
  <2>2. /\ \A m \in DOMAIN c, s \in S : g[<<m, s>>] = f[<<m, s>>]
        /\ g = [p \in (DOMAIN c) \X S |-> g[p]]
    OBVIOUS
  <2> HIDE DEF g
  <2>3. ASSUME NEW m \in DOMAIN c, NEW s \in S PROVE g[<<m, s>>] = Step(g, m, s)
    <3>1. m \in 1..N /\ 1..m - 1 \subseteq DOMAIN c
      BY <1>1
    <3>2. \A j \in 1..m - 1, t \in S : f[<<j, t>>] = g[<<j, t>>]
      BY <3>1, <2>2
    <3>3. Step(f, m, s) = Step(g, m, s)
      BY <3>1, <3>2, <1>2
    <3> QED BY <3>1, <3>3, <2>1, <2>2
  <2>4. \A p \in (DOMAIN c) \X S : g[p] = Step(g, p[1], p[2])
    <3> TAKE p \in (DOMAIN c) \X S
    <3>1. p = <<p[1], p[2]>> /\ p[1] \in DOMAIN c /\ p[2] \in S
      OBVIOUS
    <3>2. g[<<p[1], p[2]>>] = Step(g, p[1], p[2])
      BY <3>1, <2>3
    <3> QED BY <3>1, <3>2
  <2>5. g = [p \in (DOMAIN c) \X S |-> Step(g, p[1], p[2])]
    BY <2>2, <2>4
  <2> WITNESS g
  <2> QED BY <2>5
<1>7. ReachedFrom(c) = CHOOSE f : f = [p \in (DOMAIN c) \X S |-> Step(f, p[1], p[2])]
  BY DEF ReachedFrom, Step, S, ReachedStep
<1>8. ReachedFrom(c) = [p \in (DOMAIN c) \X S |-> Step(ReachedFrom(c), p[1], p[2])]
  BY <1>6, <1>7
<1>9. ReachedFrom(c)[<<n, scope>>] = Step(ReachedFrom(c), n, scope)
  BY <1>1, <1>8
<1> QED BY <1>9 DEF Step

----------------------------------------------------------------------------
(* Expressions and conditions on both sides. *)

\* An expression that is not the empty one has a last node.
LEMMA LastNode ==
  ASSUME NEW e, Len(e) \in Nat, e = [n \in 1..Len(e) |-> e[n]], e # <<>>
  PROVE  Len(e) \in DOMAIN e
<1>1. Len(e) # 0
  <2> SUFFICES ASSUME Len(e) = 0 PROVE FALSE
    OBVIOUS
  <2>1. DOMAIN e = {}
    OBVIOUS
  <2>2. e = [n \in {} |-> e[n]]
    OBVIOUS
  <2> QED BY <2>2
<1>2. DOMAIN e = 1..Len(e)
  OBVIOUS
<1> QED BY <1>1, <1>2

\* A column has what the evaluator has, and NULL where it has nothing.
Same(v, w) == w = v \/ (v = Missing /\ w = Null)

\* Both sides know the same values.
LEMMA SameKnown ==
  ASSUME NEW v, NEW w, Same(v, w)
  PROVE  /\ Known(v) <=> Known(w)
         /\ Known(v) => w = v
BY DEF Same, Known

\* One node has the same value on both sides when those below it have.
LEMMA SameNode ==
  ASSUME NEW node, NEW facts, NEW row, NEW runtime, NEW D \in SUBSET Nat, NEW args, NEW columns,
         args = [i \in D |-> args[i]], columns = [i \in D |-> columns[i]],
         \A i \in D : Same(args[i], columns[i]),
         node.kind = "fact" => Same(ValueIn(facts, node.name), row[node.name])
  PROVE  Same(ValueOf(node, args, facts, runtime), SqlValueOf(node, columns, row, runtime))
<1>1. DOMAIN args = D /\ DOMAIN columns = D
  OBVIOUS
<1>2. \A i \in D : (Known(args[i]) <=> Known(columns[i])) /\ (Known(args[i]) => columns[i] = args[i])
  BY SameKnown
<1>3. CASE node.kind = "literal"
  BY <1>3 DEF ValueOf, SqlValueOf, Same
<1>4. CASE node.kind = "parameter"
  BY <1>4 DEF ValueOf, SqlValueOf, Same, ValueIn
<1>5. CASE node.kind = "fact"
  BY <1>5 DEF ValueOf, SqlValueOf
<1>6. CASE node.kind = "coalesce"
  <2>1. /\ ValueOf(node, args, facts, runtime) = FirstKnown(args, Missing)
        /\ SqlValueOf(node, columns, row, runtime) = FirstKnown(columns, Null)
    BY <1>6 DEF ValueOf, SqlValueOf
  <2> DEFINE known == {i \in D : Known(args[i])}
  <2>2. known = {i \in D : Known(columns[i])}
    BY <1>2
  <2> DEFINE first == CHOOSE i \in known : \A j \in known : i <= j
  <2>3. /\ FirstKnown(args, Missing) = IF known = {} THEN Missing ELSE args[first]
        /\ FirstKnown(columns, Null) = IF known = {} THEN Null ELSE columns[first]
    <3>1. FirstKnown(args, Missing) = IF known = {} THEN Missing ELSE args[first]
      BY <1>1 DEF FirstKnown
    <3>2. known = {i \in DOMAIN columns : Known(columns[i])}
      BY <1>1, <2>2
    <3> DEFINE seen == {i \in DOMAIN columns : Known(columns[i])}
    <3>3. FirstKnown(columns, Null) =
            IF seen = {} THEN Null ELSE columns[CHOOSE i \in seen : \A j \in seen : i <= j]
      BY DEF FirstKnown
    <3> HIDE DEF known, seen
    <3>4. FirstKnown(columns, Null) = IF known = {} THEN Null ELSE columns[first]
      BY <3>2, <3>3 DEF seen
    <3> QED BY <3>1, <3>4
  <2> HIDE DEF first
  <2>4. CASE known = {}
    BY <2>1, <2>3, <2>4 DEF Same
  <2>5. CASE first \in known
    BY <1>2, <2>1, <2>3, <2>5 DEF Same
  <2>6. known # {} => first \in known
    BY LeastNumber, Zenon DEF first
  <2> QED BY <2>4, <2>5, <2>6
<1>7. CASE node.kind \notin {"literal", "parameter", "fact", "coalesce"}
  <2>1. /\ ValueOf(node, args, facts, runtime) =
             IF \A i \in D : Known(args[i]) THEN Arithmetic(node.kind, args) ELSE Missing
        /\ SqlValueOf(node, columns, row, runtime) =
             IF \A i \in D : Known(columns[i]) THEN Arithmetic(node.kind, columns) ELSE Null
    BY <1>1, <1>7 DEF ValueOf, SqlValueOf
  <2>2. CASE \A i \in D : Known(args[i])
    <3>1. args = columns
      BY <1>2, <2>2
    <3> QED BY <2>1, <2>2, <3>1 DEF Same
  <2>3. CASE ~\A i \in D : Known(args[i])
    BY <1>2, <2>1, <2>3 DEF Same
  <2> QED BY <2>2, <2>3
<1> QED BY <1>3, <1>4, <1>5, <1>6, <1>7

\* An expression has the same value on both sides when the facts it reads have.
LEMMA SameValues ==
  ASSUME NEW e, ExpressionFormed(e), NEW facts, NEW row, NEW runtime,
         \A f \in FactsOf(e) : Same(ValueIn(facts, f), row[f])
  PROVE  \A n \in DOMAIN e : Same(ValueAt(e, facts, runtime)[n], SqlValueAt(e, row, runtime)[n])
<1> DEFINE at == ValueAt(e, facts, runtime)
           column == SqlValueAt(e, row, runtime)
           apart == {n \in DOMAIN e : ~Same(at[n], column[n])}
<1>1. /\ DOMAIN e = 1..Len(e)
      /\ \A n \in DOMAIN e : e[n].children \in Seq(1..n - 1)
  BY DEF ExpressionFormed
<1> SUFFICES ASSUME apart # {} PROVE FALSE
  OBVIOUS
<1>2. PICK n \in apart : \A m \in apart : n <= m
  <2>1. apart \in SUBSET Nat
    BY <1>1
  <2> HIDE DEF apart
  <2> QED BY <2>1, LeastNumber
<1> DEFINE D == DOMAIN e[n].children
           args == [i \in D |-> at[e[n].children[i]]]
           columns == [i \in D |-> column[e[n].children[i]]]
<1>3. D \in SUBSET Nat /\ \A i \in D : e[n].children[i] \in DOMAIN e /\ e[n].children[i] < n
  BY <1>1
<1>4. \A i \in D : Same(args[i], columns[i])
  <2>1. \A m \in DOMAIN e : m < n => Same(at[m], column[m])
    BY <1>1, <1>2
  <2> HIDE DEF at, column
  <2> QED BY <1>3, <2>1
<1>5. e[n].kind = "fact" => Same(ValueIn(facts, e[n].name), row[e[n].name])
  BY DEF FactsOf
<1>6. args = [i \in D |-> args[i]] /\ columns = [i \in D |-> columns[i]]
  OBVIOUS
<1>7. /\ at[n] = ValueOf(e[n], args, facts, runtime)
      /\ column[n] = SqlValueOf(e[n], columns, row, runtime)
  BY ValuesUnfold, SqlValuesUnfold
<1> HIDE DEF args, columns, at, column, D
<1>8. Same(at[n], column[n])
  <2>1. Same(ValueOf(e[n], args, facts, runtime), SqlValueOf(e[n], columns, row, runtime))
    BY <1>3, <1>4, <1>5, <1>6, SameNode, Zenon
  <2> QED BY <1>7, <2>1
<1> QED BY <1>8

\* The truth of a predicate for a verdict.
Truth(v) ==
  CASE v = "pass" -> "true" [] v = "fail" -> "false" [] OTHER -> "unknown"

\* A comparison is decided alike on both sides, where no null policy but the
\* default and no test of a fact without a row interferes.
LEMMA SameComparison ==
  ASSUME NEW node, ExpressionFormed(node.left), ExpressionFormed(node.right),
         node.left # NoExpression,
         (node.operator \in Unary) <=> (node.right = NoExpression),
         NEW facts, NEW row, NEW runtime,
         \A f \in FactsOf(node.left) \cup FactsOf(node.right) : Same(ValueIn(facts, f), row[f]),
         node.nullPolicy = "indeterminate",
         node.operator \in Unary => Value(node.left, facts, runtime) # Missing
  PROVE  /\ Compare(node, facts, runtime) \in Verdicts
         /\ SqlCompare(node, row, runtime) = Truth(Compare(node, facts, runtime))
<1> DEFINE left == Value(node.left, facts, runtime)
           right == Value(node.right, facts, runtime)
           sqlLeft == SqlValue(node.left, row, runtime)
           sqlRight == SqlValue(node.right, row, runtime)
<1>1. Same(left, sqlLeft)
  <2>1. Len(node.left) \in DOMAIN node.left
    BY LastNode DEF ExpressionFormed, NoExpression
  <2> QED BY <2>1, SameValues DEF Value, SqlValue
<1>2. node.operator \notin Unary => Same(right, sqlRight)
  <2> SUFFICES ASSUME node.operator \notin Unary PROVE Same(right, sqlRight)
    OBVIOUS
  <2>1. Len(node.right) \in DOMAIN node.right
    BY LastNode DEF ExpressionFormed, NoExpression
  <2> QED BY <2>1, SameValues DEF Value, SqlValue
<1>3. /\ Compare(node, facts, runtime) =
           CASE node.operator = "isNull" -> PassIf(left = Null)
             [] node.operator = "isNotNull" -> PassIf(left # Null)
             [] node.operator = "isBlank" -> PassIf(left \in {Null, Blank})
             [] node.operator = "isNotBlank" -> PassIf(left \notin {Null, Blank})
             [] OTHER -> IF Known(left) /\ Known(right)
                         THEN PassIf(Related(node.operator, left, right))
                         ELSE node.nullPolicy
      /\ SqlCompare(node, row, runtime) =
           CASE node.operator = "isNull" -> SqlIf(sqlLeft = Null)
             [] node.operator = "isNotNull" -> SqlIf(sqlLeft # Null)
             [] node.operator = "isBlank" -> SqlIf(sqlLeft \in {Null, Blank})
             [] node.operator = "isNotBlank" -> SqlIf(sqlLeft \notin {Null, Blank})
             [] OTHER -> IF Known(sqlLeft) /\ Known(sqlRight)
                         THEN SqlIf(Related(node.operator, sqlLeft, sqlRight)) ELSE "unknown"
  BY Zenon DEF Compare, SqlCompare
<1>4. node.operator \in Unary => left # Missing
  OBVIOUS
<1> HIDE DEF left, right, sqlLeft, sqlRight
<1>5. CASE node.operator \in Unary
  <2>1. left = sqlLeft
    BY <1>1, <1>4, <1>5 DEF Same
  <2>2. CASE node.operator = "isNull"
    BY <1>3, <2>1, <2>2 DEF PassIf, SqlIf, Truth, Verdicts
  <2>3. CASE node.operator = "isNotNull"
    BY <1>3, <2>1, <2>3 DEF PassIf, SqlIf, Truth, Verdicts
  <2>4. CASE node.operator = "isBlank"
    BY <1>3, <2>1, <2>4 DEF PassIf, SqlIf, Truth, Verdicts
  <2>5. CASE node.operator = "isNotBlank"
    BY <1>3, <2>1, <2>5 DEF PassIf, SqlIf, Truth, Verdicts
  <2> QED BY <1>5, <2>2, <2>3, <2>4, <2>5 DEF Unary
<1>6. CASE node.operator \notin Unary
  <2>1. /\ Compare(node, facts, runtime) =
             IF Known(left) /\ Known(right) THEN PassIf(Related(node.operator, left, right))
             ELSE "indeterminate"
        /\ SqlCompare(node, row, runtime) =
             IF Known(sqlLeft) /\ Known(sqlRight)
             THEN SqlIf(Related(node.operator, sqlLeft, sqlRight)) ELSE "unknown"
    BY <1>3, <1>6 DEF Unary
  <2>2. CASE Known(left) /\ Known(right)
    <3>1. left = sqlLeft /\ right = sqlRight
      BY <1>1, <1>2, <1>6, <2>2, SameKnown
    <3>2. /\ PassIf(Related(node.operator, left, right)) \in Verdicts
          /\ SqlIf(Related(node.operator, left, right))
             = Truth(PassIf(Related(node.operator, left, right)))
      BY DEF PassIf, SqlIf, Truth, Verdicts
    <3> QED BY <2>1, <2>2, <3>1, <3>2
  <2>3. CASE ~(Known(left) /\ Known(right))
    <3>1. ~(Known(sqlLeft) /\ Known(sqlRight))
      BY <1>1, <1>2, <1>6, <2>3, SameKnown
    <3> QED BY <2>1, <2>3, <3>1 DEF Truth, Verdicts
  <2> QED BY <2>2, <2>3
<1> QED BY <1>5, <1>6

\* A conjunction and a disjunction of parts decided alike are decided alike.
LEMMA SameJunctions ==
  ASSUME NEW D, NEW verdicts, NEW parts, verdicts = [i \in D |-> verdicts[i]],
         parts = [i \in D |-> parts[i]],
         \A i \in D : verdicts[i] \in Verdicts /\ parts[i] = Truth(verdicts[i])
  PROVE  /\ Conjunction(Range(verdicts)) \in Verdicts
         /\ SqlAnd(Range(parts)) = Truth(Conjunction(Range(verdicts)))
         /\ Disjunction(Range(verdicts)) \in Verdicts
         /\ SqlOr(Range(parts)) = Truth(Disjunction(Range(verdicts)))
<1>1. DOMAIN verdicts = D /\ DOMAIN parts = D
  OBVIOUS
<1>2. \A i \in D : /\ parts[i] = "true" <=> verdicts[i] = "pass"
                   /\ parts[i] = "false" <=> verdicts[i] = "fail"
                   /\ parts[i] = "unknown" <=> verdicts[i] = "indeterminate"
  BY DEF Truth, Verdicts
<1>3. /\ "true" \in Range(parts) <=> "pass" \in Range(verdicts)
      /\ "false" \in Range(parts) <=> "fail" \in Range(verdicts)
      /\ "unknown" \in Range(parts) <=> "indeterminate" \in Range(verdicts)
  BY <1>1, <1>2 DEF Range
<1> QED BY <1>3 DEF Conjunction, Disjunction, SqlAnd, SqlOr, Truth, Verdicts

\* Where a node asked in a scope is decided alike: what CompareFits and
\* AllMembersFits say, of any context and any environment.
AlikeAt(c, context, env, n, scope) ==
  /\ c[n].kind = "compare" =>
       /\ c[n].nullPolicy = "indeterminate"
       /\ c[n].operator \in Unary =>
            Value(c[n].left, FactsFor(context, scope), context.runtime) # Missing
       /\ \A f \in FactsOf(c[n].left) \cup FactsOf(c[n].right) :
            Same(ValueIn(FactsFor(context, scope), f), RowFor(env, scope)[f])
  /\ c[n].kind = "allMembers" =>
       /\ scope = Null
       /\ ValueIn(context.facts, c[n].collection) = env.members /\ Known(env.members)
       /\ env.members = {} => c[n].empty # "indeterminate"
       /\ env.members \subseteq DOMAIN context.members
       /\ \A key \in env.members :
            VerdictAt(c, context)[<<c[n].predicate, key>>] # "indeterminate"

\* Everything reached from a node asked in a scope.
AlikeBelow(c, context, env, n, scope) ==
  \A p \in ReachedFrom(c)[<<n, scope # Null>>] :
    \A s \in IF p[2] THEN DOMAIN context.members ELSE {Null} : AlikeAt(c, context, env, p[1], s)

\* The verdict on a node and its predicate agree.
Agree(c, context, env, n, scope) ==
  /\ VerdictAt(c, context)[<<n, scope>>] \in Verdicts
  /\ SqlConditionAt(c, env)[<<n, scope>>] = Truth(VerdictAt(c, context)[<<n, scope>>])

\* A node that is enabled is reached with everything below it.
LEMMA BelowToo ==
  ASSUME NEW c, ConditionFormed(c), NEW context, NEW env, Null \notin DOMAIN context.members,
         NEW n \in DOMAIN c, NEW scope \in {Null} \cup DOMAIN context.members,
         AlikeBelow(c, context, env, n, scope), c[n].enabled
  PROVE  /\ AlikeAt(c, context, env, n, scope)
         /\ \A i \in DOMAIN c[n].children : AlikeBelow(c, context, env, c[n].children[i], scope)
         /\ c[n].kind = "allMembers" =>
              \A key \in DOMAIN context.members : AlikeBelow(c, context, env, c[n].predicate, key)
<1>0. PICK asked \in BOOLEAN : asked = (scope # Null)
  OBVIOUS
<1>1. asked \in BOOLEAN /\ (asked => scope \in DOMAIN context.members) /\ (~asked => scope = Null)
  BY <1>0
<1>2. ReachedFrom(c)[<<n, asked>>] =
        {<<n, asked>>} \cup (UNION {ReachedFrom(c)[<<c[n].children[i], asked>>] : i \in DOMAIN c[n].children})
          \cup (IF c[n].kind = "allMembers" THEN ReachedFrom(c)[<<c[n].predicate, TRUE>>] ELSE {})
  <2>1. c[n].enabled = TRUE
    BY DEF ConditionFormed
  <2>2. ReachedFrom(c)[<<n, asked>>] = ReachedStep(c, ReachedFrom(c), n, asked)
    BY ReachedUnfolds, Zenon
  <2> QED BY <2>1, <2>2 DEF ReachedStep
<1>3. \A p \in ReachedFrom(c)[<<n, asked>>] :
        \A s \in IF p[2] THEN DOMAIN context.members ELSE {Null} : AlikeAt(c, context, env, p[1], s)
  BY <1>0 DEF AlikeBelow
<1>4. AlikeAt(c, context, env, n, scope)
  <2>1. <<n, asked>> \in ReachedFrom(c)[<<n, asked>>]
    BY <1>2
  <2>2. \A s \in IF asked THEN DOMAIN context.members ELSE {Null} : AlikeAt(c, context, env, n, s)
    BY <1>3, <2>1
  <2> QED BY <1>1, <2>2
<1>5. ASSUME NEW i \in DOMAIN c[n].children
      PROVE  AlikeBelow(c, context, env, c[n].children[i], scope)
  <2>1. ReachedFrom(c)[<<c[n].children[i], asked>>] \subseteq ReachedFrom(c)[<<n, asked>>]
    BY <1>2
  <2> QED BY <1>0, <1>3, <2>1 DEF AlikeBelow
<1>6. ASSUME c[n].kind = "allMembers", NEW key \in DOMAIN context.members
      PROVE  AlikeBelow(c, context, env, c[n].predicate, key)
  <2>1. ReachedFrom(c)[<<c[n].predicate, TRUE>>] \subseteq ReachedFrom(c)[<<n, asked>>]
    BY <1>2, <1>6
  <2>2. (key # Null) = TRUE
    OBVIOUS
  <2> DEFINE below == ReachedFrom(c)[<<c[n].predicate, key # Null>>]
  <2>3. below \subseteq ReachedFrom(c)[<<n, asked>>]
    <3>1. below = ReachedFrom(c)[<<c[n].predicate, TRUE>>]
      BY <2>2, Zenon
    <3> HIDE DEF below
    <3> QED BY <2>1, <3>1
  <2>4. \A p \in below : \A s \in IF p[2] THEN DOMAIN context.members ELSE {Null} :
          AlikeAt(c, context, env, p[1], s)
    <3> HIDE DEF below
    <3> QED BY <1>3, <2>3
  <2> QED BY <2>4 DEF AlikeBelow
<1> QED BY <1>4, <1>5, <1>6

\* A condition on a collection is decided alike, where the members are.
LEMMA SameAllMembers ==
  ASSUME NEW node, node.empty \in Verdicts, NEW members, Known(members),
         members = {} => node.empty # "indeterminate",
         NEW judged, NEW predicate,
         \A key \in members : /\ judged[key] \in Verdicts \ {"indeterminate"}
                              /\ predicate[key] = Truth(judged[key])
  PROVE  LET decided == AllMembers(node, members, {judged[key] : key \in members})
         IN /\ decided \in Verdicts
            /\ SqlAllMembers(node, members, {predicate[key] : key \in members}) = Truth(decided)
<1> DEFINE verdicts == {judged[key] : key \in members}
           predicates == {predicate[key] : key \in members}
           decided == AllMembers(node, members, verdicts)
<1>1. CASE members = {}
  <2>1. decided = node.empty
    BY <1>1 DEF AllMembers
  <2>2. predicates = {}
    BY <1>1
  <2>3. SqlAllMembers(node, members, predicates) = SqlIf(node.empty = "pass")
    BY <1>1, <2>2 DEF SqlAllMembers
  <2> QED BY <1>1, <2>1, <2>3 DEF SqlIf, Truth, Verdicts
<1>2. CASE members # {}
  <2>1. decided = Conjunction(verdicts)
    BY <1>2 DEF AllMembers
  <2>2. "indeterminate" \notin verdicts
    OBVIOUS
  <2>3. (\E p \in predicates : SqlNot(p) = "true") <=> "fail" \in verdicts
    BY DEF SqlNot, Truth, Verdicts
  <2>4. SqlAllMembers(node, members, predicates) = SqlIf("fail" \notin verdicts)
    BY <1>2, <2>3 DEF SqlAllMembers
  <2>5. decided \in Verdicts /\ SqlAllMembers(node, members, predicates) = Truth(decided)
    <3> HIDE DEF verdicts, predicates, decided
    <3>1. CASE "fail" \in verdicts
      BY <2>1, <2>4, <3>1 DEF Conjunction, SqlIf, Truth, Verdicts
    <3>2. CASE "fail" \notin verdicts
      BY <2>1, <2>2, <2>4, <3>2 DEF Conjunction, SqlIf, Truth, Verdicts
    <3> QED BY <3>1, <3>2
  <2> QED BY <2>5
<1> QED BY <1>1, <1>2

\* The predicate of every node is true, false or unknown as its verdict says,
\* where everything reached from it is decided alike.
LEMMA SamePredicates ==
  ASSUME NEW c, ConditionFormed(c), ConditionShaped(c), NEW context, NEW env,
         env.runtime = context.runtime, DOMAIN context.members \subseteq env.members,
         Null \notin env.members
  PROVE  \A n \in DOMAIN c, scope \in {Null} \cup DOMAIN context.members :
           AlikeBelow(c, context, env, n, scope) => Agree(c, context, env, n, scope)
<1> DEFINE S == {Null} \cup DOMAIN context.members
           apart == {n \in DOMAIN c : \E scope \in S :
                       AlikeBelow(c, context, env, n, scope) /\ ~Agree(c, context, env, n, scope)}
           judged == VerdictAt(c, context)
           predicate == SqlConditionAt(c, env)
<1>1. /\ DOMAIN c = 1..Len(c)
      /\ \A n \in DOMAIN c :
           /\ c[n].enabled \in BOOLEAN /\ c[n].kind \in ConditionKinds
           /\ c[n].children \in Seq(1..n - 1)
           /\ c[n].kind = "allMembers" => c[n].predicate \in 1..n - 1 /\ c[n].empty \in Verdicts
  BY DEF ConditionFormed
<1> SUFFICES ASSUME apart # {} PROVE FALSE
  OBVIOUS
<1>2. PICK n \in apart : \A m \in apart : n <= m
  <2>1. apart \in SUBSET Nat
    BY <1>1
  <2> HIDE DEF apart
  <2> QED BY <2>1, LeastNumber
<1>3. PICK scope \in S :
        AlikeBelow(c, context, env, n, scope) /\ ~Agree(c, context, env, n, scope)
  OBVIOUS
<1>4. ASSUME NEW m \in 1..n - 1, NEW s \in S, AlikeBelow(c, context, env, m, s)
      PROVE  m \in DOMAIN c /\ Agree(c, context, env, m, s)
  <2>1. m \in DOMAIN c /\ m < n /\ m \in Int /\ n \in Int
    BY <1>1
  <2>2. m \notin apart
    <3> HIDE DEF apart
    <3> QED BY <1>2, <2>1
  <2> QED BY <1>4, <2>1, <2>2
<1> DEFINE D == DOMAIN c[n].children
           verdicts == [i \in D |-> judged[<<c[n].children[i], scope>>]]
           parts == [i \in D |-> predicate[<<c[n].children[i], scope>>]]
           facts == FactsFor(context, scope)
           row == RowFor(env, scope)
           ofMembers == IF c[n].kind = "allMembers"
                        THEN {IF key \in DOMAIN context.members THEN judged[<<c[n].predicate, key>>]
                              ELSE c[n].missing : key \in ValueIn(facts, c[n].collection)}
                        ELSE {}
           theirs == IF c[n].kind = "allMembers"
                     THEN {predicate[<<c[n].predicate, key>>] : key \in env.members} ELSE {}
<1>5. judged[<<n, scope>>] = VerdictOf(c[n], verdicts, ofMembers, facts, context.runtime)
  <2>1. scope \in {Null} \cup DOMAIN context.members /\ n \in DOMAIN c
    OBVIOUS
  <2>2. VerdictAt(c, context)[<<n, scope>>] = VerdictStep(c, context, VerdictAt(c, context), n, scope)
    BY <2>1, VerdictsUnfold
  <2> QED BY <2>2 DEF VerdictStep
<1>6. predicate[<<n, scope>>] =
        SqlConditionOf(c[n], parts, env.members, theirs, row, context.runtime)
  <2>1. scope \in {Null} \cup env.members /\ n \in DOMAIN c
    OBVIOUS
  <2>2. SqlConditionAt(c, env)[<<n, scope>>] = PredicateStep(c, env, SqlConditionAt(c, env), n, scope)
    BY <2>1, PredicatesUnfold
  <2> QED BY <2>2 DEF PredicateStep
<1>7. SUFFICES /\ VerdictOf(c[n], verdicts, ofMembers, facts, context.runtime) \in Verdicts
               /\ SqlConditionOf(c[n], parts, env.members, theirs, row, context.runtime)
                  = Truth(VerdictOf(c[n], verdicts, ofMembers, facts, context.runtime))
  BY <1>3, <1>5, <1>6 DEF Agree
<1>8. CASE ~c[n].enabled
  BY <1>8 DEF VerdictOf, SqlConditionOf, Verdicts, Truth
<1>9. CASE c[n].enabled
  <2>1. /\ AlikeAt(c, context, env, n, scope)
        /\ \A i \in D : AlikeBelow(c, context, env, c[n].children[i], scope)
        /\ c[n].kind = "allMembers" =>
             \A key \in DOMAIN context.members : AlikeBelow(c, context, env, c[n].predicate, key)
    BY <1>3, <1>9, BelowToo
  <2>2. \A i \in D : verdicts[i] \in Verdicts /\ parts[i] = Truth(verdicts[i])
    <3> SUFFICES ASSUME NEW i \in D PROVE Agree(c, context, env, c[n].children[i], scope)
      BY DEF Agree
    <3>1. c[n].children[i] \in 1..n - 1
      BY <1>1
    <3> QED BY <1>4, <2>1, <3>1
  <2>3. CASE c[n].kind = "compare"
    <3>1. /\ VerdictOf(c[n], verdicts, ofMembers, facts, context.runtime)
             = Compare(c[n], facts, context.runtime)
          /\ SqlConditionOf(c[n], parts, env.members, theirs, row, context.runtime)
             = SqlCompare(c[n], row, context.runtime)
      <4> HIDE DEF verdicts, parts, ofMembers, theirs, facts, row
      <4> QED BY <1>9, <2>3 DEF VerdictOf, SqlConditionOf
    <3>2. /\ ExpressionFormed(c[n].left) /\ ExpressionFormed(c[n].right)
          /\ c[n].left # NoExpression
          /\ (c[n].operator \in Unary) <=> (c[n].right = NoExpression)
      BY <2>3 DEF ConditionFormed, ConditionShaped
    <3>3. /\ c[n].nullPolicy = "indeterminate"
          /\ c[n].operator \in Unary => Value(c[n].left, facts, context.runtime) # Missing
          /\ \A f \in FactsOf(c[n].left) \cup FactsOf(c[n].right) : Same(ValueIn(facts, f), row[f])
      BY <2>1, <2>3 DEF AlikeAt
    <3> HIDE DEF facts, row
    <3>4. /\ Compare(c[n], facts, context.runtime) \in Verdicts
          /\ SqlCompare(c[n], row, context.runtime) = Truth(Compare(c[n], facts, context.runtime))
      BY <3>2, <3>3, SameComparison
    <3> QED BY <3>1, <3>4
  <2>4. CASE c[n].kind = "allMembers"
    <3>1. /\ scope = Null
          /\ ValueIn(context.facts, c[n].collection) = env.members /\ Known(env.members)
          /\ env.members = {} => c[n].empty # "indeterminate"
          /\ env.members \subseteq DOMAIN context.members
          /\ \A key \in env.members : judged[<<c[n].predicate, key>>] # "indeterminate"
      BY <2>1, <2>4 DEF AlikeAt
    <3>2. ValueIn(facts, c[n].collection) = env.members
      BY <3>1 DEF FactsFor
    <3> DEFINE decidedOf == [key \in env.members |-> judged[<<c[n].predicate, key>>]]
               writtenOf == [key \in env.members |-> predicate[<<c[n].predicate, key>>]]
    <3>3. ofMembers = {decidedOf[key] : key \in env.members}
      <4>1. ofMembers = {IF key \in DOMAIN context.members THEN judged[<<c[n].predicate, key>>]
                         ELSE c[n].missing : key \in env.members}
        BY <2>4, <3>2
      <4> QED BY <3>1, <4>1
    <3>4. theirs = {writtenOf[key] : key \in env.members}
      BY <2>4
    <3>5. \A key \in env.members : /\ decidedOf[key] \in Verdicts \ {"indeterminate"}
                                   /\ writtenOf[key] = Truth(decidedOf[key])
      <4> SUFFICES ASSUME NEW key \in env.members PROVE Agree(c, context, env, c[n].predicate, key)
        BY <3>1 DEF Agree
      <4>1. c[n].predicate \in 1..n - 1 /\ key \in DOMAIN context.members
        BY <1>1, <2>4, <3>1
      <4> QED BY <1>4, <2>1, <2>4, <4>1
    <3>6. /\ VerdictOf(c[n], verdicts, ofMembers, facts, context.runtime)
             = AllMembers(c[n], env.members, ofMembers)
          /\ SqlConditionOf(c[n], parts, env.members, theirs, row, context.runtime)
             = SqlAllMembers(c[n], env.members, theirs)
      <4> HIDE DEF verdicts, parts, ofMembers, theirs, facts, row
      <4> QED BY <1>9, <2>4, <3>2 DEF VerdictOf, SqlConditionOf
    <3>7. c[n].empty \in Verdicts
      BY <1>1, <2>4
    <3> HIDE DEF verdicts, parts, ofMembers, theirs, facts, row, decidedOf, writtenOf
    <3> QED BY <3>1, <3>3, <3>4, <3>5, <3>6, <3>7, SameAllMembers
  <2> HIDE DEF facts, row, ofMembers, theirs
  <2>5. CASE c[n].kind = "all" \/ c[n].kind = "any"
    <3>1. /\ verdicts = [i \in D |-> verdicts[i]] /\ parts = [i \in D |-> parts[i]]
      OBVIOUS
    <3> HIDE DEF verdicts, parts
    <3>2. /\ Conjunction(Range(verdicts)) \in Verdicts
          /\ SqlAnd(Range(parts)) = Truth(Conjunction(Range(verdicts)))
          /\ Disjunction(Range(verdicts)) \in Verdicts
          /\ SqlOr(Range(parts)) = Truth(Disjunction(Range(verdicts)))
      BY <2>2, <3>1, SameJunctions
    <3> QED BY <1>9, <2>5, <3>2 DEF VerdictOf, SqlConditionOf
  <2>6. CASE c[n].kind = "not"
    <3>1. 1 \in D
      BY <1>1, <2>6 DEF ConditionShaped
    <3> HIDE DEF verdicts, parts, D
    <3>2. verdicts[1] \in Verdicts /\ parts[1] = Truth(verdicts[1])
      BY <2>2, <3>1
    <3>3. /\ VerdictOf(c[n], verdicts, ofMembers, facts, context.runtime) = Negation(verdicts[1])
          /\ SqlConditionOf(c[n], parts, env.members, theirs, row, context.runtime)
             = SqlNot(parts[1])
      BY <1>9, <2>6 DEF VerdictOf, SqlConditionOf
    <3> QED BY <3>2, <3>3 DEF Negation, SqlNot, Truth, Verdicts
  <2> QED BY <1>1, <2>3, <2>4, <2>5, <2>6 DEF ConditionKinds
<1> QED BY <1>8, <1>9, <1>1

(* The facts of the subject and of its members, and their columns.        *)

\* A fact has in its column what the evaluator is given of it.
LEMMA SameFact ==
  ASSUME NEW key, NEW f \in DOMAIN data.rows
  PROVE  Same(ValueIn(FactsAt(key), f),
              FactApply(ValueIn(ToKinds(Payloads), f), data.rows[f][key]))
<1> DEFINE factKind == ValueIn(ToKinds(Payloads), f)
           rows == data.rows[f][key]
           given == FactsAt(key)
<1>1. /\ f \in DOMAIN given <=> HasValue(factKind, rows)
      /\ HasValue(factKind, rows) => given[f] = FactGiven(factKind, rows)
  BY DEF FactsAt
<1> HIDE DEF factKind, rows, given
<1>2. HasValue(factKind, rows) => FactApply(factKind, rows) = FactGiven(factKind, rows)
  BY DEF HasValue, FactApply, FactGiven, ScalarApply
<1>3. ~HasValue(factKind, rows) => FactApply(factKind, rows) = Null
  BY DEF HasValue, FactApply, ScalarApply
<1>4. Same(ValueIn(given, f), FactApply(factKind, rows))
  BY <1>1, <1>2, <1>3 DEF ValueIn, Same
<1> QED BY <1>4 DEF factKind, rows, given

\* What has come of the selected delivery: its tree is one the wire model took,
\* and what is compiled or answered is what the compiler and the server let
\* through.
Answered ==
  /\ request \in Commands
  /\ intake = "selected" => delivery.candidate.tree \in DOMAIN Trees \ Malformed
  /\ answer # "none" => intake = "selected"
  /\ answer \in {"compiled", "answered"} => Refusals(Tree, Mapping) = {}
  /\ answer = "answered" =>
       ColumnsBound(Tree, Mapping) /\ data \in Tables[delivery.candidate.tree]

\* The mapping of a command is one of the mappings or none.
LEMMA MappingGiven ==
  ASSUME Answered, answer = "answered"
  PROVE  /\ Null \notin data.members /\ Known(data.members)
         /\ GrantedAs(Mapping, "scalar") \subseteq DOMAIN data.rows
<1>1. request.mapping \in {0} \cup DOMAIN Mappings
  BY MappingAssumption DEF Answered
<1>2. delivery.candidate.tree \in DOMAIN Trees /\ data \in Tables[delivery.candidate.tree]
  BY DEF Answered
<1>3. Null \notin data.members /\ data.members \notin {Null, Missing}
  BY <1>2, TableAssumption
<1>4. CASE request.mapping = 0
  <2>1. Mapping.grants = <<>>
    BY <1>4 DEF Mapping, NoMapping
  <2>2. GrantedAs(Mapping, "scalar") = {}
    BY <2>1 DEF GrantedAs
  <2> QED BY <1>3, <2>2 DEF Known
<1>5. CASE request.mapping # 0
  <2>1. request.mapping \in DOMAIN Mappings /\ Mapping = Mappings[request.mapping]
    BY <1>1, <1>5 DEF Mapping
  <2>2. GrantedAs(Mapping, "scalar") \subseteq DOMAIN data.rows
    BY <1>2, <2>1, TableAssumption
  <2> QED BY <1>3, <2>2 DEF Known
<1> QED BY <1>4, <1>5

\* In every scope the facts that have a column have the same value in it, where
\* one of the subject is no collection and one of a member is neither counted nor
\* tested for existence.
LEMMA SameFacts ==
  ASSUME Answered, answer = "answered",
         NEW scope \in {Null} \cup DOMAIN Context.members,
         NEW f \in IF scope = Null THEN GrantedAs(Mapping, "scalar") ELSE KeptAs(Mapping, "scalar"),
         IF scope = Null THEN f \notin SetFacts
         ELSE ValueIn(ToKinds(Payloads), f) \notin {"count", "exists"}
  PROVE  Same(ValueIn(FactsFor(Context, scope), f), RowFor(Tabled, scope)[f])
<1> DEFINE factKind == ValueIn(ToKinds(Payloads), f)
<1>1. f \in GrantedAs(Mapping, "scalar") /\ f \in DOMAIN data.rows
  BY MappingGiven DEF KeptAs
<1>2. CASE scope = Null
  <2> DEFINE given == FactsAt(Subject)
  <2>1. Context.facts = [g \in SetFacts \cup DOMAIN given |->
                           IF g \in SetFacts THEN data.members ELSE given[g]]
    BY DEF Context
  <2>2. ValueIn(FactsFor(Context, scope), f) = ValueIn(given, f)
    <3> HIDE DEF given
    <3> QED BY <1>1, <1>2, <2>1 DEF FactsFor, ValueIn
  <2>3. RowFor(Tabled, scope)[f] = FactApply(factKind, data.rows[f][Subject])
    BY <1>2 DEF RowFor, Tabled, Environment
  <2> QED BY <1>1, <2>2, <2>3, SameFact
<1>3. CASE scope # Null
  <2>1. scope \in data.members /\ scope \in DOMAIN Context.members
    BY <1>3 DEF Context
  <2>2. FactsFor(Context, scope) = FactsAt(scope)
    BY <1>3, <2>1 DEF FactsFor, Context
  <2>3. RowFor(Tabled, scope)[f] = ScalarApply(data.rows[f][scope])
    BY <1>3, <2>1 DEF RowFor, Tabled, Environment
  <2>4. FactApply(factKind, data.rows[f][scope]) = ScalarApply(data.rows[f][scope])
    BY <1>3 DEF FactApply
  <2> QED BY <1>1, <2>2, <2>3, <2>4, SameFact
<1> QED BY <1>2, <1>3

\* A rule that is asked has a condition the wire model took.
LEMMA RuleTaken ==
  ASSUME Answered, intake = "selected", NEW rule \in AllActive(Tree)
  PROVE  ConditionFormed(rule.when) /\ ConditionShaped(rule.when) /\ rule.when # NoCondition
<1>1. Tree = Trees[delivery.candidate.tree] /\ delivery.candidate.tree \in DOMAIN Trees
  BY DEF Answered, Tree
<1>2. TreeShaped(Tree)
  BY <1>1, TreeAssumption DEF Answered
<1>3. PICK s \in DOMAIN Tree.stages : rule \in Range(Tree.stages[s].rules)
  BY DEF AllActive
<1>4. ConditionFormed(rule.when)
  BY <1>1, <1>3, TreeAssumption
<1>5. StageShaped(Tree.stages[s])
  BY <1>2 DEF TreeShaped
<1>6. ConditionShaped(rule.when)
  BY <1>3, <1>5 DEF StageShaped, Range
<1> QED BY <1>4, <1>6 DEF AllActive, Active

\* Where a rule is meant to be followed, everything reached from it is decided
\* alike.
LEMMA ComparableAlike ==
  ASSUME Answered, answer = "answered", NEW rule \in AllActive(Tree),
         Comparable(rule.when, Context)
  PROVE  AlikeBelow(rule.when, Context, Tabled, Len(rule.when), Null)
<1> DEFINE c == rule.when
<1>1. /\ FactsRead(c, {q \in Reached(c) : q[2]}) \subseteq KeptAs(Mapping, "scalar")
      /\ FactsRead(c, Reached(c) \ {q \in Reached(c) : q[2]}) \subseteq GrantedAs(Mapping, "scalar")
  BY Zenon DEF Answered, ColumnsBound
<1>2. ASSUME NEW p \in Reached(c), NEW s \in IF p[2] THEN DOMAIN Context.members ELSE {Null}
      PROVE  AlikeAt(c, Context, Tabled, p[1], s)
  <2> DEFINE node == c[p[1]]
  <2>1. /\ node.kind = "compare" => CompareFits(node, Context, s)
        /\ node.kind = "allMembers" => AllMembersFits(c, node, Context, s)
    BY <1>2 DEF Comparable
  <2>2. s \in {Null} \cup DOMAIN Context.members
    BY <1>2
  <2>3. node \in NodesReached(c)
    BY <1>2 DEF NodesReached
  <2>4. /\ Tabled.members = data.members
        /\ DOMAIN Context.members \subseteq data.members
    BY DEF Tabled, Environment, Context
  <2>5. ASSUME node.kind = "compare"
        PROVE  /\ node.nullPolicy = "indeterminate"
               /\ node.operator \in Unary =>
                    Value(node.left, FactsFor(Context, s), Context.runtime) # Missing
               /\ \A f \in FactsOf(node.left) \cup FactsOf(node.right) :
                    Same(ValueIn(FactsFor(Context, s), f), RowFor(Tabled, s)[f])
    <3>1. CompareFits(node, Context, s)
      BY <2>1, <2>5
    <3>2. ASSUME NEW f \in FactsOf(node.left) \cup FactsOf(node.right)
          PROVE  Same(ValueIn(FactsFor(Context, s), f), RowFor(Tabled, s)[f])
      <4>1. f \in IF s = Null THEN GrantedAs(Mapping, "scalar") ELSE KeptAs(Mapping, "scalar")
        <5>1. CASE p[2]
          <6>1. s # Null
            BY <1>2, <5>1, <2>4, MappingGiven
          <6>2. f \in FactsRead(c, {q \in Reached(c) : q[2]})
            BY <1>2, <5>1, <2>5 DEF FactsRead
          <6> QED BY <6>1, <6>2, <1>1
        <5>2. CASE ~p[2]
          <6>1. s = Null
            BY <1>2, <5>2
          <6>2. f \in FactsRead(c, Reached(c) \ {q \in Reached(c) : q[2]})
            BY <1>2, <5>2, <2>5 DEF FactsRead
          <6> QED BY <6>1, <6>2, <1>1
        <5> QED BY <5>1, <5>2
      <4>2. IF s = Null THEN f \notin SetFacts
            ELSE ValueIn(ToKinds(Payloads), f) \notin {"count", "exists"}
        BY <3>1 DEF CompareFits
      <4> QED BY <2>2, <4>1, <4>2, SameFacts
    <3> QED BY <3>1, <3>2 DEF CompareFits
  <2>6. ASSUME node.kind = "allMembers"
        PROVE  /\ s = Null
               /\ ValueIn(Context.facts, node.collection) = data.members /\ Known(data.members)
               /\ data.members = {} => node.empty # "indeterminate"
               /\ data.members \subseteq DOMAIN Context.members
               /\ \A key \in data.members :
                    VerdictAt(c, Context)[<<node.predicate, key>>] # "indeterminate"
    <3>1. AllMembersFits(c, node, Context, s)
      BY <2>1, <2>6
    <3>2. node.collection \in SetFacts
      <4>1. node \in UNION {NodesReached(r.when) : r \in AllActive(Tree)}
        BY <2>3
      <4>2. Refusals(Tree, Mapping) = {}
        BY DEF Answered
      <4> QED BY <2>6, <4>1, <4>2 DEF Refusals, SetFacts
    <3>3. ValueIn(Context.facts, node.collection) = data.members
      BY <3>2 DEF Context, ValueIn
    <3>4. Known(data.members)
      BY MappingGiven
    <3> QED BY <3>1, <3>3, <3>4 DEF AllMembersFits
  <2> QED BY <2>4, <2>5, <2>6 DEF AlikeAt
<1> QED BY <1>2 DEF AlikeBelow, Reached

\* The hit columns of an answered delivery.
LEMMA AnsweredHits == Answered => HitsFollowTheTree
<1> SUFFICES ASSUME Answered, answer = "answered", NEW rule \in AllActive(Tree),
                    Comparable(rule.when, Context)
             PROVE  Hit(rule, Tabled) = Bit(Condition(rule.when, Context))
  BY DEF HitsFollowTheTree
<1> DEFINE c == rule.when
<1>1. ConditionFormed(c) /\ ConditionShaped(c) /\ c # NoCondition
  BY RuleTaken DEF Answered
<1>2. Len(c) \in DOMAIN c
  BY <1>1, LastNode DEF ConditionFormed, NoCondition
<1>3. /\ Tabled.runtime = Context.runtime /\ Tabled.members = data.members
      /\ DOMAIN Context.members \subseteq data.members
  BY DEF Tabled, Environment, Context
<1>4. Null \notin data.members
  BY MappingGiven
<1>5. AlikeBelow(c, Context, Tabled, Len(c), Null)
  BY ComparableAlike
<1>6. Agree(c, Context, Tabled, Len(c), Null)
  BY <1>1, <1>2, <1>3, <1>4, <1>5, SamePredicates
<1>7. SqlCondition(c, Tabled) = Truth(Condition(c, Context)) /\ Condition(c, Context) \in Verdicts
  BY <1>6 DEF Agree, SqlCondition, Condition
<1> QED BY <1>7 DEF Hit, Bit, Truth, Verdicts, SqlNot

----------------------------------------------------------------------------
\* The inductive invariant of a delivery.
DeliveryInv == IntakeInv /\ Answered

\* Nothing is selected yet.
LEMMA InitDeliveryInv == DeliveryInit => DeliveryInv
<1> SUFFICES ASSUME DeliveryInit PROVE DeliveryInv
  OBVIOUS
<1>1. IntakeInv
  BY InitIntakeInv DEF DeliveryInit
<1>2. request \in Commands /\ intake = "start" /\ answer = "none"
  BY DEF DeliveryInit, IntakeInit
<1> QED BY <1>1, <1>2 DEF DeliveryInv, Answered

\* The candidate of a selected delivery was published, and its tree is none the
\* wire model refuses.
LEMMA SelectedTree ==
  ASSUME IntakeInv, Select, intake' = "selected"
  PROVE  delivery'.candidate.tree \in DOMAIN Trees \ Malformed
<1>1. Selection(Envelope) = "selected" /\ delivery' = Envelope
  BY DEF Select
<1>2. Lacks(delivery') = {}
  BY <1>1, Gates
<1>3. delivery'.candidate.tree \notin Malformed
  <2>1. /\ delivery' # None /\ EnvelopeHolds(delivery') /\ Lacks(delivery') = {}
        /\ PayloadsValid(delivery')
    BY <1>1, Zenon DEF Selection
  <2> QED BY <1>1, <2>1 DEF Selection
<1>4. delivery'.candidate # None
  BY <1>2 DEF Lacks
<1>5. PICK p \in DOMAIN Publications : delivery'.candidate = Publications[p].candidate
  BY SelectedIsOne DEF OnePublicationOf
<1>6. delivery'.candidate \in Candidates
  BY <1>4, <1>5 DEF Candidates
<1> QED BY <1>3, <1>6, TreeAssumption

\* A step of the intake leaves nothing answered that is not.
LEMMA IntakeAnswered ==
  ASSUME DeliveryInv, Intake
  PROVE  Answered'
<1>1. IntakeNext /\ UNCHANGED answerVars /\ request' = request
  BY DEF Intake, IntakeNext, Republish, CheckPurpose, ReadPart, ReadFails, Select
<1>2. intake # "selected"
  BY DEF Intake, IntakeNext, Republish, CheckPurpose, ReadPart, ReadFails, Select
<1>3. answer = "none" /\ answer' = "none"
  BY <1>1, <1>2 DEF DeliveryInv, Answered, answerVars
<1>4. ASSUME intake' = "selected" PROVE delivery'.candidate.tree \in DOMAIN Trees \ Malformed
  <2>1. CASE Select
    BY <1>4, <2>1, SelectedTree DEF DeliveryInv
  <2>2. CASE ~Select
    BY <1>1, <1>4, <2>2 DEF IntakeNext, Republish, CheckPurpose, ReadPart, ReadFails
  <2> QED BY <2>1, <2>2
<1> QED BY <1>1, <1>3, <1>4 DEF Answered, DeliveryInv

\* Every step keeps the invariant.
LEMMA StepDeliveryInv == DeliveryInv /\ [DeliveryNext]_deliveryVars => DeliveryInv'
<1> SUFFICES ASSUME DeliveryInv, [DeliveryNext]_deliveryVars PROVE DeliveryInv'
  OBVIOUS
<1>1. [IntakeNext]_intakeVars
  BY DEF DeliveryNext, Intake, Compile, Run, Terminated, deliveryVars
<1>2. IntakeInv'
  BY <1>1, StepIntakeInv DEF DeliveryInv
<1>3. CASE Intake
  BY <1>2, <1>3, IntakeAnswered DEF DeliveryInv
<1>4. CASE Compile
  <2>1. /\ intake = "selected" /\ UNCHANGED <<request, intake, delivery>>
        /\ blockers' = IF CompileBlockers(Tree, Payloads, Mapping) # {}
                       THEN CompileBlockers(Tree, Payloads, Mapping)
                       ELSE Refusals(Tree, Mapping)
        /\ answer' = IF blockers' = {} THEN "compiled" ELSE "blocked"
    BY <1>4 DEF Compile, intakeVars
  <2>2. answer' = "compiled" => Refusals(Tree, Mapping) = {}
    BY <2>1
  <2>3. Tree' = Tree /\ Mapping' = Mapping
    BY <2>1 DEF Tree, Mapping
  <2>4. Answered'
    BY <2>1, <2>2, <2>3 DEF DeliveryInv, Answered
  <2> QED BY <1>2, <2>4 DEF DeliveryInv
<1>5. CASE Run
  <2>1. /\ answer = "compiled" /\ UNCHANGED <<request, intake, delivery>>
        /\ \/ /\ ColumnsBound(Tree, Mapping)
              /\ answer' = "answered" /\ data' \in Tables[delivery.candidate.tree]
           \/ answer' = "refused"
    BY <1>5 DEF Run, intakeVars
  <2>2. Tree' = Tree /\ Mapping' = Mapping
    BY <2>1 DEF Tree, Mapping
  <2>3. Answered'
    BY <2>1, <2>2 DEF DeliveryInv, Answered
  <2> QED BY <1>2, <2>3 DEF DeliveryInv
<1>6. CASE UNCHANGED deliveryVars
  <2>1. UNCHANGED <<request, intake, delivery, answer, data>>
    BY <1>6 DEF deliveryVars, intakeVars, answerVars
  <2>2. Tree' = Tree /\ Mapping' = Mapping
    BY <2>1 DEF Tree, Mapping
  <2>3. Answered'
    BY <2>1, <2>2 DEF DeliveryInv, Answered
  <2> QED BY <1>2, <2>3 DEF DeliveryInv
<1> QED BY <1>3, <1>4, <1>5, <1>6 DEF DeliveryNext, Terminated

\* The invariant holds at all times.
LEMMA InductiveDeliveryInv == DeliverySpec => []DeliveryInv
BY InitDeliveryInv, StepDeliveryInv, PTL DEF DeliverySpec

\* What is compiled of a delivery is compiled of one publication: the intake is
\* as it was, whatever is made of its outcome.
THEOREM SelectedDeliveriesAreOnePublication == DeliverySpec => []DeliveryIsOnePublication
<1>1. DeliveryInv => DeliveryIsOnePublication
  BY DEF DeliveryInv, IntakeInv, OnePublicationOf, PayloadsOf, Payloads, DeliveryIsOnePublication
<1> QED BY <1>1, InductiveDeliveryInv, PTL

\* Whatever the trees, the mappings and the tables: the hit column of a rule is 1,
\* 0 or NULL as the evaluator passes, fails or does not decide its condition on
\* the same rows, wherever the statement is meant to follow the tree.
THEOREM HitsFollow == DeliverySpec => []HitsFollowTheTree
<1>1. DeliveryInv => HitsFollowTheTree
  BY AnsweredHits DEF DeliveryInv
<1> QED BY <1>1, InductiveDeliveryInv, PTL
============================================================================
