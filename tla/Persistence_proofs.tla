------------------------- MODULE Persistence_proofs --------------------------
(***************************************************************************)
(* Proofs about what the commands leave behind, and look up, outside their *)
(* own process, for any number of processes and contents: the candidate    *)
(* store (MongoCandidateStoreV3, Part 1), the approval lookup              *)
(* (MongoApprovalRecordStoreV3, Part 2), an evidence pack, committed under *)
(* its name once it is complete (EvidenceFileCommit, Part 3), and the      *)
(* report of validate-sqlserver, written in place (ReportFile, Part 4).    *)
(* Parts 1 to 3 end in the refinement of what the component promises.      *)
(***************************************************************************)
EXTENDS MongoCandidateStoreV3, MongoApprovalRecordStoreV3, EvidenceFileCommit,
        ReportFile, TLAPS

-----------------------------------------------------------------------------
(* Part 1.  The candidate store: its invariants, and that it implements    *)
(* InsertOnlyStore.                                                        *)

(* The inductive invariant.                                                *)

BeforeInsert == {"idle", "ping", "index", "save"}

\* A process has asked for something once it has left "idle", and has no
\* outcome before save() returns.
CallsInOrder ==
    \A s \in Savers :
        /\ (phase[s] = "idle") <=> (cand[s] = NoCandidate)
        /\ phase[s] \in BeforeInsert \cup {"inserting"} => outcome[s] = "none"
        /\ phase[s] \in BeforeInsert => reply[s] = "none"

\* A document, stored or under way, was sent by its owner.
SentByOwner ==
    \A m \in docs \cup wire :
        m.cand = cand[m.owner] /\ phase[m.owner] \notin BeforeInsert

\* An insert under way is the only one of its owner, and not yet answered.
WireUnanswered ==
    \A m \in wire : reply[m.owner] = "none" /\ m.owner \notin Applied

\* Nothing is sent before the unique index exists.
IndexFirst ==
    (docs # {} \/ wire # {} \/ \E s \in Savers : ready[s]) => index

\* What the server told a process, and what the process concluded from it.
AnswersTrue ==
    \A s \in Savers :
        /\ reply[s] = "ok" => s \in Applied
        /\ reply[s] = "duplicateKey" =>
             s \notin Applied /\ \E d \in docs : d.cand = cand[s]
        /\ outcome[s] = "stored" => reply[s] = "ok"
        /\ outcome[s] = "duplicate" => reply[s] = "duplicateKey"
        /\ outcome[s] = "unavailable" => \A m \in docs \cup wire : m.owner # s

IInv ==
    /\ TypeOK
    /\ CallsInOrder
    /\ SentByOwner
    /\ WireUnanswered
    /\ IndexFirst
    /\ AnswersTrue
    /\ UniqueContent

-----------------------------------------------------------------------------

\* Initially nothing has been called, sent or stored.
LEMMA InitEstablishesIInv == Init => IInv
  <1> SUFFICES ASSUME Init PROVE IInv
    OBVIOUS
  <1>1. TypeOK
    BY DEF Init, TypeOK, Phases
  <1>2. CallsInOrder
    BY DEF Init, CallsInOrder
  <1>3. SentByOwner /\ WireUnanswered /\ IndexFirst /\ UniqueContent
    BY DEF Init, SentByOwner, WireUnanswered, IndexFirst, UniqueContent
  <1>4. AnswersTrue
    BY DEF Init, AnswersTrue
  <1> QED BY <1>1, <1>2, <1>3, <1>4 DEF IInv

\* Every step preserves the inductive invariant.  The delicate ones are
\* SendInsert (the index is there, and s has nothing else under way) and
\* ServerInsert (what the answer says is what happened).
LEMMA NextPreservesIInv == ASSUME IInv, [Next]_vars PROVE IInv'
  <1>1. ASSUME NEW s \in Savers, NEW c \in Candidates, Save(s, c) PROVE IInv'
    <2>1. TypeOK'
      BY <1>1 DEF Save, Goto, serverVars, IInv, TypeOK, Phases
    <2>2. CallsInOrder'
      BY <1>1, NoCandidateAssumption DEF Save, Goto, serverVars, IInv, TypeOK,
         BeforeInsert, CallsInOrder
    <2>3. SentByOwner'
      BY <1>1 DEF Save, Goto, serverVars, IInv, BeforeInsert, SentByOwner
    <2>4. AnswersTrue'
      BY <1>1, NoCandidateAssumption DEF Save, serverVars, IInv, TypeOK,
         Document, CallsInOrder, AnswersTrue, Applied
    <2>5. (WireUnanswered /\ IndexFirst /\ UniqueContent)'
      BY <1>1 DEF Save, serverVars, IInv, WireUnanswered, IndexFirst,
         UniqueContent, Applied
    <2> QED BY <2>1, <2>2, <2>3, <2>4, <2>5 DEF IInv
  <1>2. ASSUME NEW s \in Savers, Ping(s) PROVE IInv'
    <2>1. TypeOK'
      BY <1>2 DEF Ping, Goto, serverVars, IInv, TypeOK, Phases
    <2>2. CallsInOrder'
      BY <1>2 DEF Ping, Goto, serverVars, IInv, BeforeInsert, CallsInOrder
    <2>3. SentByOwner'
      BY <1>2 DEF Ping, Goto, serverVars, IInv, BeforeInsert, SentByOwner
    <2>4. (WireUnanswered /\ IndexFirst /\ AnswersTrue /\ UniqueContent)'
      BY <1>2 DEF Ping, serverVars, IInv, WireUnanswered, IndexFirst,
         AnswersTrue, UniqueContent, Applied
    <2> QED BY <2>1, <2>2, <2>3, <2>4 DEF IInv
  <1>3. ASSUME NEW s \in Savers, CreateIndex(s) PROVE IInv'
    <2>1. TypeOK'
      BY <1>3 DEF CreateIndex, Goto, IInv, TypeOK, Phases
    <2>2. CallsInOrder'
      BY <1>3 DEF CreateIndex, Goto, IInv, BeforeInsert, CallsInOrder
    <2>3. SentByOwner'
      BY <1>3 DEF CreateIndex, Goto, IInv, BeforeInsert, SentByOwner
    <2>4. IndexFirst'
      BY <1>3 DEF CreateIndex, IndexFirst
    <2>5. (WireUnanswered /\ AnswersTrue /\ UniqueContent)'
      BY <1>3 DEF CreateIndex, IInv, WireUnanswered, AnswersTrue,
         UniqueContent, Applied
    <2> QED BY <2>1, <2>2, <2>3, <2>4, <2>5 DEF IInv
  <1>4. ASSUME NEW s \in Savers, InitializeDegrades(s) PROVE IInv'
    <2>1. TypeOK'
      <3>1. index' \in BOOLEAN
        BY <1>4, Zenon DEF InitializeDegrades, IInv, TypeOK
      <3> QED
        BY <1>4, <3>1 DEF InitializeDegrades, Goto, IInv, TypeOK, Phases
    <2>2. CallsInOrder'
      BY <1>4 DEF InitializeDegrades, Goto, IInv, BeforeInsert, CallsInOrder
    <2>3. SentByOwner'
      BY <1>4 DEF InitializeDegrades, Goto, IInv, BeforeInsert, SentByOwner
    <2>4. IndexFirst'
      <3>1. index => index'
        BY <1>4, Zenon DEF InitializeDegrades
      <3> QED
        BY <1>4, <3>1 DEF InitializeDegrades, IInv, TypeOK, IndexFirst
    <2>5. (WireUnanswered /\ AnswersTrue /\ UniqueContent)'
      BY <1>4 DEF InitializeDegrades, IInv, WireUnanswered, AnswersTrue,
         UniqueContent, Applied
    <2> QED BY <2>1, <2>2, <2>3, <2>4, <2>5 DEF IInv
  <1>5. ASSUME NEW s \in Savers, InitializeRaises(s) PROVE IInv'
    <2>1. TypeOK'
      BY <1>5 DEF InitializeRaises, Return, Goto, serverVars, IInv, TypeOK,
         Phases
    <2>2. CallsInOrder'
      BY <1>5 DEF InitializeRaises, Return, Goto, serverVars, IInv, TypeOK,
         BeforeInsert, CallsInOrder
    <2>3. SentByOwner'
      BY <1>5 DEF InitializeRaises, Return, Goto, serverVars, IInv,
         BeforeInsert, SentByOwner
    <2>4. AnswersTrue'
      BY <1>5 DEF InitializeRaises, Return, serverVars, IInv, BeforeInsert,
         SentByOwner, AnswersTrue, Applied
    <2>5. (WireUnanswered /\ IndexFirst /\ UniqueContent)'
      BY <1>5 DEF InitializeRaises, serverVars, IInv, WireUnanswered,
         IndexFirst, UniqueContent, Applied
    <2> QED BY <2>1, <2>2, <2>3, <2>4, <2>5 DEF IInv
  <1>6. ASSUME NEW s \in Savers, SaveUnavailable(s) PROVE IInv'
    <2>1. TypeOK'
      BY <1>6 DEF SaveUnavailable, Return, Goto, serverVars, IInv, TypeOK,
         Phases
    <2>2. CallsInOrder'
      BY <1>6 DEF SaveUnavailable, Return, Goto, serverVars, IInv, TypeOK,
         BeforeInsert, CallsInOrder
    <2>3. SentByOwner'
      BY <1>6 DEF SaveUnavailable, Return, Goto, serverVars, IInv,
         BeforeInsert, SentByOwner
    <2>4. AnswersTrue'
      BY <1>6 DEF SaveUnavailable, Return, serverVars, IInv, BeforeInsert,
         SentByOwner, AnswersTrue, Applied
    <2>5. (WireUnanswered /\ IndexFirst /\ UniqueContent)'
      BY <1>6 DEF SaveUnavailable, serverVars, IInv, WireUnanswered,
         IndexFirst, UniqueContent, Applied
    <2> QED BY <2>1, <2>2, <2>3, <2>4, <2>5 DEF IInv
  <1>7. ASSUME NEW s \in Savers, SendInsert(s) PROVE IInv'
    <2>1. TypeOK'
      BY <1>7 DEF SendInsert, Goto, IInv, TypeOK, Document, Phases,
         CallsInOrder
    <2>2. CallsInOrder'
      BY <1>7 DEF SendInsert, Goto, IInv, BeforeInsert, CallsInOrder
    <2>3. SentByOwner'
      BY <1>7 DEF SendInsert, Goto, IInv, TypeOK, BeforeInsert, SentByOwner
    <2>4. WireUnanswered'
      BY <1>7 DEF SendInsert, IInv, BeforeInsert, CallsInOrder, SentByOwner,
         WireUnanswered, Applied
    <2>5. IndexFirst'
      BY <1>7 DEF SendInsert, IInv, IndexFirst
    <2>6. AnswersTrue'
      BY <1>7 DEF SendInsert, IInv, BeforeInsert, CallsInOrder, AnswersTrue,
         Applied
    <2>7. UniqueContent'
      BY <1>7 DEF SendInsert, IInv, UniqueContent
    <2> QED BY <2>1, <2>2, <2>3, <2>4, <2>5, <2>6, <2>7 DEF IInv
  <1>8. ASSUME NEW s \in Savers, InsertReturns(s) PROVE IInv'
    <2>1. TypeOK'
      BY <1>8 DEF InsertReturns, Return, Goto, serverVars, IInv, TypeOK,
         Phases
    <2>2. CallsInOrder'
      BY <1>8 DEF InsertReturns, Return, Goto, serverVars, IInv, TypeOK,
         BeforeInsert, CallsInOrder
    <2>3. SentByOwner'
      BY <1>8 DEF InsertReturns, Return, Goto, serverVars, IInv, TypeOK,
         Document, BeforeInsert, SentByOwner
    <2>4. AnswersTrue'
      BY <1>8 DEF InsertReturns, Return, serverVars, IInv, TypeOK,
         AnswersTrue, Applied
    <2>5. (WireUnanswered /\ IndexFirst /\ UniqueContent)'
      BY <1>8 DEF InsertReturns, serverVars, IInv, WireUnanswered, IndexFirst,
         UniqueContent, Applied
    <2> QED BY <2>1, <2>2, <2>3, <2>4, <2>5 DEF IInv
  <1>9. ASSUME NEW s \in Savers, InsertErrors(s) PROVE IInv'
    <2>1. TypeOK'
      BY <1>9 DEF InsertErrors, Return, Goto, serverVars, IInv, TypeOK, Phases
    <2>2. CallsInOrder'
      BY <1>9 DEF InsertErrors, Return, Goto, serverVars, IInv, TypeOK,
         BeforeInsert, CallsInOrder
    <2>3. SentByOwner'
      BY <1>9 DEF InsertErrors, Return, Goto, serverVars, IInv, BeforeInsert,
         SentByOwner
    <2>4. AnswersTrue'
      BY <1>9 DEF InsertErrors, Return, serverVars, IInv, AnswersTrue, Applied
    <2>5. (WireUnanswered /\ IndexFirst /\ UniqueContent)'
      BY <1>9 DEF InsertErrors, serverVars, IInv, WireUnanswered, IndexFirst,
         UniqueContent, Applied
    <2> QED BY <2>1, <2>2, <2>3, <2>4, <2>5 DEF IInv
  <1>10. ASSUME NEW s \in Savers, Close(s) PROVE IInv'
    <2>1. TypeOK'
      BY <1>10 DEF Close, Goto, serverVars, IInv, TypeOK, Phases
    <2>2. CallsInOrder'
      BY <1>10 DEF Close, Goto, serverVars, IInv, BeforeInsert, CallsInOrder
    <2>3. SentByOwner'
      BY <1>10 DEF Close, Goto, serverVars, IInv, BeforeInsert, SentByOwner
    <2>4. IndexFirst'
      BY <1>10 DEF Close, serverVars, IInv, IndexFirst
    <2>5. (WireUnanswered /\ AnswersTrue /\ UniqueContent)'
      BY <1>10 DEF Close, serverVars, IInv, WireUnanswered, AnswersTrue,
         UniqueContent, Applied
    <2> QED BY <2>1, <2>2, <2>3, <2>4, <2>5 DEF IInv
  <1>11. ASSUME NEW s \in Savers, Gone(s) PROVE IInv'
    <2>1. TypeOK'
      BY <1>11 DEF Gone, Goto, serverVars, IInv, TypeOK, Phases
    <2>2. CallsInOrder'
      BY <1>11 DEF Gone, Goto, serverVars, IInv, BeforeInsert, CallsInOrder
    <2>3. SentByOwner'
      BY <1>11 DEF Gone, Goto, serverVars, IInv, BeforeInsert, SentByOwner
    <2>4. (WireUnanswered /\ IndexFirst /\ AnswersTrue /\ UniqueContent)'
      BY <1>11 DEF Gone, serverVars, IInv, WireUnanswered, IndexFirst,
         AnswersTrue, UniqueContent, Applied
    <2> QED BY <2>1, <2>2, <2>3, <2>4 DEF IInv
  <1>12. ASSUME NEW m \in Document, ServerInsert(m) PROVE IInv'
    <2>1. TypeOK'
      BY <1>12 DEF ServerInsert, clientVars, IInv, TypeOK
    <2>2. CallsInOrder'
      BY <1>12 DEF ServerInsert, clientVars, IInv, CallsInOrder, SentByOwner
    <2>3. SentByOwner'
      BY <1>12 DEF ServerInsert, clientVars, IInv, SentByOwner
    <2>4. WireUnanswered'
      BY <1>12 DEF ServerInsert, IInv, TypeOK, Document, SentByOwner,
         WireUnanswered, Applied
    <2>5. IndexFirst'
      BY <1>12 DEF ServerInsert, IInv, IndexFirst
    <2>6. AnswersTrue'
      BY <1>12 DEF ServerInsert, Forbidden, clientVars, IInv, SentByOwner,
         WireUnanswered, AnswersTrue, Applied
    <2>7. UniqueContent'
      BY <1>12 DEF ServerInsert, Forbidden, IInv, IndexFirst, UniqueContent
    <2> QED BY <2>1, <2>2, <2>3, <2>4, <2>5, <2>6, <2>7 DEF IInv
  <1>13. ASSUME NEW m \in Document, LoseInsert(m) PROVE IInv'
    <2>1. TypeOK'
      BY <1>13 DEF LoseInsert, clientVars, IInv, TypeOK
    <2>2. SentByOwner'
      BY <1>13 DEF LoseInsert, clientVars, IInv, SentByOwner
    <2>3. WireUnanswered'
      BY <1>13 DEF LoseInsert, IInv, WireUnanswered, Applied
    <2>4. IndexFirst'
      BY <1>13 DEF LoseInsert, IInv, IndexFirst
    <2>5. AnswersTrue'
      BY <1>13 DEF LoseInsert, clientVars, IInv, AnswersTrue, Applied
    <2>6. (CallsInOrder /\ UniqueContent)'
      BY <1>13 DEF LoseInsert, clientVars, IInv, CallsInOrder, UniqueContent
    <2> QED BY <2>1, <2>2, <2>3, <2>4, <2>5, <2>6 DEF IInv
  <1>14. CASE UNCHANGED vars
    BY <1>14 DEF vars, IInv, TypeOK, CallsInOrder, SentByOwner,
       WireUnanswered, IndexFirst, AnswersTrue, UniqueContent, Applied
  <1> QED BY <1>1, <1>2, <1>3, <1>4, <1>5, <1>6, <1>7, <1>8, <1>9, <1>10,
             <1>11, <1>12, <1>13, <1>14 DEF Next

\* IInv holds in every reachable state.
THEOREM InductiveInvariant == Spec => []IInv
  BY InitEstablishesIInv, NextPreservesIInv, PTL DEF Spec

-----------------------------------------------------------------------------

\* The adapter keeps its state in shape, whatever the network does.
THEOREM TypeCorrect == Spec => []TypeOK
  <1>1. IInv => TypeOK
    BY DEF IInv
  <1> QED BY <1>1, InductiveInvariant, PTL

\* The collection holds at most one document per content hash.
THEOREM ContentIsUnique == Spec => []UniqueContent
  <1>1. IInv => UniqueContent
    BY DEF IInv
  <1> QED BY <1>1, InductiveInvariant, PTL

\* A process that was told "stored" has its document in the collection, so
\* no two processes are told so of one content.
LEMMA StoredIsApplied ==
  ASSUME IInv, NEW s \in Savers, outcome[s] = "stored"
  PROVE  \E d \in docs : d.owner = s /\ d.cand = cand[s]
  BY DEF IInv, AnswersTrue, SentByOwner, Applied

\* No two saves of one candidate are both told "stored".
THEOREM OnlyOneStored == Spec => []StoredOnce
  <1>1. IInv => StoredOnce
    <2> SUFFICES ASSUME IInv,
                        NEW s \in Savers, NEW t \in Savers,
                        outcome[s] = "stored", outcome[t] = "stored",
                        cand[s] = cand[t]
                 PROVE  s = t
      BY DEF StoredOnce
    <2>1. PICK d \in docs : d.owner = s /\ d.cand = cand[s]
      BY StoredIsApplied
    <2>2. PICK e \in docs : e.owner = t /\ e.cand = cand[t]
      BY StoredIsApplied
    <2>3. d = e
      BY <2>1, <2>2 DEF IInv, UniqueContent
    <2> QED BY <2>1, <2>2, <2>3
  <1> QED BY <1>1, InductiveInvariant, PTL

\* No step updates, replaces or deletes a document.
THEOREM DocumentsStay == Spec => InsertOnly
  <1>1. [Next]_vars => [docs \subseteq docs']_vars
    BY DEF Next, vars, serverVars, clientVars, Save, Ping, CreateIndex,
           InitializeDegrades, InitializeRaises, SaveUnavailable, SendInsert,
           ServerInsert, LoseInsert, InsertReturns, InsertErrors, Close, Gone
  <1> QED BY <1>1, PTL DEF Spec, InsertOnly

-----------------------------------------------------------------------------
(* Refinement: a step of the adapter begins, applies or reports a save, or *)
(* changes nothing that InsertOnlyStore knows of.                          *)

\* Each step of the adapter is one of the store, or a stutter.
LEMMA StepsRefine == ASSUME IInv, [Next]_vars PROVE [Store!Next]_(Store!storeVars)
  <1> USE DEF Store!storeVars, IInv
  <1>1. ASSUME NEW s \in Savers, NEW c \in Candidates, Save(s, c)
        PROVE  Store!Begin(s, c)
    BY <1>1 DEF Save, CallsInOrder, serverVars, Store!Begin, Applied
  <1>2. ASSUME NEW s \in Savers, InitializeRaises(s) \/ SaveUnavailable(s)
        PROVE  Store!Report(s, "unavailable")
    <2>1. s \notin Applied
      BY <1>2 DEF InitializeRaises, SaveUnavailable, SentByOwner, BeforeInsert, Applied
    <2> QED
      BY <1>2, <2>1 DEF InitializeRaises, SaveUnavailable, Return, serverVars,
         CallsInOrder, BeforeInsert, Applied, Store!Report, Store!MayReport
  <1>3. ASSUME NEW s \in Savers, InsertReturns(s)
        PROVE  Store!Report(s, "stored") \/ Store!Report(s, "duplicate")
    <2>1. cand[s] # NoCandidate /\ outcome[s] = "none"
      BY <1>3 DEF InsertReturns, CallsInOrder
    <2>2. CASE reply[s] = "ok" /\ Return(s, "stored")
      BY <1>3, <2>1, <2>2 DEF InsertReturns, Return, serverVars, AnswersTrue, Applied,
         Store!Report, Store!MayReport
    <2>3. CASE reply[s] = "duplicateKey" /\ Return(s, "duplicate")
      <3>1. s \notin Applied /\ cand[s] \in Store!Documents
        <4>1. PICK d \in docs : s \notin Applied /\ d.cand = cand[s]
          BY <2>3 DEF AnswersTrue
        <4>2. d.owner \in Applied /\ d.cand = cand[d.owner]
          BY DEF SentByOwner, Applied
        <4> QED BY <4>1, <4>2 DEF Store!Documents
      <3> QED
        BY <1>3, <2>1, <2>3, <3>1 DEF InsertReturns, Return, serverVars, Applied,
           Store!Report, Store!MayReport
    <2> QED BY <1>3, <2>2, <2>3 DEF InsertReturns
  <1>4. ASSUME NEW s \in Savers, InsertErrors(s)
        PROVE  Store!Report(s, "failed")
    BY <1>4 DEF InsertErrors, Return, serverVars, CallsInOrder, Applied,
       Store!Report, Store!MayReport
  <1>5. ASSUME NEW m \in Document, ServerInsert(m), ~Forbidden(m)
        PROVE  Store!Apply(m.owner)
    <2>1. m \in wire /\ docs' = docs \cup {m} /\ UNCHANGED <<cand, outcome>>
      BY <1>5 DEF ServerInsert, clientVars
    <2>2. Applied' = Applied \cup {m.owner}
      BY <2>1 DEF Applied
    <2>3. m.owner \in Savers /\ m.cand = cand[m.owner] /\ cand[m.owner] # NoCandidate
      BY <2>1, NoCandidateAssumption DEF Document, SentByOwner
    <2>4. m.owner \notin Applied
      BY <2>1 DEF WireUnanswered
    <2>5. outcome[m.owner] \in {"none", "failed"}
      BY <2>1, <2>3 DEF TypeOK, WireUnanswered, AnswersTrue
    <2>6. cand[m.owner] \notin Store!Documents
      BY <1>5, <2>1, <2>3 DEF Forbidden, IndexFirst, SentByOwner, Applied, Store!Documents
    <2> QED BY <2>1, <2>2, <2>3, <2>4, <2>5, <2>6 DEF Store!Apply
  <1>6. ASSUME NEW m \in Document, ServerInsert(m), Forbidden(m)
        PROVE  UNCHANGED Store!storeVars
    BY <1>6 DEF ServerInsert, clientVars, Applied
  <1>7. ASSUME NEW m \in Document, LoseInsert(m)
        PROVE  UNCHANGED Store!storeVars
    BY <1>7 DEF LoseInsert, clientVars, Applied
  <1>8. ASSUME NEW s \in Savers,
               \/ Ping(s) \/ CreateIndex(s) \/ InitializeDegrades(s)
               \/ SendInsert(s) \/ Close(s) \/ Gone(s)
        PROVE  UNCHANGED Store!storeVars
    BY <1>8 DEF Ping, CreateIndex, InitializeDegrades, SendInsert, Close, Gone,
       serverVars, Applied
  <1>9. ASSUME UNCHANGED vars PROVE UNCHANGED Store!storeVars
    BY <1>9 DEF vars, Applied
  <1>10. \A m \in Document : m.owner \in Savers
    BY DEF Document
  <1> QED
    BY <1>1, <1>2, <1>3, <1>4, <1>5, <1>6, <1>7, <1>8, <1>9, <1>10
       DEF Next, Store!Next, Store!Outcomes

\* The adapter, with its deferred initialisation, keeps the promise of the
\* store port: InsertOnlyStore with the inserted documents as applied saves.
THEOREM AdapterImplementsStore == Spec => ImplementsInsertOnlyStore
  <1>1. Init => Store!Init
    BY DEF Init, Store!Init, Applied
  <1> QED
    BY <1>1, InductiveInvariant, StepsRefine, PTL
       DEF Spec, ImplementsInsertOnlyStore, Store!Spec

-----------------------------------------------------------------------------
(* Part 2.  The approval lookup: its two reads are as good as one.         *)

\* The record kept from the first read is still there at the second, because
\* records are never taken back.
KeptRecordStays ==
    \A r \in Readers : await[r] = "pointer" => record[r] \in records \cap Approvals

\* A process before the end of its lookup has no answer yet.
OneAnswer ==
    \A r \in Readers :
        await[r] \in {"start", "ping", "record", "pointer"} => answer[r] = "pending"

LookupInv == LookupTypeOK /\ KeptRecordStays /\ OneAnswer

\* What the pointer leads to is an answer.
LEMMA VerdictType ==
    ASSUME LookupInv, NEW r \in Readers, await[r] = "pointer"
    PROVE  PointerVerdict(r) \in Approvals \cup {"none", "unavailable"}
  <1>1. record[r] \in Approvals
    BY DEF LookupInv, KeptRecordStays
  <1> QED
    BY <1>1 DEF PointerVerdict

\* The invariant holds initially.
LEMMA InitLookupInv == LookupInit => LookupInv
  BY DEF LookupInit, LookupInv, LookupTypeOK, KeptRecordStays, OneAnswer

\* Every step keeps it; ReadRecord establishes what KeptRecordStays says, and
\* metadataReview cannot take it back.
LEMMA NextPreservesLookupInv == ASSUME LookupInv, [LookupNext]_lookupVars PROVE LookupInv'
  <1> USE DEF LookupInv
  <1>1. CASE InsertRecord
    <2>1. PICK d \in Approvals \cup {Damaged} :
            /\ records' = records \cup {d}
            /\ UNCHANGED <<pointer, await, client, connected, record, answer>>
      BY <1>1 DEF InsertRecord
    <2>2. LookupTypeOK'
      BY <2>1 DEF LookupTypeOK
    <2> QED
      BY <2>1, <2>2 DEF KeptRecordStays, OneAnswer
  <1>2. CASE WritePointer
    BY <1>2 DEF WritePointer, LookupTypeOK, KeptRecordStays, OneAnswer
  <1>3. ASSUME NEW r \in Readers, Connect(r) PROVE LookupInv'
    BY <1>3 DEF Connect, MoveTo, reviewVars, LookupTypeOK, KeptRecordStays, OneAnswer
  <1>4. ASSUME NEW r \in Readers, NoClient(r) PROVE LookupInv'
    BY <1>4 DEF NoClient, MoveTo, reviewVars, LookupTypeOK, KeptRecordStays, OneAnswer
  <1>5. ASSUME NEW r \in Readers, PingAnswers(r) PROVE LookupInv'
    BY <1>5 DEF PingAnswers, MoveTo, reviewVars, LookupTypeOK, KeptRecordStays, OneAnswer
  <1>6. ASSUME NEW r \in Readers, PingFails(r) PROVE LookupInv'
    BY <1>6 DEF PingFails, MoveTo, reviewVars, LookupTypeOK, KeptRecordStays, OneAnswer
  <1>7. ASSUME NEW r \in Readers, LookupUnavailable(r) PROVE LookupInv'
    BY <1>7 DEF LookupUnavailable, Conclude, MoveTo, reviewVars, LookupTypeOK, KeptRecordStays, OneAnswer
  <1>8. ASSUME NEW r \in Readers, ReadRecord(r) PROVE LookupInv'
    <2>1. CASE UNCHANGED record /\ \E a \in {"none", "unavailable"} : Conclude(r, a)
      BY <1>8, <2>1
         DEF ReadRecord, Conclude, MoveTo, reviewVars, LookupTypeOK, KeptRecordStays, OneAnswer
    <2>2. CASE UNCHANGED answer /\ MoveTo(r, "pointer")
      <3>1. PICK a \in records \cap Approvals : record' = [record EXCEPT ![r] = a]
        BY <1>8, <2>2 DEF ReadRecord, Conclude, MoveTo, LookupTypeOK
      <3> QED
        BY <1>8, <2>2, <3>1
           DEF ReadRecord, MoveTo, reviewVars, LookupTypeOK, KeptRecordStays, OneAnswer
    <2> QED
      BY <1>8, <2>1, <2>2 DEF ReadRecord
  <1>9. ASSUME NEW r \in Readers, ReadPointer(r) PROVE LookupInv'
    <2>1. PointerVerdict(r) \in Approvals \cup {"none", "unavailable"}
      BY <1>9, VerdictType DEF ReadPointer
    <2> QED
      BY <1>9, <2>1 DEF ReadPointer, Conclude, MoveTo, reviewVars, LookupTypeOK, KeptRecordStays, OneAnswer
  <1>10. ASSUME NEW r \in Readers, QueryErrors(r) PROVE LookupInv'
    BY <1>10
       DEF QueryErrors, CloseClient, Conclude, MoveTo, reviewVars, LookupTypeOK, KeptRecordStays, OneAnswer
  <1>11. ASSUME NEW r \in Readers, CloseStore(r) PROVE LookupInv'
    BY <1>11 DEF CloseStore, CloseClient, MoveTo, reviewVars, LookupTypeOK, KeptRecordStays, OneAnswer
  <1>12. CASE UNCHANGED lookupVars
    BY <1>12 DEF lookupVars, LookupTypeOK, KeptRecordStays, OneAnswer
  <1> QED
    BY <1>1, <1>2, <1>3, <1>4, <1>5, <1>6, <1>7, <1>8, <1>9, <1>10, <1>11, <1>12
       DEF LookupNext

\* LookupInv holds in every reachable state.
THEOREM LookupInvariant == LookupSpec => []LookupInv
  BY InitLookupInv, NextPreservesLookupInv, PTL DEF LookupSpec

\* The variables of the approval port keep their domains; in particular only
\* a validated record is ever kept or returned.
THEOREM LookupTypeCorrect == LookupSpec => []LookupTypeOK
  <1>1. LookupInv => LookupTypeOK
    BY DEF LookupInv
  <1> QED
    BY LookupInvariant, <1>1, PTL

-----------------------------------------------------------------------------

\* A lookup that ends while the authority stands still answers in one step
\* of the abstract specification.
LEMMA ReturnIsAnswer ==
    ASSUME LookupInv, NEW r \in Readers, await[r] \in {"record", "pointer"},
           NEW a \in Approvals \cup {"none", "unavailable"}, Conclude(r, a),
           UNCHANGED reviewVars, Authority!MayAnswer(a)
    PROVE  Authority!Next
  <1>1. answer[r] = "pending"
    BY DEF LookupInv, OneAnswer
  <1>2. UNCHANGED ActiveApprovals
    BY DEF reviewVars, ActiveApprovals
  <1>3. Authority!Answer(r, a)
    BY <1>1, <1>2 DEF Conclude, Authority!Answer
  <1> QED
    BY <1>3 DEF Authority!Next, Authority!NoAnswers

\* Each step of the adapter is a step of the authority or a stutter.
LEMMA LookupRefines ==
    ASSUME LookupInv, [LookupNext]_lookupVars PROVE [Authority!Next]_(Authority!authorityVars)
  <1>1. ASSUME InsertRecord \/ WritePointer PROVE Authority!Next
    <2>1. UNCHANGED answer /\ ActiveApprovals' \in SUBSET Approvals
      BY <1>1 DEF InsertRecord, WritePointer, ActiveApprovals
    <2> QED
      BY <2>1 DEF Authority!Next, Authority!Govern
  <1>2. ASSUME NEW r \in Readers,
               Connect(r) \/ NoClient(r) \/ PingAnswers(r) \/ PingFails(r) \/ CloseStore(r)
        PROVE  UNCHANGED Authority!authorityVars
    BY <1>2
       DEF Connect, NoClient, PingAnswers, PingFails, CloseStore, reviewVars, ActiveApprovals,
           Authority!authorityVars
  <1>3. ASSUME NEW r \in Readers, LookupUnavailable(r) \/ QueryErrors(r)
        PROVE  Authority!Next
    <2>1. /\ Conclude(r, "unavailable") /\ UNCHANGED reviewVars
          /\ await[r] \in {"record", "pointer"}
      BY <1>3 DEF LookupUnavailable, QueryErrors
    <2>2. Authority!MayAnswer("unavailable")
      BY DEF Authority!MayAnswer
    <2> QED
      BY <2>1, <2>2, ReturnIsAnswer
  <1>4. ASSUME NEW r \in Readers, ReadRecord(r)
        PROVE  [Authority!Next]_(Authority!authorityVars)
    <2>1. await[r] = "record" /\ UNCHANGED reviewVars
      BY <1>4 DEF ReadRecord
    <2>2. CASE records = {} /\ Conclude(r, "none")
      <3>1. Authority!MayAnswer("none")
        BY <2>2 DEF ActiveApprovals, Authority!MayAnswer
      <3> QED
        BY <2>1, <2>2, <3>1, ReturnIsAnswer
    <2>3. CASE Conclude(r, "unavailable")
      <3>1. Authority!MayAnswer("unavailable")
        BY DEF Authority!MayAnswer
      <3> QED
        BY <2>1, <2>3, <3>1, ReturnIsAnswer
    <2>4. CASE UNCHANGED answer
      BY <2>1, <2>4 DEF reviewVars, ActiveApprovals, Authority!authorityVars
    <2> QED
      BY <1>4, <2>2, <2>3, <2>4 DEF ReadRecord
  <1>5. ASSUME NEW r \in Readers, ReadPointer(r) PROVE Authority!Next
    <2> DEFINE a == PointerVerdict(r)
    <2>1. /\ await[r] = "pointer" /\ Conclude(r, a) /\ UNCHANGED reviewVars
          /\ a \in Approvals \cup {"none", "unavailable"}
      BY <1>5, VerdictType DEF ReadPointer
    <2>2. Authority!MayAnswer(a)
      <3>1. record[r] \in records \cap Approvals
        BY <2>1 DEF LookupInv, KeptRecordStays
      <3>2. CASE pointer = Missing
        <4>1. ActiveApprovals = {}
          BY <3>2, DistinctAssumption DEF ActiveApprovals, Pointer, States
        <4>2. a = "none"
          BY <3>2 DEF PointerVerdict
        <4> QED
          BY <4>1, <4>2 DEF Authority!MayAnswer
      <3>3. CASE pointer = Damaged
        <4>1. a = "unavailable"
          BY <3>3, DistinctAssumption DEF PointerVerdict
        <4> QED
          BY <4>1 DEF Authority!MayAnswer
      <3>4. CASE pointer \in Pointer
        <4>1. a \in {"unavailable", "none", record[r]}
          BY DEF PointerVerdict
        <4>2. ASSUME a = "none", a # record[r] PROVE ActiveApprovals = {}
          BY <3>4, <4>2, DistinctAssumption DEF PointerVerdict, ActiveApprovals
        <4>3. ASSUME a = record[r] PROVE a \in ActiveApprovals
          <5>1. pointer.state = "active" /\ pointer.binds = record[r]
            BY <3>1, <3>4, <4>3, DistinctAssumption DEF PointerVerdict
          <5>2. pointer = [state |-> "active", binds |-> record[r]]
            BY <3>4, <5>1 DEF Pointer
          <5> QED
            BY <3>1, <4>3, <5>2 DEF ActiveApprovals
        <4> QED
          BY <4>1, <4>2, <4>3 DEF Authority!MayAnswer
      <3> QED
        BY <3>2, <3>3, <3>4 DEF LookupInv, LookupTypeOK
    <2> QED
      BY <2>1, <2>2, ReturnIsAnswer
  <1>6. ASSUME UNCHANGED lookupVars PROVE UNCHANGED Authority!authorityVars
    BY <1>6 DEF lookupVars, ActiveApprovals, Authority!authorityVars
  <1> QED
    BY <1>1, <1>2, <1>3, <1>4, <1>5, <1>6 DEF LookupNext

\* The lookup of generate-v3 and prepare-v3 is atomic: it implements an
\* authority that is asked at one instant, whatever is written between its
\* two reads.
THEOREM LookupIsAtomic == LookupSpec => ImplementsApprovalAuthority
  <1>1. LookupInit => Authority!Init
    BY DEF LookupInit, ActiveApprovals, Authority!Init
  <1> QED
    BY <1>1, LookupInvariant, LookupRefines, PTL
       DEF LookupSpec, ImplementsApprovalAuthority, Authority!Spec

-----------------------------------------------------------------------------
(* Part 3.  The evidence pack: a writer whose document is at a path        *)
(* completed it first and has reported it, and nothing is reported before  *)
(* the commit; with that every call is a step of AtomicPublish or changes  *)
(* nothing it can see.                                                     *)

BeforeCommit == {"check", "create", "fill", "recheck", "commit"}

\* A result is reached once, and only a complete document is committed.
StepShape ==
    \A w \in Writers :
        /\ step[w] \in BeforeCommit => result[w] = "none"
        /\ step[w] \in {"recheck", "commit"} => inode[w] = "complete"
        /\ step[w] = "recheck" => w \notin Overwriting

\* A document at a path is complete, its writer's own and reported.
PublishedIsReported ==
    \A w \in Writers : \A p \in Paths :
        file[p] = w => Dest[w] = p /\ inode[w] = "complete" /\ result[w] = "written"

\* What was written is there until an overwriting writer replaces it.
WrittenStays ==
    \A w \in Writers :
        result[w] = "written" => file[Dest[w]] = w \/ file[Dest[w]] \in Overwriting

CommitInv ==
    /\ CommitTypeOK
    /\ StepShape
    /\ PublishedIsReported
    /\ WrittenStays

-----------------------------------------------------------------------------
(* Before the first call no document is published and no result reached.   *)
LEMMA InitEstablishesCommitInv == CommitInit => CommitInv
<1> SUFFICES ASSUME CommitInit PROVE CommitInv
  OBVIOUS
<1>1. CommitTypeOK
  BY DEF CommitInit, CommitTypeOK, Steps
<1>2. StepShape /\ WrittenStays
  BY DEF CommitInit, StepShape, WrittenStays
<1>3. PublishedIsReported
  BY PublishAssumption DEF CommitInit, PublishedIsReported
<1> QED
  BY <1>1, <1>2, <1>3 DEF CommitInv

(* Every call of every writer, and every kill, keeps the invariant.        *)
LEMMA NextPreservesCommitInv == CommitInv /\ [CommitNext]_commitVars => CommitInv'
<1> SUFFICES ASSUME CommitInv, [CommitNext]_commitVars PROVE CommitInv'
  OBVIOUS
<1> USE PublishAssumption DEF PublishAssumption
<1>1. ASSUME NEW w \in Writers, Check(w) PROVE CommitInv'
  <2>1. CommitTypeOK'
    BY <1>1 DEF CommitInv, CommitTypeOK, Steps, Check, StepTo, Settle
  <2>2. StepShape'
    BY <1>1 DEF CommitInv, CommitTypeOK, StepShape, BeforeCommit, Check, StepTo, Settle
  <2>3. PublishedIsReported'
    BY <1>1 DEF CommitInv, CommitTypeOK, StepShape, PublishedIsReported, BeforeCommit,
       Check, Settle
  <2>4. WrittenStays'
    BY <1>1 DEF CommitInv, CommitTypeOK, WrittenStays, Check, Settle
  <2> QED
    BY <2>1, <2>2, <2>3, <2>4 DEF CommitInv
<1>2. ASSUME NEW w \in Writers, Create(w) PROVE CommitInv'
  <2>1. CommitTypeOK'
    BY <1>2 DEF CommitInv, CommitTypeOK, Steps, Create, StepTo, Settle
  <2>2. StepShape'
    BY <1>2 DEF CommitInv, CommitTypeOK, StepShape, BeforeCommit, Create, StepTo, Settle
  <2>3. PublishedIsReported'
    BY <1>2 DEF CommitInv, CommitTypeOK, StepShape, PublishedIsReported, BeforeCommit,
       Create, Settle
  <2>4. WrittenStays'
    BY <1>2 DEF CommitInv, CommitTypeOK, WrittenStays, Create, Settle
  <2> QED
    BY <2>1, <2>2, <2>3, <2>4 DEF CommitInv
<1>3. ASSUME NEW w \in Writers, Fill(w) PROVE CommitInv'
  <2>1. CommitTypeOK'
    BY <1>3 DEF CommitInv, CommitTypeOK, Steps, Fill, StepTo, Settle
  <2>2. StepShape'
    BY <1>3 DEF CommitInv, CommitTypeOK, StepShape, BeforeCommit, Fill, StepTo, Settle
  <2>3. PublishedIsReported'
    BY <1>3 DEF CommitInv, CommitTypeOK, StepShape, PublishedIsReported, BeforeCommit,
       Fill, Settle
  <2>4. WrittenStays'
    BY <1>3 DEF CommitInv, CommitTypeOK, WrittenStays, Fill, Settle
  <2> QED
    BY <2>1, <2>2, <2>3, <2>4 DEF CommitInv
<1>4. ASSUME NEW w \in Writers, Recheck(w) PROVE CommitInv'
  <2>1. CommitTypeOK'
    BY <1>4 DEF CommitInv, CommitTypeOK, Steps, Recheck, StepTo, Settle
  <2>2. StepShape'
    BY <1>4 DEF CommitInv, CommitTypeOK, StepShape, BeforeCommit, Recheck, StepTo, Settle
  <2>3. PublishedIsReported'
    BY <1>4 DEF CommitInv, CommitTypeOK, StepShape, PublishedIsReported, BeforeCommit,
       Recheck, Settle
  <2>4. WrittenStays'
    BY <1>4 DEF CommitInv, CommitTypeOK, WrittenStays, Recheck, Settle
  <2> QED
    BY <2>1, <2>2, <2>3, <2>4 DEF CommitInv
<1>5. ASSUME NEW w \in Writers, Commit(w) PROVE CommitInv'
  <2>1. CommitTypeOK'
    BY <1>5 DEF CommitInv, CommitTypeOK, Steps, Commit, StepTo, Replace, Link, Settle
  <2>2. StepShape'
    BY <1>5 DEF CommitInv, CommitTypeOK, StepShape, BeforeCommit, Commit, StepTo, Replace,
       Link, Settle
  <2>3. PublishedIsReported'
    BY <1>5 DEF CommitInv, CommitTypeOK, StepShape, PublishedIsReported, BeforeCommit,
       Commit, Replace, Link, Settle
  <2>4. WrittenStays'
    BY <1>5 DEF CommitInv, CommitTypeOK, WrittenStays, Commit, Replace, Link, Settle,
       Exists
  <2> QED
    BY <2>1, <2>2, <2>3, <2>4 DEF CommitInv
<1>6. ASSUME NEW w \in Writers, Unlink(w) PROVE CommitInv'
  <2>1. CommitTypeOK'
    BY <1>6 DEF CommitInv, CommitTypeOK, Steps, Unlink, StepTo
  <2>2. StepShape'
    BY <1>6 DEF CommitInv, StepShape, BeforeCommit, Unlink, StepTo
  <2>3. PublishedIsReported'
    BY <1>6 DEF CommitInv, PublishedIsReported, Unlink
  <2>4. WrittenStays'
    BY <1>6 DEF CommitInv, WrittenStays, Unlink
  <2> QED
    BY <2>1, <2>2, <2>3, <2>4 DEF CommitInv
<1>7. ASSUME NEW w \in Writers, Kill(w) PROVE CommitInv'
  <2>1. CommitTypeOK'
    BY <1>7 DEF CommitInv, CommitTypeOK, Steps, Kill, StepTo
  <2>2. StepShape'
    BY <1>7 DEF CommitInv, StepShape, BeforeCommit, Kill, StepTo
  <2>3. PublishedIsReported'
    BY <1>7 DEF CommitInv, PublishedIsReported, Kill
  <2>4. WrittenStays'
    BY <1>7 DEF CommitInv, WrittenStays, Kill
  <2> QED
    BY <2>1, <2>2, <2>3, <2>4 DEF CommitInv
<1>8. CASE UNCHANGED commitVars
  BY <1>8 DEF CommitInv, CommitTypeOK, StepShape, PublishedIsReported, WrittenStays, commitVars
<1> QED
  BY <1>1, <1>2, <1>3, <1>4, <1>5, <1>6, <1>7, <1>8 DEF CommitNext

(* A call that changes nothing outside leaves the abstract state alone, and *)
(* the others are Publish, Refuse or Fail of the same writer.               *)
LEMMA CommitRefines == CommitInv /\ [CommitNext]_commitVars => [Publisher!Next]_(Publisher!publishVars)
<1> SUFFICES ASSUME CommitInv, [CommitNext]_commitVars
             PROVE [Publisher!Next]_(Publisher!publishVars)
  OBVIOUS
<1> USE DEF Publisher!publishVars
<1>1. ASSUME NEW w \in Writers, Check(w) PROVE [Publisher!Next]_(Publisher!publishVars)
  BY <1>1 DEF Check, Exists, Settle, CommitInv, StepShape, BeforeCommit,
     Publisher!Next, Publisher!Refuse, Publisher!Answer
<1>2. ASSUME NEW w \in Writers, Create(w) PROVE [Publisher!Next]_(Publisher!publishVars)
  BY <1>2 DEF Create, Settle, CommitInv, StepShape, BeforeCommit, Publisher!Next,
     Publisher!Fail, Publisher!Answer
<1>3. ASSUME NEW w \in Writers, Fill(w) PROVE [Publisher!Next]_(Publisher!publishVars)
  BY <1>3 DEF Fill, Settle, CommitInv, StepShape, BeforeCommit, Publisher!Next,
     Publisher!Fail, Publisher!Answer
<1>4. ASSUME NEW w \in Writers, Recheck(w) PROVE [Publisher!Next]_(Publisher!publishVars)
  BY <1>4 DEF Recheck, Exists, Settle, CommitInv, StepShape, BeforeCommit,
     Publisher!Next, Publisher!Refuse, Publisher!Answer
<1>5. ASSUME NEW w \in Writers, Commit(w) PROVE [Publisher!Next]_(Publisher!publishVars)
  <2>1. result[w] = "none"
    BY <1>5 DEF Commit, CommitInv, StepShape, BeforeCommit
  <2>2. CASE w \in Overwriting /\ Replace(w)
    BY <2>1, <2>2 DEF Replace, Settle, Publisher!Next, Publisher!Publish,
       Publisher!Answer
  <2>3. CASE w \notin Overwriting /\ Link(w)
    BY <2>1, <2>3 DEF Link, Exists, Settle, Publisher!Next,
       Publisher!Publish, Publisher!Refuse, Publisher!Answer
  <2>4. CASE Settle(w, "error") /\ UNCHANGED <<file, temp>>
    BY <2>1, <2>4 DEF Settle, Publisher!Next, Publisher!Fail,
       Publisher!Answer
  <2> QED
    BY <1>5, <2>2, <2>3, <2>4 DEF Commit
<1>6. ASSUME NEW w \in Writers, Unlink(w) \/ Kill(w)
      PROVE [Publisher!Next]_(Publisher!publishVars)
  BY <1>6 DEF Unlink, Kill
<1>7. CASE UNCHANGED commitVars
  BY <1>7 DEF commitVars
<1> QED
  BY <1>1, <1>2, <1>3, <1>4, <1>5, <1>6, <1>7 DEF CommitNext

-----------------------------------------------------------------------------
(* The strengthened invariant holds of every behaviour.                    *)
THEOREM CommitInvariant == CommitSpec => []CommitInv
<1> QED
  BY InitEstablishesCommitInv, NextPreservesCommitInv, PTL DEF CommitSpec

(* Every variable keeps its domain.                                        *)
THEOREM CommitTypeCorrect == CommitSpec => []CommitTypeOK
<1>1. CommitInv => CommitTypeOK
  BY DEF CommitInv
<1> QED
  BY <1>1, CommitInvariant, PTL

(* No path ever names a half-written document, whoever is killed when.     *)
THEOREM DocumentsAreWhole == CommitSpec => []NoPartialDocument
<1>1. CommitInv => NoPartialDocument
  BY DEF CommitInv, PublishedIsReported, NoPartialDocument
<1> QED
  BY <1>1, CommitInvariant, PTL

(* A writer's result says what the disk says.                              *)
THEOREM ResultsAreTrue == CommitSpec => []ResultMatchesDisk
<1>1. ASSUME CommitInv, NEW w \in Writers, result[w] # "written" PROVE file[Dest[w]] # w
  BY <1>1, PublishAssumption DEF CommitInv, PublishedIsReported
<1>2. ASSUME CommitInv, NEW w \in Writers, result[w] = "written"
      PROVE file[Dest[w]] = w \/ file[Dest[w]] \in Overwriting
  BY <1>2 DEF CommitInv, WrittenStays
<1>3. CommitInv => ResultMatchesDisk
  BY <1>1, <1>2 DEF ResultMatchesDisk
<1> QED
  BY <1>3, CommitInvariant, PTL

(* A file is replaced by a writer with --overwrite or not at all, however  *)
(* stale the existence checks are.                                         *)
THEOREM FilesAreKept == CommitSpec => NoUnauthorizedOverwrite
<1>1. CommitInv /\ [CommitNext]_commitVars =>
        [\A p \in Paths :
            file[p] # Absent /\ file'[p] # file[p] => file'[p] \in Overwriting]_commitVars
  <2> SUFFICES ASSUME CommitInv, CommitNext, NEW p \in Paths, file[p] # Absent, file'[p] # file[p]
               PROVE file'[p] \in Overwriting
    OBVIOUS
  <2>1. PICK w \in Writers : Commit(w)
    BY DEF CommitNext, Check, Create, Fill, Recheck, Unlink, Kill
  <2> QED
    BY <2>1 DEF Commit, Replace, Link, Exists, CommitInv, CommitTypeOK
<1> QED
  BY <1>1, CommitInvariant, PTL DEF CommitSpec, NoUnauthorizedOverwrite

(* The procedure implements an atomic publication.                         *)
THEOREM CommitImplementsPublish == CommitSpec => ImplementsAtomicPublish
<1>1. CommitInit => Publisher!Init
  BY DEF CommitInit, Publisher!Init
<1> QED
  BY <1>1, CommitRefines, CommitInvariant, PTL DEF CommitSpec,
     ImplementsAtomicPublish, Publisher!Spec

-----------------------------------------------------------------------------
(* Part 4.  The report: one announced by an exit status is the content of  *)
(* the path unless several runs had the file open at once, and no run      *)
(* without --overwrite touches a file that is at rest.                     *)

\* The first k blocks of w's report.
Begun(w, k) == [i \in 1..k |-> w]

\* Nothing is written before the file is there and open, and only its last opener or
\* runs that share it write to it.
OneWriter ==
    /\ \A w \in Runs : pc[w] = "write" => exists
    /\ \A w \in Runs : pc[w] \in {"check", "open"} => offset[w] = 0
    /\ \A w \in Runs : owner = w => pc[w] \in {"write", "ended"}
    /\ \A w \in Runs \ shared : pc[w] = "write" => owner = w
    /\ \A w \in Runs \ shared, u \in Runs :
        owner = w /\ pc[u] = "write" => u = w

\* What a run that has the file to itself has written so far is what it holds.
OwnWork ==
    \A w \in Runs \ shared :
        owner = w /\ pc[w] = "write" => content = Begun(w, offset[w])

\* The invariant: ReportedIsOnDisk, how far an undisturbed run has got, and
\* who may still disturb it.
ReportInv == ReportTypeOK /\ OneWriter /\ OwnWork /\ ReportedIsOnDisk

(* A block put behind the last one extends the report by one.              *)
LEMMA NextBlock ==
  ASSUME NEW w \in Runs, offset[w] \in Nat, content = Begun(w, offset[w])
  PROVE  Written(w) = Begun(w, offset[w] + 1)
<1>1. content = [i \in 1..offset[w] |-> w]
  BY DEF Begun
<1>2. Len(content) = offset[w]
  BY <1>1
<1>3. \A i \in 1..offset[w] : content[i] = w
  BY <1>1
<1>4. Written(w) = [i \in 1..(offset[w] + 1) |->
                      IF i = offset[w] + 1 THEN w
                      ELSE IF i <= Len(content) THEN content[i] ELSE Nul]
  BY <1>2 DEF Written
<1>5. \A i \in 1..(offset[w] + 1) :
        (IF i = offset[w] + 1 THEN w
         ELSE IF i <= Len(content) THEN content[i] ELSE Nul) = w
  BY <1>2, <1>3
<1> QED
  BY <1>4, <1>5 DEF Begun

(* Writing keeps the file a sequence of blocks.                            *)
LEMMA WrittenIsASequence ==
  ASSUME ReportTypeOK, NEW w \in Runs
  PROVE  Written(w) \in Seq(Runs \cup {Elsewhere, Nul})
<1> DEFINE n == IF offset[w] + 1 > Len(content) THEN offset[w] + 1 ELSE Len(content)
<1>1. n \in Nat /\ Len(content) \in Nat
  BY ReportAssumption DEF ReportTypeOK
<1>2. \A i \in 1..Len(content) : content[i] \in Runs \cup {Elsewhere, Nul}
  BY DEF ReportTypeOK
<1>3. Written(w) = [i \in 1..n |->
        IF i = offset[w] + 1 THEN w ELSE IF i <= Len(content) THEN content[i] ELSE Nul]
  BY DEF Written
<1> HIDE DEF n
<1>4. Written(w) \in [1..n -> Runs \cup {Elsewhere, Nul}]
  BY <1>1, <1>2, <1>3
<1> QED
  BY <1>1, <1>4

(* The invariant holds when the runs start.                                *)
LEMMA InitEstablishesReportInv == ReportInit => ReportInv
<1> SUFFICES ASSUME ReportInit PROVE ReportInv
  OBVIOUS
<1>1. ReportTypeOK
  <2>1. content \in Seq(Runs \cup {Elsewhere, Nul}) /\ (exists \/ content = <<>>)
    <3>1. CASE exists = FALSE /\ content = <<>>
      BY <3>1
    <3>2. CASE exists = TRUE /\ content = <<Elsewhere>>
      <4>1. <<Elsewhere>> \in Seq(Runs \cup {Elsewhere, Nul})
        OBVIOUS
      <4> QED
        BY <3>2, <4>1
    <3> QED
      BY <3>1, <3>2 DEF ReportInit
  <2>2. exists \in BOOLEAN
    BY DEF ReportInit
  <2> QED
    BY <2>1, <2>2, ReportAssumption DEF ReportInit, ReportTypeOK
<1>2. OneWriter /\ OwnWork /\ ReportedIsOnDisk
  BY ReportAssumption DEF ReportInit, OneWriter, OwnWork, ReportedIsOnDisk
<1> QED
  BY <1>1, <1>2 DEF ReportInv

(* A run that ends, or goes on to open the file, changes nothing in it.    *)
LEMMA MovingOn ==
  ASSUME ReportInv, NEW w \in Runs,
         UNCHANGED <<exists, content, offset, historyVars>>,
         \/ pc[w] # "ended" /\ \E code \in {"1", "4", "killed"} : Exit(w, code)
         \/ pc[w] = "check" /\ Proceed(w, "open") /\ UNCHANGED exit
  PROVE  ReportInv'
<1>1. ReportTypeOK'
  BY DEF ReportInv, ReportTypeOK, Exit, Proceed, historyVars
<1>2. OneWriter'
  BY DEF ReportInv, OneWriter, ReportTypeOK, Exit, Proceed, historyVars
<1>3. OwnWork' /\ ReportedIsOnDisk'
  BY DEF ReportInv, OwnWork, ReportedIsOnDisk, ReportTypeOK, Exit, Proceed, historyVars
<1> QED
  BY <1>1, <1>2, <1>3 DEF ReportInv

(* Every step keeps the invariant.                                         *)
LEMMA NextPreservesReportInv == ReportInv /\ [ReportNext]_reportVars => ReportInv'
<1> SUFFICES ASSUME ReportInv, [ReportNext]_reportVars PROVE ReportInv'
  OBVIOUS
<1>1. CASE UNCHANGED reportVars
  BY <1>1 DEF reportVars, ReportInv, ReportTypeOK, OneWriter, OwnWork, ReportedIsOnDisk
<1>2. ASSUME NEW w \in Runs, CheckPath(w) PROVE ReportInv'
  <2>1. CASE exists /\ w \notin OverwritingRuns
    BY <1>2, <2>1, MovingOn DEF CheckPath
  <2>2. CASE ~(exists /\ w \notin OverwritingRuns)
    BY <1>2, <2>2, MovingOn DEF CheckPath
  <2> QED
    BY <2>1, <2>2
<1>3. ASSUME NEW w \in Runs, Open(w) PROVE ReportInv'
  <2>1. CASE Exit(w, "1") /\ UNCHANGED <<exists, content, historyVars>>
    BY <1>3, <2>1, MovingOn DEF Open
  <2>2. CASE exists' = TRUE /\ content' = <<>> /\ Proceed(w, "write") /\ Opened(w)
             /\ UNCHANGED exit
    <3> DEFINE writing == {u \in Runs : pc[u] = "write"}
    <3>1. pc[w] = "open" /\ UNCHANGED offset /\ owner' = w
          /\ shared' = shared \cup IF writing = {} THEN {} ELSE writing \cup {w}
      BY <1>3, <2>2 DEF Open, Opened
    <3>2. ReportTypeOK'
      BY <2>2, <3>1 DEF ReportInv, ReportTypeOK, Proceed
    <3>3. \A u \in Runs : pc'[u] = IF u = w THEN "write" ELSE pc[u]
      BY <2>2 DEF ReportInv, ReportTypeOK, Proceed
    <3>4. \A u \in writing : u \in shared' /\ w \in shared'
      BY <3>1
    <3>5. OneWriter'
      BY <2>2, <3>1, <3>3, <3>4 DEF ReportInv, OneWriter
    <3>6. OwnWork'
      <4>1. offset'[w] = 0
        BY <3>1 DEF ReportInv, OneWriter
      <4> QED
        BY <2>2, <3>1, <4>1 DEF OwnWork, Begun
    <3>7. ReportedIsOnDisk'
      BY <2>2, <3>1 DEF ReportInv, ReportTypeOK, ReportedIsOnDisk
    <3> QED
      BY <3>2, <3>5, <3>6, <3>7 DEF ReportInv
  <2> QED
    BY <1>3, <2>1, <2>2 DEF Open
<1>4. ASSUME NEW w \in Runs, Write(w) PROVE ReportInv'
  <2>1. pc[w] = "write" /\ offset[w] < Blocks[w] /\ content' = Written(w)
        /\ UNCHANGED <<exists, pc, exit, owner, shared>>
        /\ offset' = [offset EXCEPT ![w] = @ + 1]
    BY <1>4 DEF Write, historyVars
  <2>2. ReportTypeOK'
    <3>1. exists /\ exists'
      BY <2>1 DEF ReportInv, OneWriter
    <3>2. ReportTypeOK
      BY DEF ReportInv
    <3>3. content' \in Seq(Runs \cup {Elsewhere, Nul})
      BY <2>1, <3>2, WrittenIsASequence
    <3>4. offset' \in [Runs -> Nat]
      BY <2>1, <3>2 DEF ReportTypeOK
    <3>5. \A u \in Runs : offset'[u] <= Blocks[u]
      <4>1. offset[w] \in Nat /\ Blocks[w] \in Nat
        BY <3>2, ReportAssumption DEF ReportTypeOK
      <4>2. offset'[w] = offset[w] + 1 /\ \A u \in Runs \ {w} : offset'[u] = offset[u]
        BY <2>1, <3>2 DEF ReportTypeOK
      <4>3. offset'[w] <= Blocks[w]
        BY <2>1, <4>1, <4>2
      <4> QED
        BY <3>2, <4>2, <4>3 DEF ReportTypeOK
    <3> QED
      BY <2>1, <3>1, <3>2, <3>3, <3>4, <3>5 DEF ReportTypeOK
  <2>3. OneWriter'
    BY <2>1 DEF ReportInv, OneWriter
  <2>4. OwnWork'
    <3> SUFFICES ASSUME NEW u \in Runs \ shared, owner = u, pc[u] = "write"
                 PROVE  content' = Begun(u, offset'[u])
      BY <2>1 DEF OwnWork
    <3>1. u = w
      BY <2>1 DEF ReportInv, OneWriter
    <3>2. content = Begun(w, offset[w]) /\ offset[w] \in Nat
      BY <3>1 DEF ReportInv, OwnWork, ReportTypeOK
    <3>3. offset'[w] = offset[w] + 1
      BY <2>1 DEF ReportInv, ReportTypeOK
    <3> QED
      BY <2>1, <3>1, <3>2, <3>3, NextBlock
  <2>5. ReportedIsOnDisk'
    BY <2>1 DEF ReportInv, ReportTypeOK, OneWriter, ReportedIsOnDisk
  <2> QED
    BY <2>2, <2>3, <2>4, <2>5 DEF ReportInv
<1>5. ASSUME NEW w \in Runs, Finish(w) PROVE ReportInv'
  <2>1. PICK code \in {"0", "2", "3"} : Exit(w, code)
    BY <1>5 DEF Finish
  <2>2. pc[w] = "write" /\ offset[w] = Blocks[w]
        /\ UNCHANGED <<exists, content, offset, owner, shared>>
    BY <1>5 DEF Finish, historyVars
  <2>3. ReportTypeOK'
    BY <2>1, <2>2 DEF ReportInv, ReportTypeOK, Exit, Proceed
  <2>4. OneWriter' /\ OwnWork'
    BY <2>1, <2>2 DEF ReportInv, OneWriter, OwnWork, ReportTypeOK, Exit, Proceed
  <2>5. ReportedIsOnDisk'
    BY <2>1, <2>2 DEF ReportInv, OwnWork, ReportedIsOnDisk, ReportTypeOK, Exit, Whole, Begun
  <2> QED
    BY <2>3, <2>4, <2>5 DEF ReportInv
<1>6. ASSUME NEW w \in Runs, Fail(w) \/ KillRun(w) PROVE ReportInv'
  BY <1>6, MovingOn DEF Fail, KillRun
<1> QED
  BY <1>1, <1>2, <1>3, <1>4, <1>5, <1>6 DEF ReportNext, Step

-----------------------------------------------------------------------------
(* The strengthened invariant holds of every behaviour.                    *)
THEOREM ReportInvariant == ReportSpec => []ReportInv
<1> QED
  BY InitEstablishesReportInv, NextPreservesReportInv, PTL DEF ReportSpec

(* Every variable keeps its domain.                                        *)
THEOREM ReportTypeCorrect == ReportSpec => []ReportTypeOK
<1>1. ReportInv => ReportTypeOK
  BY DEF ReportInv
<1> QED
  BY <1>1, ReportInvariant, PTL

(* An announced report is the content of the path, whichever runs wrote    *)
(* before it.                                                              *)
THEOREM ReportsAreOnDisk == ReportSpec => []ReportedIsOnDisk
<1>1. ReportInv => ReportedIsOnDisk
  BY DEF ReportInv
<1> QED
  BY <1>1, ReportInvariant, PTL

(* A file at rest is left alone by every run without --overwrite, however  *)
(* old its existence check is.                                             *)
THEOREM FilesAtRestStay == ReportSpec => NoSilentOverwrite
<1>1. ReportInv /\ [ReportNext]_reportVars =>
        [exists /\ (\A u \in Runs : pc[u] # "write") /\ content' # content
           => \E u \in OverwritingRuns : pc[u] = "open" /\ pc'[u] = "write"]_reportVars
  <2> SUFFICES ASSUME ReportInv, ReportNext, exists, \A u \in Runs : pc[u] # "write",
                      content' # content
               PROVE  \E u \in OverwritingRuns : pc[u] = "open" /\ pc'[u] = "write"
    OBVIOUS
  <2>1. PICK w \in Runs : Open(w)
    BY DEF ReportNext, Step, CheckPath, Write, Finish, Fail, KillRun
  <2>2. w \in OverwritingRuns /\ pc[w] = "open" /\ Proceed(w, "write")
    BY <2>1 DEF Open
  <2> QED
    BY <2>2 DEF ReportInv, ReportTypeOK, Proceed
<1> QED
  BY <1>1, ReportInvariant, PTL DEF ReportSpec, NoSilentOverwrite
=============================================================================
