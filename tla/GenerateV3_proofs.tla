------------------------- MODULE GenerateV3_proofs --------------------------
(***************************************************************************)
(* Proofs about GenerateV3, for any number of runs, any retries up to the  *)
(* limit, any payloads and any assignment of output paths: its invariants. *)
(***************************************************************************)
EXTENDS GenerateV3, TLAPS

-----------------------------------------------------------------------------
(* The inductive invariant.                                                *)

BeforeCalls == {"preflight", "handoff", "approval"}
Calling == {"call", "answer", "backoff"}
BeforeWrite == BeforeCalls \cup Calling \cup {"save", "close", "write"}

\* How the attempt counter, the proxy's count and the candidate go together
\* at each place of a run.
CountsInStep ==
    \A r \in Runs :
        /\ attempt[r] <= Retries[r] + 1 /\ calls[r] <= attempt[r]
        /\ pc[r] \in BeforeCalls => attempt[r] = 1 /\ calls[r] = 0
        /\ pc[r] = "call" => calls[r] = attempt[r] - 1
        /\ pc[r] \in {"answer", "backoff", "save"} => calls[r] = attempt[r]
        /\ pc[r] = "backoff" => attempt[r] <= Retries[r]

\* A run has a candidate from its last answer on, and a pack once it has
\* been blocked or its save has returned.
ProductsInStep ==
    \A r \in Runs :
        /\ pc[r] \in BeforeCalls \cup Calling => cand[r] = NoCandidate
        /\ pc[r] \in BeforeCalls \cup Calling \cup {"save"} => pack[r] = NoPack
        /\ pc[r] \in {"write", "export"} => pack[r] # NoPack
        /\ pc[r] = "export" => MustExport(r)
        /\ cand[r] # NoCandidate => cand[r].attempt = calls[r]
        /\ pack[r] # NoPack => pack[r].calls = calls[r]

\* A stale run has lost what one of the gates still ahead of it looks for.
StaleIsCaught ==
    \A r \in Runs : stale[r] =>
        /\ live # Evidence
        /\ pc[r] = "approval" => "approval" \notin live
        /\ pc[r] \notin Calling \cup {"save"}
        /\ calls[r] = 0

\* What the collection knows of the runs.
StoreAgrees ==
    /\ \A r \in applied : cand[r] # NoCandidate
    /\ Store!OutcomeHonest

\* A pack records the candidate and the outcome of its run.
PackAgrees ==
    \A r \in Runs : pack[r] # NoPack =>
        /\ pack[r].stage \in {"candidateStored", "evidenceComplete"} =>
             /\ pack[r].store \in {"stored", "duplicate"}
             /\ pack[r].cand = cand[r]
             /\ pack[r].static = StaticStatus(cand[r].sql)
        /\ pack[r].stage = "evidenceComplete" => cand[r].sql \in PassingSqls
        /\ pack[r].store # "none" => pack[r].store = outcome[r] /\ cand[r] # NoCandidate
        /\ pack[r].repository = "verified" <=> calls[r] > 0

\* The writes of a run happen in order, and its exit status follows them.
WritesInOrder ==
    \A r \in Runs :
        /\ pc[r] \in BeforeWrite => result[PackFile(r)] = "none"
        /\ pc[r] = "export" => result[PackFile(r)] = "written"
        /\ r \in Exporting =>
             /\ pc[r] \in BeforeWrite \cup {"export"} => result[ExportFile(r)] = "none"
             /\ result[ExportFile(r)] # "none" => result[PackFile(r)] = "written"
        /\ exit[r] # "none" => pc[r] = "exited"

\* A published document is at its path, or was replaced with --overwrite.
PublishedStays ==
    \A w \in Writers : result[w] = "written" =>
        file[Dest[w]] = w \/ file[Dest[w]] \in Overwriting

IInv ==
    /\ TypeOK
    /\ CountsInStep
    /\ ProductsInStep
    /\ StaleIsCaught
    /\ StoreAgrees
    /\ PackAgrees
    /\ WritesInOrder
    /\ PublishedStays
    /\ ExitBacked

-----------------------------------------------------------------------------

\* Every file of a run has a path to go to.
LEMMA DestInPaths == \A w \in Writers : Dest[w] \in Paths
  BY RunAssumption DEF Dest, Writers, PackFile, ExportFile

\* No two files of the runs are one, and each is somebody's to write.
LEMMA WritersDistinct ==
  /\ \A r \in Runs : PackFile(r) \in Writers
  /\ \A r \in Exporting : ExportFile(r) \in Writers
  /\ \A q, r \in Runs : PackFile(q) # ExportFile(r)
  /\ \A q, r \in Runs : PackFile(q) = PackFile(r) \/ ExportFile(q) = ExportFile(r) => q = r
  BY DEF PackFile, ExportFile, Writers

\* Publishing replaces a document only with --overwrite.
LEMMA PublishKeepsPublished ==
  ASSUME NEW w \in Writers, Disk!Publish(w), PublishedStays, Disk!PublishTypeOK
  PROVE  PublishedStays'
  <1> SUFFICES ASSUME NEW v \in Writers, result'[v] = "written"
               PROVE  file'[Dest[v]] = v \/ file'[Dest[v]] \in Overwriting
    BY DEF PublishedStays
  <1>1. Dest[v] \in Paths /\ Dest[w] \in Paths
    BY DestInPaths
  <1>2. file' = [file EXCEPT ![Dest[w]] = w] /\ (w \in Overwriting \/ file[Dest[w]] = Absent)
    BY DEF Disk!Publish
  <1>3. CASE v = w
    BY <1>1, <1>2, <1>3 DEF Disk!PublishTypeOK
  <1>4. CASE v # w
    <2>1. file[Dest[v]] = v \/ file[Dest[v]] \in Overwriting
      BY <1>4 DEF PublishedStays, Disk!Publish, Disk!Answer
    <2>2. CASE Dest[v] = Dest[w]
      <3>1. file[Dest[w]] # Absent
        BY <2>1, <2>2, DiskAssumption DEF Overwriting
      <3> QED BY <1>1, <1>2, <2>2, <3>1 DEF Disk!PublishTypeOK
    <2>3. CASE Dest[v] # Dest[w]
      BY <1>2, <2>1, <2>3
    <2> QED BY <2>2, <2>3
  <1> QED BY <1>3, <1>4
-----------------------------------------------------------------------------

\* No run has begun: nothing is written, counted or stored.
LEMMA InitEstablishesIInv == Init => IInv
  <1> SUFFICES ASSUME Init PROVE IInv
    OBVIOUS
  <1>1. TypeOK
    BY DEF Init, TypeOK, Labels, Store!Init, Store!StoreTypeOK, Disk!Init,
       Disk!PublishTypeOK
  <1>2. CountsInStep
    BY RunAssumption DEF Init, CountsInStep
  <1>3. ProductsInStep
    BY DEF Init, ProductsInStep, Store!Init
  <1>4. StaleIsCaught /\ ExitBacked
    BY DEF Init, StaleIsCaught, ExitBacked
  <1>5. StoreAgrees /\ PackAgrees
    BY DEF Init, StoreAgrees, PackAgrees, Store!Init, Store!OutcomeHonest
  <1>6. WritesInOrder /\ PublishedStays
    BY DEF Init, WritesInOrder, PublishedStays, Disk!Init, Writers
  <1> QED BY <1>1, <1>2, <1>3, <1>4, <1>5, <1>6 DEF IInv

\* Giving up with a blocked pack, at a gate or after the last answer.
LEMMA BlockPreservesIInv ==
  ASSUME IInv, NEW r \in Runs, NEW error, Block(r, error),
         pc[r] \in {"handoff", "approval", "answer"}
  PROVE  IInv'
  <1>1. TypeOK'
    BY DEF Block, RepositoryStatus, Goto, storeVars, diskVars, IInv, TypeOK,
       Store!StoreTypeOK, Disk!PublishTypeOK, Labels, Pack
  <1>2. CountsInStep'
    BY DEF Block, Goto, IInv, CountsInStep, BeforeCalls
  <1>3. ProductsInStep'
    BY DEF Block, Goto, storeVars, IInv, ProductsInStep, TypeOK, BeforeCalls,
       Calling, MustExport
  <1>4. StaleIsCaught'
    BY DEF Block, Goto, IInv, StaleIsCaught, Calling
  <1>5. PackAgrees'
    BY DEF Block, RepositoryStatus, Goto, storeVars, IInv, PackAgrees
  <1>6. WritesInOrder'
    BY DEF Block, Goto, diskVars, IInv, WritesInOrder, BeforeWrite,
       BeforeCalls, Calling
  <1>7. ExitBacked'
    BY DEF Block, Goto, storeVars, diskVars, IInv, ExitBacked, MustExport,
       WritesInOrder
  <1>8. (StoreAgrees /\ PublishedStays)'
    BY DEF Block, storeVars, diskVars, IInv, StoreAgrees, Store!OutcomeHonest,
       Store!Documents, PublishedStays
  <1> QED BY <1>1, <1>2, <1>3, <1>4, <1>5, <1>6, <1>7, <1>8 DEF IInv

\* Every step preserves the inductive invariant.
LEMMA NextPreservesIInv == ASSUME IInv, [Next]_vars PROVE IInv'
  <1>1. ASSUME NEW e \in Evidence, Withdraw(e) PROVE IInv'
    <2>1. TypeOK'
      BY <1>1 DEF Withdraw, runVars, storeVars, diskVars, IInv, TypeOK,
         Store!StoreTypeOK, Disk!PublishTypeOK
    <2>2. StaleIsCaught'
      BY <1>1 DEF Withdraw, runVars, IInv, StaleIsCaught
    <2>3. (/\ CountsInStep /\ ProductsInStep /\ StoreAgrees /\ PackAgrees
           /\ WritesInOrder /\ PublishedStays /\ ExitBacked)'
      BY <1>1 DEF Withdraw, runVars, storeVars, diskVars, IInv, CountsInStep,
         ProductsInStep, MustExport, StoreAgrees, Store!OutcomeHonest,
         Store!Documents, PackAgrees, WritesInOrder, PublishedStays,
         ExitBacked
    <2> QED BY <2>1, <2>2, <2>3 DEF IInv
  <1>2. ASSUME NEW r \in Runs, RejectLocally(r) PROVE IInv'
    <2>1. TypeOK'
      <3>1. PICK status \in {"blocked", "inconclusive", "wireConfigError"} : Exit(r, status)
        BY <1>2 DEF RejectLocally
      <3> QED
        BY <1>2 DEF RejectLocally, Exit, Goto, storeVars, diskVars, IInv,
           TypeOK, Labels, Store!StoreTypeOK, Disk!PublishTypeOK
    <2>2. CountsInStep'
      BY <1>2 DEF RejectLocally, Exit, Goto, IInv, CountsInStep, TypeOK,
         BeforeCalls
    <2>3. ProductsInStep'
      BY <1>2 DEF RejectLocally, Exit, Goto, storeVars, IInv, ProductsInStep,
         TypeOK, BeforeCalls, MustExport
    <2>4. StaleIsCaught'
      BY <1>2 DEF RejectLocally, Exit, Goto, IInv, StaleIsCaught, TypeOK,
         Calling
    <2>5. WritesInOrder'
      BY <1>2 DEF RejectLocally, Exit, Goto, diskVars, IInv, WritesInOrder,
         TypeOK, BeforeWrite, BeforeCalls
    <2>6. ExitBacked'
      BY <1>2 DEF RejectLocally, Exit, Goto, storeVars, diskVars, IInv,
         ExitBacked, TypeOK, MustExport, CountsInStep, BeforeCalls
    <2>7. (StoreAgrees /\ PackAgrees /\ PublishedStays)'
      BY <1>2 DEF RejectLocally, Exit, Goto, storeVars, diskVars, IInv,
         StoreAgrees, Store!OutcomeHonest, Store!Documents, PackAgrees,
         PublishedStays
    <2> QED BY <2>1, <2>2, <2>3, <2>4, <2>5, <2>6, <2>7 DEF IInv
  <1>3. ASSUME NEW r \in Runs, Start(r) PROVE IInv'
    <2>1. TypeOK'
      BY <1>3 DEF Start, Goto, storeVars, diskVars, IInv, TypeOK,
         Store!StoreTypeOK, Disk!PublishTypeOK, Labels
    <2>2. CountsInStep'
      BY <1>3 DEF Start, Goto, IInv, CountsInStep, BeforeCalls
    <2>3. ProductsInStep'
      BY <1>3 DEF Start, Goto, storeVars, IInv, ProductsInStep, BeforeCalls,
         MustExport
    <2>4. StaleIsCaught'
      BY <1>3 DEF Start, Goto, IInv, StaleIsCaught, TypeOK, Calling,
         CountsInStep, BeforeCalls
    <2>5. WritesInOrder'
      BY <1>3 DEF Start, Goto, diskVars, IInv, WritesInOrder, BeforeWrite,
         BeforeCalls
    <2>6. (StoreAgrees /\ PackAgrees /\ PublishedStays /\ ExitBacked)'
      BY <1>3 DEF Start, Goto, storeVars, diskVars, IInv, StoreAgrees,
         Store!OutcomeHonest, Store!Documents, PackAgrees, PublishedStays,
         ExitBacked, MustExport
    <2> QED BY <2>1, <2>2, <2>3, <2>4, <2>5, <2>6 DEF IInv
  <1>4. ASSUME NEW r \in Runs, OutOfScope(r) PROVE IInv'
    BY <1>4, BlockPreservesIInv DEF OutOfScope
  <1>5. ASSUME NEW r \in Runs, HandoffGate(r) PROVE IInv'
    <2>a. CASE FailGate(r, "handoff")
      BY <1>5, <2>a, BlockPreservesIInv DEF HandoffGate, FailGate
    <2>b. CASE pc[r] = "handoff" /\ PassGate(r, "handoff", "approval")
      <3>1. TypeOK'
        BY <2>b DEF PassGate, Goto, storeVars, diskVars, IInv, TypeOK,
           Store!StoreTypeOK, Disk!PublishTypeOK, Labels
      <3>2. CountsInStep'
        BY <2>b DEF PassGate, Goto, IInv, CountsInStep, BeforeCalls
      <3>3. ProductsInStep'
        BY <2>b DEF PassGate, Goto, storeVars, IInv, ProductsInStep,
           BeforeCalls, MustExport
      <3>4. StaleIsCaught'
        BY <2>b DEF PassGate, Goto, storeVars, diskVars, IInv, StaleIsCaught,
           TypeOK, Calling, Evidence
      <3>5. WritesInOrder'
        BY <2>b DEF PassGate, Goto, diskVars, IInv, WritesInOrder,
           BeforeWrite, BeforeCalls
      <3>6. (StoreAgrees /\ PackAgrees /\ PublishedStays /\ ExitBacked)'
        BY <2>b DEF PassGate, Goto, storeVars, diskVars, IInv, StoreAgrees,
           Store!OutcomeHonest, Store!Documents, PackAgrees, PublishedStays,
           ExitBacked, MustExport
      <3> QED BY <3>1, <3>2, <3>3, <3>4, <3>5, <3>6 DEF IInv
    <2> QED BY <1>5, <2>a, <2>b DEF HandoffGate
  <1>6. ASSUME NEW r \in Runs, ApprovalGate(r) PROVE IInv'
    <2>a. CASE FailGate(r, "approval")
      BY <1>6, <2>a, BlockPreservesIInv DEF ApprovalGate, FailGate
    <2>b. CASE pc[r] = "approval" /\ PassGate(r, "approval", "call")
      <3>1. TypeOK'
        BY <2>b DEF PassGate, Goto, storeVars, diskVars, IInv, TypeOK,
           Store!StoreTypeOK, Disk!PublishTypeOK, Labels
      <3>2. CountsInStep'
        BY <2>b DEF PassGate, Goto, IInv, CountsInStep, BeforeCalls
      <3>3. ProductsInStep'
        BY <2>b DEF PassGate, Goto, storeVars, IInv, ProductsInStep,
           BeforeCalls, MustExport
      <3>4. StaleIsCaught'
        BY <2>b DEF PassGate, Goto, IInv, StaleIsCaught
      <3>5. WritesInOrder'
        BY <2>b DEF PassGate, Goto, diskVars, IInv, WritesInOrder,
           BeforeWrite, BeforeCalls
      <3>6. (StoreAgrees /\ PackAgrees /\ PublishedStays /\ ExitBacked)'
        BY <2>b DEF PassGate, Goto, storeVars, diskVars, IInv, StoreAgrees,
           Store!OutcomeHonest, Store!Documents, PackAgrees, PublishedStays,
           ExitBacked, MustExport
      <3> QED BY <3>1, <3>2, <3>3, <3>4, <3>5, <3>6 DEF IInv
    <2> QED BY <1>6, <2>a, <2>b DEF ApprovalGate
  <1>7. ASSUME NEW r \in Runs, Call(r) PROVE IInv'
    <2>1. TypeOK'
      BY <1>7 DEF Call, Goto, storeVars, diskVars, IInv, TypeOK,
         Store!StoreTypeOK, Disk!PublishTypeOK, Labels, CountsInStep
    <2>2. CountsInStep'
      BY <1>7 DEF Call, Goto, storeVars, diskVars, IInv, CountsInStep, TypeOK,
         BeforeCalls
    <2>3. ProductsInStep'
      BY <1>7 DEF Call, Goto, storeVars, diskVars, IInv, ProductsInStep,
         Calling, MustExport
    <2>4. StaleIsCaught'
      BY <1>7 DEF Call, Goto, IInv, StaleIsCaught, Calling
    <2>5. PackAgrees'
      BY <1>7 DEF Call, storeVars, diskVars, IInv, PackAgrees, ProductsInStep,
         Calling
    <2>6. WritesInOrder'
      BY <1>7 DEF Call, Goto, diskVars, IInv, WritesInOrder, BeforeWrite,
         Calling
    <2>7. ExitBacked'
      BY <1>7 DEF Call, storeVars, diskVars, IInv, ExitBacked, MustExport,
         WritesInOrder
    <2>8. (StoreAgrees /\ PublishedStays)'
      BY <1>7 DEF Call, storeVars, diskVars, IInv, StoreAgrees,
         Store!OutcomeHonest, Store!Documents, PublishedStays
    <2> QED BY <2>1, <2>2, <2>3, <2>4, <2>5, <2>6, <2>7, <2>8 DEF IInv
  <1>8. ASSUME NEW r \in Runs, ProviderRejects(r) PROVE IInv'
    BY <1>8, BlockPreservesIInv DEF ProviderRejects
  <1>9. ASSUME NEW r \in Runs, AttemptFails(r) PROVE IInv'
    <2>a. CASE LastAttempt(r)
      BY <1>9, <2>a, BlockPreservesIInv DEF AttemptFails
    <2>b. CASE ~LastAttempt(r)
      <3>1. TypeOK'
        BY <1>9, <2>b DEF AttemptFails, LastAttempt, Goto, storeVars,
           diskVars, IInv, TypeOK, Store!StoreTypeOK, Disk!PublishTypeOK,
           Labels
      <3>2. CountsInStep'
        <4>1. Retries[r] \in 0..5 /\ attempt[r] \in 1..6
          BY RunAssumption DEF IInv, TypeOK
        <4>2. attempt[r] <= Retries[r]
          BY <2>b, <4>1 DEF LastAttempt, IInv, CountsInStep
        <4> QED
          BY <1>9, <2>b, <4>2 DEF AttemptFails, Goto, IInv, CountsInStep,
             BeforeCalls, TypeOK
      <3>3. ProductsInStep'
        BY <1>9, <2>b DEF AttemptFails, Goto, storeVars, IInv, ProductsInStep,
           TypeOK, Calling, MustExport
      <3>4. StaleIsCaught'
        BY <1>9, <2>b DEF AttemptFails, Goto, IInv, StaleIsCaught, TypeOK,
           Calling
      <3>5. WritesInOrder'
        BY <1>9, <2>b DEF AttemptFails, Goto, storeVars, diskVars, IInv,
           WritesInOrder, TypeOK, BeforeWrite, Calling
      <3>6. (StoreAgrees /\ PackAgrees /\ PublishedStays /\ ExitBacked)'
        BY <1>9, <2>b DEF AttemptFails, Goto, storeVars, diskVars, IInv,
           StoreAgrees, Store!OutcomeHonest, Store!Documents, PackAgrees,
           PublishedStays, ExitBacked, MustExport
      <3> QED BY <3>1, <3>2, <3>3, <3>4, <3>5, <3>6 DEF IInv
    <2> QED BY <2>a, <2>b
  <1>10. ASSUME NEW r \in Runs, BackoffEnds(r) PROVE IInv'
    <2>1. TypeOK'
      <3>1. Retries[r] \in 0..5 /\ attempt[r] \in 1..6 /\ attempt[r] <= Retries[r]
        BY <1>10, RunAssumption DEF BackoffEnds, IInv, TypeOK, CountsInStep
      <3>2. attempt[r] + 1 \in 1..6
        BY <3>1
      <3> QED
        BY <1>10, <3>2 DEF BackoffEnds, Goto, storeVars, diskVars, IInv,
           TypeOK, Labels, Store!StoreTypeOK, Disk!PublishTypeOK
    <2>2. CountsInStep'
      <3>1. /\ Retries[r] \in 0..5 /\ attempt[r] \in 1..6
            /\ attempt[r] <= Retries[r] /\ calls[r] = attempt[r]
        BY <1>10, RunAssumption DEF BackoffEnds, IInv, TypeOK, CountsInStep
      <3>2. /\ attempt' = [attempt EXCEPT ![r] = attempt[r] + 1]
            /\ pc' = [pc EXCEPT ![r] = "call"] /\ calls' = calls
        BY <1>10 DEF BackoffEnds, Goto
      <3> QED
        BY <3>1, <3>2 DEF IInv, CountsInStep, BeforeCalls, TypeOK
    <2>3. ProductsInStep'
      BY <1>10 DEF BackoffEnds, Goto, storeVars, diskVars, IInv,
         ProductsInStep, Calling, MustExport
    <2>4. StaleIsCaught'
      BY <1>10 DEF BackoffEnds, Goto, IInv, StaleIsCaught, Calling
    <2>5. WritesInOrder'
      BY <1>10 DEF BackoffEnds, Goto, diskVars, IInv, WritesInOrder,
         BeforeWrite, Calling
    <2>6. (StoreAgrees /\ PackAgrees /\ PublishedStays /\ ExitBacked)'
      BY <1>10 DEF BackoffEnds, Goto, storeVars, diskVars, IInv, StoreAgrees,
         Store!OutcomeHonest, Store!Documents, PackAgrees, PublishedStays,
         ExitBacked, MustExport
    <2> QED BY <2>1, <2>2, <2>3, <2>4, <2>5, <2>6 DEF IInv
  <1>11. ASSUME NEW r \in Runs, NEW sql \in Sqls, ProviderAnswers(r, sql) PROVE IInv'
    <2>1. TypeOK'
      BY <1>11 DEF ProviderAnswers, Store!Begin, Goto, diskVars, IInv, TypeOK,
         Store!StoreTypeOK, Disk!PublishTypeOK, Labels, Candidate
    <2>2. CountsInStep'
      BY <1>11 DEF ProviderAnswers, Goto, IInv, CountsInStep, BeforeCalls
    <2>3. ProductsInStep'
      BY <1>11 DEF ProviderAnswers, Store!Begin, Goto, IInv, ProductsInStep,
         TypeOK, BeforeCalls, Calling, MustExport, CountsInStep
    <2>4. StaleIsCaught'
      BY <1>11 DEF ProviderAnswers, Goto, IInv, StaleIsCaught, Calling
    <2>5. StoreAgrees'
      BY <1>11 DEF ProviderAnswers, Store!Begin, IInv, StoreAgrees,
         Store!OutcomeHonest, Store!Documents
    <2>6. PackAgrees'
      BY <1>11 DEF ProviderAnswers, Store!Begin, Goto, IInv, PackAgrees
    <2>7. WritesInOrder'
      BY <1>11 DEF ProviderAnswers, Goto, diskVars, IInv, WritesInOrder,
         BeforeWrite, Calling
    <2>8. ExitBacked'
      BY <1>11 DEF ProviderAnswers, Store!Begin, diskVars, IInv, ExitBacked,
         MustExport, WritesInOrder
    <2>9. PublishedStays'
      BY <1>11 DEF ProviderAnswers, diskVars, IInv, PublishedStays
    <2> QED BY <2>1, <2>2, <2>3, <2>4, <2>5, <2>6, <2>7, <2>8, <2>9 DEF IInv
  <1>12. ASSUME NEW r \in Runs, InsertApplied(r) PROVE IInv'
    <2>1. TypeOK'
      BY <1>12 DEF InsertApplied, Store!Apply, runVars, diskVars, IInv,
         TypeOK, Store!StoreTypeOK, Disk!PublishTypeOK
    <2>2. StoreAgrees'
      BY <1>12 DEF InsertApplied, Store!Apply, IInv, StoreAgrees,
         Store!OutcomeHonest, Store!Documents
    <2>3. (/\ CountsInStep /\ ProductsInStep /\ StaleIsCaught /\ PackAgrees
           /\ WritesInOrder /\ PublishedStays /\ ExitBacked)'
      BY <1>12 DEF InsertApplied, Store!Apply, runVars, diskVars, IInv,
         CountsInStep, ProductsInStep, MustExport, StaleIsCaught, PackAgrees,
         WritesInOrder, PublishedStays, ExitBacked
    <2> QED BY <2>1, <2>2, <2>3 DEF IInv
  <1>13. ASSUME NEW r \in Runs, NEW o \in Store!Outcomes, SaveReturns(r, o) PROVE IInv'
    <2>1. TypeOK'
      BY <1>13 DEF SaveReturns, Store!Report, Store!MayReport, Store!Outcomes,
         CandidatePack, Goto, diskVars, IInv, TypeOK, Store!StoreTypeOK,
         Disk!PublishTypeOK, Labels, Pack, StaticStatus
    <2>2. CountsInStep'
      BY <1>13 DEF SaveReturns, Store!Report, Store!Outcomes, CandidatePack,
         Goto, IInv, CountsInStep, BeforeCalls
    <2>3. ProductsInStep'
      BY <1>13 DEF SaveReturns, Store!Report, Store!MayReport, Store!Outcomes,
         CandidatePack, Goto, IInv, ProductsInStep, TypeOK, BeforeCalls,
         Calling, MustExport
    <2>4. StaleIsCaught'
      BY <1>13 DEF SaveReturns, Goto, IInv, StaleIsCaught
    <2>5. StoreAgrees'
      BY <1>13 DEF SaveReturns, Store!Report, Store!MayReport, IInv,
         StoreAgrees, Store!OutcomeHonest, Store!Documents
    <2>6. PackAgrees'
      BY <1>13 DEF SaveReturns, Store!Report, Store!MayReport, Store!Outcomes,
         CandidatePack, IInv, PackAgrees, TypeOK, CountsInStep, StaticStatus,
         Store!StoreTypeOK
    <2>7. WritesInOrder'
      BY <1>13 DEF SaveReturns, Store!Outcomes, CandidatePack, Goto, diskVars,
         IInv, WritesInOrder, BeforeWrite
    <2>8. ExitBacked'
      BY <1>13 DEF SaveReturns, Store!Report, Store!Outcomes, diskVars, IInv,
         ExitBacked, MustExport, WritesInOrder
    <2>9. PublishedStays'
      BY <1>13 DEF SaveReturns, diskVars, IInv, PublishedStays
    <2> QED BY <2>1, <2>2, <2>3, <2>4, <2>5, <2>6, <2>7, <2>8, <2>9 DEF IInv
  <1>14. ASSUME NEW r \in Runs, Unexpected(r) PROVE IInv'
    <2>1. TypeOK'
      BY <1>14 DEF Unexpected, Goto, storeVars, diskVars, IInv, TypeOK,
         Store!StoreTypeOK, Disk!PublishTypeOK, Labels
    <2>2. CountsInStep'
      BY <1>14 DEF Unexpected, Goto, IInv, CountsInStep, BeforeCalls
    <2>3. ProductsInStep'
      BY <1>14 DEF Unexpected, Goto, storeVars, IInv, ProductsInStep,
         BeforeCalls, Calling, MustExport
    <2>4. StaleIsCaught'
      BY <1>14 DEF Unexpected, Goto, IInv, StaleIsCaught, Calling
    <2>5. WritesInOrder'
      BY <1>14 DEF Unexpected, Goto, diskVars, IInv, WritesInOrder,
         BeforeWrite, BeforeCalls, Calling
    <2>6. (StoreAgrees /\ PackAgrees /\ PublishedStays /\ ExitBacked)'
      BY <1>14 DEF Unexpected, Goto, storeVars, diskVars, IInv, StoreAgrees,
         Store!OutcomeHonest, Store!Documents, PackAgrees, PublishedStays,
         ExitBacked, MustExport
    <2> QED BY <2>1, <2>2, <2>3, <2>4, <2>5, <2>6 DEF IInv
  <1>15. ASSUME NEW r \in Runs, CloseResources(r) PROVE IInv'
    <2>1. TypeOK'
      BY <1>15 DEF CloseResources, Exit, Goto, storeVars, diskVars, IInv,
         TypeOK, Store!StoreTypeOK, Disk!PublishTypeOK, Labels
    <2>2. CountsInStep'
      BY <1>15 DEF CloseResources, Exit, Goto, IInv, CountsInStep, TypeOK,
         BeforeCalls
    <2>3. ProductsInStep'
      BY <1>15 DEF CloseResources, Exit, Goto, storeVars, IInv,
         ProductsInStep, TypeOK, BeforeCalls, Calling, MustExport
    <2>4. StaleIsCaught'
      BY <1>15 DEF CloseResources, Exit, Goto, IInv, StaleIsCaught, TypeOK,
         Calling
    <2>5. WritesInOrder'
      BY <1>15 DEF CloseResources, Exit, Goto, storeVars, diskVars, IInv,
         WritesInOrder, TypeOK, BeforeWrite
    <2>6. ExitBacked'
      BY <1>15 DEF CloseResources, Exit, storeVars, diskVars, IInv,
         ExitBacked, TypeOK, MustExport
    <2>7. (StoreAgrees /\ PackAgrees /\ PublishedStays)'
      BY <1>15 DEF CloseResources, Exit, Goto, storeVars, diskVars, IInv,
         StoreAgrees, Store!OutcomeHonest, Store!Documents, PackAgrees,
         PublishedStays
    <2> QED BY <2>1, <2>2, <2>3, <2>4, <2>5, <2>6, <2>7 DEF IInv
  <1>16. ASSUME NEW r \in Runs, WritePack(r) PROVE IInv'
    <2>1. TypeOK'
      <3>1. /\ file' \in [Paths -> Writers \cup {Absent, Foreign}]
            /\ result' \in [Writers -> Disk!Results \cup {"none"}]
        BY <1>16, WritersDistinct DEF WritePack, Disk!Publish, Disk!Refuse,
           Disk!Fail, Disk!Answer, Disk!Results, Disk!PublishTypeOK, IInv,
           TypeOK
      <3>2. \E status \in {"none", "passed", "blocked", "wireConfigError"} :
               exit' = exit \/ exit' = [exit EXCEPT ![r] = status]
        BY <1>16 DEF WritePack, Exit, StageStatus
      <3>3. exit' \in [Runs -> {"none", "passed", "blocked", "inconclusive", "wireConfigError"}]
        BY <3>2 DEF IInv, TypeOK
      <3>4. pc' \in [Runs -> Labels]
        BY <1>16 DEF WritePack, Exit, Goto, IInv, TypeOK, Labels
      <3> QED
        BY <1>16, <3>1, <3>3, <3>4 DEF WritePack, storeVars, IInv, TypeOK,
           Store!StoreTypeOK, Disk!PublishTypeOK
    <2>2. CountsInStep'
      BY <1>16 DEF WritePack, Exit, StageStatus, Disk!Publish, Disk!Refuse,
         Goto, IInv, CountsInStep, TypeOK, BeforeCalls
    <2>3. ProductsInStep'
      BY <1>16 DEF WritePack, Exit, StageStatus, Disk!Publish, Disk!Refuse,
         Goto, storeVars, IInv, ProductsInStep, TypeOK, BeforeCalls, Calling,
         MustExport
    <2>4. StaleIsCaught'
      BY <1>16 DEF WritePack, Exit, Goto, IInv, StaleIsCaught, TypeOK, Calling
    <2>5. WritesInOrder'
      BY <1>16, WritersDistinct DEF WritePack, Exit, StageStatus,
         Disk!Publish, Disk!Refuse, Disk!Fail, Disk!Answer, Goto, IInv,
         WritesInOrder, TypeOK, BeforeWrite, BeforeCalls, Calling,
         Disk!PublishTypeOK
    <2>6. PublishedStays'
      <3>1. CASE Disk!Publish(PackFile(r))
        BY <3>1, PublishKeepsPublished, WritersDistinct DEF IInv, TypeOK
      <3>2. CASE Disk!Refuse(PackFile(r)) \/ Disk!Fail(PackFile(r))
        BY <3>2 DEF Disk!Refuse, Disk!Fail, Disk!Answer, IInv, TypeOK,
           Disk!PublishTypeOK, PublishedStays
      <3> QED BY <1>16, <3>1, <3>2 DEF WritePack
    <2>7. ExitBacked'
      BY <1>16, WritersDistinct DEF WritePack, Exit, StageStatus,
         Disk!Publish, Disk!Refuse, Disk!Fail, Disk!Answer, storeVars, IInv,
         ExitBacked, TypeOK, MustExport, Disk!PublishTypeOK
    <2>8. (StoreAgrees /\ PackAgrees)'
      BY <1>16 DEF WritePack, StageStatus, Disk!Publish, Disk!Refuse,
         storeVars, IInv, StoreAgrees, Store!OutcomeHonest, Store!Documents,
         PackAgrees
    <2> QED BY <2>1, <2>2, <2>3, <2>4, <2>5, <2>6, <2>7, <2>8 DEF IInv
  <1>17. ASSUME NEW r \in Runs, WriteExport(r) PROVE IInv'
    <2>1. TypeOK'
      <3>1. /\ file' \in [Paths -> Writers \cup {Absent, Foreign}]
            /\ result' \in [Writers -> Disk!Results \cup {"none"}]
        BY <1>17, WritersDistinct DEF WriteExport, Disk!Publish, Disk!Refuse,
           Disk!Fail, Disk!Answer, Disk!Results, Disk!PublishTypeOK, IInv,
           TypeOK, ProductsInStep, MustExport
      <3>2. \E status \in {"passed", "blocked", "inconclusive"} :
               exit' = [exit EXCEPT ![r] = status]
        BY <1>17 DEF WriteExport, Exit, StageStatus
      <3>3. exit' \in [Runs -> {"none", "passed", "blocked", "inconclusive", "wireConfigError"}]
        BY <3>2 DEF IInv, TypeOK
      <3>4. pc' \in [Runs -> Labels]
        BY <1>17 DEF WriteExport, Exit, Goto, IInv, TypeOK, Labels
      <3> QED
        BY <1>17, <3>1, <3>3, <3>4 DEF WriteExport, storeVars, IInv, TypeOK,
           Store!StoreTypeOK, Disk!PublishTypeOK
    <2>2. CountsInStep'
      BY <1>17 DEF WriteExport, Exit, StageStatus, Disk!Publish, Disk!Refuse,
         Goto, IInv, CountsInStep, TypeOK, BeforeCalls
    <2>3. ProductsInStep'
      BY <1>17 DEF WriteExport, Exit, StageStatus, Disk!Publish, Disk!Refuse,
         Goto, storeVars, IInv, ProductsInStep, TypeOK, BeforeCalls, Calling,
         MustExport
    <2>4. StaleIsCaught'
      BY <1>17 DEF WriteExport, Exit, Disk!Publish, Goto, IInv, StaleIsCaught,
         TypeOK, Calling
    <2>5. WritesInOrder'
      BY <1>17, WritersDistinct DEF WriteExport, Exit, StageStatus,
         Disk!Publish, Disk!Refuse, Disk!Fail, Disk!Answer, Goto, IInv,
         WritesInOrder, TypeOK, BeforeWrite, BeforeCalls, Calling,
         Disk!PublishTypeOK
    <2>6. PublishedStays'
      <3>1. CASE Disk!Publish(ExportFile(r))
        <4>1. ExportFile(r) \in Writers
          BY <1>17, WritersDistinct DEF WriteExport, IInv, ProductsInStep,
             MustExport
        <4> QED
          BY <3>1, <4>1, PublishKeepsPublished DEF IInv, TypeOK
      <3>2. CASE Disk!Refuse(ExportFile(r)) \/ Disk!Fail(ExportFile(r))
        BY <3>2 DEF Disk!Refuse, Disk!Fail, Disk!Answer, IInv, TypeOK,
           Disk!PublishTypeOK, PublishedStays
      <3> QED BY <1>17, <3>1, <3>2 DEF WriteExport
    <2>7. ExitBacked'
      BY <1>17, WritersDistinct DEF WriteExport, Exit, StageStatus,
         Disk!Publish, Disk!Refuse, Disk!Fail, Disk!Answer, storeVars, IInv,
         ExitBacked, TypeOK, MustExport, WritesInOrder, Disk!PublishTypeOK
    <2>8. (StoreAgrees /\ PackAgrees)'
      BY <1>17 DEF WriteExport, StageStatus, Disk!Publish, Disk!Refuse,
         storeVars, IInv, StoreAgrees, Store!OutcomeHonest, Store!Documents,
         PackAgrees
    <2> QED BY <2>1, <2>2, <2>3, <2>4, <2>5, <2>6, <2>7, <2>8 DEF IInv
  <1>18. ASSUME NEW r \in Runs, Kill(r) PROVE IInv'
    <2>1. TypeOK'
      BY <1>18 DEF Kill, Goto, storeVars, diskVars, IInv, TypeOK,
         Store!StoreTypeOK, Disk!PublishTypeOK, Labels
    <2>2. CountsInStep'
      BY <1>18 DEF Kill, Goto, storeVars, diskVars, IInv, CountsInStep,
         BeforeCalls
    <2>3. ProductsInStep'
      BY <1>18 DEF Kill, Goto, storeVars, diskVars, IInv, ProductsInStep,
         BeforeCalls, Calling, MustExport
    <2>4. StaleIsCaught'
      BY <1>18 DEF Kill, Goto, IInv, StaleIsCaught, Calling
    <2>5. WritesInOrder'
      BY <1>18 DEF Kill, Goto, diskVars, IInv, WritesInOrder, BeforeWrite,
         BeforeCalls, Calling
    <2>6. (StoreAgrees /\ PackAgrees /\ PublishedStays /\ ExitBacked)'
      BY <1>18 DEF Kill, Goto, storeVars, diskVars, IInv, StoreAgrees,
         Store!OutcomeHonest, Store!Documents, PackAgrees, PublishedStays,
         ExitBacked, MustExport
    <2> QED BY <2>1, <2>2, <2>3, <2>4, <2>5, <2>6 DEF IInv
  <1>19. CASE UNCHANGED vars
    BY <1>19 DEF vars, runVars, storeVars, diskVars, IInv, TypeOK,
       Store!StoreTypeOK, Disk!PublishTypeOK, CountsInStep, ProductsInStep,
       StaleIsCaught, StoreAgrees, PackAgrees, WritesInOrder, PublishedStays,
       ExitBacked, Store!OutcomeHonest, Store!Documents, MustExport
  <1> QED BY <1>1, <1>2, <1>3, <1>4, <1>5, <1>6, <1>7, <1>8, <1>9, <1>10,
             <1>11, <1>12, <1>13, <1>14, <1>15, <1>16, <1>17, <1>18, <1>19 DEF
             Next

\* IInv holds in every reachable state.
THEOREM InductiveInvariant == Spec => []IInv
  BY InitEstablishesIInv, NextPreservesIInv, PTL DEF Spec

-----------------------------------------------------------------------------
(* What follows from it.                                                   *)

\* The variables of every run keep their domains; in particular no run makes
\* more than six calls.
THEOREM TypeCorrect == Spec => []TypeOK
  <1>1. IInv => TypeOK
    BY DEF IInv
  <1> QED BY <1>1, InductiveInvariant, PTL

\* A candidate is a record with an attempt of at least 1.
LEMMA CandidateHasAttempt ==
  ASSUME IInv, NEW r \in Runs, cand[r] # NoCandidate
  PROVE  cand[r] \in Candidate /\ calls[r] > 0
  <1>1. cand[r] \in Candidate
    BY DEF IInv, TypeOK, Store!StoreTypeOK
  <1> QED BY <1>1 DEF Candidate, IInv, ProductsInStep

\* A run that starts after its handoff batch or approval was withdrawn never
\* calls the model and never writes to the collection.
THEOREM StaleRunsAreCaught == Spec => []StaleNeverGenerates
  <1>1. IInv => StaleNeverGenerates
    <2> SUFFICES ASSUME IInv, NEW r \in Runs, stale[r]
                 PROVE  calls[r] = 0 /\ cand[r] = NoCandidate /\ r \notin applied
      BY DEF StaleNeverGenerates
    <2>1. calls[r] = 0
      BY DEF IInv, StaleIsCaught
    <2>2. cand[r] = NoCandidate
      BY <2>1, CandidateHasAttempt
    <2> QED BY <2>1, <2>2 DEF IInv, StoreAgrees
  <1> QED BY <1>1, InductiveInvariant, PTL

\* The three counts of provider calls agree and keep within the retries.
THEOREM CallCountsAgree == Spec => []AttemptsAgree
  <1>1. IInv => AttemptsAgree
    <2> SUFFICES ASSUME IInv, NEW r \in Runs
                 PROVE  /\ calls[r] <= Retries[r] + 1
                        /\ cand[r] # NoCandidate => cand[r].attempt = calls[r]
                        /\ pack[r] # NoPack => pack[r].calls = calls[r]
      BY DEF AttemptsAgree
    <2>1. Retries[r] \in 0..5 /\ attempt[r] \in 1..6 /\ calls[r] \in 0..6
      BY RunAssumption DEF IInv, TypeOK
    <2>2. calls[r] <= attempt[r] /\ attempt[r] <= Retries[r] + 1
      BY DEF IInv, CountsInStep
    <2>3. calls[r] <= Retries[r] + 1
      BY <2>1, <2>2
    <2> QED BY <2>3 DEF IInv, ProductsInStep
  <1> QED BY <1>1, InductiveInvariant, PTL

\* A pack never claims more than the collection holds.
THEOREM PacksMatchStore == Spec => []PackMatchesStore
  <1>1. IInv => PackMatchesStore
    <2> SUFFICES ASSUME IInv, NEW r \in Runs, pack[r] # NoPack
                 PROVE  /\ pack[r].stage \in {"candidateStored", "evidenceComplete"} =>
                             /\ pack[r].cand \in Store!Documents
                             /\ pack[r].static = StaticStatus(pack[r].cand.sql)
                        /\ pack[r].stage = "evidenceComplete" => pack[r].cand.sql \in PassingSqls
                        /\ pack[r].store = "unavailable" => r \notin applied
      BY DEF PackMatchesStore
    <2>1. ASSUME pack[r].stage \in {"candidateStored", "evidenceComplete"}
          PROVE  pack[r].cand = cand[r] /\ cand[r] \in Store!Documents
      <3>1. outcome[r] \in {"stored", "duplicate"} /\ pack[r].cand = cand[r]
        BY <2>1 DEF IInv, PackAgrees
      <3> QED BY <3>1 DEF IInv, StoreAgrees, Store!OutcomeHonest,
                 Store!Documents
    <2>2. pack[r].store = "unavailable" => r \notin applied
      BY DEF IInv, PackAgrees, StoreAgrees, Store!OutcomeHonest
    <2> QED BY <2>1, <2>2 DEF IInv, PackAgrees
  <1> QED BY <1>1, InductiveInvariant, PTL

\* repositoryVerificationStatus tells whether the closures held.
THEOREM VerificationIsHonest == Spec => []VerificationHonest
  <1>1. IInv => VerificationHonest
    <2> SUFFICES ASSUME IInv, NEW r \in Runs, pack[r] # NoPack
                 PROVE  IF pack[r].repository = "verified"
                        THEN ~stale[r] /\ calls[r] > 0
                        ELSE calls[r] = 0 /\ r \notin applied
      BY DEF VerificationHonest
    <2>1. pack[r].repository = "verified" <=> calls[r] > 0
      BY DEF IInv, PackAgrees
    <2>2. calls[r] \in 0..6
      BY DEF IInv, TypeOK
    <2>3. stale[r] => calls[r] = 0
      BY DEF IInv, StaleIsCaught
    <2>4. r \in applied => calls[r] > 0
      BY CandidateHasAttempt DEF IInv, StoreAgrees
    <2> QED BY <2>1, <2>2, <2>3, <2>4
  <1> QED BY <1>1, InductiveInvariant, PTL

\* Exit status 0, and 2 after a model call, are backed by published files.
THEOREM ExitsAreBacked == Spec => []ExitBacked
  <1>1. IInv => ExitBacked
    BY DEF IInv
  <1> QED BY <1>1, InductiveInvariant, PTL

\* No export without its pack.
THEOREM ExportsHavePacks == Spec => []ExportHasPack
  <1>1. IInv => ExportHasPack
    <2> SUFFICES ASSUME IInv, NEW r \in Exporting, result[ExportFile(r)] # "none"
                 PROVE  /\ result[PackFile(r)] = "written"
                        /\ file[PackPath[r]] = PackFile(r) \/ file[PackPath[r]] \in Overwriting
      BY DEF ExportHasPack
    <2>1. r \in Runs /\ PackFile(r) \in Writers /\ Dest[PackFile(r)] = PackPath[r]
      BY RunAssumption, WritersDistinct DEF Dest, PackFile
    <2>2. result[PackFile(r)] = "written"
      BY <2>1 DEF IInv, WritesInOrder
    <2> QED BY <2>1, <2>2 DEF IInv, PublishedStays
  <1> QED BY <1>1, InductiveInvariant, PTL

\* Once a run has its candidate, it never calls the model again, and never
\* asks the store to save another one.
THEOREM CandidateEndsCalls == Spec => NoCallAfterCandidate
  <1>1. IInv /\ [Next]_vars =>
          [\A r \in Runs : cand[r] # NoCandidate => calls'[r] = calls[r] /\ cand'[r] = cand[r]]_vars
    <2> SUFFICES ASSUME IInv, Next,
                        NEW q \in Runs, cand[q] # NoCandidate
                 PROVE  calls'[q] = calls[q] /\ cand'[q] = cand[q]
      OBVIOUS
    <2>1. pc[q] \notin BeforeCalls \cup Calling
      BY DEF IInv, ProductsInStep
    <2>2. ASSUME NEW r \in Runs, Call(r) PROVE calls'[q] = calls[q] /\ cand'[q] = cand[q]
      BY <2>1, <2>2 DEF Call, storeVars, Calling
    <2>3. ASSUME NEW r \in Runs, NEW sql \in Sqls, ProviderAnswers(r, sql)
          PROVE  calls'[q] = calls[q] /\ cand'[q] = cand[q]
      BY <2>3 DEF ProviderAnswers, Store!Begin
    <2>4. CASE UNCHANGED <<calls, cand>>
      BY <2>4
    <2> QED
      BY <2>2, <2>3 DEF Next, Withdraw, RejectLocally, Start, OutOfScope,
         HandoffGate, ApprovalGate, PassGate, FailGate, Block,
         ProviderRejects, AttemptFails, BackoffEnds, InsertApplied,
         SaveReturns, Unexpected, CloseResources, WritePack, WriteExport,
         Kill, Store!Apply, Store!Report, runVars, storeVars
  <1> QED BY <1>1, InductiveInvariant, PTL DEF Spec, NoCallAfterCandidate
=============================================================================
