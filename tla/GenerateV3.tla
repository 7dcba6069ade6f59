----------------------------- MODULE GenerateV3 -----------------------------
(***************************************************************************)
(* The generate-v3 command: _run_generate_v3 of __main__.py around         *)
(* run_offline_v3_evidence_loop, generate_and_store_sql_candidate_v3 and   *)
(* generate_sql_candidate_v3.                                              *)
(*                                                                         *)
(* Each run is one process.  Runs share the rule repository and approval   *)
(* records they read, the candidate collection they insert into and the    *)
(* file system they write their evidence pack and candidate export to.     *)
(* A run's steps are split at its awaits and system calls; what lies       *)
(* between two of them is one action.                                      *)
(*                                                                         *)
(* The collection and the file system are the abstract components          *)
(* InsertOnlyStore and AtomicPublish, which MongoCandidateStoreV3 and      *)
(* EvidenceFileCommit implement.                                           *)
(***************************************************************************)
EXTENDS Naturals, FiniteSets

CONSTANTS
    Runs,          \* invocations of generate-v3
    Retries,       \* Retries[r]: --max-retries of r
    Sqls,          \* payloads the model may answer with that pass the parser
    PassingSqls,   \* those validate_sql_candidate_v3 passes
    Paths,         \* output paths
    PackPath,      \* PackPath[r]: --output of r
    Exporting,     \* the runs given --candidate-output
    ExportPath,    \* ExportPath[r]: --candidate-output of r, if exporting
    OverwritingRuns, \* the runs given --overwrite
    Absent, Foreign, NoCandidate, NoPack

\* build_parser and _run_generate_v3 accept 0 to 5 retries;
\* _preflight_output_paths refuses a run that names one path twice.
ASSUME RunAssumption ==
    /\ Retries \in [Runs -> 0..5]
    /\ PassingSqls \subseteq Sqls
    /\ PackPath \in [Runs -> Paths]
    /\ ExportPath \in [Runs -> Paths]
    /\ Exporting \subseteq Runs
    /\ OverwritingRuns \subseteq Runs
    /\ \A r \in Exporting : PackPath[r] # ExportPath[r]

VARIABLES
    live,     \* what the run's request carries that still holds in MongoDB
    stale,    \* stale[r]: something of it had been withdrawn when r started
    pc,       \* pc[r]: the await or system call r is at
    attempt,  \* attempt[r]: the loop variable of generate_sql_candidate_v3
    calls,    \* calls[r]: CountingProviderProxy.call_count
    pack,     \* pack[r]: the EvidencePackV3 built in memory
    exit,     \* exit[r]: the exit status
    cand, applied, outcome,  \* the candidate collection (InsertOnlyStore)
    file, result             \* the file system (AtomicPublish)

Candidate == [sql : Sqls, attempt : 1..6]

ASSUME ValueAssumption == NoCandidate \notin Candidate

PackFile(r) == <<r, "pack">>
ExportFile(r) == <<r, "export">>
Writers == {PackFile(r) : r \in Runs} \cup {ExportFile(r) : r \in Exporting}
Dest == [w \in Writers |-> IF w[2] = "pack" THEN PackPath[w[1]] ELSE ExportPath[w[1]]]
Overwriting == {w \in Writers : w[1] \in OverwritingRuns}

\* Absent and Foreign stand for what is at a path that no run wrote.
ASSUME DiskAssumption == Absent \notin Writers /\ Foreign \notin Writers /\ Absent # Foreign

Store == INSTANCE InsertOnlyStore WITH Savers <- Runs, Candidates <- Candidate
Disk == INSTANCE AtomicPublish

runVars == <<stale, pc, attempt, calls, pack, exit>>
storeVars == <<cand, applied, outcome>>
diskVars == <<file, result>>
vars == <<live, runVars, storeVars, diskVars>>

\* The closures a request carries: the handoff batch of its rule version and
\* an approval record whose active pointer says "active".
Evidence == {"handoff", "approval"}

Pack == [stage : {"blockedUpstream", "candidateGenerated", "candidateStored", "evidenceComplete"},
         repository : {"verified", "failed", "unavailable"},
         store : {"none", "stored", "duplicate", "unavailable", "failed"},
         static : {"none", "passed", "blocked"},
         cand : Candidate \cup {NoCandidate},
         calls : 0..6]

Labels == {"preflight", "handoff", "approval", "call", "answer", "backoff", "save",
           "close", "write", "export", "exited", "killed"}

Init ==
    /\ live \in SUBSET Evidence
    /\ stale = [r \in Runs |-> FALSE]
    /\ pc = [r \in Runs |-> "preflight"]
    /\ attempt = [r \in Runs |-> 1]
    /\ calls = [r \in Runs |-> 0]
    /\ pack = [r \in Runs |-> NoPack]
    /\ exit = [r \in Runs |-> "none"]
    /\ Store!Init
    /\ Disk!Init

-----------------------------------------------------------------------------

Goto(r, label) == pc' = [pc EXCEPT ![r] = label]

Exit(r, status) ==
    /\ Goto(r, "exited")
    /\ exit' = [exit EXCEPT ![r] = status]

\* The rule repository or the approval authority withdraws what requests
\* carry: another batch document, a revoked or superseded approval.
Withdraw(e) ==
    /\ e \in live
    /\ live' = live \ {e}
    /\ UNCHANGED <<runVars, storeVars, diskVars>>

Outputs(r) == {PackFile(r)} \cup (IF r \in Exporting THEN {ExportFile(r)} ELSE {})

\* _preflight_output_paths refuses an existing output of a run that may not
\* overwrite it.
OutputTaken(r) == \E w \in Outputs(r) : w \notin Overwriting /\ file[Dest[w]] # Absent

\* Everything before the first await: flags, settings, output paths, input,
\* local M2 resolution, assembly.  Nothing outside the process is touched.
RejectLocally(r) ==
    /\ pc[r] = "preflight"
    /\ \/ OutputTaken(r) /\ Exit(r, "wireConfigError")
       \/ \E status \in {"blocked", "inconclusive", "wireConfigError"} : Exit(r, status)
    /\ UNCHANGED <<live, stale, attempt, calls, pack, storeVars, diskVars>>

Start(r) ==
    /\ pc[r] = "preflight"
    /\ ~OutputTaken(r)
    /\ stale' = [stale EXCEPT ![r] = live # Evidence]
    /\ Goto(r, "handoff")
    /\ UNCHANGED <<live, attempt, calls, pack, exit, storeVars, diskVars>>

\* Seeded bug: the last error decides, whether or not the model was called.
RepositoryStatus_ByError(r, error) ==
    IF error = "unavailable" THEN "unavailable" ELSE "failed"

\* _repository_verification_status
RepositoryStatus(r, error) ==
    IF calls[r] > 0 THEN "verified"
    ELSE IF error = "unavailable" THEN "unavailable" ELSE "failed"

\* The evidence loop turns a gate or generation error into a pack.
Block(r, error) ==
    /\ pack' = [pack EXCEPT ![r] =
          [stage |-> "blockedUpstream", repository |-> RepositoryStatus(r, error),
           store |-> "none", static |-> "none", cand |-> NoCandidate, calls |-> calls[r]]]
    /\ Goto(r, "close")
    /\ UNCHANGED <<live, stale, attempt, calls, exit, storeVars, diskVars>>

\* One gate: the awaited read of a closure, then its comparison with what
\* the request carries.  The port may also be unavailable.
PassGate(r, e, next) ==
    /\ e \in live
    /\ Goto(r, next)
    /\ UNCHANGED <<live, stale, attempt, calls, pack, exit, storeVars, diskVars>>

FailGate(r, e) ==
    \/ e \notin live /\ Block(r, "failed")
    \/ Block(r, "unavailable")

\* _check_m3_scope: the request asks for more than the first delivery does.
OutOfScope(r) ==
    /\ pc[r] = "handoff"
    /\ Block(r, "scope")

\* _verify_handoff_repository
HandoffGate(r) ==
    /\ pc[r] = "handoff"
    /\ PassGate(r, "handoff", "approval") \/ FailGate(r, "handoff")

\* Seeded bug: the approval carried by the request is taken at its word.
ApprovalGate_Trusting(r) ==
    /\ pc[r] = "approval"
    /\ Goto(r, "call")
    /\ UNCHANGED <<live, stale, attempt, calls, pack, exit, storeVars, diskVars>>

\* _verify_approval_record, and _verify_resolution, which recomputes the
\* report that Start found resolved from the same request.
ApprovalGate(r) ==
    /\ pc[r] = "approval"
    /\ PassGate(r, "approval", "call") \/ FailGate(r, "approval")

\* CountingProviderProxy.generate counts, then forwards.
Call(r) ==
    /\ pc[r] = "call"
    /\ calls' = [calls EXCEPT ![r] = @ + 1]
    /\ Goto(r, "answer")
    /\ UNCHANGED <<live, stale, attempt, pack, exit, storeVars, diskVars>>

\* CandidateProviderRejectedError: not retried.
ProviderRejects(r) ==
    /\ pc[r] = "answer"
    /\ Block(r, "rejected")

\* Seeded bug: one retry too many.
LastAttempt_OffByOne(r) == attempt[r] > Retries[r] + 1

\* CandidateProviderTransientError, or output that fails the parser or the
\* cross-reference check: retried until the attempts are used up.
LastAttempt(r) == attempt[r] = Retries[r] + 1

AttemptFails(r) ==
    /\ pc[r] = "answer"
    /\ IF LastAttempt(r)
       THEN Block(r, "exhausted")
       ELSE /\ Goto(r, "backoff")
            /\ UNCHANGED <<live, stale, attempt, calls, pack, exit, storeVars, diskVars>>

\* _wait_before_retry_v3 returns.
BackoffEnds(r) ==
    /\ pc[r] = "backoff"
    /\ attempt' = [attempt EXCEPT ![r] = @ + 1]
    /\ Goto(r, "call")
    /\ UNCHANGED <<live, stale, calls, pack, exit, storeVars, diskVars>>

\* _assemble_candidate_v3, and the call of store.save.
ProviderAnswers(r, sql) ==
    /\ pc[r] = "answer"
    /\ Store!Begin(r, [sql |-> sql, attempt |-> attempt[r]])
    /\ Goto(r, "save")
    /\ UNCHANGED <<live, stale, attempt, calls, pack, exit, diskVars>>

\* The server applies an insert, possibly after save() has given up.
InsertApplied(r) ==
    /\ Store!Apply(r)
    /\ UNCHANGED <<live, runVars, diskVars>>

StaticStatus(sql) == IF sql \in PassingSqls THEN "passed" ELSE "blocked"

\* Seeded bug: a failed save counts as stored.
CandidatePack_FailedIsStored(r, o) ==
    LET static == IF o # "unavailable" THEN StaticStatus(cand[r].sql) ELSE "none"
    IN  [stage |-> CASE static = "none" -> "candidateGenerated"
                     [] static = "blocked" -> "candidateStored"
                     [] static = "passed" -> "evidenceComplete",
         repository |-> "verified", store |-> o, static |-> static,
         cand |-> cand[r], calls |-> calls[r]]

\* What the loop records of a candidate and the outcome of its save; static
\* validation runs only on a candidate that is in the collection.
CandidatePack(r, o) ==
    LET inStore == o \in {"stored", "duplicate"}
        static == IF inStore THEN StaticStatus(cand[r].sql) ELSE "none"
    IN  [stage |-> CASE static = "none" -> "candidateGenerated"
                     [] static = "blocked" -> "candidateStored"
                     [] static = "passed" -> "evidenceComplete",
         repository |-> "verified", store |-> o, static |-> static,
         cand |-> cand[r], calls |-> calls[r]]

\* Seeded bug: a store that does not answer costs another call of the model.
SaveReturns_Regenerates(r, o) ==
    /\ pc[r] = "save"
    /\ IF o = "unavailable" /\ ~LastAttempt(r)
       THEN /\ attempt' = [attempt EXCEPT ![r] = @ + 1]
            /\ calls' = [calls EXCEPT ![r] = @ + 1]
            /\ cand' = [cand EXCEPT ![r].attempt = attempt'[r]]
            /\ UNCHANGED <<pc, pack, applied, outcome>>
       ELSE /\ Store!Report(r, o)
            /\ pack' = [pack EXCEPT ![r] = CandidatePack(r, o)]
            /\ Goto(r, "close")
            /\ UNCHANGED <<attempt, calls>>
    /\ UNCHANGED <<live, stale, exit, diskVars>>

SaveReturns(r, o) ==
    /\ pc[r] = "save"
    /\ Store!Report(r, o)
    /\ pack' = [pack EXCEPT ![r] = CandidatePack(r, o)]
    /\ Goto(r, "close")
    /\ UNCHANGED <<live, stale, attempt, calls, exit, diskVars>>

\* An exception outside the five kinds the loop handles.
Unexpected(r) ==
    /\ pc[r] \in {"handoff", "approval", "answer", "save"}
    /\ Goto(r, "close")
    /\ UNCHANGED <<live, stale, attempt, calls, pack, exit, storeVars, diskVars>>

\* Seeded bug: the failed close is tried again and again.
CloseResources_Repeats(r) ==
    /\ pc[r] = "close"
    /\ pack[r] # NoPack
    /\ Goto(r, "write")
    /\ UNCHANGED <<live, stale, attempt, calls, pack, exit, storeVars, diskVars>>

\* The finally clause closes the three resources; its first error, or the
\* exception that was on its way, discards the pack.
CloseResources(r) ==
    /\ pc[r] = "close"
    /\ \/ pack[r] # NoPack /\ Goto(r, "write") /\ UNCHANGED exit
       \/ Exit(r, "inconclusive")
    /\ UNCHANGED <<live, stale, attempt, calls, pack, storeVars, diskVars>>

StageStatus(r) == IF pack[r].stage = "evidenceComplete" THEN "passed" ELSE "blocked"

\* The export is written only if CapturingCandidateStoreV3 saw a candidate.
MustExport(r) == r \in Exporting /\ cand[r] # NoCandidate

\* Seeded bug: an unwritable pack does not change the exit status.
WritePack_IgnoresErrors(r) ==
    /\ pc[r] = "write"
    /\ \/ Disk!Publish(PackFile(r))
       \/ Disk!Refuse(PackFile(r))
       \/ Disk!Fail(PackFile(r))
    /\ IF MustExport(r)
       THEN Goto(r, "export") /\ UNCHANGED exit
       ELSE Exit(r, StageStatus(r))
    /\ UNCHANGED <<live, stale, attempt, calls, pack, storeVars>>

\* Seeded bug: the export goes ahead although the pack was refused.
WritePack_ExportsAnyway(r) ==
    /\ pc[r] = "write"
    /\ \/ Disk!Publish(PackFile(r)) \/ Disk!Refuse(PackFile(r))
       \/ Disk!Fail(PackFile(r))
    /\ IF MustExport(r)
       THEN Goto(r, "export") /\ UNCHANGED exit
       ELSE Exit(r, IF result'[PackFile(r)] = "written" THEN StageStatus(r)
                                                       ELSE "wireConfigError")
    /\ UNCHANGED <<live, stale, attempt, calls, pack, storeVars>>

WritePack(r) ==
    /\ pc[r] = "write"
    /\ \/ /\ Disk!Publish(PackFile(r))
          /\ IF MustExport(r)
             THEN Goto(r, "export") /\ UNCHANGED exit
             ELSE Exit(r, StageStatus(r))
       \/ Disk!Refuse(PackFile(r)) /\ Exit(r, "wireConfigError")
       \/ Disk!Fail(PackFile(r)) /\ Exit(r, "wireConfigError")
    /\ UNCHANGED <<live, stale, attempt, calls, pack, storeVars>>

WriteExport(r) ==
    /\ pc[r] = "export"
    /\ \/ Disk!Publish(ExportFile(r)) /\ Exit(r, StageStatus(r))
       \/ Disk!Refuse(ExportFile(r)) /\ Exit(r, "inconclusive")
       \/ Disk!Fail(ExportFile(r)) /\ Exit(r, "inconclusive")
    /\ UNCHANGED <<live, stale, attempt, calls, pack, storeVars>>

Kill(r) ==
    /\ pc[r] \notin {"exited", "killed"}
    /\ Goto(r, "killed")
    /\ UNCHANGED <<live, stale, attempt, calls, pack, exit, storeVars, diskVars>>

Advance(r) ==
    \/ RejectLocally(r) \/ Start(r)
    \/ OutOfScope(r) \/ HandoffGate(r) \/ ApprovalGate(r)
    \/ Call(r) \/ ProviderRejects(r) \/ AttemptFails(r) \/ BackoffEnds(r)
    \/ \E sql \in Sqls : ProviderAnswers(r, sql)
    \/ \E o \in Store!Outcomes : SaveReturns(r, o)
    \/ Unexpected(r) \/ CloseResources(r) \/ WritePack(r) \/ WriteExport(r)

Next ==
    \/ \E e \in Evidence : Withdraw(e)
    \/ \E r \in Runs :
        \/ RejectLocally(r)
        \/ Start(r)
        \/ OutOfScope(r)
        \/ HandoffGate(r)
        \/ ApprovalGate(r)
        \/ Call(r)
        \/ ProviderRejects(r)
        \/ AttemptFails(r)
        \/ BackoffEnds(r)
        \/ \E sql \in Sqls : ProviderAnswers(r, sql)
        \/ InsertApplied(r)
        \/ \E o \in Store!Outcomes : SaveReturns(r, o)
        \/ Unexpected(r)
        \/ CloseResources(r)
        \/ WritePack(r)
        \/ WriteExport(r)
        \/ Kill(r)

Spec == Init /\ [][Next]_vars

\* Every await of a run is bounded by a client timeout, so a run that is not
\* killed keeps advancing.
FairSpec == Spec /\ \A r \in Runs : WF_vars(Advance(r))

-----------------------------------------------------------------------------

\* Domains of the variables.
TypeOK ==
    /\ live \in SUBSET Evidence
    /\ stale \in [Runs -> BOOLEAN]
    /\ pc \in [Runs -> Labels]
    /\ attempt \in [Runs -> 1..6]
    /\ calls \in [Runs -> 0..6]
    /\ pack \in [Runs -> Pack \cup {NoPack}]
    /\ exit \in [Runs -> {"none", "passed", "blocked", "inconclusive", "wireConfigError"}]
    /\ Store!StoreTypeOK
    /\ Disk!PublishTypeOK

\* A run whose handoff batch or approval was withdrawn before it started
\* never calls the model and never writes to the collection, however the
\* reads of its two gates interleave with later withdrawals.
StaleNeverGenerates ==
    \A r \in Runs : stale[r] => calls[r] = 0 /\ cand[r] = NoCandidate /\ r \notin applied

\* The three counts of provider calls agree: the proxy's call_count never
\* exceeds max_retries + 1, the attempt recorded in a candidate's provenance
\* is the number of calls made for it, and so is attemptCount of the pack.
AttemptsAgree ==
    \A r \in Runs :
        /\ calls[r] <= Retries[r] + 1
        /\ cand[r] # NoCandidate => cand[r].attempt = calls[r]
        /\ pack[r] # NoPack => pack[r].calls = calls[r]

\* A pack never claims more than the collection holds, and its static
\* verdict is the one of the very candidate that was stored.
PackMatchesStore ==
    \A r \in Runs : pack[r] # NoPack =>
        /\ pack[r].stage \in {"candidateStored", "evidenceComplete"} =>
             /\ pack[r].cand \in Store!Documents
             /\ pack[r].static = StaticStatus(pack[r].cand.sql)
        /\ pack[r].stage = "evidenceComplete" => pack[r].cand.sql \in PassingSqls
        /\ pack[r].store = "unavailable" => r \notin applied

\* repositoryVerificationStatus: "verified" only for runs whose closures
\* held when they started; any other status means that neither the model
\* nor the collection was touched.
VerificationHonest ==
    \A r \in Runs : pack[r] # NoPack =>
        IF pack[r].repository = "verified"
        THEN ~stale[r] /\ calls[r] > 0
        ELSE calls[r] = 0 /\ r \notin applied

\* Exit status 0 is backed by a published pack at stage evidenceComplete and
\* by the exported candidate if one was asked for, and status 2 after a
\* model call by a published pack, so the calls spent are on record.
ExitBacked ==
    \A r \in Runs :
        /\ exit[r] = "passed" => pack[r].stage = "evidenceComplete"
        /\ exit[r] = "passed" \/ (exit[r] = "blocked" /\ calls[r] > 0) =>
             /\ result[PackFile(r)] = "written"
             /\ MustExport(r) => result[ExportFile(r)] = "written"

\* No candidate export is attempted before its evidence pack is published,
\* and only an overwriting run can take that pack from its place.
ExportHasPack ==
    \A r \in Exporting :
        result[ExportFile(r)] # "none" =>
            /\ result[PackFile(r)] = "written"
            /\ file[PackPath[r]] = PackFile(r) \/ file[PackPath[r]] \in Overwriting

\* Once a run has its candidate the model is never called again, whatever
\* fails afterwards: save, static validation, close, pack or export.
NoCallAfterCandidate ==
    [][\A r \in Runs : cand[r] # NoCandidate => calls'[r] = calls[r] /\ cand'[r] = cand[r]]_vars

\* Every run ends, with an exit status or killed.
EveryRunEnds == \A r \in Runs : <>(pc[r] \in {"exited", "killed"})
=============================================================================
