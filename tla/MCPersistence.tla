--------------------------- MODULE MCPersistence ---------------------------
(* What the commands leave behind or look up outside their own process.     *)
(*                                                                          *)
(* The candidate store: three processes, two contents; two can race for one *)
(* content while the third uses the other, or all three race.  The approval *)
(* lookup: two readers, two contents of one approvalId.                     *)
(*                                                                          *)
(* The two ways the command line writes a file: three writers of a pack to  *)
(* one path, which is free or taken at first, of which w1 and w2 compete    *)
(* without --overwrite and w3 may replace what is there; and two runs       *)
(* without and one with --overwrite that write reports of different lengths.*)
(*                                                                          *)
(* The four share no variable, so each is run while the others are in an    *)
(* initial state: the rest of the product has nothing new to show.          *)
EXTENDS MongoCandidateStoreV3, MongoApprovalRecordStoreV3, EvidenceFileCommit,
        ReportFile, TLC

CONSTANTS w1, w2, w3, path,  \* of packs
          p, q, o            \* runs that report

MCDest == (w1 :> path) @@ (w2 :> path) @@ (w3 :> path)
MCBlocks == (p :> 2) @@ (q :> 1) @@ (o :> 3)

PersistenceInit == Init /\ LookupInit /\ CommitInit /\ ReportInit

NoSaveYet == phase = [s \in Savers |-> "idle"]
NoLookupYet == LookupInit
NoPackYet == step = [w \in Writers |-> "check"]
NoReportYet == pc = [r \in Runs |-> "check"]
\* Where files are is nothing to the two MongoDB adapters.
NoFileYet == NoPackYet /\ NoReportYet /\ file[path] = Absent /\ ~exists

LookupsRun == NoSaveYet /\ NoFileYet /\ UNCHANGED <<vars, commitVars, reportVars>>

PersistenceNext ==
  \/ NoLookupYet /\ NoFileYet /\ Next /\ UNCHANGED <<lookupVars, commitVars, reportVars>>
  \/ LookupNext /\ LookupsRun
  \/ NoSaveYet /\ NoLookupYet /\ NoReportYet /\ CommitNext /\ UNCHANGED <<vars, lookupVars, reportVars>>
  \/ NoSaveYet /\ NoLookupYet /\ NoPackYet /\ ReportNext /\ UNCHANGED <<vars, lookupVars, commitVars>>

persistenceVars == <<vars, lookupVars, commitVars, reportVars>>

\* LookupFairness, as long as it is the lookups that run.
PersistenceFairness == \A r \in Readers : WF_persistenceVars(LookupStep(r) /\ LookupsRun)

PersistenceSpec ==
  PersistenceInit /\ [][PersistenceNext]_persistenceVars /\ PersistenceFairness
============================================================================
