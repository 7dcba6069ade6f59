----------------------------- MODULE ReportFile -----------------------------
(***************************************************************************)
(* The output of validate-sqlserver: _write_report_exclusively and the end *)
(* of _run_validate_sqlserver in __main__.py.                              *)
(*                                                                         *)
(* Unlike an evidence pack (EvidenceFileCommit), the report is written in  *)
(* place: open(path, O_WRONLY|O_CREAT|O_TRUNC), with O_EXCL unless the run *)
(* has --overwrite, then write.  The file is a sequence of blocks; every   *)
(* run writes its own blocks at its own offset of the one file.            *)
(***************************************************************************)
EXTENDS Naturals, Sequences

CONSTANTS
    Runs,             \* validate-sqlserver runs that write to the path
    OverwritingRuns,  \* those with --overwrite
    Blocks,           \* number of blocks of each run's report
    Elsewhere,        \* the author of a file from elsewhere
    Nul               \* a block nobody wrote: a hole before an offset

ASSUME ReportAssumption ==
    /\ OverwritingRuns \subseteq Runs
    /\ Blocks \in [Runs -> Nat \ {0}]
    /\ Elsewhere \notin Runs /\ Nul \notin Runs /\ Elsewhere # Nul

VARIABLES
    exists,   \* the path names a file
    content,  \* who wrote each block of it
    pc,       \* next step of each run
    offset,   \* blocks each run has written
    exit,     \* exit status of each run
    owner,    \* history: the last run to open the file, or Elsewhere
    shared    \* history: runs that had the file open together with another

reportVars == <<exists, content, pc, offset, exit, owner, shared>>
historyVars == <<owner, shared>>

\* The report of w, whole.
Whole(w) == [i \in 1..Blocks[w] |-> w]

ReportInit ==
    /\ \/ exists = FALSE /\ content = <<>>
       \/ exists = TRUE /\ content = <<Elsewhere>>
    /\ pc = [w \in Runs |-> "check"]
    /\ offset = [w \in Runs |-> 0]
    /\ exit = [w \in Runs |-> "none"]
    /\ owner = Elsewhere
    /\ shared = {}

Proceed(w, label) == pc' = [pc EXCEPT ![w] = label]

Exit(w, code) ==
    /\ Proceed(w, "ended")
    /\ exit' = [exit EXCEPT ![w] = code]

\* if path.exists() and not overwrite
CheckPath(w) ==
    /\ pc[w] = "check"
    /\ IF exists /\ w \notin OverwritingRuns
       THEN Exit(w, "4")
       ELSE Proceed(w, "open") /\ UNCHANGED exit
    /\ UNCHANGED <<exists, content, offset, historyVars>>

\* w has the file open now, with all that are writing to it.
Opened(w) ==
    LET writing == {u \in Runs : pc[u] = "write"} IN
    /\ owner' = w
    /\ shared' = shared \cup IF writing = {} THEN {} ELSE writing \cup {w}

\* Seeded bug: O_EXCL is forgotten.
Open_NotExclusive(w) ==
    /\ pc[w] = "open"
    /\ exists' = TRUE
    /\ content' = <<>>
    /\ Proceed(w, "write")
    /\ Opened(w)
    /\ UNCHANGED <<offset, exit>>

\* os.open: the loser of a race gets FileExistsError, which nobody catches.
Open(w) ==
    /\ pc[w] = "open"
    /\ \/ /\ exists /\ w \notin OverwritingRuns
          /\ Exit(w, "1")
          /\ UNCHANGED <<exists, content, historyVars>>
       \/ /\ ~exists \/ w \in OverwritingRuns
          /\ exists' = TRUE
          /\ content' = <<>>
          /\ Proceed(w, "write")
          /\ Opened(w)
          /\ UNCHANGED exit
    /\ UNCHANGED offset

\* The file once w has put a block at its offset.
Written(w) ==
    LET at == offset[w] + 1 IN
    [i \in 1..(IF at > Len(content) THEN at ELSE Len(content)) |->
        IF i = at THEN w ELSE IF i <= Len(content) THEN content[i] ELSE Nul]

\* handle.write, block by block
Write(w) ==
    /\ pc[w] = "write"
    /\ offset[w] < Blocks[w]
    /\ content' = Written(w)
    /\ offset' = [offset EXCEPT ![w] = @ + 1]
    /\ UNCHANGED <<exists, pc, exit, historyVars>>

\* Seeded bug: the status is reported before the buffer is written out.
Finish_Early(w) ==
    /\ pc[w] = "write"
    /\ \E code \in {"0", "2", "3"} : Exit(w, code)
    /\ UNCHANGED <<exists, content, offset, historyVars>>

\* The file is closed and the status of the report becomes the exit status.
Finish(w) ==
    /\ pc[w] = "write"
    /\ offset[w] = Blocks[w]
    /\ \E code \in {"0", "2", "3"} : Exit(w, code)
    /\ UNCHANGED <<exists, content, offset, historyVars>>

\* mkdir, open or write raises OSError, which nobody catches.
Fail(w) ==
    /\ pc[w] \in {"open", "write"}
    /\ Exit(w, "1")
    /\ UNCHANGED <<exists, content, offset, historyVars>>

KillRun(w) ==
    /\ pc[w] # "ended"
    /\ Exit(w, "killed")
    /\ UNCHANGED <<exists, content, offset, historyVars>>

Step(w) == CheckPath(w) \/ Open(w) \/ Write(w) \/ Finish(w)

ReportNext == \E w \in Runs : Step(w) \/ Fail(w) \/ KillRun(w)

ReportSpec == ReportInit /\ [][ReportNext]_reportVars

-----------------------------------------------------------------------------
(* Properties                                                              *)

\* Every variable has its type.
ReportTypeOK ==
    /\ exists \in BOOLEAN
    /\ content \in Seq(Runs \cup {Elsewhere, Nul})
    /\ exists \/ content = <<>>
    /\ pc \in [Runs -> {"check", "open", "write", "ended"}]
    /\ offset \in [Runs -> Nat]
    /\ \A w \in Runs : offset[w] <= Blocks[w]
    /\ exit \in [Runs -> {"none", "0", "1", "2", "3", "4", "killed"}]
    /\ \A w \in Runs : exit[w] = "none" <=> pc[w] # "ended"
    /\ owner \in Runs \cup {Elsewhere}
    /\ shared \subseteq Runs

\* A file that no run has open, be it a finished report or one from elsewhere,
\* is only ever changed by a run with --overwrite, although the existence check
\* of a run without it may be long out of date when it opens the file.
NoSilentOverwrite ==
    [][exists /\ (\A u \in Runs : pc[u] # "write") /\ content' # content
         => \E u \in OverwritingRuns : pc[u] = "open" /\ pc'[u] = "write"]_reportVars

\* A run that exits with the status of its report has left the whole report and
\* nothing else under the path, until another run opens the file, and unless
\* another had it open at the same time.
ReportedIsOnDisk ==
    \A w \in Runs \ shared :
        exit[w] \in {"0", "2", "3"} /\ owner = w => content = Whole(w)

=============================================================================
