------------------------- MODULE EvidenceFileCommit -------------------------
(***************************************************************************)
(* _write_evidence_pack_v3 and _commit_evidence_pack_temp of __main__.py,  *)
(* system call by system call: the existence check, the sibling temporary  *)
(* file, its content and fsync, the second existence check, the commit by  *)
(* link (or replace, with --overwrite) and the unlink of the temporary.    *)
(* Several processes write to the same directory, and any of them may be   *)
(* killed between two calls.                                               *)
(*                                                                         *)
(* The temporary names of mkstemp never collide, so each writer has one    *)
(* inode; a path is bound to an inode or to nothing.  On Windows the link  *)
(* falls back to os.rename, which refuses an existing target as link does; *)
(* it is the same step here.                                               *)
(***************************************************************************)
CONSTANTS Writers, Paths, Dest, Overwriting, Absent, Foreign

ASSUME PublishAssumption ==
    /\ Dest \in [Writers -> Paths]
    /\ Overwriting \subseteq Writers
    /\ Absent \notin Writers
    /\ Foreign \notin Writers
    /\ Absent # Foreign

VARIABLES
    file,    \* file[p]: the inode bound to path p (an inode is its writer)
    inode,   \* inode[w]: how much of w's document its inode holds
    temp,    \* the writers whose temporary name still exists
    step,    \* step[w]: the next call of w
    result   \* result[w]: the outcome w has reached, reported when step is "done"

commitVars == <<file, inode, temp, step, result>>

Steps == {"check", "create", "fill", "recheck", "commit", "unlink", "done", "killed"}

CommitInit ==
    /\ file \in [Paths -> {Absent, Foreign}]
    /\ inode = [w \in Writers |-> "none"]
    /\ temp = {}
    /\ step = [w \in Writers |-> "check"]
    /\ result = [w \in Writers |-> "none"]

StepTo(w, s) == step' = [step EXCEPT ![w] = s]
Settle(w, r) == result' = [result EXCEPT ![w] = r]
Exists(p) == file[p] # Absent

\* Seeded bug: --overwrite ignored by the first check.
Check_IgnoresOverwrite(w) ==
    /\ step[w] = "check"
    /\ IF Exists(Dest[w])
       THEN StepTo(w, "done") /\ Settle(w, "exists")
       ELSE StepTo(w, "create") /\ UNCHANGED result
    /\ UNCHANGED <<file, inode, temp>>

\* if path.exists() and not overwrite: raise FileExistsError
Check(w) ==
    /\ step[w] = "check"
    /\ IF Exists(Dest[w]) /\ w \notin Overwriting
       THEN StepTo(w, "done") /\ Settle(w, "exists")
       ELSE StepTo(w, "create") /\ UNCHANGED result
    /\ UNCHANGED <<file, inode, temp>>

\* mkdir and mkstemp; an OSError leaves nothing behind.
Create(w) ==
    /\ step[w] = "create"
    /\ \/ /\ inode' = [inode EXCEPT ![w] = "partial"]
          /\ temp' = temp \cup {w}
          /\ StepTo(w, "fill")
          /\ UNCHANGED result
       \/ /\ StepTo(w, "done")
          /\ Settle(w, "error")
          /\ UNCHANGED <<inode, temp>>
    /\ UNCHANGED file

\* Seeded bug: a write that fails is not noticed.
Fill_SwallowsError(w) ==
    /\ step[w] = "fill"
    /\ inode' \in {inode, [inode EXCEPT ![w] = "complete"]}
    /\ StepTo(w, IF w \in Overwriting THEN "commit" ELSE "recheck")
    /\ UNCHANGED <<file, temp, result>>

\* write, flush, fsync and close of the temporary file.
Fill(w) ==
    /\ step[w] = "fill"
    /\ \/ /\ inode' = [inode EXCEPT ![w] = "complete"]
          /\ StepTo(w, IF w \in Overwriting THEN "commit" ELSE "recheck")
          /\ UNCHANGED result
       \/ /\ StepTo(w, "unlink")
          /\ Settle(w, "error")
          /\ UNCHANGED inode
    /\ UNCHANGED <<file, temp>>

\* if dest.exists(): raise FileExistsError, in the commit itself
Recheck(w) ==
    /\ step[w] = "recheck"
    /\ IF Exists(Dest[w])
       THEN StepTo(w, "unlink") /\ Settle(w, "exists")
       ELSE StepTo(w, "commit") /\ UNCHANGED result
    /\ UNCHANGED <<file, inode, temp>>

\* os.replace moves the temporary name over the destination.
Replace(w) ==
    /\ file' = [file EXCEPT ![Dest[w]] = w]
    /\ temp' = temp \ {w}
    /\ Settle(w, "written")

\* os.link binds the destination to the inode unless it is already bound.
Link(w) ==
    /\ IF Exists(Dest[w])
       THEN Settle(w, "exists") /\ UNCHANGED file
       ELSE Settle(w, "written") /\ file' = [file EXCEPT ![Dest[w]] = w]
    /\ UNCHANGED temp

Commit(w) ==
    /\ step[w] = "commit"
    /\ \/ w \in Overwriting /\ Replace(w)
       \/ w \notin Overwriting /\ Link(w)
       \/ Settle(w, "error") /\ UNCHANGED <<file, temp>>
    /\ StepTo(w, "unlink")
    /\ UNCHANGED inode

\* tmp_path.unlink(missing_ok=True); its OSError is swallowed.
Unlink(w) ==
    /\ step[w] = "unlink"
    /\ temp' \in {temp, temp \ {w}}
    /\ StepTo(w, "done")
    /\ UNCHANGED <<file, inode, result>>

\* The process is killed between two calls: no finally clause runs.
Kill(w) ==
    /\ step[w] \notin {"done", "killed"}
    /\ StepTo(w, "killed")
    /\ UNCHANGED <<file, inode, temp, result>>

Advance(w) ==
    Check(w) \/ Create(w) \/ Fill(w) \/ Recheck(w) \/ Commit(w) \/ Unlink(w)

CommitNext ==
    \E w \in Writers :
        \/ Check(w)
        \/ Create(w)
        \/ Fill(w)
        \/ Recheck(w)
        \/ Commit(w)
        \/ Unlink(w)
        \/ Kill(w)

CommitSpec == CommitInit /\ [][CommitNext]_commitVars

-----------------------------------------------------------------------------

\* Domains of the variables.
CommitTypeOK ==
    /\ file \in [Paths -> Writers \cup {Absent, Foreign}]
    /\ inode \in [Writers -> {"none", "partial", "complete"}]
    /\ temp \in SUBSET Writers
    /\ step \in [Writers -> Steps]
    /\ result \in [Writers -> {"none", "written", "exists", "error"}]

\* A reader of an output path never sees a half-written document, at any
\* instant and after any kill: only complete inodes are ever bound to a path.
NoPartialDocument ==
    \A p \in Paths : file[p] \in Writers => inode[file[p]] = "complete"

\* The writer's exception agrees with the disk: after an OSError the
\* writer's document is not at its path, and "written" means it was bound
\* there and at most an overwriting writer has replaced it since.
ResultMatchesDisk ==
    \A w \in Writers :
        /\ result[w] # "written" => file[Dest[w]] # w
        /\ result[w] = "written" =>
             \/ file[Dest[w]] = w
             \/ file[Dest[w]] \in Overwriting

\* The whole procedure looks atomic from outside.
Publisher == INSTANCE AtomicPublish
ImplementsAtomicPublish == Publisher!Spec

\* A file is replaced only by a writer that was given --overwrite; in
\* particular the two existence checks may go stale without harm.
NoUnauthorizedOverwrite ==
    [][\A p \in Paths :
        file[p] # Absent /\ file'[p] # file[p] => file'[p] \in Overwriting]_commitVars

=============================================================================
