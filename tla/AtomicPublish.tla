--------------------------- MODULE AtomicPublish ---------------------------
(***************************************************************************)
(* What _write_evidence_pack_v3 promises: a writer's complete document     *)
(* appears under its path in one step or not at all, and a writer without  *)
(* --overwrite never touches a file that is already there.                 *)
(***************************************************************************)
CONSTANTS
    Writers,      \* one writer per document to publish
    Paths,        \* destinations in the file system
    Dest,         \* Dest[w]: where w publishes
    Overwriting,  \* the writers given --overwrite
    Absent,       \* no file at the path
    Foreign       \* a file none of the writers wrote

VARIABLES
    file,    \* file[p]: the writer whose document is at p, Foreign or Absent
    result   \* result[w]: "none" | "written" | "exists" | "error"

publishVars == <<file, result>>

Results == {"written", "exists", "error"}

Init ==
    /\ file \in [Paths -> {Absent, Foreign}]
    /\ result = [w \in Writers |-> "none"]

Answer(w, answer) ==
    /\ result[w] = "none"
    /\ result' = [result EXCEPT ![w] = answer]

Publish(w) ==
    /\ w \in Overwriting \/ file[Dest[w]] = Absent
    /\ file' = [file EXCEPT ![Dest[w]] = w]
    /\ Answer(w, "written")

\* FileExistsError: there is a file, and no leave to replace it.
Refuse(w) ==
    /\ w \notin Overwriting
    /\ file[Dest[w]] # Absent
    /\ Answer(w, "exists")
    /\ UNCHANGED file

\* OSError while preparing or committing the document.
Fail(w) ==
    /\ Answer(w, "error")
    /\ UNCHANGED file

Next == \E w \in Writers : Publish(w) \/ Refuse(w) \/ Fail(w)

Spec == Init /\ [][Next]_publishVars

-----------------------------------------------------------------------------

\* Domains of the two variables.
PublishTypeOK ==
    /\ file \in [Paths -> Writers \cup {Absent, Foreign}]
    /\ result \in [Writers -> Results \cup {"none"}]
=============================================================================
