-------------------------- MODULE InsertOnlyStore --------------------------
(***************************************************************************)
(* What SqlBot's candidate store promises to its callers                   *)
(* (application/ports/candidate_store_v3.py): an insert-only sink keyed by *)
(* the candidate's content hash.                                           *)
(*                                                                         *)
(* A save takes effect at most once, at an instant of its own, and the     *)
(* outcome says what the caller may conclude from it:                      *)
(*   stored       this save inserted the document;                         *)
(*   duplicate    another save inserted the same content before;           *)
(*   unavailable  this save inserted nothing and never will;               *)
(*   failed       nothing: the insert may have happened, or still happen.  *)
(* A saver that dies gets no outcome at all.                               *)
(***************************************************************************)
EXTENDS Naturals

CONSTANTS
    Savers,      \* callers of save(), each saving at most once
    Candidates,  \* candidate contents; equal content means equal contentSha256
    NoCandidate  \* not a candidate: "nothing handed to save() yet"

VARIABLES
    cand,     \* cand[s]: the candidate s asked to save
    applied,  \* the savers whose insert took effect
    outcome   \* outcome[s]: what save() returned to s

storeVars == <<cand, applied, outcome>>

Outcomes == {"stored", "duplicate", "unavailable", "failed"}

\* The contents of the collection.
Documents == {cand[s] : s \in applied}

Init ==
    /\ cand = [s \in Savers |-> NoCandidate]
    /\ applied = {}
    /\ outcome = [s \in Savers |-> "none"]

Begin(s, c) ==
    /\ cand[s] = NoCandidate
    /\ cand' = [cand EXCEPT ![s] = c]
    /\ UNCHANGED <<applied, outcome>>

\* The document reaches the collection, possibly after save() gave up.
Apply(s) ==
    /\ cand[s] # NoCandidate
    /\ s \notin applied
    /\ outcome[s] \in {"none", "failed"}
    /\ cand[s] \notin Documents
    /\ applied' = applied \cup {s}
    /\ UNCHANGED <<cand, outcome>>

\* What save() may answer, given what happened to the insert.
MayReport(s, o) ==
    \/ o = "stored" /\ s \in applied
    \/ o = "duplicate" /\ s \notin applied /\ cand[s] \in Documents
    \/ o = "unavailable" /\ s \notin applied
    \/ o = "failed"

Report(s, o) ==
    /\ cand[s] # NoCandidate
    /\ outcome[s] = "none"
    /\ MayReport(s, o)
    /\ outcome' = [outcome EXCEPT ![s] = o]
    /\ UNCHANGED <<cand, applied>>

Next ==
    \E s \in Savers :
        \/ \E c \in Candidates : Begin(s, c)
        \/ Apply(s)
        \/ \E o \in Outcomes : Report(s, o)

Spec == Init /\ [][Next]_storeVars

-----------------------------------------------------------------------------

StoreTypeOK ==
    /\ cand \in [Savers -> Candidates \cup {NoCandidate}]
    /\ applied \in SUBSET Savers
    /\ outcome \in [Savers -> Outcomes \cup {"none"}]

\* Outcomes are honest: "stored" and "duplicate" are only ever reported for
\* content that is in the collection, "stored" by the one save that put it
\* there; "unavailable" by a save that put nothing there.
OutcomeHonest ==
    \A s \in Savers :
        /\ outcome[s] = "stored" => s \in applied
        /\ outcome[s] = "duplicate" => s \notin applied /\ cand[s] \in Documents
        /\ outcome[s] = "unavailable" => s \notin applied
=============================================================================
