------------------------- MODULE ApprovalAuthority -------------------------
(***************************************************************************)
(* What a lookup of an approval promises                                   *)
(* (application/ports/approval_records_v3.py): "Returns the record if      *)
(* found and active, None if not found", as if the authority had been      *)
(* asked at one instant.  A lookup may instead be unavailable, and then    *)
(* says nothing of the approval.                                           *)
(***************************************************************************)
CONSTANTS
    Readers,    \* processes that look an approval up, each of them once
    Approvals   \* contents an approval record of the looked-up id can have

VARIABLES
    active,     \* the contents that are registered and active now
    answer      \* answer[r]: what the lookup of r returned

authorityVars == <<active, answer>>

NoAnswers == {"pending", "none", "unavailable"}

Init ==
    /\ active = {}
    /\ answer = [r \in Readers |-> "pending"]

\* The authority registers, activates, revokes or supersedes.
Govern ==
    /\ active' \in SUBSET Approvals
    /\ UNCHANGED answer

\* What a lookup may return at this instant.
MayAnswer(a) ==
    \/ a \in active
    \/ a = "none" /\ active = {}
    \/ a = "unavailable"

Answer(r, a) ==
    /\ answer[r] = "pending"
    /\ MayAnswer(a)
    /\ answer' = [answer EXCEPT ![r] = a]
    /\ UNCHANGED active

Next ==
    \/ Govern
    \/ \E r \in Readers, a \in Approvals \cup NoAnswers : Answer(r, a)

Spec == Init /\ [][Next]_authorityVars
=============================================================================
