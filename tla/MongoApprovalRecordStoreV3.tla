--------------------- MODULE MongoApprovalRecordStoreV3 ---------------------
(***************************************************************************)
(* The approval port of prepare-v3 and generate-v3: one                    *)
(* MongoApprovalRecordStoreV3 per process, initialised, asked once for one *)
(* approvalId, and closed.  The lookup is two reads, of the record and     *)
(* then of its active pointer, and metadataReview, which owns both         *)
(* collections, may write between them.                                    *)
(*                                                                         *)
(* The records are insert-only and the pointer is replaced as a whole      *)
(* (compare-and-swap by its owner), as the adapter takes them to be; that  *)
(* an approvalId is unique among the records it does not take for granted, *)
(* and neither does the model.  A document is Damaged when it does not     *)
(* validate or does not match its own contentSha256.                       *)
(***************************************************************************)
EXTENDS FiniteSets

CONSTANTS
    Readers,    \* processes that look the approval up
    Approvals,  \* contents a record of that approvalId can have
    Damaged,    \* a document that fails validation or its own hash
    Missing     \* no document

States == {"active", "revoked", "superseded"}

\* approvalContentSha256 binds a pointer to the content of one record.
Pointer == [state : States, binds : Approvals]

ASSUME DistinctAssumption ==
    /\ Damaged # Missing
    /\ {Damaged, Missing} \cap Pointer = {}
    /\ {Damaged, Missing, "pending", "none", "unavailable"} \cap Approvals = {}

VARIABLES
    \* MongoDB, written by metadataReview
    records,    \* the documents of that approvalId in the record collection
    pointer,    \* its document in the active-pointer collection
    \* each process
    await,         \* the await the process is at
    client,     \* its AsyncMongoClient
    connected,  \* _ready (with _client and both collections set)
    record,     \* the local record, once read and validated
    answer      \* what get_by_approval_id returned or raised

reviewVars == <<records, pointer>>
lookupVars == <<records, pointer, await, client, connected, record, answer>>

LookupInit ==
    /\ records = {}
    /\ pointer = Missing
    /\ await = [r \in Readers |-> "start"]
    /\ client = [r \in Readers |-> "none"]
    /\ connected = [r \in Readers |-> FALSE]
    /\ record = [r \in Readers |-> Missing]
    /\ answer = [r \in Readers |-> "pending"]

-----------------------------------------------------------------------------
(* metadataReview *)

InsertRecord ==
    /\ \E d \in Approvals \cup {Damaged} : records' = records \cup {d}
    /\ UNCHANGED <<pointer, await, client, connected, record, answer>>

WritePointer ==
    /\ pointer' \in Pointer \cup {Damaged}
    /\ UNCHANGED <<records, await, client, connected, record, answer>>

-----------------------------------------------------------------------------
(* One process *)

MoveTo(r, p) == await' = [await EXCEPT ![r] = p]

Conclude(r, a) ==
    /\ MoveTo(r, "answered")
    /\ answer' = [answer EXCEPT ![r] = a]

\* Closes self._client, which is set as long as the store is connected.
CloseClient(r) ==
    /\ client' = [client EXCEPT ![r] = IF connected[r] THEN "closed" ELSE @]
    /\ connected' = [connected EXCEPT ![r] = FALSE]

\* initialize(): a client is made and pinged.
Connect(r) ==
    /\ await[r] = "start"
    /\ client' = [client EXCEPT ![r] = "open"]
    /\ MoveTo(r, "ping")
    /\ UNCHANGED <<reviewVars, connected, record, answer>>

\* initialize() without a URI, or with a client that cannot be made.
NoClient(r) ==
    /\ await[r] = "start"
    /\ MoveTo(r, "record")
    /\ UNCHANGED <<reviewVars, client, connected, record, answer>>

\* The ping answers.
PingAnswers(r) ==
    /\ await[r] = "ping"
    /\ connected' = [connected EXCEPT ![r] = TRUE]
    /\ MoveTo(r, "record")
    /\ UNCHANGED <<reviewVars, client, record, answer>>

\* Seeded bug: the client of a failed initialize() is dropped, not closed.
PingFails_Leaks(r) ==
    /\ await[r] = "ping"
    /\ MoveTo(r, "record")
    /\ UNCHANGED <<reviewVars, client, connected, record, answer>>

\* The ping fails: initialize() closes the client and stays unavailable.
PingFails(r) ==
    /\ await[r] = "ping"
    /\ client' = [client EXCEPT ![r] = "closed"]
    /\ MoveTo(r, "record")
    /\ UNCHANGED <<reviewVars, connected, record, answer>>

\* get_by_approval_id without a connected client.
LookupUnavailable(r) ==
    /\ await[r] = "record"
    /\ ~connected[r]
    /\ Conclude(r, "unavailable")
    /\ UNCHANGED <<reviewVars, client, connected, record>>

\* The record is read: missing, refused, or kept for the second read.
ReadRecord(r) ==
    /\ await[r] = "record"
    /\ connected[r]
    /\ \/ /\ records = {}
          /\ Conclude(r, "none")
          /\ UNCHANGED record
       \/ /\ Damaged \in records
          /\ Conclude(r, "unavailable")
          /\ UNCHANGED record
       \/ /\ \E a \in records \cap Approvals : record' = [record EXCEPT ![r] = a]
          /\ MoveTo(r, "pointer")
          /\ UNCHANGED answer
    /\ UNCHANGED <<reviewVars, client, connected>>

\* Seeded bug: the pointer's approvalContentSha256 is not compared.
PointerVerdict_Unbound(r) ==
    IF pointer = Missing THEN "none"
    ELSE IF pointer = Damaged THEN "unavailable"
    ELSE IF pointer.state # "active" THEN "none"
    ELSE record[r]

\* What the pointer says of the record read before, in the order of the code.
PointerVerdict(r) ==
    IF pointer = Missing THEN "none"
    ELSE IF pointer = Damaged \/ pointer.binds # record[r] THEN "unavailable"
    ELSE IF pointer.state # "active" THEN "none"
    ELSE record[r]

\* The active pointer is read, and the lookup returns.
ReadPointer(r) ==
    /\ await[r] = "pointer"
    /\ Conclude(r, PointerVerdict(r))
    /\ UNCHANGED <<reviewVars, client, connected, record>>

\* Either read raises OSError or PyMongoError: _degrade() closes the client.
QueryErrors(r) ==
    /\ await[r] = "pointer" \/ (await[r] = "record" /\ connected[r])
    /\ CloseClient(r)
    /\ Conclude(r, "unavailable")
    /\ UNCHANGED <<reviewVars, record>>

\* The command's finally, also when an earlier gate refused and nothing was
\* looked up.
CloseStore(r) ==
    /\ await[r] \in {"record", "answered"}
    /\ CloseClient(r)
    /\ MoveTo(r, "closed")
    /\ UNCHANGED <<reviewVars, record, answer>>

LookupStep(r) ==
    \/ Connect(r) \/ NoClient(r) \/ PingAnswers(r) \/ PingFails(r) \/ LookupUnavailable(r)
    \/ ReadRecord(r) \/ ReadPointer(r) \/ QueryErrors(r) \/ CloseStore(r)

LookupNext ==
    \/ InsertRecord
    \/ WritePointer
    \/ \E r \in Readers :
        \/ Connect(r)
        \/ NoClient(r)
        \/ PingAnswers(r)
        \/ PingFails(r)
        \/ LookupUnavailable(r)
        \/ ReadRecord(r)
        \/ ReadPointer(r)
        \/ QueryErrors(r)
        \/ CloseStore(r)

LookupSpec == LookupInit /\ [][LookupNext]_lookupVars

\* timeoutMS and serverSelectionTimeoutMS bound every await of the adapter.
LookupFairness == \A r \in Readers : WF_lookupVars(LookupStep(r))

-----------------------------------------------------------------------------

\* Domains of the variables: a record is kept only once it is validated, and
\* a client is open, closed or was never made.
LookupTypeOK ==
    /\ records \in SUBSET (Approvals \cup {Damaged})
    /\ pointer \in Pointer \cup {Damaged, Missing}
    /\ await \in [Readers -> {"start", "ping", "record", "pointer", "answered", "closed"}]
    /\ client \in [Readers -> {"none", "open", "closed"}]
    /\ connected \in [Readers -> BOOLEAN]
    /\ record \in [Readers -> Approvals \cup {Missing}]
    /\ answer \in [Readers -> Approvals \cup {"pending", "none", "unavailable"}]

\* The contents that are approved now: registered, and bound by an active
\* pointer.
ActiveApprovals == {a \in Approvals : a \in records /\ pointer = [state |-> "active", binds |-> a]}

\* Two reads look like one: whatever metadataReview writes between them, a
\* record is returned only if it was registered and active at one instant of
\* the lookup, None only if nothing was, and failures are neither.
Authority == INSTANCE ApprovalAuthority WITH active <- ActiveApprovals
ImplementsApprovalAuthority == Authority!Spec

\* Every client that was made is closed, on whichever path the lookup took
\* (a failed ping, a failed query, an answer).
ClientReleased == \A r \in Readers : (client[r] # "none") ~> (client[r] = "closed")
=============================================================================
