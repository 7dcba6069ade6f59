----------------------- MODULE MongoCandidateStoreV3 -----------------------
(***************************************************************************)
(* The MongoDB candidate store of the V3 line as generate-v3 uses it:      *)
(* DeferredCandidateStoreV3 (initialises its delegate on the first save)   *)
(* around MongoCandidateStoreV3 (ping, unique index, insert_one), one pair *)
(* of objects per process, all processes writing to one collection.        *)
(*                                                                         *)
(* The two awaits inside initialize() and the one inside save() are where  *)
(* other processes, the server and crashes interleave.  The network is     *)
(* modelled only as far as the adapter can tell: a request is applied, or  *)
(* lost, or applied after the client has given up on it (timeoutMS).       *)
(* The self-hash check inside save() never rejects here: every candidate   *)
(* handed over was assembled by generate_sql_candidate_v3, which computes  *)
(* the hash with the function the store checks it with.                    *)
(***************************************************************************)
EXTENDS Naturals, FiniteSets

CONSTANTS Savers, Candidates, NoCandidate

ASSUME NoCandidateAssumption == NoCandidate \notin Candidates

VARIABLES
    \* the MongoDB server
    docs,        \* documents of the collection: content and inserting saver
    index,       \* the unique index on contentSha256 exists
    wire,        \* inserts sent and neither applied nor lost yet
    reply,       \* reply[s]: the server's answer on its way to s
    \* the store objects of each process
    phase,       \* how far save() of s has come
    ready,       \* MongoCandidateStoreV3._ready (with _client, _collection)
    cand,        \* the candidate s asked to save
    outcome      \* the CandidateStoreV3Outcome status returned to s

serverVars == <<docs, index, wire, reply>>
clientVars == <<phase, ready, cand, outcome>>
vars == <<docs, index, wire, reply, phase, ready, cand, outcome>>

Document == [cand : Candidates, owner : Savers]

\* "idle": save() not called; "ping", "index": inside initialize();
\* "save": initialize() returned; "inserting": awaiting insert_one;
\* "done": save() returned; "closed": close() ran; "gone": the process died
\* or an exception the adapter does not catch left save() without outcome.
Phases == {"idle", "ping", "index", "save", "inserting", "done", "closed", "gone"}

Init ==
    /\ docs = {}
    /\ index = FALSE
    /\ wire = {}
    /\ reply = [s \in Savers |-> "none"]
    /\ phase = [s \in Savers |-> "idle"]
    /\ ready = [s \in Savers |-> FALSE]
    /\ cand = [s \in Savers |-> NoCandidate]
    /\ outcome = [s \in Savers |-> "none"]

-----------------------------------------------------------------------------

Goto(s, p) == phase' = [phase EXCEPT ![s] = p]

Return(s, o) ==
    /\ Goto(s, "done")
    /\ outcome' = [outcome EXCEPT ![s] = o]

\* DeferredCandidateStoreV3.save, first call: delegate.initialize() starts.
Save(s, c) ==
    /\ phase[s] = "idle"
    /\ cand' = [cand EXCEPT ![s] = c]
    /\ Goto(s, "ping")
    /\ UNCHANGED <<serverVars, ready, outcome>>

\* The ping answers.
Ping(s) ==
    /\ phase[s] = "ping"
    /\ Goto(s, "index")
    /\ UNCHANGED <<serverVars, ready, cand, outcome>>

\* create_index answers: the client becomes ready.
CreateIndex(s) ==
    /\ phase[s] = "index"
    /\ index' = TRUE
    /\ ready' = [ready EXCEPT ![s] = TRUE]
    /\ Goto(s, "save")
    /\ UNCHANGED <<docs, wire, reply, cand, outcome>>

\* OSError, PyMongoError or ValueError inside initialize(): the adapter
\* swallows it and stays unavailable.  A create_index whose answer was lost
\* may still have created the index.
InitializeDegrades(s) ==
    /\ phase[s] \in {"ping", "index"}
    /\ IF phase[s] = "index" THEN index' \in {index, TRUE} ELSE index' = index
    /\ ready' = [ready EXCEPT ![s] = FALSE]
    /\ Goto(s, "save")
    /\ UNCHANGED <<docs, wire, reply, cand, outcome>>

\* Any other exception of initialize(): the deferred store answers for it.
InitializeRaises(s) ==
    /\ phase[s] \in {"ping", "index"}
    /\ Return(s, "unavailable")
    /\ UNCHANGED <<serverVars, ready, cand>>

\* MongoCandidateStoreV3.save without a ready client.
SaveUnavailable(s) ==
    /\ phase[s] = "save"
    /\ ~ready[s]
    /\ Return(s, "unavailable")
    /\ UNCHANGED <<serverVars, ready, cand>>

\* insert_one is sent.
SendInsert(s) ==
    /\ phase[s] = "save"
    /\ ready[s]
    /\ wire' = wire \cup {[cand |-> cand[s], owner |-> s]}
    /\ Goto(s, "inserting")
    /\ UNCHANGED <<docs, index, reply, ready, cand, outcome>>

\* The server rejects an insert the unique index forbids.
Forbidden(m) == index /\ \E d \in docs : d.cand = m.cand

\* The server processes an insert, whether or not its client still waits.
ServerInsert(m) ==
    /\ m \in wire
    /\ wire' = wire \ {m}
    /\ docs' = IF Forbidden(m) THEN docs ELSE docs \cup {m}
    /\ reply' = [reply EXCEPT ![m.owner] = IF Forbidden(m) THEN "duplicateKey" ELSE "ok"]
    /\ UNCHANGED <<index, clientVars>>

\* A request is lost on its way to the server.
LoseInsert(m) ==
    /\ m \in wire
    /\ wire' = wire \ {m}
    /\ UNCHANGED <<docs, index, reply, clientVars>>

\* insert_one returns, or raises DuplicateKeyError.
InsertReturns(s) ==
    /\ phase[s] = "inserting"
    /\ \/ reply[s] = "ok" /\ Return(s, "stored")
       \/ reply[s] = "duplicateKey" /\ Return(s, "duplicate")
    /\ UNCHANGED <<serverVars, ready, cand>>

\* Seeded bug: a write error folded into "unavailable".
InsertErrors_Unavailable(s) ==
    /\ phase[s] = "inserting"
    /\ Return(s, "unavailable")
    /\ UNCHANGED <<serverVars, ready, cand>>

\* insert_one raises OSError or PyMongoError; the client cannot know whether
\* the server applied the insert, or will.
InsertErrors(s) ==
    /\ phase[s] = "inserting"
    /\ Return(s, "failed")
    /\ UNCHANGED <<serverVars, ready, cand>>

Close(s) ==
    /\ phase[s] = "done"
    /\ Goto(s, "closed")
    /\ ready' = [ready EXCEPT ![s] = FALSE]
    /\ UNCHANGED <<serverVars, cand, outcome>>

Gone(s) ==
    /\ phase[s] \notin {"idle", "closed", "gone"}
    /\ Goto(s, "gone")
    /\ UNCHANGED <<serverVars, ready, cand, outcome>>

Next ==
    \/ \E s \in Savers :
        \/ \E c \in Candidates : Save(s, c)
        \/ Ping(s)
        \/ CreateIndex(s)
        \/ InitializeDegrades(s)
        \/ InitializeRaises(s)
        \/ SaveUnavailable(s)
        \/ SendInsert(s)
        \/ InsertReturns(s)
        \/ InsertErrors(s)
        \/ Close(s)
        \/ Gone(s)
    \/ \E m \in Document : ServerInsert(m) \/ LoseInsert(m)

Spec == Init /\ [][Next]_vars

-----------------------------------------------------------------------------

\* Domains of the variables, and the pairing of phase and outcome.
TypeOK ==
    /\ docs \in SUBSET Document
    /\ index \in BOOLEAN
    /\ wire \in SUBSET Document
    /\ reply \in [Savers -> {"none", "ok", "duplicateKey"}]
    /\ phase \in [Savers -> Phases]
    /\ ready \in [Savers -> BOOLEAN]
    /\ cand \in [Savers -> Candidates \cup {NoCandidate}]
    /\ outcome \in [Savers -> {"none", "stored", "duplicate", "unavailable", "failed"}]

\* The savers whose document is in the collection.
Applied == {d.owner : d \in docs}

\* The collection holds one document per content hash, whatever processes
\* race to create the index and to insert (the unique contentSha256 index is
\* there before any client becomes ready).
UniqueContent == \A d, e \in docs : d.cand = e.cand => d = e

\* The adapter's promise to its callers, as a refinement.
Store == INSTANCE InsertOnlyStore WITH applied <- Applied
ImplementsInsertOnlyStore == Store!Spec

\* Two processes that saved the same candidate are never both told "stored".
StoredOnce ==
    \A s, t \in Savers :
        outcome[s] = "stored" /\ outcome[t] = "stored" /\ cand[s] = cand[t] => s = t

\* The documents are never updated, replaced or deleted.
InsertOnly == [][docs \subseteq docs']_vars
=============================================================================
