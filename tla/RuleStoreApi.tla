---------------------------- MODULE RuleStoreApi ----------------------------
(***************************************************************************)
(* The HTTP API's reads of RuleReader's collections: the lifespan that     *)
(* opens and closes the four MongoDB adapters, the MongoRuleStore that all *)
(* requests share, the three read handlers and /ready.                     *)
(*                                                                         *)
(* RuleReader inserts documents while requests are served.  A document is  *)
(* the key that orders it in the query that reads it: generated_at of the  *)
(* versions of one rule, fact_code of the V2 handoffs of one rule version, *)
(* which a cursor fetches in several round trips.  A Damaged document does *)
(* not validate; no two documents share a key.                             *)
(***************************************************************************)
EXTENDS Naturals, Sequences

CONSTANTS
    Requests,   \* HTTP requests, each served once
    Keys,       \* sort keys of documents
    Damaged,    \* the keys of documents that violate RuleReader's contract
    Configurations \* sets of adapters that the settings may enable

\* The lifespan initialises in this order and closes in the reverse one.
Adapters == <<"database", "candidateStore", "approvalPortV3", "candidateStoreV3">>
AdapterNames == {"database", "candidateStore", "approvalPortV3", "candidateStoreV3"}

ASSUME KeysAssumption ==
    /\ Keys \subseteq Nat /\ Damaged \subseteq Keys
    /\ Configurations \subseteq SUBSET AdapterNames

VARIABLES
    stored,     \* stored[c]: RuleReader's documents in collection c
    \* the application
    configured, \* the adapters that are there
    phase,      \* of the lifespan
    step,       \* the adapter it opens or closes next
    client,     \* client[a]: the MongoDB client of adapter a, "closed" when
                \* its close() has been called
    status,     \* MongoRuleStore.status, or that of the disabled initializer
    \* each request
    pc, kind,
    got,        \* documents fetched so far, then those of the answer
    code,       \* HTTP status of the response
    \* history
    failed,     \* the ping or a query of MongoRuleStore has failed
    before,     \* before[r]: what was stored when r arrived
    doomed      \* doomed[r]: failed when r arrived

appVars == <<configured, phase, step, client>>
requestVars == <<pc, kind, got, code, before, doomed>>
vars == <<stored, configured, phase, step, client, status, pc, kind, got, code,
          failed, before, doomed>>

Collections == {"rules", "handoffs", "batches"}

Init ==
    /\ stored = [c \in Collections |-> {}]
    /\ configured \in Configurations
    /\ phase = "starting"
    /\ step = 1
    /\ client = [a \in AdapterNames |-> "none"]
    /\ status = IF "database" \in configured THEN "unavailable" ELSE "disabled"
    /\ pc = [r \in Requests |-> "idle"]
    /\ kind = [r \in Requests |-> "none"]
    /\ got = [r \in Requests |-> {}]
    /\ code = [r \in Requests |-> "none"]
    /\ failed = FALSE
    /\ before = [r \in Requests |-> {}]
    /\ doomed = [r \in Requests |-> FALSE]

-----------------------------------------------------------------------------
(* RuleReader *)

\* A rule version has one V3 batch.
Insert(c, k) ==
    /\ c = "batches" => stored[c] = {}
    /\ stored' = [stored EXCEPT ![c] = @ \cup {k}]
    /\ UNCHANGED <<appVars, status, requestVars, failed>>

-----------------------------------------------------------------------------
(* The lifespan *)

Opened(a) == client' = [client EXCEPT ![a] = "open"]

\* initialize() of the next adapter succeeds.
Initialize ==
    /\ phase = "starting" /\ step <= Len(Adapters)
    /\ Adapters[step] \in configured
    /\ Opened(Adapters[step])
    /\ status' = IF Adapters[step] = "database" THEN "ready" ELSE status
    /\ step' = step + 1
    /\ UNCHANGED <<stored, configured, phase, requestVars, failed>>

\* The next adapter is not configured; or its initialize() closes the client
\* again, swallows the error and leaves it unavailable.
InitializeDegrades ==
    /\ phase = "starting" /\ step <= Len(Adapters)
    /\ failed' = (failed \/ (Adapters[step] = "database" /\ "database" \in configured))
    /\ step' = step + 1
    /\ UNCHANGED <<stored, configured, phase, client, status, requestVars>>

Serve ==
    /\ phase = "starting" /\ step > Len(Adapters)
    /\ phase' = "serving"
    /\ UNCHANGED <<stored, configured, step, client, status, requestVars, failed>>

\* The server runs the lifespan's exit once no request is in flight.
Shutdown ==
    /\ phase = "serving"
    /\ \A r \in Requests : pc[r] # "reading"
    /\ phase' = "stopping"
    /\ step' = Len(Adapters)
    /\ UNCHANGED <<stored, configured, client, status, requestVars, failed>>

Closed(a) == client' = [client EXCEPT ![a] = IF @ = "open" THEN "closed" ELSE @]

\* Seeded bug: the first close() that raises ends the loop.
Close_StopsAtError ==
    /\ phase = "stopping" /\ step > 0
    /\ \/ Closed(Adapters[step]) /\ step' = step - 1
       \/ step' = 0 /\ UNCHANGED client
    /\ status' = status
    /\ UNCHANGED <<stored, configured, phase, requestVars, failed>>

\* close() of the next adapter, also if it raises: the error is kept until
\* the loop is through.
Close ==
    /\ phase = "stopping" /\ step > 0
    /\ Closed(Adapters[step])
    /\ status' = IF Adapters[step] = "database" /\ status = "ready" THEN "unavailable"
                 ELSE status
    /\ step' = step - 1
    /\ UNCHANGED <<stored, configured, phase, requestVars, failed>>

Exit ==
    /\ phase = "stopping" /\ step = 0
    /\ phase' = "stopped"
    /\ UNCHANGED <<stored, configured, step, client, status, requestVars, failed>>

-----------------------------------------------------------------------------
(* The requests *)

Arrive(r, k) ==
    /\ phase = "serving" /\ pc[r] = "idle"
    /\ kind' = [kind EXCEPT ![r] = k]
    /\ before' = [before EXCEPT ![r] = IF k = "ready" THEN {} ELSE stored[k]]
    /\ doomed' = [doomed EXCEPT ![r] = failed]

Respond(r, c) ==
    /\ pc' = [pc EXCEPT ![r] = "answered"]
    /\ code' = [code EXCEPT ![r] = c]

\* GET /ready: the readiness graph looks at the status only.
Ready(r) ==
    /\ Arrive(r, "ready")
    /\ Respond(r, IF status \in {"ready", "disabled"} THEN "200" ELSE "503")
    /\ UNCHANGED <<stored, appVars, status, got, failed>>

\* A read while there is no repository, or the store is not ready.
Refuse(r, c) ==
    /\ Arrive(r, c)
    /\ status # "ready"
    /\ Respond(r, "503")
    /\ UNCHANGED <<stored, appVars, status, got, failed>>

\* A read that goes on to query collection c.
Query(r, c) ==
    /\ Arrive(r, c)
    /\ status = "ready"
    /\ pc' = [pc EXCEPT ![r] = "reading"]
    /\ UNCHANGED <<stored, appVars, status, got, code, failed>>

\* The response to the documents S that a query returned.
Judge(r, S) ==
    Respond(r, IF S = {} THEN "404" ELSE IF S \cap Damaged # {} THEN "502" ELSE "200")

\* Seeded bug: the sort of the latest rule is ascending.
FindOne_Ascending(r) ==
    /\ pc[r] = "reading" /\ kind[r] \in {"rules", "batches"}
    /\ \E S \in SUBSET stored[kind[r]] :
        /\ IF stored[kind[r]] = {} THEN S = {}
           ELSE \E k \in stored[kind[r]] : S = {k} /\ \A l \in stored[kind[r]] : k <= l
        /\ got' = [got EXCEPT ![r] = S]
        /\ Judge(r, S)
    /\ UNCHANGED <<stored, appVars, status, kind, before, doomed, failed>>

\* find_one of get_latest_rule (newest first) and get_batch_by_rule_version.
FindOne(r) ==
    /\ pc[r] = "reading" /\ kind[r] \in {"rules", "batches"}
    /\ \/ stored[kind[r]] = {} /\ Judge(r, {}) /\ UNCHANGED got
       \/ \E k \in stored[kind[r]] :
            /\ \A l \in stored[kind[r]] : l <= k
            /\ got' = [got EXCEPT ![r] = {k}]
            /\ Judge(r, {k})
    /\ UNCHANGED <<stored, appVars, status, kind, before, doomed, failed>>

\* The documents the cursor of r has not passed yet.
Ahead(r) == {k \in stored["handoffs"] : \A g \in got[r] : g < k}

\* The cursor of list_by_rule_version fetches the next document.
Fetch(r) ==
    /\ pc[r] = "reading" /\ kind[r] = "handoffs"
    /\ \E k \in Ahead(r) :
        /\ \A l \in Ahead(r) : k <= l
        /\ got' = [got EXCEPT ![r] = @ \cup {k}]
    /\ UNCHANGED <<stored, appVars, status, pc, kind, code, before, doomed, failed>>

\* Seeded bug: only the first document of the cursor is used.
Exhausted_Early(r) ==
    /\ pc[r] = "reading" /\ kind[r] = "handoffs"
    /\ got[r] # {} \/ Ahead(r) = {}
    /\ Judge(r, got[r])
    /\ UNCHANGED <<stored, appVars, status, kind, got, before, doomed, failed>>

\* The cursor is exhausted, and the intake judges the whole set.
Exhausted(r) ==
    /\ pc[r] = "reading" /\ kind[r] = "handoffs"
    /\ Ahead(r) = {}
    /\ Judge(r, got[r])
    /\ UNCHANGED <<stored, appVars, status, kind, got, before, doomed, failed>>

\* Seeded bug: a failed query leaves the store ready.
QueryErrors_StaysReady(r) ==
    /\ pc[r] = "reading"
    /\ Respond(r, "503")
    /\ failed' = TRUE
    /\ UNCHANGED <<stored, appVars, status, kind, got, before, doomed>>

\* OSError or PyMongoError in any query: unavailable from now on.  Queries in
\* flight keep their collection and may still succeed.
QueryErrors(r) ==
    /\ pc[r] = "reading"
    /\ status' = "unavailable"
    /\ Respond(r, "503")
    /\ failed' = TRUE
    /\ UNCHANGED <<stored, appVars, kind, got, before, doomed>>

Next ==
    \/ \E c \in Collections, k \in Keys : Insert(c, k)
    \/ Initialize
    \/ InitializeDegrades
    \/ Serve
    \/ Shutdown
    \/ Close
    \/ Exit
    \/ \E r \in Requests :
        \/ Ready(r)
        \/ \E c \in Collections : Refuse(r, c) \/ Query(r, c)
        \/ FindOne(r)
        \/ Fetch(r)
        \/ Exhausted(r)
        \/ QueryErrors(r)

Spec == Init /\ [][Next]_vars

-----------------------------------------------------------------------------

\* Domains of the variables.
TypeOK ==
    /\ stored \in [Collections -> SUBSET Keys]
    /\ configured \in SUBSET AdapterNames
    /\ phase \in {"starting", "serving", "stopping", "stopped"}
    /\ step \in 0..Len(Adapters) + 1
    /\ client \in [AdapterNames -> {"none", "open", "closed"}]
    /\ status \in {"ready", "unavailable", "disabled"}
    /\ pc \in [Requests -> {"idle", "reading", "answered"}]
    /\ kind \in [Requests -> Collections \cup {"ready", "none"}]
    /\ got \in [Requests -> SUBSET Keys]
    /\ code \in [Requests -> {"none", "200", "404", "502", "503"}]
    /\ failed \in BOOLEAN
    /\ before \in [Requests -> SUBSET Keys]
    /\ doomed \in [Requests -> BOOLEAN]

\* A response tells of the collection as it was during the request: a latest
\* rule is no older than what was there when the request arrived; a handoff
\* set, though a cursor reads it in pieces while RuleReader inserts, has all
\* that was there then and nothing that was not inserted; 404 is answered only
\* when nothing was there, 502 only for a damaged document, and 200 never with
\* one.
ResponseCurrent ==
    \A r \in Requests :
        kind[r] \in Collections =>
            /\ code[r] = "404" => before[r] = {}
            /\ code[r] = "502" => stored[kind[r]] \cap Damaged # {}
            /\ code[r] = "200" =>
                /\ got[r] # {} /\ got[r] \in SUBSET stored[kind[r]]
                /\ got[r] \cap Damaged = {}
                /\ IF kind[r] = "rules"
                   THEN \A k \in before[r], g \in got[r] : k <= g
                   ELSE before[r] \in SUBSET got[r]

\* Once the ping or a query has failed, /ready is not ready and every read
\* that arrives later is 503, whatever reads in flight do in the meantime;
\* and 503 is answered for no other reason than that, a disabled database
\* included.
UnavailableShows ==
    \A r \in Requests :
        /\ doomed[r] => code[r] \in {"none", "503"}
        /\ code[r] = "503" => failed \/ status = "disabled"

\* When the application has stopped, it has called close() on every client it
\* opened, even if one of these calls raised.
AllClosed == phase = "stopped" => \A a \in AdapterNames : client[a] # "open"
=============================================================================
