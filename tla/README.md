# A verification of ReleaseSQLBot in TLA+

ReleaseSQLBot turns confirmed facts of a release rule into candidate SQL
templates for SQL Server. It never executes a candidate. It reads rules and
fact-binding handoffs that RuleReader left in MongoDB, resolves their metadata,
asks a language model for a template, checks the template statically, stores it,
and can have a real SQL Server *describe* (not run) its result. All of it is
evidence for a human decision, so what its reports claim must be what happened.

This directory holds the TLA+ modules of the parts where that is hard, the TLC
configurations that check them on small instances, and TLAPS proofs of what
matters most for every instance. `PROJECT.json` lists the runs, seeded bugs,
theorems, hazards and the source lines each definition stands for. Paths below
are relative to `src/src/release_sql_bot/`.

## 1. Inventory

| Part | State it keeps | Operations | What makes it correct |
|---|---|---|---|
| Evidence pack publication (`__main__.py`) | files, temporary files | `_write_evidence_pack_v3`, `_commit_evidence_pack_temp` | whole documents only; no overwrite without `--overwrite`; exception agrees with the disk |
| Validation report output (`__main__.py`) | one file, written in place | `_write_report_exclusively` | no silent overwrite; the exit status has its report |
| V3 candidate store (`infrastructure/database/mongodb_candidates_v3.py`, `application/deferred_candidate_store_v3.py`) | client, collection, `_ready`; in MongoDB the documents and a unique index | initialize, save, close | one document per content; honest outcomes |
| V3 generation and evidence loop (`application/candidates_v3.py`, `candidate_persistence_v3.py`, `evidence_loop_v3.py`, `candidate_export_v3.py`, `__main__.py`) | a run's attempt, call count, candidate, pack; shared: evidence, collection, files | `generate-v3` | stale evidence never generates; packs and exit statuses claim only what happened |
| Restricted SQL Server validation (`application/sqlserver_validation.py`, `infrastructure/sqlserver/odbc.py`) | stage issues, warnings, evidence; the ODBC session | `validate-sqlserver` | nothing is described on a target that is wrong all along; the session is always released; the report blames the target only for what was wrong with it |
| Approval authority port (`infrastructure/database/mongodb_approvals_v3.py`) | client and status | initialize, find record and pointer, close | an approval that is not active is never reported active |
| Rule repository, readiness (`infrastructure/database/mongodb.py`, `application/readiness.py`) | client, collections, status that sticks after a failed query | initialize, three queries, close, `/ready` | unavailable is never reported as "not found" |
| HTTP API (`api/app.py`) | runtime container | lifespan, request handlers | every resource closed; handlers share the adapters safely |
| `prepare-v3` (`application/generation_preparation_v3.py`) | output file | prepare | what it prepares is attested again by `generate-v3` |
| V3 metadata resolution (`application/metadata_resolution_v3.py`, `value_semantics_v3.py`, `validate_*_closure_v3.py`) | none (pure) | ordered gates, a graph traversal, a join plan | nothing ambiguous is resolved; a plan can be written in its order; a refusal names what is wrong |
| V3 handoff intake (`application/handoff_intake_v3.py`) | none (pure) | ordered checks | a tampered or stale batch is refused |
| V3 static gate (`application/sql_validation_v3.py`, `filter_constraints_v3.py`, `infrastructure/sql/sqlglot_tsql_v3.py`) | none (pure) | references, inspection, semantic checks | what passes returns what was asked for, and is what was generated; what the prompt asks for passes |
| V2 binding preflight and metadata resolution (`application/binding_intake_v2.py`, `metadata_resolution_v2.py`) | none (pure) | gap analysis, resolution that collects every issue | nothing left open is resolved; hints decide nothing; a resolved report is complete |
| V2 and V1 generation | as V3, through the API | preview, generate, validate | as V3 |
| V3.1 complete delivery (`application/complete_delivery_intake_v31.py`, `rule_evaluate_v31.py`, `view_shaped_compile_v31.py`, `infrastructure/complete_delivery_*_v31.py`) | MongoDB or a directory, read only | select, evaluate, compile | never a mixture of two publications; the compiled statement decides as the rule tree does |
| DeepSeek client, prompts | none | one HTTP exchange | transient and final errors told apart |
| Settings, logging, contracts, scripts | read once | none | not behaviour of their own |

How they interact. `generate-v3` is one process per run: it reads the rule
repository and the approval authority once each, calls the model up to six
times, saves through the candidate store, validates statically, closes its three
resources and publishes one or two files. Runs share the MongoDB collections
and the file system and nothing else. `validate-sqlserver` is one process with
one ODBC session. The API shares one set of adapters between requests.
`select-delivery-v31` is one process that reads a delivery in two documents or
six files, which its publisher may be rewriting, and compiles it.

What is hard: a withdrawal between two gates or during minutes of model calls;
an insert that was applied although its reply was lost; two runs that check
the same free path and write it later; a kill between any two calls; a failure of
close after everything succeeded; a target that changes between the dozen
queries that attest it; a delivery read while it is rewritten. And, in the pure
parts, a gap between checks that are each sound: the static gate judges syntax
for a promise about meaning, and the compiler writes a three-valued decision as
SQL CASE columns. `PROJECT.json` lists these hazards with their lines.

## 2. Modules

```
ApprovalAuthority  <--implements--  MongoApprovalRecordStoreV3
InsertOnlyStore    <--implements--  MongoCandidateStoreV3
      ^ instance
GenerateV3                                SqlServerValidation   RuleStoreApi
      v instance                          ReportFile            SqlGateV3
AtomicPublish      <--implements--  EvidenceFileCommit

MetadataResolutionV3     BindingIntakeV2  <--extends-- MetadataResolutionV2
RuleStagesV31  <--extends--  RuleTreeV31  <--extends--  ViewShapedSqlV31
RuleStagesV31  <--extends--  RuleDecisionV31            PlaceholdersV31
ViewShapedSqlV31, CompleteIntakeV31  <--extends--  CompleteDeliveryV31
```

**InsertOnlyStore** is what a candidate store promises: a save may put its
candidate into the collection, now or after the caller has given up, and then
answers; "stored" and "duplicate" only of content that is there.
**MongoCandidateStoreV3** is the adapter with its deferred initialisation: ping,
unique index, `insert_one`, the classification of `DuplicateKeyError`,
connection errors and the rest, close; requests and replies are lost or late.

**ApprovalAuthority** is what a lookup of an approval promises: the record if it
is active and None if nothing is, as if asked at one instant, or "unavailable".
**MongoApprovalRecordStoreV3** is the adapter: ping, the read of the record, the
read of its active pointer, `_degrade` and close, while metadataReview inserts
records and replaces the pointer. It is why the approval gate of GenerateV3 may
be one step.

**AtomicPublish** is what a write of an evidence pack promises: the whole
document or nothing. **EvidenceFileCommit** is the code, one action per system
call, every process killed anywhere. An inode is named by its writer; a path is
bound to an inode.

**GenerateV3** is `generate-v3` from its flags to its exit status, split at its
awaits and system calls, over the two abstract components. `Withdraw` is the
rule or approval authority taking back what a request carries. A run's `stale`
says that this had happened before it started.

**SqlServerValidation** is one `validate-sqlserver` run, one action per query.
`target` is the set of things wrong with the target: faults of identity and
version, permissions, and catalog facts of each object. `Change` makes one
right or wrong between two queries; `standing` holds what has been wrong ever
since the session opened, and `seen`, a history, what was wrong at some moment since.

**ReportFile** is how the report reaches the disk: in place, not through a
temporary file, so runs that share a path share a file.

**RuleStoreApi** is the HTTP API's reading side: the lifespan that opens and
closes four adapters, the `MongoRuleStore` all requests share with its sticky
status, the three read handlers and `/ready`, while RuleReader inserts. The V2
handoffs are fetched one document at a time, as by a cursor. A document is its
sort key, damaged or not, and no two share a key, so the intake's refusal of
duplicate identities does not occur.

**MetadataResolutionV3** is one call of `resolve_metadata_v3`: its gates in
order, each with the issue code of the first check that fails; then, step by
step, the traversal that decides whether the join grants connect the relations
of the fields, and the breadth-first search that orders them into a plan. Two
things of the code are stated as the sets they compute: a helper that validates
its input again (all of them do) is one gate, and the stack of the traversal is
a set, so every order of its visits is explored. A SHA-256 stands for the content that
was hashed. `Advances` is a measure: with the absence of deadlock, it
says that both searches end. The properties refer to the graph, not to the
search: *connected* means that no set of relations is cut off, *the only
closure* that no other set of grants is a spanning tree, and *a left join that
points back* that its left side is cut off from factValue without it.

**SqlGateV3** follows a model's answer through `generate_sql_candidate_v3`
(scope, cross references, assembly), perhaps through an edit of its SQL, and
through `validate_sql_candidate_v3` (references, AST inspection, seven semantic
checks). A statement is a record: its tables, projections, the conjuncts of its
WHERE, and the set of constructs beyond a plain SELECT. Beside the gate stands
what it is for: `Returned` is what a statement returns for a row, `Wanted` what
the request wants of it, and `Exact` says that they agree on every row and every
argument.

**BindingIntakeV2** is the wire model of a V2 binding and `analyze_binding_gaps_v2`;
**MetadataResolutionV2** the resolver over it, which, unlike V3's, goes on after an
issue with what is left. `Repropose` sends the request once more with other hints
of the upstream parser. The properties refer to the snapshot and the grants as
sets, as those of V3 do. Left out: owners and messages of issues, and the
preflight's version and dialect checks, which nothing that passes the wire model
can fail.

**CompleteIntakeV31** is the intake of `select-delivery-v31`: it reads a delivery
part by part while a publisher replaces parts, and takes it only if its hashes
close. **RuleTreeV31** is the rule tree: the shape the wire model demands and the
verdict of `evaluate_condition_v31` on a condition. A condition is the sequence of
its nodes, each after those below it, and an evaluation a recursive function on the
places of the nodes: TLC evaluates it like a recursive operator, and a proof can
follow it node by node. **ViewShapedSqlV31** is the
statement that `view_shaped_compile_v31.py` writes from it, up to its hit columns,
by what it means on tables under SQL's three-valued logic. **CompleteDeliveryV31**
composes the three: each of its steps is one of the intake or leaves the intake's
variables alone; the selected delivery is compiled under a mapping, and the
statement is run on tables (nothing in the repository runs it), so that a hit
column can be compared with the evaluator's verdict.

Two parts of evaluation and compilation do not need the conditions and have modules
of their own. **RuleStagesV31** has the names they share with the conditions:
stages, verdicts, hit columns. **RuleDecisionV31** is the loop of
`evaluate_rule_structure_v31`, one action for each rule it asks, beside the CASE
columns of the statement; it takes the verdicts as given, and a hit column as the
verdict written as 1, 0 or NULL, which is what `HitsFollowTheTree` says of
CompleteDeliveryV31. **PlaceholdersV31** is how a statement numbers and binds its
literals, in whatever order they come: the numbered names of expression literals
and those of blank tests, named after their condition, are keys of one
dictionary, as `_lit` writes them. (The compiled predicates of ViewShapedSqlV31 have
each literal's own value; that the placeholders carry it is the question of
PlaceholdersV31 alone.)

Correspondence is per definition in `PROJECT.json` under "map". Variables have
the names of the code's attributes and locals where it has any; `pc` names the
await, query or system call a process is at. Hashes, SQL text, prompts, wording
and time are abstract: a candidate is its content, a payload a model value, a
wait any delay.

## 3. Runs

| Run | Instance | Shows |
|---|---|---|
| persistence | the candidate store with three savers and two contents; the approval lookup with two readers and two contents of one approvalId; two plain writers of packs and one overwriting; two plain runs that report and one overwriting, reports of 2, 1 and 3 blocks; each path free or taken | the adapter refines an insert-only store; a lookup is atomic and its client is closed; the commit of a pack is an atomic publish, and no path names half a document; what a report's run says is on disk |
| generate_v3 | two runs (one overwrites), 5 and 0 retries, a passing and a failing payload, one pack path and one export path | the safety of GenerateV3, with counters up to the sixth call; a candidate ends the calls; every run ends |
| validate | two objects, up to two faults, one change, dates with a time zone or, as pyodbc returns them, without | a fault that stands is caught, whatever else changes; what the report accuses the target of was seen, whichever query failed; a modification is warned about or stops the run, and dates that cannot be compared are not taken for dates that agree; the session is released |
| rule_reads | two requests of any kind, two documents, one damaged; no adapter or two | responses tell of the collection during the request; failures show; every opened client is closed although a close raises |
| static_gate | 25 requests, one for each check of scope, filters and encoding, some 600 statements each, an edit, another request at validation; two values and NULL | a passed report is about SQL that returns what its own request wants, row for row, and about the very candidate that was generated; no rendering the prompt asks for is refused |
| resolve_v3 | every context of up to three of ten join grants over three relations, in three placements of the fields; 64 contexts by 13 snapshots with faults, 16 more faulty requests | all of MetadataResolutionV3: 4181 requests, every issue code it has |
| resolve_v2 | every context of up to three join grants of six shapes, fields on one to three relations; requests with each part left open and each uncertainty that may admit it; one request for each issue; requests with other hints | all of MetadataResolutionV2 |
| rule_delivery | eight rule trees that between them use every construct of a condition, each on every table of a few rows; both sources; every pair of publications the delivery may be read from; every single stated value that does not close; five mappings: none, all facts, one fact, and a fact granted twice as values or as value and set. Five rule trees with up to two rules in a stage, every verdict on each rule. Up to four literals and blank tests in every order, three values, two condition ids with one slug and one with the id of an expression's literal, a refused literal | what is selected is of one publication; a hit column is the evaluator's verdict; the row of the compiled statement is the evaluator's decision but for two named differences; a placeholder keeps its literal unless a blank test and an expression share its name |
| rule_rows, rule_names | as *rule_delivery* | where code and documents differ (section 6) |
| view_sql_undecided | the deliveries of *rule_delivery* | where code and documents differ (section 6) |
| validate_naive_dates | as *validate*, with dates without a time zone | where code and document differ (section 6) |

Two runs each hold components that share no variable: the four of Persistence_proofs
in *persistence*, and CompleteDeliveryV31, RuleDecisionV31 and PlaceholdersV31 in
*rule_delivery*. One moves while the others are in an initial state, so that TLC
explores the sum of them and not their product. The theorems are about each
component's own specification.

Why the bounds suffice. Two processes reach every race between a check and its
use; a third adds the overwriting writer. Five retries is the limit the
command accepts, and none the other end. Two objects give the
validation loops a first and a last iteration; two faults meet in every pair of
gates, and one change falls between any two queries. Two documents are enough
for a cursor that is overtaken, and for a newer version that is damaged. Three
relations give chains, forks, triangles and parallel edges, with factValue at an
end or in the middle; pairs of faults show which of two gates speaks first. Two
values and NULL tell every pair of columns apart on some row, so a statement that
reads or compares a wrong column returns something else. A delivery of six files
read while one other publication replaces them meets every mixture of two. Trees
and tables are small because a construct of the rule language is compiled the
same way wherever it stands; each occurs below a negation, with a missing, an
undecided and a deciding operand. The proofs then hold for all values, and where
a property is proved the run is only a cross-check.

Deadlock is not checked where every process ends and a stopped system is a legal
end; *resolve_v3*, *resolve_v2*, *static_gate* and *rule_delivery* check it, with a
last step that repeats once the answer is there.

Fairness is weak fairness of a process's own steps and nothing else. It is
justified by the code's timeouts: MongoDB operations have `timeoutMS`, model
calls an HTTP timeout, ODBC a login, query and lock timeout, and file calls are
local. Only *persistence* (the lookups), *generate_v3* and *validate* assume it,
for their liveness properties. Withdrawals, changes, kills and I/O failures of a
report are never fair.

A commit, a report, a resolution and a compilation are loops without waits:
nothing is said of their fairness. The type invariants are proved (section 4)
and in no run. Proved only are `OnlyOneStored` and `DocumentsStay` of the store with
the uniqueness of contents, and of the commit that results agree with the disk and
that nothing is overwritten without leave: they follow from the refinements
that *persistence* checks. That no path names half a
document does not, because the abstract module has no halves: `NoPartialDocument` is
an invariant of its own there.

Every property has a seeded bug, an operator named `Definition_Bug` beside the
definition it replaces; with it TLC finds the property violated.

## 4. What is proved

| Module | Theorems |
|---|---|
| Persistence_proofs | of the candidate store: types; no content twice; at most one "stored"; documents stay; implements InsertOnlyStore. Of the approval port: types; implements ApprovalAuthority. Of EvidenceFileCommit: types; no partial document; results agree with the disk; no unauthorised overwrite; implements AtomicPublish. Of ReportFile: types; an announced report is on disk; a file at rest is left alone without `--overwrite` |
| GenerateV3_proofs | types; stale runs generate nothing; counters agree; packs match the store; verification is honest; exits are backed; exports have packs; a candidate ends the calls |
| SqlServerValidation_proofs | types; a standing fault is caught; the target is accused only of what was wrong with it since the session opened; no candidate is described or passed over a modification without a warning, whichever dates the driver returns |
| JoinGraph_proofs | lemmas only: least numbers, images, cuts, traversals, spanning trees, how many closures there are |
| MetadataResolutionV3_proofs | the closure is the only one; the plan is in order; a direction conflict is real; columns are unmistakable; nothing is skipped; every step advances |
| MetadataResolutionV2_proofs | the closure is the only one, and its issue says whether there is none or more; a resolved report is complete; what is open is never resolved; hints decide nothing |
| SqlGateV3_proofs | types; only what was assembled passes, for its own request; what was assembled is inspected; what passes returns what was asked for; what the prompt asks for passes |
| RuleDelivery_proofs | of the rule store's API: types; responses are current; failures show; clients are closed. Of the 3.1.0 intake: types; a selected delivery is of one publication. Of the decision: types; for every unblocked tree and all verdicts the row is the decision but for two named differences. Of the placeholders: types; only a name that a blank test and an expression share loses its literal. Of the whole delivery: what is compiled is of one publication; hit columns follow the tree |

The assumptions are the ASSUMEs of the modules: retries between 0 and 5 as the
parser enforces, different pack and export paths of a run, model values that are
not processes, contents that are not answers, numbers as sort keys, reports of at
least one block, and the values for "no candidate" and "no report" being neither.
Of a request MetadataResolutionV3 and SqlGateV3 assume what its wire types enforce before the
code sees it: lists are lists; there is a field `factValue`
(`QueryRequirementsV3.validate_references`); the entity keys are the parameters of that role
(`FactBindingRequestV3.validate_closure`); a mapped encoding has entries and maps no
value twice (`ValueEncodingBindingV3`); identifiers have a casefold. Of a statement
SqlGateV3 assumes that the parser made it: each of its parts is of a kind that the
model names. Whether grants, snapshot, answer or edit fit together is left open.
MetadataResolutionV2 assumes less, because the checks of the wire types are its first
step (`Conforms`): lists are lists and identifiers have a casefold. A request that is
delivered again may differ in its hints, and its gap report is that of its own
binding (`OtherHints`); an upstream that sends another gap report is an ordinary
request, and refused by the preflight.
CompleteIntakeV31 assumes of the publisher that what states the hash of a published
catalog and candidate was published with them (`ResultAssumption`,
`PayloadAssumption`), which is what a hash is for; its parts may still be wrong in any
other way, and be replaced at any time. RuleDecisionV31 assumes that a rule code is
not the empty text, which the wire model demands; PlaceholdersV31 that values are of
the types `_lit` takes or not and that numbers are written apart; condition ids are
any, and no name a tree or a mapping gives has an underscore, which the patterns of the
wire models say. CompleteDeliveryV31 assumes
that the trees are kept as RuleTreeV31 says, and that those its wire model refuses
are `Malformed` (`TreeAssumption`); that a command names one of the mappings or none
(`MappingAssumption`; a mapping may grant a fact twice, which the code does not
refuse); that the tables have the relations of the facts granted and that NULL is no
member key, as a NULL key matches no row (`TableAssumption`).
Otherwise they say nothing about what the environment does.

Each proof is `Init => IInv`, `IInv /\ [Next]_vars => IInv'`, `IInv => Inv`.
None of the properties is inductive alone:

- *Store*: a document's uniqueness needs that the index exists whenever an
  insert is on its way, and a reply needs the document it tells of.
- *Approval*: `KeptRecordStays` says that the record kept from the first read is
  still registered at the second. It needs the records to be insert-only.
- *Commit*: `PublishedIsReported` ties the inode at a path to its writer's
  result, and `StepShape` says that no result precedes the commit.
- *Generate*: `CountsInStep` fixes the three counters at every `pc`;
  `StaleIsCaught` says that a stale run still has a gate ahead of it that looks
  for what was withdrawn; `WritesInOrder` and `PackAgrees` link disk and pack.
- *Validation*: `PermissionsAsked` and `CatalogAsked` say that a standing fault
  asked about so far is in `found`; the `Cleared` conjuncts say that a gate that
  was passed leaves no standing fault of its kinds. `standing` only shrinks, so
  a change of the target disturbs none of it.
  What is accused goes the other way: `FoundWasSeen` says that every answer was true
  of the target when it was given (an object without column rows may have been
  dropped since its existence was asked), and `IssuesInStep` that no issue arises
  before a gate. `ModificationsAsked` follows the modifications to the comparison,
  and `NaiveDatesStop` says that a date without a time zone lets no run pass it.
- *Report*: `OneWriter` says that a run that never shared the file is the only
  one to write to it while it is its last opener; `OwnWork` counts what it has
  written so far.
- *Static gate*: `Provenance` says that a candidate is an assembled one with at
  most its SQL replaced, and `CurrentRequest` that its request's resolution was
  current. `HashTellsSql` is then the heart: the hash of such a candidate is that
  of its content exactly if its SQL is the answer's own.
  What passes is exact (`NoIssueIsExact`) because the silence of each check is a
  fact about meaning: one table is read (`OneTable`), its WHERE is one equality for
  each entity key and nothing else (`WhereIsTheKeys`), what it projects is the
  column of the fact, decoded arm by arm as the encoding encodes (`ProjectionEncodes`), and in
  scope the filters ask for no more than the keys (`WantedByKeys`). Conversely a rendering
  has as many conditions as there are keys and one for each, so none is a
  second condition on a key (`OneConditionEach`), which is what `_check_keys` and
  `_check_filters` would object to.
- *Resolution*: that grants connect relations is said by cuts: no set of
  relations is left without a grant that leads out of it (`Spans`). `Traversal`
  says that what was seen lies in every set around the first relation that no
  candidate cuts; when nothing is pending, what was seen is itself such a set, so it is
  everything or the relations are disconnected. A
  connected set has a tree among its grants, so a candidate more than a tree needs means a
  second tree (`TwoTrees`), and as many as a tree needs means the only one (`TreeIsMinimal`). JoinGraph_proofs
  has no induction: it takes a largest tree, which a finite set has, and shows
  that it reaches everything. In the plan, `PlanGrows` keeps every prefix a tree
  over what it has joined, and `Search` says that a selected grant that leads on
  from a relation already taken has been followed or is among `edges`. A left
  join the wrong way round is then the only grant between two halves of a tree.
- *V2 resolution*: the report is a function of the request, `Answer`, although the
  traversal visits the relations in any order: the invariant says at each step
  which part of it has been computed (`Computed`, `IssuesSoFar`) and where the traversal is
  (`Traversal`). The properties are then facts about that function. A report with
  columns is from past the gates, and these leave nothing open (`GapsClosed`). Without
  issues every field that is needed has an authorization, a grant and one column
  (`NeededResolved`). The code never looks for a second closure: it compares
  the number of usable grants with that of the relations. `ClosuresByCount` says
  why that is enough: fewer connect nothing, as many are a tree if they connect,
  and with one more there are two trees. Other hints change no check that decides
  (`SameGates`), so the answer is the same (`SameAnswer`).
- *Rule store*: `InFlight` says that a cursor has passed nothing that was there
  when its request arrived, `StatusTells` links the status to the failures, and
  `ClosedBehind` says that the closing loop leaves nothing open behind it.
- *Intake*: what a delivery is made of is known when all parts are read
  (`EnvelopeWhole`); the gates then bind catalog, candidate, result and requests to
  each other by the hashes they state (`OnePublication`). The catalog is bound
  to the requests only through the digest of the candidate, so that part rests on
  a published catalog being its content, digest and validity.
- *Decision*: `Asking` says what the loop knows of the rules it has asked: earlier stages
  failed throughout, and behind eligibility the decision is that of its first
  rule that passed (`Carried`). A CASE has the value of its first branch that holds
  (`CaseFirst`); from there the ten lists of branches are gone through stage by stage
  (`ColumnEarly`, `ColumnOverride`, `ColumnLate`) for each way the loop can end.
- *Placeholders*: every number an expression has taken is below the number of bound
  names (`NumbersBelow`), so no other expression gets it, whatever blank tests have bound
  in between; a name two blank tests share is bound to the one value both have.
- *Hit columns*: for any condition and any rows. A recursive function is known only as
  a CHOOSE of what satisfies its equation, so first there is such a function: it is
  built up node by node (`ValuesUnfold`, `VerdictsUnfold`, `PredicatesUnfold`,
  `ReachedUnfolds`), which needs only that a set of numbers closed under successor up to N
  contains N. Then the two sides are compared at the first node where they would
  differ. An expression has the same value on both sides, NULL for MISSING (`SameValues`), if
  each fact has, and each fact has by the applies the compiler writes (`SameFacts`). A
  predicate is the truth of the verdict (`SamePredicates`), the double negation over the
  members included (`SameAllMembers`), in every scope in which the node is asked. The
  invariant `Answered` brings in the protocol: what is answered has passed the wire
  model at the intake, the compiler's refusals and the server's binding of columns.

Refinements: the initial states map to initial states, and each step of the
adapter, or of the commit, is one of the abstract module or a stutter.
`GenerateV3` is proved over the abstract modules, so its theorems hold for the
implementations by these refinements (their composition is not a theorem here).

Only model-checked: liveness (`EveryRunEnds`, `SessionReleased`, `ClientReleased`),
which TLAPS does not do with fairness. Every invariant and action property of the
passing runs is a theorem. `EveryStepAdvances` is the part of the termination of the
V3 resolution that can be proved: every step lowers a measure. That a step is possible until the
answer is there is the absence of deadlock, which TLC checks.

## 5. What is abstract or left out

- In GenerateV3 the pure checks (intake, closures, metadata resolution, static
  gate) are one outcome each of the gate that runs them: passed, failed or
  unavailable. MetadataResolutionV3 and SqlGateV3 model the last two themselves.
- SqlGateV3 takes the parser and the scope analysis of sqlglot as given: `qualify`
  is assumed to leave the case of identifiers as `_copy_expr` prepared it. A
  relation is one identifier; constructs beyond a plain SELECT are only named.
- MetadataResolutionV2 has relations as one identifier too. Two branches of the
  code are not in it, because the gates before them leave nothing to reach them:
  COLUMN_NOT_GRANTED of a field, and an endpoint that the index does not know.
- In RuleTreeV31 numbers are integers and dates day numbers: division, dateAdd in
  units other than the day, and comparisons of values of two types are left out.
- CompleteDeliveryV31 leaves out the static gate over the compiled text
  (`sqlglot_tsql_v31_view.py`), the key columns of the mapping, of which there is one
  collection of members, aliases and quoting, the JSON Schema files (a payload is valid or not), and that the
  requestIds of a batch are sorted.
- MetadataResolutionV3 starts from a request that its wire types accept: grant
  ids are unique, a field has one authorization per request and role, filters,
  aggregation and time range name declared fields, and at most one encoding and
  one result overlay belong to a request. So the codes of the refusals that these
  types make impossible do not occur. A schema and a relation name are one
  identifier; evidence ids, filters' operators and what a report copies verbatim
  are left out.
- A driver error is one of timeout, lost connection, refusal or anything else;
  `DRIVER_UNAVAILABLE` counts as a lost connection. The five statements of the
  session policy are one query: nothing is read or written between them.
- All column drift is one fault, with one code for missing, retyped and wider.
  Extra columns are evidence only and are left out.
- SqlServerValidation takes `cursor.timeout` to be settable, as the tests'
  cursors have it. Whether the driver's dates carry a time zone is the variable
  `datesAware`, which no step changes: they do in the adapter's tests, and do not as
  pyodbc returns them, when no validation gets past the catalog.
- Not modelled: see the components with status `not_modelled` and section 7.

## 6. Where code and documents differ

Checked by a run:

- `modify_date` is compared with `captured_at`, which always has a time zone;
  pyodbc returns dates without one. The comparison raises, so an object modified
  since the snapshot gets no warning, as the requirement has it, but an
  inconclusive run (*validate_naive_dates*).
- The literals of expressions and the empty texts of blank tests share one
  dictionary, and a condition may have the id `exprN`: one of the two is then bound to
  the other's value (*rule_names*; DEV-20260920-02:55-59).
- A rule that passes without an outcome or a reason yields an empty text in SQL and
  leaves the default in the evaluator; and with no active eligibility rule, an
  overriding rule that hits leaves a comma before its code in the matched rules
  (*rule_rows*; DEV-20260920-02:55). `RowFollowsTheTree` says that there is no other
  difference.
- A member without rows or with an undecided predicate leaves a rule undecided in the
  evaluator and is a hit in SQL (*view_sql_undecided*; REQ-20260920-03:17 and
  DEV-20260920-03:27).

Met while modelling; the models have the code's behaviour:

- A pack at stage `blockedUpstream` may carry up to six model calls; the plan
  DEV-20260906-02 (docs/architecture, lines 27 and 176) has none.
- An output that appears while a run works is refused only after the model was
  called and the candidate stored; REQ-20260915-01:31 has it refused before.
- `validate-sqlserver` ends with the undocumented exit status 1 if its report
  cannot be opened or written, or appears between check and open (README.md:332
  and REQ-20260905-01:353 list 0, 2, 3 and 4).
- In the V2 resolution `JOIN_PATH_NOT_GRANTED` is also the answer when the only
  edge of the snapshot without a grant joins relations that are connected already.

The documents of V3.1 have the compiled statement follow
`evaluate_rule_structure_v31` (DEV-20260920-02:55-57, DEV-20260920-03:31-38,
REQ-20260920-03:16-17). *rule_delivery* shows that the hit columns do, under the condition
`Comparable`, and that the CASE columns do. Besides what three of the runs above
show, the two differ where `Comparable` does not hold, or the models leave
something out:

- `nullPolicy` and an `emptyCollectionPolicy` of indeterminate are not compiled;
- a test for null of a fact without a row fails in the evaluator and holds in SQL;
- `blocking_issues` stop the evaluator, not the compiler: the row of such a tree is
  that of the tree without them;
- a COUNT or EXISTS fact inside a member predicate is compiled as a value of one
  row; an `allMembers` inside a member predicate is compiled over the collection of the
  subject, where the evaluator takes the member's own;
- `dateAdd` adds days in the evaluator whatever its unit, and division is exact
  there, the server's own in SQL;
- a fact that is referenced but granted neither as a value nor at all names a
  column the statement does not have: only the server would refuse it, because
  `requiredFactCodes` is not compared with the tree;
- a bundle may grant a fact twice. Two values give the statement two applies of one
  name, which the server refuses; of a value and a set the last decides whether the
  fact is a collection, while the subject keeps the column of the value.

And of the intake: a tree that passes its JSON Schema but not the wire model, and
a rule version without two `-` parts, raise exceptions that no caller expects;
`deliveryRef.resultPayloadSha256` closes only when it is absent, since a result
cannot hold its own hash; and a result or the requests of another publication
with the same catalog and candidate are accepted (`DeliveryIsOnePublication` says
just this much).

## 7. What is left

1. `PrepareV3`, composed with GenerateV3: preparation, time passing, generation
   from what was prepared; withdrawal anywhere between.
2. `HandoffIntakeV3`: batch, closure and approval checks as ordered functions over
   small requests, against a reference definition of a valid closure.
3. `GenerateV2`: the API's generation, which ignores the outcome of its store and
   shares one store between requests, with the V2 static gate; V1 with it.
4. The static gate over the compiled text of V3.1.
5. Proofs: that preparation and generation together never use evidence that was
   withdrawn before the generation started.
