------------------------ MODULE SqlServerValidation ------------------------
(***************************************************************************)
(* One describe-only validation: validate_sqlserver_candidate_v2 and       *)
(* _run_database_stage of application/sqlserver_validation.py over the     *)
(* ODBC session of infrastructure/sqlserver/odbc.py.                       *)
(*                                                                         *)
(* The session asks the target one question per query: the session policy, *)
(* the identity, each object's permissions, the database, server and role  *)
(* permissions, each object's existence and then its columns, and last the *)
(* description of the candidate.  Between any two of them a DBA, a failover*)
(* or a release may change the target.                                     *)
(***************************************************************************)
EXTENDS Naturals, FiniteSets

CONSTANTS
    Objects,    \* the physical objects the candidate reads
    MaxFaults,  \* bound: faults of the target when the run starts
    MaxChanges  \* bound: changes of the target during the run

ASSUME ValidationAssumption ==
    /\ MaxFaults \in Nat
    /\ MaxChanges \in Nat
    /\ "server" \notin Objects

VARIABLES
    target,    \* what is wrong with the target now
    changes,   \* how often it changed
    standing,  \* what has been wrong with it ever since the session opened
    seen,      \* what has been wrong with it at some moment since: history
    datesAware, \* the driver returns modify_date with a time zone (pyodbc does not)
    pc,        \* the next step of the run
    pending,   \* objects the current loop has still to ask about
    current,   \* the object whose columns are read next
    found,     \* what the probes have found wrong
    session,   \* "none", "open" or "closed"
    issues,    \* codes of _Stage.issues
    warnings,  \* objects _Stage.warnings names
    evidence,  \* parts _TargetHolder has
    failure,   \* how a step of the stage raised, "none" if none did
    status     \* the status of the report, "none" before

targetVars == <<target, changes, standing, seen, datesAware>>
stageVars == <<issues, warnings, evidence, failure, status>>
vars == <<targetVars, pc, pending, current, found, session, stageVars>>

Fault(kind, object) == [kind |-> kind, object |-> object]
Of(kinds) == [kind : kinds, object : Objects]
On(kinds) == [kind : kinds, object : {"server"}]

TargetFaults == On({"identity", "version"})
PermissionFaults == Of({"unreadable", "writable"}) \cup On({"database", "server", "roles"})
\* "opaque": no column rows.  "retyped", "drifted": the object's or a column's
\* type, width or nullability is not the snapshot's.
CatalogFaults == Of({"missing", "opaque", "retyped", "drifted"})
BlockingFaults == TargetFaults \cup PermissionFaults \cup CatalogFaults
\* "modified": same shape, but modify_date is after the snapshot's capture.
Faults == BlockingFaults \cup Of({"modified"})

Init ==
    /\ target \in {f \in SUBSET Faults : Cardinality(f) <= MaxFaults}
    /\ changes = 0
    /\ standing = {}
    /\ seen = {}
    /\ datesAware \in BOOLEAN
    /\ pc = "preflight"
    /\ pending = {}
    /\ current = "server"
    /\ found = {}
    /\ session = "none"
    /\ issues = {}
    /\ warnings = {}
    /\ evidence = {}
    /\ failure = "none"
    /\ status = "none"

\* Grants, DDL, failovers: one thing becomes wrong or right.
Change(f) ==
    /\ changes < MaxChanges
    /\ session = "open"
    /\ changes' = changes + 1
    /\ target' = IF f \in target THEN target \ {f} ELSE target \cup {f}
    /\ standing' = standing \cap target'
    /\ seen' = seen \cup target'
    /\ UNCHANGED <<datesAware, pc, pending, current, found, session, stageVars>>

-----------------------------------------------------------------------------
(* Preflight: no call to the adapter.                                      *)

\* The checks in order; a stage runs only if those before it found nothing.
PreflightStages ==
    { {"VALIDATION_DISABLED"}, {"PROFILE_NOT_FOUND"}, {"MODE_NOT_ALLOWED"},
      {"PRODUCTION_TARGET_FORBIDDEN"}, {"TLS_POLICY_INVALID"}, {"REQUESTED_LIMIT_VIOLATION"},
      {"STATIC_REPORT_MISMATCH", "STATIC_GATE_NOT_PASSED", "INPUT_REFERENCE_MISMATCH"},
      {"PARAMETER_MISSING", "PARAMETER_UNDECLARED", "PARAMETER_TYPE_MISMATCH",
       "PARAMETER_VALUE_REJECTED"},
      {"PARAMETER_BIND_FAILED"} }

PreflightCodes == UNION PreflightStages

\* defects: what the first stage that objects reports, {} if none does.
Preflight ==
    /\ pc = "preflight"
    /\ \E checks \in PreflightStages : \E defects \in SUBSET checks :
        /\ issues' = defects
        /\ pc' = IF defects = {} THEN "open" ELSE "report"
    /\ UNCHANGED <<targetVars, pending, current, found, session, warnings, evidence, failure,
                   status>>

-----------------------------------------------------------------------------
(* The database stage: each action is a query and what is made of its      *)
(* answer.                                                                 *)

\* open_session
Open ==
    /\ pc = "open"
    /\ session' = "open"
    /\ standing' = target
    /\ seen' = target
    /\ pc' = "policy"
    /\ UNCHANGED <<target, changes, datesAware, pending, current, found, stageVars>>

\* apply_session_policy, read back from the server
ApplyPolicy ==
    /\ pc = "policy"
    /\ pc' = "target"
    /\ UNCHANGED <<targetVars, pending, current, found, session, stageVars>>

\* attest_target: an identity that does not match is reported before a version.
AttestTarget ==
    /\ pc = "target"
    /\ evidence' = evidence \cup {"target"}
    /\ found' = target \cap TargetFaults
    /\ \/ /\ found' = {}
          /\ pc' = "object"
          /\ pending' = Objects
          /\ UNCHANGED issues
       \/ /\ found' # {}
          /\ pc' = "rollback"
          /\ issues' = {IF Fault("identity", "server") \in found'
                        THEN "TARGET_IDENTITY_MISMATCH" ELSE "SERVER_VERSION_UNSUPPORTED"}
          /\ UNCHANGED pending
    /\ UNCHANGED <<targetVars, current, session, warnings, failure, status>>

\* attest_permissions: its query about one object, ...
ProbeObject(o) ==
    /\ pc = "object"
    /\ o \in pending
    /\ found' = found \cup (target \cap {Fault("unreadable", o), Fault("writable", o)})
    /\ pending' = pending \ {o}
    /\ pc' = IF pending' = {} THEN "database" ELSE "object"
    /\ UNCHANGED <<targetVars, current, session, stageVars>>

\* ... those about the database and the server, ...
ProbeScope ==
    /\ pc \in {"database", "server"}
    /\ found' = found \cup (target \cap {Fault(pc, "server")})
    /\ pc' = IF pc = "database" THEN "server" ELSE "roles"
    /\ UNCHANGED <<targetVars, pending, current, session, stageVars>>

PermissionIssues(faults) ==
    {IF f.kind = "unreadable" THEN "SELECT_PERMISSION_MISSING" ELSE "WRITE_PERMISSION_PRESENT"
        : f \in faults}

\* Seeded bug: the capabilities found before this query are dropped.
ProbeRoles_LastAnswer ==
    /\ pc = "roles"
    /\ found' = target \cap {Fault("roles", "server")}
    /\ evidence' = evidence \cup {"permission"}
    /\ issues' = PermissionIssues(found')
    /\ pc' = IF issues' = {} THEN "existence" ELSE "rollback"
    /\ pending' = Objects
    /\ UNCHANGED <<targetVars, current, session, warnings, failure, status>>

\* ... and the one about roles; then _permission_issues.
ProbeRoles ==
    /\ pc = "roles"
    /\ found' = found \cup (target \cap {Fault("roles", "server")})
    /\ evidence' = evidence \cup {"permission"}
    /\ issues' = PermissionIssues(found')
    /\ pc' = IF issues' = {} THEN "existence" ELSE "rollback"
    /\ pending' = Objects
    /\ UNCHANGED <<targetVars, current, session, warnings, failure, status>>

\* The loop of read_catalog_facts goes on, or hands its facts over.
NextObject(o) ==
    /\ pending' = pending \ {o}
    /\ pc' = IF pending' = {} THEN "compare" ELSE "existence"

\* read_catalog_facts: type and modify_date of an object.
ProbeExistence(o) ==
    /\ pc = "existence"
    /\ o \in pending
    /\ \/ /\ Fault("missing", o) \in target
          /\ found' = found \cup {Fault("missing", o)}
          /\ NextObject(o)
          /\ UNCHANGED current
       \/ /\ Fault("missing", o) \notin target
          /\ found' = found \cup (target \cap {Fault("retyped", o), Fault("modified", o)})
          /\ current' = o
          /\ pc' = "columns"
          /\ UNCHANGED pending
    /\ UNCHANGED <<targetVars, session, stageVars>>

\* A step of the stage raises an error that is none of the adapter's.
Unexpected(kind) ==
    /\ failure' = kind
    /\ issues' = issues \cup {"INTERNAL_VALIDATION_FAILED"}
    /\ pc' = "rollback"

\* No rows for the columns: the object may have gone since the last query.
Opaque == {Fault("missing", current), Fault("opaque", current)} \cap target # {}

\* Seeded bug: no rows of an object are read as columns that are gone.
ProbeColumns_EmptyDrifts ==
    /\ pc = "columns"
    /\ IF Opaque \/ datesAware
       THEN /\ found' = found \cup (IF Opaque THEN {Fault("drifted", current)}
                                   ELSE target \cap {Fault("drifted", current)})
            /\ NextObject(current)
            /\ UNCHANGED <<issues, failure>>
       ELSE Unexpected("naiveDate") /\ UNCHANGED <<found, pending>>
    /\ UNCHANGED <<targetVars, current, session, warnings, evidence, status>>

\* Seeded bug: a date that cannot be compared counts as no modification.
ProbeColumns_Swallows ==
    /\ pc = "columns"
    /\ found' = IF Opaque THEN found \cup {Fault("opaque", current)}
                ELSE (IF datesAware THEN found ELSE found \ {Fault("modified", current)})
                         \cup (target \cap {Fault("drifted", current)})
    /\ NextObject(current)
    /\ UNCHANGED <<targetVars, current, session, stageVars>>

\* read_catalog_facts: the columns.  Without rows the object is undetermined.
\* Otherwise modify_date is compared with captured_at, which always has a time
\* zone; a date without one raises TypeError.
ProbeColumns ==
    /\ pc = "columns"
    /\ \/ /\ Opaque
          /\ found' = found \cup {Fault("opaque", current)}
          /\ NextObject(current)
          /\ UNCHANGED <<issues, failure>>
       \/ /\ ~Opaque
          /\ datesAware
          /\ found' = found \cup (target \cap {Fault("drifted", current)})
          /\ NextObject(current)
          /\ UNCHANGED <<issues, failure>>
       \/ /\ ~Opaque
          /\ ~datesAware
          /\ Unexpected("naiveDate")
          /\ UNCHANGED <<found, pending>>
    /\ UNCHANGED <<targetVars, current, session, warnings, evidence, status>>

\* SNAPSHOT_TYPE_DRIFT stands here for SNAPSHOT_COLUMN_MISSING and
\* SNAPSHOT_NULLABILITY_DRIFT as well.
DriftIssue(kind) ==
    IF kind = "missing" THEN "SNAPSHOT_OBJECT_MISSING" ELSE "SNAPSHOT_TYPE_DRIFT"

\* Undetermined objects end the stage before _compare_snapshot.
Compare ==
    /\ pc = "compare"
    /\ \/ /\ found \cap Of({"opaque"}) # {}
          /\ issues' = {"SNAPSHOT_PROBE_FAILED"}
          /\ UNCHANGED <<warnings, evidence>>
       \/ /\ found \cap Of({"opaque"}) = {}
          /\ issues' = {DriftIssue(f.kind) :
                            f \in found \cap Of({"missing", "retyped", "drifted"})}
          /\ warnings' = {o \in Objects : Fault("modified", o) \in found}
          /\ evidence' = evidence \cup {"drift"}
    /\ pc' = IF issues' = {} THEN "describe" ELSE "rollback"
    /\ UNCHANGED <<targetVars, pending, current, found, session, failure, status>>

\* describe_first_result_set, then _describe_issues on the answer.
Describe(problems) ==
    /\ pc = "describe"
    /\ evidence' = evidence \cup {"describe"}
    /\ issues' = problems
    /\ pc' = "rollback"
    /\ UNCHANGED <<targetVars, pending, current, found, session, warnings, failure, status>>

DescribeProblems ==
    {{}} \cup {{c} : c \in {"DESCRIBE_SIZE_LIMIT", "RESULT_SHAPE_MISMATCH",
                            "RESULT_TYPE_MISMATCH", "RESULT_NULLABILITY_MISMATCH"}}

-----------------------------------------------------------------------------
(* A query does not answer.                                                *)

Querying ==
    pc \in {"open", "policy", "target", "object", "database", "server", "roles", "existence",
            "columns", "describe"}

\* The code of an error the server answers with, per operation.
RefusalIssue ==
    CASE pc = "policy" -> "SESSION_POLICY_FAILED"
      [] pc = "target" -> "TARGET_ATTESTATION_FAILED"
      [] pc \in {"object", "database", "server", "roles"} -> "PERMISSION_UNDETERMINED"
      [] pc = "describe" -> "DESCRIBE_REJECTED"
      [] OTHER -> "SNAPSHOT_PROBE_FAILED"

\* Without a session there is nothing to roll back.
AfterFailure == IF session = "open" THEN "rollback" ELSE "report"

\* Seeded bug: a failure after the session opened leaves it open.
QueryLost_KeepsSession(kind) ==
    /\ Querying
    /\ failure' = kind
    /\ issues' = issues \cup {"CONNECTION_UNAVAILABLE"}
    /\ pc' = "report"
    /\ UNCHANGED <<targetVars, pending, current, found, session, warnings, evidence, status>>

\* Timeout, lost connection or driver, or an error outside the mapped call.
QueryLost(kind) ==
    /\ Querying
    /\ failure' = kind
    /\ issues' = issues \cup {IF kind = "unexpected" THEN "INTERNAL_VALIDATION_FAILED"
                              ELSE "CONNECTION_UNAVAILABLE"}
    /\ pc' = AfterFailure
    /\ UNCHANGED <<targetVars, pending, current, found, session, warnings, evidence, status>>

\* Any other SQL error; while opening, every driver error is a lost connection.
QueryRefused ==
    /\ Querying
    /\ pc # "open"
    /\ failure' = "refused"
    /\ issues' = issues \cup {RefusalIssue}
    /\ pc' = "rollback"
    /\ UNCHANGED <<targetVars, pending, current, found, session, warnings, evidence, status>>

Transient == failure \in {"timeout", "unavailable", "unexpected", "naiveDate"}

-----------------------------------------------------------------------------
(* The end of the run.                                                     *)

\* finally: rollback_safely never raises.
Rollback ==
    /\ pc = "rollback"
    /\ pc' = "close"
    /\ UNCHANGED <<targetVars, pending, current, found, session, stageVars>>

\* close never raises.
Close ==
    /\ pc = "close"
    /\ session' = "closed"
    /\ pc' = "report"
    /\ UNCHANGED <<targetVars, pending, current, found, stageVars>>

\* _Stage.status
Report ==
    /\ pc = "report"
    /\ status' = IF issues = {} THEN "passed" ELSE IF Transient THEN "inconclusive" ELSE "blocked"
    /\ pc' = "done"
    /\ UNCHANGED <<targetVars, pending, current, found, session, issues, warnings, evidence,
                   failure>>

\* The process dies; the server drops its session with the connection.
Kill ==
    /\ pc \notin {"done", "killed"}
    /\ pc' = "killed"
    /\ session' = "closed"
    /\ UNCHANGED <<targetVars, pending, current, found, stageVars>>

Step ==
    \/ Preflight \/ Open \/ ApplyPolicy \/ AttestTarget
    \/ \E o \in Objects : ProbeObject(o) \/ ProbeExistence(o)
    \/ ProbeScope \/ ProbeRoles \/ ProbeColumns \/ Compare
    \/ \E problems \in DescribeProblems : Describe(problems)
    \/ \E kind \in {"timeout", "unavailable", "unexpected"} : QueryLost(kind)
    \/ QueryRefused
    \/ Rollback \/ Close \/ Report

Next == Step \/ Kill \/ \E f \in Faults : Change(f)

Spec == Init /\ [][Next]_vars

\* connect, query and lock timeouts bound every query of the run.
FairSpec == Spec /\ WF_vars(Step)

-----------------------------------------------------------------------------
(* Properties                                                              *)

DatabaseCodes ==
    {"TARGET_IDENTITY_MISMATCH", "SERVER_VERSION_UNSUPPORTED", "SELECT_PERMISSION_MISSING",
     "WRITE_PERMISSION_PRESENT", "SNAPSHOT_PROBE_FAILED", "SNAPSHOT_OBJECT_MISSING",
     "SNAPSHOT_TYPE_DRIFT", "SESSION_POLICY_FAILED",
     "TARGET_ATTESTATION_FAILED", "PERMISSION_UNDETERMINED", "DESCRIBE_REJECTED",
     "DESCRIBE_SIZE_LIMIT", "RESULT_SHAPE_MISMATCH", "RESULT_TYPE_MISMATCH",
     "RESULT_NULLABILITY_MISMATCH", "CONNECTION_UNAVAILABLE", "INTERNAL_VALIDATION_FAILED"}

\* Every variable has its type, and a report exists only once the run is over.
TypeOK ==
    /\ target \subseteq Faults
    /\ changes \in 0..MaxChanges
    /\ standing \subseteq Faults
    /\ seen \subseteq Faults
    /\ datesAware \in BOOLEAN
    /\ pc \in {"preflight", "open", "policy", "target", "object", "database", "server", "roles",
               "existence", "columns", "compare", "describe", "rollback", "close", "report",
               "done", "killed"}
    /\ pending \subseteq Objects
    /\ current \in Objects \cup {"server"}
    /\ found \subseteq Faults
    /\ session \in {"none", "open", "closed"}
    /\ issues \subseteq PreflightCodes \cup DatabaseCodes
    /\ warnings \subseteq Objects
    /\ evidence \subseteq {"target", "permission", "drift", "describe"}
    /\ failure \in {"none", "timeout", "unavailable", "unexpected", "refused", "naiveDate"}
    /\ status \in {"none", "passed", "blocked", "inconclusive"}
    /\ status # "none" <=> pc = "done"

\* A fault that lasts from the opening of the session on is caught: the
\* candidate is never sent for description to such a target, nor passed on it,
\* whatever else changes between the queries.
StandingFaultCaught ==
    pc = "describe" \/ "describe" \in evidence \/ status = "passed"
        => standing \cap BlockingFaults = {}

\* The faults each code accuses the target of.
Accused == [
    TARGET_IDENTITY_MISMATCH   |-> {"identity"},
    SERVER_VERSION_UNSUPPORTED |-> {"version"},
    SELECT_PERMISSION_MISSING  |-> {"unreadable"},
    WRITE_PERMISSION_PRESENT   |-> {"writable", "database", "server", "roles"},
    SNAPSHOT_OBJECT_MISSING    |-> {"missing"},
    SNAPSHOT_PROBE_FAILED      |-> {"missing", "opaque"},
    SNAPSHOT_TYPE_DRIFT        |-> {"retyped", "drifted"} ]

\* Whatever the report accuses the target of, it was guilty of at some moment
\* since the session opened, also if it changed between two queries of one
\* object; a run that blocks without a failed query and before the description
\* has such an accusation; and a query that is lost accuses the target of
\* nothing (a refused one may: SNAPSHOT_PROBE_FAILED is its code in the catalog).
BlameIsFounded ==
    /\ \A code \in issues \cap DOMAIN Accused :
           \/ \E f \in seen : f.kind \in Accused[code]
           \/ code = "SNAPSHOT_PROBE_FAILED" /\ failure = "refused"
    /\ status = "blocked" /\ session = "closed" /\ failure = "none"
           /\ "describe" \notin evidence
         => issues \cap DOMAIN Accused # {}
    /\ Transient => status # "blocked" /\ issues \cap DOMAIN Accused = {}

\* Whichever dates the driver returns, no candidate is described, nor passed, on
\* a target with an object that was modified after the snapshot and not named in
\* a warning: dates without a time zone end the run before the description, they
\* are not taken for dates that agree.
ModificationShows ==
    "describe" \in evidence \/ status = "passed" =>
        /\ \A o \in Objects : Fault("modified", o) \in standing => o \in warnings
        /\ datesAware \/ Objects = {}

\* What the requirement has: a modification of an object since the snapshot,
\* standing while the run looks, is at least warned about if the run is not
\* stopped by a query that fails or by something that blocks.  With dates without
\* a time zone it is not.
ModificationWarned ==
    status # "none" /\ session = "closed" /\ failure \in {"none", "naiveDate"}
           /\ issues \subseteq {"INTERNAL_VALIDATION_FAILED"}
        => \A o \in Objects : Fault("modified", o) \in standing => o \in warnings

\* A report is never built while the session is still open, and a session that
\* was opened ends closed on every path, however the queries end.
SessionReleased ==
    /\ [](status # "none" => session # "open")
    /\ session = "open" ~> session = "closed"
=============================================================================
