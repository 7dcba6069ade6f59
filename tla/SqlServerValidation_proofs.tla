--------------------- MODULE SqlServerValidation_proofs ---------------------
(***************************************************************************)
(* TLAPS proofs about SqlServerValidation, for any set of objects, any     *)
(* number of faults and changes, and drivers of both kinds.                *)
(*                                                                         *)
(* StandingFaultCaught is not inductive: that nothing standing is left at  *)
(* the description follows from what each gate saw, and what a gate saw    *)
(* from the answers before it.  The strengthening follows the queries: a   *)
(* standing fault that has been asked about is in found, and a gate that   *)
(* was passed leaves no standing fault of its kinds.  The set of standing  *)
(* faults only shrinks, so no change of the target disturbs any of it.     *)
(*                                                                         *)
(* BlameIsFounded goes the other way: what is found was true of the target *)
(* when it was asked, and what was true at some moment stays in seen.      *)
(***************************************************************************)
EXTENDS SqlServerValidation, TLAPS

Attesting == {"object", "database", "server", "roles"}
Reading == {"existence", "columns", "compare"}
Ending == {"rollback", "close", "report", "done", "killed"}

\* The candidate is about to be described, or has been.
Described == pc = "describe" \/ "describe" \in evidence

\* Something in found will make the comparison block because of o.
Caught(o) == \E f \in found \cap CatalogFaults : f.object = o

StandingIsNow == standing \subseteq target

\* What the identity gate let through.
TargetCleared ==
    pc \in Attesting \cup Reading \/ Described => standing \cap TargetFaults = {}

\* Each answer about permissions is in found.
PermissionsAsked ==
    /\ pc = "object" => \A f \in standing \cap Of({"unreadable", "writable"}) :
                            f.object \notin pending => f \in found
    /\ pc \in {"database", "server", "roles"} =>
           standing \cap Of({"unreadable", "writable"}) \subseteq found
    /\ pc \in {"server", "roles"} => standing \cap On({"database"}) \subseteq found
    /\ pc = "roles" => standing \cap On({"server"}) \subseteq found

PermissionsCleared ==
    pc \in Reading \/ Described => standing \cap PermissionFaults = {}

\* Each object the catalog loop is done with has been caught if it has to be.
CatalogAsked ==
    /\ pc \in Reading => \A f \in standing \cap CatalogFaults :
                            f.object \in pending \/ Caught(f.object)
    /\ pc = "columns" =>
           /\ Fault("missing", current) \notin standing
           /\ Fault("retyped", current) \in standing => Fault("retyped", current) \in found
           /\ current \in Objects
    /\ pc = "compare" => pending = {}

CatalogCleared == Described => standing \cap CatalogFaults = {}

\* A run gets to its end without an issue only by way of the description.
NoShortcut ==
    /\ pc \in {"rollback", "close", "report"} /\ issues = {} => "describe" \in evidence
    /\ status = "passed" => "describe" \in evidence
    /\ "describe" \in evidence => pc \in Ending

IInv ==
    /\ TypeOK
    /\ StandingIsNow
    /\ TargetCleared
    /\ PermissionsAsked
    /\ PermissionsCleared
    /\ CatalogAsked
    /\ CatalogCleared
    /\ NoShortcut

-----------------------------------------------------------------------------
(* A run starts with no session: nothing is standing, nothing asked.       *)
LEMMA InitEstablishesIInv == Init => IInv
<1> SUFFICES ASSUME Init PROVE IInv
  OBVIOUS
<1>1. TypeOK
  BY ValidationAssumption DEF Init, TypeOK
<1>2. StandingIsNow /\ TargetCleared /\ PermissionsAsked /\ PermissionsCleared
  BY DEF Init, StandingIsNow, TargetCleared, PermissionsAsked,
     PermissionsCleared
<1>3. CatalogAsked /\ CatalogCleared /\ NoShortcut
  BY DEF Init, CatalogAsked, CatalogCleared, NoShortcut
<1> QED
  BY <1>1, <1>2, <1>3 DEF IInv

(* Every action keeps the invariant.  The gates are AttestTarget, ProbeRoles *)
(* and Compare: what they let through rests on the answers in found.         *)
LEMMA NextPreservesIInv == IInv /\ [Next]_vars => IInv'
<1> SUFFICES ASSUME IInv, [Next]_vars PROVE IInv'
  OBVIOUS
<1>1. CASE Preflight
  <2>1. TypeOK'
    BY <1>1 DEF IInv, TypeOK, PreflightCodes, Preflight, targetVars
  <2>2. StandingIsNow'
    BY <1>1 DEF IInv, StandingIsNow, Preflight, targetVars
  <2>3. TargetCleared'
    BY <1>1 DEF IInv, TargetCleared, Described, Attesting, Reading,
       NoShortcut, Ending, Preflight
  <2>4. PermissionsAsked'
    BY <1>1 DEF PermissionsAsked, Preflight
  <2>5. PermissionsCleared'
    BY <1>1 DEF IInv, PermissionsCleared, Described, Reading, NoShortcut,
       Ending, Preflight
  <2>6. CatalogAsked'
    BY <1>1 DEF CatalogAsked, Reading, Preflight
  <2>7. CatalogCleared'
    BY <1>1 DEF IInv, CatalogCleared, Described, NoShortcut, Ending, Preflight
  <2>8. NoShortcut'
    BY <1>1 DEF IInv, NoShortcut, Ending, Preflight
  <2> QED BY <2>1, <2>2, <2>3, <2>4, <2>5, <2>6, <2>7, <2>8 DEF IInv
<1>2. CASE Open
  <2>1. TypeOK'
    BY <1>2 DEF IInv, TypeOK, Open, stageVars
  <2>2. StandingIsNow'
    BY <1>2 DEF StandingIsNow, Open
  <2>3. TargetCleared'
    BY <1>2 DEF IInv, TargetCleared, Described, Attesting, Reading,
       NoShortcut, Ending, Open, stageVars
  <2>4. PermissionsAsked'
    BY <1>2 DEF PermissionsAsked, Open
  <2>5. PermissionsCleared'
    BY <1>2 DEF IInv, PermissionsCleared, Described, Reading, NoShortcut,
       Ending, Open, stageVars
  <2>6. CatalogAsked'
    BY <1>2 DEF CatalogAsked, Reading, Open
  <2>7. CatalogCleared'
    BY <1>2 DEF IInv, CatalogCleared, Described, NoShortcut, Ending, Open,
       stageVars
  <2>8. NoShortcut'
    BY <1>2 DEF IInv, NoShortcut, Ending, Open, stageVars
  <2> QED BY <2>1, <2>2, <2>3, <2>4, <2>5, <2>6, <2>7, <2>8 DEF IInv
<1>3. CASE ApplyPolicy
  <2>1. TypeOK'
    BY <1>3 DEF IInv, TypeOK, ApplyPolicy, targetVars, stageVars
  <2>2. StandingIsNow'
    BY <1>3 DEF IInv, StandingIsNow, ApplyPolicy, targetVars
  <2>3. TargetCleared'
    BY <1>3 DEF IInv, TargetCleared, Described, Attesting, Reading,
       NoShortcut, Ending, ApplyPolicy, stageVars
  <2>4. PermissionsAsked'
    BY <1>3 DEF PermissionsAsked, ApplyPolicy
  <2>5. PermissionsCleared'
    BY <1>3 DEF IInv, PermissionsCleared, Described, Reading, NoShortcut,
       Ending, ApplyPolicy, stageVars
  <2>6. CatalogAsked'
    BY <1>3 DEF CatalogAsked, Reading, ApplyPolicy
  <2>7. CatalogCleared'
    BY <1>3 DEF IInv, CatalogCleared, Described, NoShortcut, Ending,
       ApplyPolicy, stageVars
  <2>8. NoShortcut'
    BY <1>3 DEF IInv, NoShortcut, Ending, ApplyPolicy, stageVars
  <2> QED BY <2>1, <2>2, <2>3, <2>4, <2>5, <2>6, <2>7, <2>8 DEF IInv
<1>4. CASE AttestTarget
  <2>1. TypeOK'
    BY <1>4 DEF IInv, TypeOK, DatabaseCodes, AttestTarget, targetVars
  <2>2. StandingIsNow'
    BY <1>4 DEF IInv, StandingIsNow, AttestTarget, targetVars
  <2>3. TargetCleared'
    BY <1>4 DEF IInv, StandingIsNow, TargetCleared, Described, Attesting,
       Reading, AttestTarget, targetVars
  <2>4. PermissionsAsked'
    BY <1>4 DEF PermissionsAsked, Of, AttestTarget
  <2>5. PermissionsCleared'
    BY <1>4 DEF IInv, PermissionsCleared, Described, Reading, NoShortcut,
       Ending, AttestTarget
  <2>6. CatalogAsked'
    BY <1>4 DEF CatalogAsked, Reading, AttestTarget
  <2>7. CatalogCleared'
    BY <1>4 DEF IInv, CatalogCleared, Described, NoShortcut, Ending,
       AttestTarget
  <2>8. NoShortcut'
    BY <1>4 DEF IInv, NoShortcut, Ending, AttestTarget
  <2> QED BY <2>1, <2>2, <2>3, <2>4, <2>5, <2>6, <2>7, <2>8 DEF IInv
<1>5. ASSUME NEW o \in Objects, ProbeObject(o) PROVE IInv'
  <2>1. TypeOK'
    BY <1>5 DEF IInv, TypeOK, ProbeObject, targetVars, stageVars
  <2>2. StandingIsNow'
    BY <1>5 DEF IInv, StandingIsNow, ProbeObject, targetVars
  <2>3. TargetCleared'
    BY <1>5 DEF IInv, TargetCleared, Attesting, ProbeObject, targetVars
  <2>4. PermissionsAsked'
    BY <1>5 DEF IInv, StandingIsNow, PermissionsAsked, Fault, Of, ProbeObject,
       targetVars
  <2>5. PermissionsCleared'
    BY <1>5 DEF IInv, PermissionsCleared, Described, Reading, NoShortcut,
       Ending, ProbeObject, stageVars
  <2>6. CatalogAsked'
    BY <1>5 DEF CatalogAsked, Reading, ProbeObject
  <2>7. CatalogCleared'
    BY <1>5 DEF IInv, CatalogCleared, Described, NoShortcut, Ending,
       ProbeObject, stageVars
  <2>8. NoShortcut'
    BY <1>5 DEF IInv, NoShortcut, Ending, ProbeObject, stageVars
  <2> QED BY <2>1, <2>2, <2>3, <2>4, <2>5, <2>6, <2>7, <2>8 DEF IInv
<1>6. ASSUME NEW o \in Objects, ProbeExistence(o) PROVE IInv'
  <2>1. TypeOK'
    BY <1>6 DEF IInv, TypeOK, NextObject, ProbeExistence, targetVars,
       stageVars
  <2>2. StandingIsNow'
    BY <1>6 DEF IInv, StandingIsNow, ProbeExistence, targetVars
  <2>3. TargetCleared'
    BY <1>6 DEF IInv, TargetCleared, Reading, ProbeExistence, targetVars
  <2>4. PermissionsAsked'
    BY <1>6 DEF PermissionsAsked, NextObject, ProbeExistence
  <2>5. PermissionsCleared'
    BY <1>6 DEF IInv, PermissionsCleared, Reading, ProbeExistence, targetVars
  <2>6. CatalogAsked'
    BY <1>6 DEF IInv, StandingIsNow, CatalogAsked, Caught, Reading,
       NextObject, Fault, Of, CatalogFaults, ProbeExistence, targetVars
  <2>7. CatalogCleared'
    BY <1>6 DEF IInv, CatalogCleared, Described, NoShortcut, Ending,
       NextObject, ProbeExistence, stageVars
  <2>8. NoShortcut'
    BY <1>6 DEF IInv, NoShortcut, Ending, NextObject, ProbeExistence,
       stageVars
  <2> QED BY <2>1, <2>2, <2>3, <2>4, <2>5, <2>6, <2>7, <2>8 DEF IInv
<1>7. CASE ProbeScope
  <2>1. TypeOK'
    BY <1>7 DEF IInv, TypeOK, ProbeScope, targetVars, stageVars
  <2>2. StandingIsNow'
    BY <1>7 DEF IInv, StandingIsNow, ProbeScope, targetVars
  <2>3. TargetCleared'
    BY <1>7 DEF IInv, TargetCleared, Attesting, ProbeScope, targetVars
  <2>4. PermissionsAsked'
    BY <1>7 DEF IInv, StandingIsNow, PermissionsAsked, Fault, On, ProbeScope,
       targetVars
  <2>5. PermissionsCleared'
    BY <1>7 DEF IInv, PermissionsCleared, Described, Reading, NoShortcut,
       Ending, ProbeScope, stageVars
  <2>6. CatalogAsked'
    BY <1>7 DEF CatalogAsked, Reading, ProbeScope
  <2>7. CatalogCleared'
    BY <1>7 DEF IInv, CatalogCleared, Described, NoShortcut, Ending,
       ProbeScope, stageVars
  <2>8. NoShortcut'
    BY <1>7 DEF IInv, NoShortcut, Ending, ProbeScope, stageVars
  <2> QED BY <2>1, <2>2, <2>3, <2>4, <2>5, <2>6, <2>7, <2>8 DEF IInv
<1>8. CASE ProbeRoles
  <2>1. TypeOK'
    BY <1>8 DEF IInv, TypeOK, DatabaseCodes, PermissionIssues, ProbeRoles,
       targetVars
  <2>2. StandingIsNow'
    BY <1>8 DEF IInv, StandingIsNow, ProbeRoles, targetVars
  <2>3. TargetCleared'
    BY <1>8 DEF IInv, TargetCleared, Attesting, ProbeRoles, targetVars
  <2>4. PermissionsAsked'
    BY <1>8 DEF PermissionsAsked, ProbeRoles
  <2>5. PermissionsCleared'
    BY <1>8 DEF IInv, StandingIsNow, PermissionsAsked, PermissionsCleared,
       Described, Reading, PermissionIssues, Fault, On, PermissionFaults,
       ProbeRoles, targetVars
  <2>6. CatalogAsked'
    BY <1>8 DEF CatalogAsked, Of, CatalogFaults, ProbeRoles
  <2>7. CatalogCleared'
    BY <1>8 DEF IInv, CatalogCleared, Described, NoShortcut, Ending,
       ProbeRoles
  <2>8. NoShortcut'
    BY <1>8 DEF IInv, NoShortcut, Ending, ProbeRoles
  <2> QED BY <2>1, <2>2, <2>3, <2>4, <2>5, <2>6, <2>7, <2>8 DEF IInv
<1>9. CASE ProbeColumns
  <2>1. TypeOK'
    <3>1. current \in Objects
      BY <1>9 DEF IInv, CatalogAsked, ProbeColumns, Opaque
    <3>2. {Fault("opaque", current), Fault("drifted", current)} \subseteq Faults
      BY <3>1 DEF Fault, Of, Faults, BlockingFaults, CatalogFaults
    <3>3. found' \subseteq Faults
      BY <1>9, <3>2 DEF IInv, TypeOK, ProbeColumns, Opaque
    <3> QED
      BY <1>9, <3>3 DEF IInv, TypeOK, ProbeColumns, Opaque, NextObject, Unexpected,
         DatabaseCodes, targetVars
  <2>2. StandingIsNow'
    BY <1>9 DEF IInv, StandingIsNow, ProbeColumns, Opaque, targetVars
  <2>3. TargetCleared'
    BY <1>9 DEF IInv, TargetCleared, Reading, ProbeColumns, Opaque, targetVars
  <2>4. PermissionsAsked'
    BY <1>9 DEF PermissionsAsked, NextObject, Unexpected, ProbeColumns, Opaque
  <2>5. PermissionsCleared'
    BY <1>9 DEF IInv, PermissionsCleared, Reading, ProbeColumns, Opaque, targetVars
  <2>6. CatalogAsked'
    <3>1. CASE pc' = "rollback"
      BY <3>1 DEF CatalogAsked, Reading
    <3>2. CASE NextObject(current)
      <4>1. pc = "columns" /\ current \in Objects /\ pending \subseteq Objects
        BY <1>9 DEF ProbeColumns, Opaque, IInv, CatalogAsked, TypeOK
      <4>2. found \subseteq found'
        BY <1>9 DEF ProbeColumns, Opaque
      <4>3. ASSUME NEW f \in standing \cap CatalogFaults
            PROVE  f.object \in pending' \/ Caught(f.object)'
        <5>1. CASE f.object # current
          BY <5>1, <4>1, <4>2, <3>2 DEF IInv, CatalogAsked, Reading, NextObject, Caught
        <5>2. CASE f.object = current
          <6>1. f \in {Fault("missing", current), Fault("opaque", current),
                       Fault("retyped", current), Fault("drifted", current)}
            BY <5>2 DEF Fault, Of, CatalogFaults
          <6>2. f \in target
            BY DEF IInv, StandingIsNow
          <6>3. f # Fault("missing", current)
            BY <4>1 DEF IInv, CatalogAsked
          <6>4. CASE f = Fault("retyped", current)
            BY <6>4, <4>1, <4>2 DEF IInv, CatalogAsked, Caught
          <6>5. CASE f = Fault("opaque", current)
            BY <6>5, <6>2, <1>9 DEF ProbeColumns, Opaque, Caught
          <6>6. CASE f = Fault("drifted", current)
            <7>1. /\ Fault("opaque", current) \in CatalogFaults
                  /\ Fault("opaque", current).object = current
              BY <4>1 DEF Fault, Of, CatalogFaults
            <7>2. Fault("opaque", current) \in found' \/ f \in found'
              BY <6>6, <6>2, <1>9, <3>2 DEF ProbeColumns, Opaque, Unexpected, NextObject
            <7> QED
              BY <7>1, <7>2, <5>2 DEF Caught
          <6> QED
            BY <6>1, <6>3, <6>4, <6>5, <6>6
        <5> QED
          BY <5>1, <5>2
      <4>4. standing' = standing /\ pc' # "columns" /\ (pc' = "compare" => pending' = {})
        BY <1>9, <3>2 DEF ProbeColumns, Opaque, NextObject, targetVars
      <4> QED
        BY <4>3, <4>4 DEF CatalogAsked
    <3> QED
      BY <1>9, <3>1, <3>2 DEF ProbeColumns, Opaque, Unexpected
  <2>7. CatalogCleared'
    BY <1>9 DEF IInv, CatalogCleared, Described, NoShortcut, Ending,
       NextObject, Unexpected, ProbeColumns
  <2>8. NoShortcut'
    BY <1>9 DEF IInv, NoShortcut, Ending, NextObject, Unexpected, ProbeColumns, Opaque
  <2> QED BY <2>1, <2>2, <2>3, <2>4, <2>5, <2>6, <2>7, <2>8 DEF IInv
<1>10. CASE Compare
  <2>1. TypeOK'
    BY <1>10 DEF IInv, TypeOK, PreflightCodes, DatabaseCodes, Faults,
       DriftIssue, Fault, Of, On, TargetFaults, PermissionFaults,
       CatalogFaults, BlockingFaults, Compare, targetVars
  <2>2. StandingIsNow'
    BY <1>10 DEF IInv, StandingIsNow, Compare, targetVars
  <2>3. TargetCleared'
    BY <1>10 DEF IInv, TargetCleared, Reading, Compare, targetVars
  <2>4. PermissionsAsked'
    BY <1>10 DEF PermissionsAsked, Compare
  <2>5. PermissionsCleared'
    BY <1>10 DEF IInv, PermissionsCleared, Reading, Compare, targetVars
  <2>6. CatalogAsked'
    BY <1>10 DEF CatalogAsked, Reading, Compare
  <2>7. CatalogCleared'
    BY <1>10 DEF IInv, CatalogAsked, Caught, CatalogCleared, Described,
       Reading, Of, CatalogFaults, Compare, targetVars
  <2>8. NoShortcut'
    BY <1>10 DEF IInv, NoShortcut, Ending, Compare
  <2> QED BY <2>1, <2>2, <2>3, <2>4, <2>5, <2>6, <2>7, <2>8 DEF IInv
<1>11. ASSUME NEW problems \in DescribeProblems, Describe(problems) PROVE IInv'
  <2>1. TypeOK'
    BY <1>11 DEF IInv, TypeOK, DatabaseCodes, DescribeProblems, Describe,
       targetVars
  <2>2. StandingIsNow'
    BY <1>11 DEF IInv, StandingIsNow, Describe, targetVars
  <2>3. TargetCleared'
    BY <1>11 DEF IInv, TargetCleared, Described, Describe, targetVars
  <2>4. PermissionsAsked'
    BY <1>11 DEF PermissionsAsked, Describe
  <2>5. PermissionsCleared'
    BY <1>11 DEF IInv, PermissionsCleared, Described, Describe, targetVars
  <2>6. CatalogAsked'
    BY <1>11 DEF CatalogAsked, Reading, Describe
  <2>7. CatalogCleared'
    BY <1>11 DEF IInv, CatalogCleared, Described, Describe, targetVars
  <2>8. NoShortcut'
    BY <1>11 DEF NoShortcut, Ending, Describe
  <2> QED BY <2>1, <2>2, <2>3, <2>4, <2>5, <2>6, <2>7, <2>8 DEF IInv
<1>12. ASSUME NEW kind \in {"timeout", "unavailable", "unexpected"}, QueryLost(kind) PROVE IInv'
  <2>1. TypeOK'
    BY <1>12 DEF IInv, TypeOK, DatabaseCodes, Querying, AfterFailure,
       QueryLost, targetVars
  <2>2. StandingIsNow'
    BY <1>12 DEF IInv, StandingIsNow, QueryLost, targetVars
  <2>3. TargetCleared'
    BY <1>12 DEF IInv, TargetCleared, Described, Attesting, Reading,
       NoShortcut, Ending, Querying, AfterFailure, QueryLost
  <2>4. PermissionsAsked'
    BY <1>12 DEF PermissionsAsked, AfterFailure, QueryLost
  <2>5. PermissionsCleared'
    BY <1>12 DEF IInv, PermissionsCleared, Described, Reading, NoShortcut,
       Ending, Querying, AfterFailure, QueryLost
  <2>6. CatalogAsked'
    BY <1>12 DEF CatalogAsked, Reading, AfterFailure, QueryLost
  <2>7. CatalogCleared'
    BY <1>12 DEF IInv, CatalogCleared, Described, NoShortcut, Ending,
       Querying, AfterFailure, QueryLost
  <2>8. NoShortcut'
    BY <1>12 DEF IInv, NoShortcut, Ending, Querying, QueryLost
  <2> QED BY <2>1, <2>2, <2>3, <2>4, <2>5, <2>6, <2>7, <2>8 DEF IInv
<1>13. CASE QueryRefused
  <2>1. TypeOK'
    BY <1>13 DEF IInv, TypeOK, DatabaseCodes, RefusalIssue, Querying,
       QueryRefused, targetVars
  <2>2. StandingIsNow'
    BY <1>13 DEF IInv, StandingIsNow, QueryRefused, targetVars
  <2>3. TargetCleared'
    BY <1>13 DEF IInv, TargetCleared, Described, Attesting, Reading,
       NoShortcut, Ending, Querying, QueryRefused
  <2>4. PermissionsAsked'
    BY <1>13 DEF PermissionsAsked, QueryRefused
  <2>5. PermissionsCleared'
    BY <1>13 DEF IInv, PermissionsCleared, Described, Reading, NoShortcut,
       Ending, Querying, QueryRefused
  <2>6. CatalogAsked'
    BY <1>13 DEF CatalogAsked, Reading, QueryRefused
  <2>7. CatalogCleared'
    BY <1>13 DEF IInv, CatalogCleared, Described, NoShortcut, Ending,
       Querying, QueryRefused
  <2>8. NoShortcut'
    BY <1>13 DEF IInv, NoShortcut, Ending, QueryRefused
  <2> QED BY <2>1, <2>2, <2>3, <2>4, <2>5, <2>6, <2>7, <2>8 DEF IInv
<1>14. CASE Rollback
  <2>1. TypeOK'
    BY <1>14 DEF IInv, TypeOK, Rollback, targetVars, stageVars
  <2>2. StandingIsNow'
    BY <1>14 DEF IInv, StandingIsNow, Rollback, targetVars
  <2>3. TargetCleared'
    BY <1>14 DEF IInv, TargetCleared, Described, Attesting, Reading, Rollback,
       targetVars, stageVars
  <2>4. PermissionsAsked'
    BY <1>14 DEF PermissionsAsked, Rollback
  <2>5. PermissionsCleared'
    BY <1>14 DEF IInv, PermissionsCleared, Described, Reading, Rollback,
       targetVars, stageVars
  <2>6. CatalogAsked'
    BY <1>14 DEF CatalogAsked, Reading, Rollback
  <2>7. CatalogCleared'
    BY <1>14 DEF IInv, CatalogCleared, Described, Rollback, targetVars,
       stageVars
  <2>8. NoShortcut'
    BY <1>14 DEF IInv, NoShortcut, Ending, Rollback, stageVars
  <2> QED BY <2>1, <2>2, <2>3, <2>4, <2>5, <2>6, <2>7, <2>8 DEF IInv
<1>15. CASE Close
  <2>1. TypeOK'
    BY <1>15 DEF IInv, TypeOK, Close, targetVars, stageVars
  <2>2. StandingIsNow'
    BY <1>15 DEF IInv, StandingIsNow, Close, targetVars
  <2>3. TargetCleared'
    BY <1>15 DEF IInv, TargetCleared, Described, Attesting, Reading, Close,
       targetVars, stageVars
  <2>4. PermissionsAsked'
    BY <1>15 DEF PermissionsAsked, Close
  <2>5. PermissionsCleared'
    BY <1>15 DEF IInv, PermissionsCleared, Described, Reading, Close,
       targetVars, stageVars
  <2>6. CatalogAsked'
    BY <1>15 DEF CatalogAsked, Reading, Close
  <2>7. CatalogCleared'
    BY <1>15 DEF IInv, CatalogCleared, Described, Close, targetVars, stageVars
  <2>8. NoShortcut'
    BY <1>15 DEF IInv, NoShortcut, Ending, Close, stageVars
  <2> QED BY <2>1, <2>2, <2>3, <2>4, <2>5, <2>6, <2>7, <2>8 DEF IInv
<1>16. CASE Report
  <2>1. TypeOK'
    BY <1>16 DEF IInv, TypeOK, Report, targetVars
  <2>2. StandingIsNow'
    BY <1>16 DEF IInv, StandingIsNow, Report, targetVars
  <2>3. TargetCleared'
    BY <1>16 DEF IInv, TargetCleared, Described, Attesting, Reading, Report,
       targetVars
  <2>4. PermissionsAsked'
    BY <1>16 DEF PermissionsAsked, Report
  <2>5. PermissionsCleared'
    BY <1>16 DEF IInv, PermissionsCleared, Described, Reading, Report,
       targetVars
  <2>6. CatalogAsked'
    BY <1>16 DEF CatalogAsked, Reading, Report
  <2>7. CatalogCleared'
    BY <1>16 DEF IInv, CatalogCleared, Described, Report, targetVars
  <2>8. NoShortcut'
    BY <1>16 DEF IInv, NoShortcut, Ending, Report
  <2> QED BY <2>1, <2>2, <2>3, <2>4, <2>5, <2>6, <2>7, <2>8 DEF IInv
<1>17. CASE Kill
  <2>1. TypeOK'
    BY <1>17 DEF IInv, TypeOK, Kill, targetVars, stageVars
  <2>2. StandingIsNow'
    BY <1>17 DEF IInv, StandingIsNow, Kill, targetVars
  <2>3. TargetCleared'
    BY <1>17 DEF IInv, TargetCleared, Described, Attesting, Reading, Kill,
       targetVars, stageVars
  <2>4. PermissionsAsked'
    BY <1>17 DEF PermissionsAsked, Kill
  <2>5. PermissionsCleared'
    BY <1>17 DEF IInv, PermissionsCleared, Described, Reading, Kill,
       targetVars, stageVars
  <2>6. CatalogAsked'
    BY <1>17 DEF CatalogAsked, Reading, Kill
  <2>7. CatalogCleared'
    BY <1>17 DEF IInv, CatalogCleared, Described, Kill, targetVars, stageVars
  <2>8. NoShortcut'
    BY <1>17 DEF IInv, NoShortcut, Ending, Kill, stageVars
  <2> QED BY <2>1, <2>2, <2>3, <2>4, <2>5, <2>6, <2>7, <2>8 DEF IInv
<1>18. ASSUME NEW f \in Faults, Change(f) PROVE IInv'
  <2>1. TypeOK'
    <3>1. changes' \in 0..MaxChanges
      BY <1>18, ValidationAssumption DEF IInv, TypeOK, Change
    <3>2. target' \subseteq Faults /\ standing' \subseteq Faults
      BY <1>18 DEF IInv, TypeOK, Change
    <3> QED BY <1>18, <3>1 DEF IInv, TypeOK, Change, stageVars
  <2>2. StandingIsNow'
    BY <1>18 DEF StandingIsNow, Change
  <2>3. TargetCleared'
    BY <1>18 DEF IInv, TargetCleared, Described, Change, stageVars
  <2>4. PermissionsAsked'
    BY <1>18 DEF IInv, PermissionsAsked, Change
  <2>5. PermissionsCleared'
    BY <1>18 DEF IInv, PermissionsCleared, Described, Change, stageVars
  <2>6. CatalogAsked'
    BY <1>18 DEF IInv, CatalogAsked, Caught, Change
  <2>7. CatalogCleared'
    BY <1>18 DEF IInv, CatalogCleared, Described, Change, stageVars
  <2>8. NoShortcut'
    BY <1>18 DEF IInv, NoShortcut, Change, stageVars
  <2> QED BY <2>1, <2>2, <2>3, <2>4, <2>5, <2>6, <2>7, <2>8 DEF IInv
<1>19. CASE UNCHANGED vars
  <2>1. TypeOK'
    BY <1>19 DEF IInv, TypeOK, vars, targetVars, stageVars
  <2>2. StandingIsNow'
    BY <1>19 DEF IInv, StandingIsNow, vars, targetVars
  <2>3. TargetCleared'
    BY <1>19 DEF IInv, TargetCleared, Described, vars, targetVars, stageVars
  <2>4. PermissionsAsked'
    BY <1>19 DEF IInv, PermissionsAsked, vars, targetVars
  <2>5. PermissionsCleared'
    BY <1>19 DEF IInv, PermissionsCleared, Described, vars, targetVars,
       stageVars
  <2>6. CatalogAsked'
    BY <1>19 DEF IInv, CatalogAsked, Caught, vars, targetVars
  <2>7. CatalogCleared'
    BY <1>19 DEF IInv, CatalogCleared, Described, vars, targetVars, stageVars
  <2>8. NoShortcut'
    BY <1>19 DEF IInv, NoShortcut, vars, stageVars
  <2> QED BY <2>1, <2>2, <2>3, <2>4, <2>5, <2>6, <2>7, <2>8 DEF IInv
<1> QED BY <1>1, <1>2, <1>3, <1>4, <1>5, <1>6, <1>7, <1>8, <1>9, <1>10, <1>11,
           <1>12, <1>13, <1>14, <1>15, <1>16, <1>17, <1>18, <1>19 DEF Next,
           Step

-----------------------------------------------------------------------------
(* The strengthened invariant holds of every run.                          *)
THEOREM InductiveInvariant == Spec => []IInv
<1> QED
  BY InitEstablishesIInv, NextPreservesIInv, PTL DEF Spec

(* Every variable keeps its type and only an ended run has a status, for   *)
(* any number of objects, faults and changes.                              *)
THEOREM TypeCorrect == Spec => []TypeOK
<1>1. IInv => TypeOK
  BY DEF IInv
<1> QED
  BY <1>1, InductiveInvariant, PTL

(* No candidate is sent for description to, or passed on, a target with a  *)
(* fault that lasted from the opening of the session on, however the target*)
(* changes between the queries.                                            *)
THEOREM FaultsAreCaught == Spec => []StandingFaultCaught
<1>1. IInv => StandingFaultCaught
  BY DEF IInv, StandingFaultCaught, TargetCleared, PermissionsCleared,
     CatalogCleared, NoShortcut, Described, BlockingFaults
<1> QED
  BY <1>1, InductiveInvariant, PTL

-----------------------------------------------------------------------------
(* What the report accuses the target of.                                  *)

\* No session before it is opened, and it stays open to the rollback.
SessionInStep ==
    /\ pc \in {"preflight", "open"} => session = "none" /\ found = {}
    /\ pc \notin {"preflight", "open", "report", "done", "killed"} => session = "open"

\* What is found was seen; an object without rows may have been missing instead.
FoundWasSeen ==
    /\ session = "open" => target \subseteq seen
    /\ \A f \in found : f \in seen \/ (f.kind = "opaque" /\ Fault("missing", f.object) \in seen)
    /\ pc \in Attesting => found \subseteq PermissionFaults

\* No issue while the queries are asked, and an accusation or a failed query at the
\* end of a run that was not described.
IssuesInStep ==
    /\ pc \in {"open", "policy", "compare", "describe"} \cup Attesting \cup Reading \cup {"target"}
         => issues = {}
    /\ failure # "none" => pc \in Ending
    /\ pc \in Ending \ {"killed"} /\ session # "none" /\ failure = "none"
           /\ "describe" \notin evidence
         => issues \cap DOMAIN Accused # {}

SInv == SessionInStep /\ FoundWasSeen /\ IssuesInStep /\ BlameIsFounded

\* The accusations, one by one.
LEMMA Accusations ==
  /\ DOMAIN Accused =
       {"TARGET_IDENTITY_MISMATCH", "SERVER_VERSION_UNSUPPORTED", "SELECT_PERMISSION_MISSING",
        "WRITE_PERMISSION_PRESENT", "SNAPSHOT_OBJECT_MISSING", "SNAPSHOT_PROBE_FAILED",
        "SNAPSHOT_TYPE_DRIFT"}
  /\ Accused["TARGET_IDENTITY_MISMATCH"] = {"identity"}
  /\ Accused["SERVER_VERSION_UNSUPPORTED"] = {"version"}
  /\ Accused["SELECT_PERMISSION_MISSING"] = {"unreadable"}
  /\ Accused["WRITE_PERMISSION_PRESENT"] = {"writable", "database", "server", "roles"}
  /\ Accused["SNAPSHOT_OBJECT_MISSING"] = {"missing"}
  /\ Accused["SNAPSHOT_PROBE_FAILED"] = {"missing", "opaque"}
  /\ Accused["SNAPSHOT_TYPE_DRIFT"] = {"retyped", "drifted"}
BY DEF Accused

(* Nothing is found before the run begins.                                 *)
LEMMA InitEstablishesSInv == Init => SInv
  BY DEF Init, SInv, SessionInStep, FoundWasSeen, IssuesInStep, BlameIsFounded, Attesting,
         Reading, Ending, Transient

(* Each answer is true of the target when it is given, and each issue of a *)
(* gate is about an answer.                                                *)
LEMMA NextPreservesSInv == IInv /\ SInv /\ [Next]_vars => SInv'
<1> SUFFICES ASSUME IInv, SInv, [Next]_vars PROVE SInv'
  OBVIOUS
<1> USE DEF SInv, SessionInStep, FoundWasSeen, IssuesInStep, Attesting, Reading, Ending
<1>0. /\ status # "none" <=> pc = "done"
      /\ failure \in {"none", "timeout", "unavailable", "unexpected", "refused", "naiveDate"}
  BY DEF IInv, TypeOK
<1>1. CASE Preflight
  <2>1. \A checks \in PreflightStages : checks \cap DOMAIN Accused = {}
    BY Accusations DEF PreflightStages
  <2> QED
    BY <1>0, <1>1, <2>1 DEF Preflight, BlameIsFounded, Transient, targetVars
<1>2. CASE Open
  BY <1>0, <1>2 DEF Open, stageVars, BlameIsFounded, Transient
<1>3. CASE ApplyPolicy
  BY <1>0, <1>3 DEF ApplyPolicy, targetVars, stageVars, BlameIsFounded, Transient
<1>4. CASE AttestTarget
  <2>1. /\ pc = "target" /\ session = "open" /\ issues = {} /\ failure = "none"
        /\ target \subseteq seen /\ status = "none"
    BY <1>0, <1>4 DEF AttestTarget
  <2>2. /\ found' \subseteq target /\ found' = target \cap TargetFaults
        /\ UNCHANGED <<target, seen, session, status, failure>>
    BY <1>4 DEF AttestTarget, targetVars
  <2>3. CASE found' = {}
    BY <1>4, <2>1, <2>2, <2>3 DEF AttestTarget, BlameIsFounded, Transient
  <2>4. CASE found' # {}
    <3>1. PICK f \in found' : issues' = {IF f.kind = "identity" THEN "TARGET_IDENTITY_MISMATCH"
                                         ELSE "SERVER_VERSION_UNSUPPORTED"}
                              /\ f.kind \in {"identity", "version"}
      BY <1>4, <2>2, <2>4 DEF AttestTarget, TargetFaults, On, Fault
    <3>2. pc' = "rollback" /\ f \in seen
      BY <1>4, <2>1, <2>2, <2>4, <3>1 DEF AttestTarget
    <3>3. BlameIsFounded'
      BY <2>1, <2>2, <3>1, <3>2, Accusations DEF BlameIsFounded, Transient
    <3> QED
      BY <2>1, <2>2, <3>1, <3>2, <3>3, Accusations
  <2> QED
    BY <2>3, <2>4
<1>5. ASSUME NEW o \in Objects, ProbeObject(o) PROVE SInv'
  BY <1>0, <1>5 DEF ProbeObject, targetVars, stageVars, PermissionFaults, Fault, Of, BlameIsFounded,
                    Transient
<1>6. ASSUME NEW o \in Objects, ProbeExistence(o) PROVE SInv'
  BY <1>0, <1>6 DEF ProbeExistence, NextObject, targetVars, stageVars, BlameIsFounded, Transient
<1>7. CASE ProbeScope
  BY <1>0, <1>7 DEF ProbeScope, targetVars, stageVars, PermissionFaults, Fault, On, BlameIsFounded,
                    Transient
<1>8. CASE ProbeRoles
  <2>1. /\ pc = "roles" /\ session = "open" /\ failure = "none"
        /\ target \subseteq seen /\ status = "none"
    BY <1>0, <1>8 DEF ProbeRoles
  <2>2. /\ found' \subseteq PermissionFaults /\ found' \subseteq seen
        /\ issues' = PermissionIssues(found')
        /\ UNCHANGED <<target, seen, session, status, failure>>
    <3>1. found \subseteq PermissionFaults /\ found \subseteq seen
      <4>1. found \subseteq PermissionFaults
        BY <2>1
      <4>2. \A f \in PermissionFaults : f.kind # "opaque"
        BY DEF PermissionFaults, Of, On
      <4> QED
        BY <4>1, <4>2
    <3>2. Fault("roles", "server") \in PermissionFaults
      BY DEF PermissionFaults, Fault, On
    <3>3. found' = found \cup (target \cap {Fault("roles", "server")})
      BY <1>8 DEF ProbeRoles
    <3>4. issues' = PermissionIssues(found')
      BY <1>8 DEF ProbeRoles
    <3>5. UNCHANGED <<target, seen, session, status, failure>>
      BY <1>8 DEF ProbeRoles, targetVars
    <3>6. found' \subseteq PermissionFaults /\ found' \subseteq seen
      BY <2>1, <3>1, <3>2, <3>3
    <3> QED
      BY <3>4, <3>5, <3>6
  <2>3. ASSUME NEW code \in issues'
        PROVE  code \in DOMAIN Accused /\ \E f \in seen : f.kind \in Accused[code]
    <3>1. PICK f \in found' : code = IF f.kind = "unreadable" THEN "SELECT_PERMISSION_MISSING"
                                     ELSE "WRITE_PERMISSION_PRESENT"
      BY <2>2, <2>3 DEF PermissionIssues
    <3>2. f \in seen /\ f.kind \in {"unreadable", "writable", "database", "server", "roles"}
      BY <2>2, <3>1 DEF PermissionFaults, Of, On
    <3> QED
      BY <3>1, <3>2, Accusations
  <2>4. BlameIsFounded'
    BY <2>1, <2>2, <2>3 DEF BlameIsFounded, Transient
  <2> QED
    BY <1>8, <2>1, <2>2, <2>3, <2>4 DEF ProbeRoles
<1>9. CASE ProbeColumns
  <2>1. /\ pc = "columns" /\ session = "open" /\ failure = "none" /\ issues = {}
        /\ target \subseteq seen /\ status = "none"
    BY <1>0, <1>9 DEF ProbeColumns, Opaque
  <2>2. UNCHANGED <<target, seen, session, status>>
    BY <1>9 DEF ProbeColumns, Opaque, targetVars
  <2>3. \A f \in found' : f \in seen \/ (f.kind = "opaque" /\ Fault("missing", f.object) \in seen)
    <3>1. PICK a \in {"missing", "opaque", "drifted", "none"} :
            \/ a \in {"missing", "opaque"} /\ Fault(a, current) \in target
                 /\ found' = found \cup {Fault("opaque", current)}
            \/ a = "drifted" /\ found' = found \cup (target \cap {Fault(a, current)})
            \/ a = "none" /\ found' = found
      BY <1>9, Zenon DEF ProbeColumns, Opaque
    <3>2. /\ Fault("opaque", current).kind = "opaque"
          /\ Fault("opaque", current).object = current
      BY DEF Fault
    <3>3. \A f \in found : f \in seen \/ (f.kind = "opaque" /\ Fault("missing", f.object) \in seen)
      OBVIOUS
    <3> QED
      BY <2>1, <2>2, <3>1, <3>2, <3>3
  <2>4. CASE pc' = "rollback"
    <3>1. failure' = "naiveDate" /\ issues' = {"INTERNAL_VALIDATION_FAILED"}
      BY <1>9, <2>1, <2>4 DEF ProbeColumns, Opaque, Unexpected, NextObject
    <3> QED
      BY <2>1, <2>2, <2>3, <2>4, <3>1, Accusations DEF BlameIsFounded, Transient
  <2>5. CASE pc' # "rollback"
    <3>1. pc' \in {"existence", "compare"} /\ UNCHANGED <<failure, issues>>
      BY <1>9, <2>1, <2>5 DEF ProbeColumns, Opaque, Unexpected, NextObject
    <3> QED
      BY <2>1, <2>2, <2>3, <3>1 DEF BlameIsFounded, Transient
  <2> QED
    BY <2>4, <2>5
<1>10. CASE Compare
  <2>1. /\ pc = "compare" /\ session = "open" /\ failure = "none" /\ status = "none"
        /\ UNCHANGED <<target, seen, session, status, failure, found>>
    BY <1>0, <1>10 DEF Compare, targetVars
  <2>2. ASSUME NEW code \in issues'
        PROVE  code \in DOMAIN Accused /\ \E f \in seen : f.kind \in Accused[code]
    <3>1. CASE found \cap Of({"opaque"}) # {}
      <4>1. PICK f \in found : f.kind = "opaque"
        BY <3>1 DEF Of
      <4>2. \E g \in seen : g.kind \in {"missing", "opaque"}
        BY <4>1 DEF Fault
      <4>3. code = "SNAPSHOT_PROBE_FAILED"
        BY <1>10, <2>2, <3>1 DEF Compare
      <4> QED
        BY <4>2, <4>3, Accusations
    <3>2. CASE found \cap Of({"opaque"}) = {}
      <4>1. PICK f \in found \cap Of({"missing", "retyped", "drifted"}) : code = DriftIssue(f.kind)
        BY <1>10, <2>2, <3>2 DEF Compare
      <4>2. f \in seen /\ f.kind \in {"missing", "retyped", "drifted"}
        BY <4>1 DEF Of
      <4> QED
        BY <4>1, <4>2, Accusations DEF DriftIssue
    <3> QED
      BY <3>1, <3>2
  <2>3. BlameIsFounded'
    BY <2>1, <2>2 DEF BlameIsFounded, Transient
  <2>4. pc' = IF issues' = {} THEN "describe" ELSE "rollback"
    BY <1>10 DEF Compare
  <2> QED
    BY <2>1, <2>2, <2>3, <2>4
<1>11. ASSUME NEW problems \in DescribeProblems, Describe(problems) PROVE SInv'
  <2>1. problems \cap DOMAIN Accused = {}
    BY Accusations DEF DescribeProblems
  <2> QED
    BY <1>0, <1>11, <2>1 DEF Describe, targetVars, BlameIsFounded, Transient
<1>12. ASSUME NEW kind \in {"timeout", "unavailable", "unexpected"}, QueryLost(kind) PROVE SInv'
  <2>1. issues = {} /\ pc \notin Ending /\ status = "none"
    BY <1>0, <1>12 DEF QueryLost, Querying
  <2>2. issues' \cap DOMAIN Accused = {}
    BY <1>12, <2>1, Accusations DEF QueryLost
  <2> QED
    BY <1>0, <1>12, <2>1, <2>2 DEF QueryLost, Querying, AfterFailure, targetVars, BlameIsFounded,
                                   Transient
<1>13. CASE QueryRefused
  <2>1. issues = {} /\ pc \notin Ending /\ status = "none"
    BY <1>0, <1>13 DEF QueryRefused, Querying
  <2>2. issues' \cap DOMAIN Accused \subseteq {"SNAPSHOT_PROBE_FAILED"}
    BY <1>13, <2>1, Accusations DEF QueryRefused, RefusalIssue
  <2> QED
    BY <1>0, <1>13, <2>1, <2>2 DEF QueryRefused, Querying, targetVars, BlameIsFounded, Transient
<1>14. CASE Rollback
  BY <1>0, <1>14 DEF Rollback, targetVars, stageVars, BlameIsFounded, Transient
<1>15. CASE Close
  BY <1>0, <1>15 DEF Close, targetVars, stageVars, BlameIsFounded, Transient
<1>16. CASE Report
  BY <1>0, <1>16 DEF Report, targetVars, BlameIsFounded, Transient
<1>17. CASE Kill
  BY <1>0, <1>17 DEF Kill, targetVars, stageVars, BlameIsFounded, Transient
<1>18. ASSUME NEW f \in Faults, Change(f) PROVE SInv'
  BY <1>18 DEF Change, stageVars, BlameIsFounded, Transient
<1>19. CASE UNCHANGED vars
  BY <1>19 DEF vars, targetVars, stageVars, BlameIsFounded, Transient
<1> QED
  BY <1>1, <1>2, <1>3, <1>4, <1>5, <1>6, <1>7, <1>8, <1>9, <1>10, <1>11, <1>12, <1>13,
     <1>14, <1>15, <1>16, <1>17, <1>18, <1>19 DEF Next, Step

(* A report accuses the target only of what was wrong with it at some      *)
(* moment of the session, whatever changes between its queries, and of     *)
(* nothing if a query was lost.                                            *)
THEOREM BlameIsAlwaysFounded == Spec => []BlameIsFounded
<1>1. SInv => BlameIsFounded
  BY DEF SInv
<1> QED
  BY <1>1, InductiveInvariant, InitEstablishesSInv, NextPreservesSInv, PTL DEF Spec

-----------------------------------------------------------------------------
(* The warning about modified objects.                                     *)

\* An object that has been modified all along is still to be asked about, or
\* its modification is found, or it is caught for something worse.
ModificationsAsked ==
    /\ pc \in Reading => \A f \in standing \cap Of({"modified"}) :
                            f.object \in pending \/ f \in found \/ Caught(f.object)
    /\ pc = "columns" /\ Fault("modified", current) \in standing
         => Fault("modified", current) \in found

\* What is described has been warned about.
ModificationsNamed ==
    Described => \A o \in Objects : Fault("modified", o) \in standing => o \in warnings

\* With dates that cannot be compared every object the catalog loop is done with
\* has been caught, so the comparison blocks.
NaiveDatesStop ==
    ~datesAware =>
        /\ pc \in Reading => \A o \in Objects : o \in pending \/ Caught(o)
        /\ pc = "columns" => current \in pending
        /\ Described => Objects = {}

WInv == ModificationsAsked /\ ModificationsNamed /\ NaiveDatesStop

(* Nothing is modified before the run begins.                              *)
LEMMA InitEstablishesWInv == Init => WInv
  BY DEF Init, WInv, ModificationsAsked, ModificationsNamed, NaiveDatesStop, Reading, Described

(* No modification is lost on its way, whichever dates the driver returns. *)
LEMMA NextPreservesWInv == IInv /\ WInv /\ [Next]_vars => WInv'
<1> SUFFICES ASSUME IInv, WInv, [Next]_vars PROVE WInv'
  OBVIOUS
<1> USE DEF WInv, NaiveDatesStop
<1>1. CASE Preflight
  BY <1>1 DEF Preflight, ModificationsAsked, ModificationsNamed, Described, Reading,
              IInv, NoShortcut, Ending, targetVars
<1>2. CASE Open
  BY <1>2 DEF Open, stageVars, ModificationsAsked, ModificationsNamed, Described, Reading,
              IInv, NoShortcut, Ending
<1>3. CASE ApplyPolicy
  BY <1>3 DEF ApplyPolicy, targetVars, stageVars, ModificationsAsked, ModificationsNamed,
              Described, Reading
<1>4. CASE AttestTarget
  BY <1>4 DEF AttestTarget, targetVars, ModificationsAsked, ModificationsNamed, Described,
              Reading, IInv, TypeOK
<1>5. ASSUME NEW o \in Objects, ProbeObject(o) PROVE WInv'
  BY <1>5 DEF ProbeObject, targetVars, stageVars, ModificationsAsked, ModificationsNamed,
              Described, Reading
<1>6. ASSUME NEW o \in Objects, ProbeExistence(o) PROVE WInv'
  BY <1>6 DEF ProbeExistence, NextObject, Caught, CatalogFaults, Fault, Of, targetVars, stageVars,
              ModificationsAsked, ModificationsNamed, Described, Reading, IInv, StandingIsNow
<1>7. CASE ProbeScope
  BY <1>7 DEF ProbeScope, targetVars, stageVars, ModificationsAsked, ModificationsNamed,
              Described, Reading
<1>8. CASE ProbeRoles
  BY <1>8 DEF ProbeRoles, PermissionIssues, targetVars, ModificationsAsked, ModificationsNamed,
              Described, Reading, Of, IInv, TypeOK
<1>9. CASE ProbeColumns
  <2>1. /\ pc = "columns" /\ current \in Objects /\ "describe" \notin evidence
        /\ evidence' = evidence /\ standing' = standing /\ pc' # "describe"
    BY <1>9 DEF ProbeColumns, Opaque, NextObject, Unexpected, IInv, CatalogAsked, NoShortcut, Ending,
                targetVars
  <2>2. found \subseteq found'
    BY <1>9 DEF ProbeColumns, Opaque
  <2>3. CASE pc' = "rollback"
    BY <2>1, <2>3 DEF ModificationsAsked, ModificationsNamed, Described, Reading
  <2>4. CASE NextObject(current)
    <3>1. pending' = pending \ {current} /\ pc' # "columns"
      BY <2>4 DEF NextObject
    <3>2. ModificationsAsked'
      <4>1. ASSUME NEW f \in standing \cap Of({"modified"})
            PROVE  f.object \in pending' \/ f \in found' \/ Caught(f.object)'
        <5>1. CASE f.object # current
          BY <2>1, <2>2, <3>1, <5>1 DEF ModificationsAsked, Reading, Caught
        <5>2. CASE f.object = current
          <6>1. f = Fault("modified", current)
            BY <5>2 DEF Fault, Of
          <6> QED
            BY <2>1, <2>2, <6>1 DEF ModificationsAsked
        <5> QED
          BY <5>1, <5>2
      <4> QED
        BY <2>1, <3>1, <4>1 DEF ModificationsAsked
    <3>3. ModificationsNamed'
      BY <2>1 DEF ModificationsNamed, Described
    <3>4. NaiveDatesStop'
      <4>1. SUFFICES ASSUME ~datesAware, NEW o \in Objects
                     PROVE  o \in pending' \/ Caught(o)'
        <5>1. datesAware' = datesAware
          BY <1>9, <2>4 DEF ProbeColumns, NextObject, Unexpected, targetVars
        <5> QED
          BY <2>1, <3>1, <5>1 DEF Described
      <4>2. CASE o # current
        BY <2>1, <2>2, <3>1, <4>1, <4>2 DEF Reading, Caught
      <4>3. CASE o = current
        <5>1. Fault("opaque", current) \in found'
          BY <1>9, <2>4, <4>1 DEF ProbeColumns, Opaque, Unexpected, NextObject
        <5>2. /\ Fault("opaque", current) \in CatalogFaults
              /\ Fault("opaque", current).object = current
          BY <2>1 DEF Fault, Of, CatalogFaults
        <5> QED
          BY <4>3, <5>1, <5>2 DEF Caught
      <4> QED
        BY <4>2, <4>3
    <3> QED
      BY <3>2, <3>3, <3>4
  <2> QED
    BY <1>9, <2>3, <2>4 DEF ProbeColumns, Opaque, Unexpected
<1>10. CASE Compare
  <2>1. /\ pc = "compare" /\ pending = {} /\ "describe" \notin evidence
        /\ "describe" \notin evidence' /\ standing' = standing
    BY <1>10 DEF Compare, IInv, CatalogAsked, NoShortcut, Ending, targetVars
  <2>2. CASE issues' = {}
    <3>1. found \cap CatalogFaults = {}
      BY <1>10, <2>2 DEF Compare, CatalogFaults, Of
    <3>2. warnings' = {o \in Objects : Fault("modified", o) \in found}
      BY <1>10, <2>2 DEF Compare
    <3>3. ASSUME NEW o \in Objects, Fault("modified", o) \in standing
          PROVE  Fault("modified", o) \in found
      <4>1. Fault("modified", o) \in Of({"modified"}) /\ Fault("modified", o).object = o
        BY DEF Fault, Of
      <4> QED
        BY <2>1, <3>1, <3>3, <4>1 DEF ModificationsAsked, Reading, Caught
    <3>4. ModificationsNamed'
      BY <2>1, <3>2, <3>3 DEF ModificationsNamed
    <3>5. ~datesAware => Objects = {}
      BY <2>1, <3>1 DEF Reading, Caught
    <3>6. pc' = "describe" /\ datesAware' = datesAware
      BY <1>10, <2>2 DEF Compare, targetVars
    <3> QED
      BY <3>4, <3>5, <3>6 DEF ModificationsAsked, Reading
  <2>3. CASE issues' # {}
    <3>1. pc' = "rollback"
      BY <1>10, <2>3 DEF Compare
    <3> QED
      BY <2>1, <3>1 DEF ModificationsAsked, ModificationsNamed, Described, Reading
  <2> QED
    BY <2>2, <2>3
<1>11. ASSUME NEW problems \in DescribeProblems, Describe(problems) PROVE WInv'
  BY <1>11 DEF Describe, DescribeProblems, targetVars, ModificationsAsked, ModificationsNamed,
               Described, Reading, IInv, TypeOK
<1>12. ASSUME NEW kind \in {"timeout", "unavailable", "unexpected"}, QueryLost(kind) PROVE WInv'
  BY <1>12 DEF QueryLost, AfterFailure, Querying, targetVars, ModificationsAsked,
               ModificationsNamed, Described, Reading, IInv, TypeOK
<1>13. CASE QueryRefused
  BY <1>13 DEF QueryRefused, Querying, RefusalIssue, targetVars, ModificationsAsked,
               ModificationsNamed, Described, Reading, IInv, TypeOK
<1>14. CASE Rollback \/ Close \/ Report
  BY <1>14 DEF Rollback, Close, Report, targetVars, stageVars, ModificationsAsked,
               ModificationsNamed, Described, Reading, IInv, TypeOK, NoShortcut
<1>15. CASE Kill
  BY <1>15 DEF Kill, targetVars, stageVars, ModificationsAsked, ModificationsNamed, Described,
               Reading
<1>16. ASSUME NEW f \in Faults, Change(f) PROVE WInv'
  BY <1>16 DEF Change, stageVars, ModificationsAsked, ModificationsNamed, Described, Caught
<1>17. CASE UNCHANGED vars
  BY <1>17 DEF vars, targetVars, stageVars, ModificationsAsked, ModificationsNamed, Described,
               Caught
<1> QED
  BY <1>1, <1>2, <1>3, <1>4, <1>5, <1>6, <1>7, <1>8, <1>9, <1>10, <1>11, <1>12, <1>13,
     <1>14, <1>15, <1>16, <1>17 DEF Next, Step

(* Whichever dates the driver returns, no candidate is described on a      *)
(* target with an object modified all along and not named in a warning,    *)
(* and with dates that cannot be compared none is described at all.        *)
THEOREM ModificationsShow == Spec => []ModificationShows
<1>1. IInv /\ WInv => ModificationShows
  <2> SUFFICES ASSUME IInv, WInv, "describe" \in evidence \/ status = "passed"
               PROVE  /\ \A o \in Objects : Fault("modified", o) \in standing => o \in warnings
                      /\ datesAware \/ Objects = {}
    BY DEF ModificationShows
  <2>1. Described
    BY DEF IInv, NoShortcut, Described
  <2> QED
    BY <2>1 DEF WInv, ModificationsNamed, NaiveDatesStop
<1> QED
  BY <1>1, InductiveInvariant, InitEstablishesWInv, NextPreservesWInv, PTL DEF Spec
=============================================================================
