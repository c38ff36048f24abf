--------------------------- MODULE TestCaseKinds ---------------------------
(***************************************************************************)
(* The four registered test cases.  An item of run.Spec.TestCases is       *)
(*   name    the registry key                                              *)
(*   config  "valid"; "invalid": a JSON object which the case's Run rejects*)
(*           before it creates anything (createService only); "malformed": *)
(*           not a JSON object, so readConfig fails (a JSON null never     *)
(*           gets there: the CRD does not call it nullable and the API     *)
(*           server drops it)                                              *)
(*   kind    the kind in the manifest of a createService item, or NoKind   *)
(* Every case creates one object on the onboarding cluster, whose name and *)
(* namespace derive from the run's name and the exports of the case it     *)
(* depends on; within one run the status name therefore identifies it.     *)
(***************************************************************************)
EXTENDS TestRunStatus

NoKind == ""

\* the registrations of the run command
Registry == {"createProject", "createWorkspace", "createControlPlane", "createService"}

Registered(tc) == tc.name \in Registry

\* StatusName of each case: createService appends the manifest's kind
StatusName(tc) ==
    IF tc.name = "createService" /\ tc.kind # NoKind
    THEN <<tc.name, tc.kind>>
    ELSE <<tc.name>>

\* The condition under which the Run of each case reaches its Create call
CreateProjectReady(stati)      == TRUE
CreateWorkspaceReady(stati)    == HasExports(<<"createProject">>, stati)
CreateControlPlaneReady(stati) == HasExports(<<"createWorkspace">>, stati)
CreateServiceReady(tc, stati)  == /\ HasExports(<<"createControlPlane">>, stati)
                                  /\ tc.config # "invalid"

\* readConfig returns a config
Readable(tc) == tc.config \in {"valid", "invalid"}

RunReachesCreate(tc, stati) ==
    \/ tc.name = "createProject"      /\ CreateProjectReady(stati)
    \/ tc.name = "createWorkspace"    /\ CreateWorkspaceReady(stati)
    \/ tc.name = "createControlPlane" /\ CreateControlPlaneReady(stati)
    \/ tc.name = "createService"      /\ CreateServiceReady(tc, stati)
=============================================================================
