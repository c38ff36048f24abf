------------------------------ MODULE Startup ------------------------------
(***************************************************************************)
(* The two commands of the binary.  The init job asks for access to the    *)
(* onboarding cluster and applies the CRDs; the run process asks for an    *)
(* access of its own, finds out its identity and starts the manager with   *)
(* both reconcilers.  Nothing orders the two but what is in the clusters.  *)
(* Any error is a panic; the pod is started anew and begins at the top.    *)
(*                                                                         *)
(* flags    what the pods were started with                                *)
(* access   per access request, whether it is there and granted            *)
(* crds     the sets of CRDs that have been applied                        *)
(* init     the number of steps the init job has done                      *)
(* process  the number of steps the run process has done                   *)
(* faults   failed calls and restarts so far                               *)
(***************************************************************************)
EXTENDS Naturals, Sequences

CONSTANTS Flags,    \* \subseteq {"complete", "dryRun", "incomplete"}
          MaxFaults \* bound on failed calls and restarts

ASSUME StartupAssumption ==
    Flags \subseteq {"complete", "dryRun", "incomplete"} /\ MaxFaults \in Nat

VARIABLES flags, access, crds, init, process, faults

startup == <<flags, access, crds, init, process, faults>>

\* variant of InitSteps: the local CRDs come first
InitStepsLocalFirst == <<"access", "local", "openmcp", "projectWorkspace">>
\* the steps of the init job: the access, then the CRD sets one after the other
InitSteps == <<"access", "openmcp", "projectWorkspace", "local">>
\* the steps of the run process
RunSteps  == <<"access", "identity", "manager", "caches">>

CRDSets == {"openmcp", "projectWorkspace", "local"}
InitDone == init = Len(InitSteps)
Up       == process = Len(RunSteps)

StartupInit ==
    /\ flags \in Flags
    /\ access = [who \in {"onboarding-init", "onboarding-run"} |-> "none"]
    /\ crds = {}
    /\ init = 0
    /\ process = 0
    /\ faults = 0

Fault == faults < MaxFaults /\ faults' = faults + 1

\* Complete returned no error and the command is to do more than that
MayRun == flags = "complete"

InitAt(step)    == MayRun /\ ~InitDone /\ InitSteps[init + 1] = step
ProcessAt(step) == MayRun /\ ~Up /\ RunSteps[process + 1] = step

\* CreateAndWaitForCluster: the request is created, or found from an earlier start
Request(who) ==
    /\ access[who] = "none"
    /\ \/ who = "onboarding-init" /\ InitAt("access")
       \/ who = "onboarding-run" /\ ProcessAt("access")
    /\ access' = [access EXCEPT ![who] = "requested"]
    /\ UNCHANGED <<flags, crds, init, process, faults>>

\* the operators of the platform cluster
Grant(who) ==
    /\ access[who] = "requested"
    /\ access' = [access EXCEPT ![who] = "granted"]
    /\ UNCHANGED <<flags, crds, init, process, faults>>

InitGetsAccess ==
    /\ InitAt("access") /\ access["onboarding-init"] = "granted"
    /\ init' = init + 1
    /\ UNCHANGED <<flags, access, crds, process, faults>>

\* variant of InitAppliesCRDs: what exists is an error
InitCreatesCRDs(set) ==
    /\ InitAt(set) /\ set \notin crds
    /\ crds' = crds \cup {set}
    /\ init' = init + 1
    /\ UNCHANGED <<flags, access, process, faults>>

\* CreateOrUpdateCRDs: what an earlier start applied is applied again
InitAppliesCRDs(set) ==
    /\ InitAt(set)
    /\ crds' = crds \cup {set}
    /\ init' = init + 1
    /\ UNCHANGED <<flags, access, process, faults>>

\* a failed call, the access's timeout, a restart; CRDs already applied stay
InitFails ==
    /\ MayRun /\ ~InitDone
    /\ Fault
    /\ init' = 0
    /\ UNCHANGED <<flags, access, crds, process>>

ProcessGetsAccess ==
    /\ ProcessAt("access") /\ access["onboarding-run"] = "granted"
    /\ process' = process + 1
    /\ UNCHANGED <<flags, access, crds, init, faults>>

\* the SelfSubjectReview, then the manager with both reconcilers and the registry
ProcessSetsUp ==
    /\ ProcessAt("identity") \/ ProcessAt("manager")
    /\ process' = process + 1
    /\ UNCHANGED <<flags, access, crds, init, faults>>

\* the manager's caches find the kinds of E2ETestRun and E2ETestSpecification
CachesSync ==
    /\ ProcessAt("caches") /\ "local" \in crds
    /\ process' = process + 1
    /\ UNCHANGED <<flags, access, crds, init, faults>>

\* the kinds do not exist: the caches time out, Start returns an error
CachesTimeOut ==
    /\ ProcessAt("caches") /\ "local" \notin crds
    /\ process' = 0
    /\ UNCHANGED <<flags, access, crds, init, faults>>

\* a failed call on the way up, or a crash at any time
ProcessDies ==
    /\ MayRun /\ process > 0
    /\ Fault
    /\ process' = 0
    /\ UNCHANGED <<flags, access, crds, init>>

\* what the two pods do on their own
InitStep    == InitGetsAccess \/ \E set \in CRDSets : InitAppliesCRDs(set)
ProcessStep == ProcessGetsAccess \/ ProcessSetsUp
AccessStep  == \E who \in DOMAIN access : Request(who) \/ Grant(who)
=============================================================================
