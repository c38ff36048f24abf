----------------------------- MODULE MC_Polling -----------------------------
(***************************************************************************)
(* An instance of Polling for TLC.  The defaults keep the order of those   *)
(* in the code (interval < poll timeout < context timeout).                *)
(***************************************************************************)
EXTENDS Polling

CallsOf(cases, ops, contextTimeouts) ==
    [case : cases, op : ops, contextTimeout : contextTimeouts,
     pollInterval : {{}, {0}, {1}, {3}, {9}}, pollTimeout : {{}, {0}, {4}, {12}}]

\* one case of each kind of context; a timeout configured too low, and one too high
AllCalls == CallsOf({"createProject", "createWorkspace", "createService"}, {"Run", "Cleanup"},
                    {{}, {0}, {3}, {9}})
=============================================================================
