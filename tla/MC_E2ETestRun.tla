--------------------------- MODULE MC_E2ETestRun ---------------------------
(***************************************************************************)
(* Instances of E2ETestRunController and of its refinement for TLC.        *)
(***************************************************************************)
EXTENDS E2ETestRunImplements

Case(name)          == [name |-> name, config |-> "valid", kind |-> NoKind]
Service(kind)       == [name |-> "createService", config |-> "valid", kind |-> kind]
Unreadable(name)    == [name |-> name, config |-> "malformed", kind |-> NoKind]

ProjectWorkspace    == <<Case("createProject"), Case("createWorkspace")>>
ThreeCases          == ProjectWorkspace \o <<Case("createControlPlane")>>
FourCases           == ThreeCases \o <<Service("Crossplane")>>
UnreadableThenUnknown == <<Case("createProject"), Unreadable("createWorkspace"), Case("createNothing")>>
UnknownAtTheEnd     == ProjectWorkspace \o <<Case("createNothing")>>
=============================================================================
