----------------------------- MODULE Workspaces -----------------------------
(***************************************************************************)
(* How a workspace comes and goes: pkg/sys/workspace.  The document of an  *)
(* owner (here a registry.Login, which may be registered again once it is  *)
(* inactive) is followed by a WorkspaceID document in the application      *)
(* workspace, a descriptor in the new workspace and the news to the owner; *)
(* a deactivation goes the way back.  Each stage is an async projector     *)
(* that calls commands of other workspaces.                                *)
(*                                                                         *)
(* One workspace name.  Each projector takes its events in order and       *)
(* remembers its place now and then: after an error or a crash it takes    *)
(* the events since then again.  A call may take effect and be answered    *)
(* with an error.  The subjects of a workspace (OnJoinedWorkspace-         *)
(* Deactivated) are left out: module Invites has them.                     *)
(***************************************************************************)
EXTENDS Naturals, Sequences

CONSTANTS
    MaxOwners,      \* bound: owner documents
    MaxWSIDs,       \* bound: numbers GetNextWSID gives
    MaxErrors       \* bound: calls answered with an error and crashes

ASSUME WorkspacesConstants ==
    {MaxOwners, MaxWSIDs, MaxErrors} \subseteq Nat

Owners == 1 .. MaxOwners
WSIDs  == 1 .. MaxWSIDs
Projectors == {"InvokeCreateWorkspaceID", "InvokeCreateWorkspace",
               "InitializeWorkspace", "ApplyDeactivateWorkspace"}

VARIABLES
    owner,          \* [Owners -> [made, active, wsid, error]]
    nextWSID,
    workspaceID,    \* [WSIDs -> [owner, active]], owner 0: no document
    workspaceIDIdx, \* the WSID the name leads to, or 0
    descriptor,     \* [WSIDs -> [status, createError, completed, initError]]
    proj,           \* [Projectors -> [log, done, saved, at]]
    errors

docVars == <<owner, nextWSID, workspaceID, workspaceIDIdx, descriptor>>
workspacesVars == <<docVars, proj, errors>>

NoDescriptor == [status |-> "none", createError |-> FALSE,
                 completed |-> FALSE, initError |-> FALSE]

WorkspacesInit ==
    /\ owner = [o \in Owners |-> [made |-> FALSE, active |-> FALSE, wsid |-> 0, error |-> FALSE]]
    /\ nextWSID = 1
    /\ workspaceID = [w \in WSIDs |-> [owner |-> 0, active |-> FALSE]]
    /\ workspaceIDIdx = 0
    /\ descriptor = [w \in WSIDs |-> NoDescriptor]
    /\ proj = [p \in Projectors |-> [log |-> <<>>, done |-> 0, saved |-> 0, at |-> "start"]]
    /\ errors = 0

-----------------------------------------------------------------------------
(***************************************************************************)
(* Projectors.  A projector may remember its place between two events.     *)
(***************************************************************************)
Handles(p, step) == proj[p].at = step /\ proj[p].done < Len(proj[p].log)
Event(p) == proj[p].log[proj[p].done + 1]

ToStep(p, step) == [proj EXCEPT ![p].at = step]
EventDone(p)    == [proj EXCEPT ![p].at = "start", ![p].done = @ + 1]
FromSaved(p)    == [proj EXCEPT ![p].at = "start", ![p].done = proj[p].saved]
Triggers(pr, p, e) == [pr EXCEPT ![p].log = Append(@, e)]

Answers == UNCHANGED errors
Fails   == errors < MaxErrors /\ errors' = errors + 1

SavePlace(p) ==
    /\ proj[p].at = "start" /\ proj[p].saved < proj[p].done
    /\ proj' = [proj EXCEPT ![p].saved = proj[p].done]
    /\ UNCHANGED <<docVars, errors>>

RestartProjector(p) ==
    /\ Fails /\ FromSaved(p) # proj
    /\ proj' = FromSaved(p)
    /\ UNCHANGED docVars

-----------------------------------------------------------------------------
(***************************************************************************)
(* createLogin: a name can be registered when no active login has it.      *)
(***************************************************************************)
CreateOwner ==
    /\ \A o \in Owners : ~owner[o].active
    /\ \E o \in Owners :
          /\ ~owner[o].made /\ \A q \in 1 .. o - 1 : owner[q].made
          /\ owner' = [owner EXCEPT ![o].made = TRUE, ![o].active = TRUE]
          /\ proj' = Triggers(proj, "InvokeCreateWorkspaceID", o)
    /\ UNCHANGED <<nextWSID, workspaceID, workspaceIDIdx, descriptor, errors>>

UpdateOwner(o, w, err) ==
    owner' = [owner EXCEPT ![o].wsid = w, ![o].error = err]

(***************************************************************************)
(* c.sys.CreateWorkspaceID.  It answers 409 while the name leads to an     *)
(* active WorkspaceID; the index is written with the document.             *)
(***************************************************************************)
NameIsTaken == workspaceIDIdx # 0 /\ workspaceID[workspaceIDIdx].active

CreateWorkspaceID(o, pr) ==
    /\ IF NameIsTaken
       THEN proj' = pr /\ UNCHANGED <<nextWSID, workspaceID, workspaceIDIdx>>
       ELSE /\ nextWSID \in WSIDs
            /\ nextWSID' = nextWSID + 1
            /\ workspaceID' = [workspaceID EXCEPT ![nextWSID] = [owner |-> o, active |-> TRUE]]
            /\ workspaceIDIdx' = nextWSID
            /\ proj' = Triggers(pr, "InvokeCreateWorkspace", nextWSID)
    /\ UNCHANGED <<owner, descriptor>>

\* ApplyInvokeCreateWorkspaceID takes 409 for success.
InvokeCreateWorkspaceID ==
    LET p == "InvokeCreateWorkspaceID"
    IN  /\ Handles(p, "start")
        /\ \/ Answers /\ CreateWorkspaceID(Event(p), EventDone(p))
           \/ Fails /\ CreateWorkspaceID(Event(p), ToStep(p, "owner"))
           \/ Fails /\ proj' = ToStep(p, "owner") /\ UNCHANGED docVars

(***************************************************************************)
(* c.sys.CreateWorkspace.  The descriptor is a singleton.  A command that  *)
(* finds its arguments wrong creates a descriptor with a createError.      *)
(***************************************************************************)
CreateWorkspace(w, pr) ==
    /\ IF descriptor[w].status # "none"
       THEN proj' = pr /\ UNCHANGED descriptor
       ELSE /\ \E e \in BOOLEAN :
                  descriptor' = [descriptor EXCEPT ![w] =
                      [NoDescriptor EXCEPT !.status = "Active", !.createError = e]]
            /\ proj' = Triggers(pr, "InitializeWorkspace", w)
    /\ UNCHANGED <<owner, nextWSID, workspaceID, workspaceIDIdx>>

InvokeCreateWorkspace ==
    LET p == "InvokeCreateWorkspace"
    IN  /\ Handles(p, "start")
        /\ \/ Answers /\ CreateWorkspace(Event(p), EventDone(p))
           \/ Fails /\ CreateWorkspace(Event(p), ToStep(p, "owner"))
           \/ Fails /\ proj' = ToStep(p, "owner") /\ UNCHANGED docVars

\* The owner is told that there will be no workspace; an error here is the
\* projector's.
TellOfFailedCall(p) ==
    LET o == IF p = "InvokeCreateWorkspaceID" THEN Event(p) ELSE workspaceID[Event(p)].owner
    IN  /\ p \in {"InvokeCreateWorkspaceID", "InvokeCreateWorkspace"}
        /\ Handles(p, "owner")
        /\ \/ Answers /\ UpdateOwner(o, 0, TRUE) /\ proj' = EventDone(p)
           \/ Fails /\ UpdateOwner(o, 0, TRUE) /\ proj' = FromSaved(p)
           \/ Fails /\ proj' = FromSaved(p) /\ UNCHANGED owner
        /\ UNCHANGED <<nextWSID, workspaceID, workspaceIDIdx, descriptor>>

-----------------------------------------------------------------------------
(***************************************************************************)
(* InitializeWorkspace.  It goes by the descriptor in the event, which was *)
(* never started: a replay builds the workspace again.  An error of one of *)
(* its calls is logged and the event is done.                              *)
(***************************************************************************)
StartInit ==
    LET p == "InitializeWorkspace"
    IN  /\ Handles(p, "start")
        /\ \/ Answers /\ descriptor[Event(p)].createError /\ proj' = ToStep(p, "error")
           \/ Answers /\ ~descriptor[Event(p)].createError /\ proj' = ToStep(p, "build")
           \/ Fails /\ ~descriptor[Event(p)].createError /\ proj' = EventDone(p)
        /\ UNCHANGED docVars

Completed(w, err) ==
    descriptor' = [descriptor EXCEPT ![w].completed = TRUE, ![w].initError = err]

\* buildWorkspace, which may fail, and the update of the descriptor.
CompleteInitReportsAnyway ==    \* Mutant: the owner is told although the update failed.
    LET p == "InitializeWorkspace"
    IN  /\ Handles(p, "build")
        /\ \E err \in BOOLEAN :
              LET tell == ToStep(p, IF err THEN "error" ELSE "ok")
              IN  \/ Answers /\ Completed(Event(p), err) /\ proj' = tell
                  \/ Fails /\ Completed(Event(p), err) /\ proj' = tell
                  \/ Fails /\ proj' = tell /\ UNCHANGED descriptor
        /\ UNCHANGED <<owner, nextWSID, workspaceID, workspaceIDIdx>>

CompleteInit ==
    LET p == "InitializeWorkspace"
    IN  /\ Handles(p, "build")
        /\ \E err \in BOOLEAN :
              \/ Answers /\ Completed(Event(p), err)
                 /\ proj' = ToStep(p, IF err THEN "error" ELSE "ok")
              \/ Fails /\ Completed(Event(p), err) /\ proj' = EventDone(p)
              \/ Fails /\ proj' = EventDone(p) /\ UNCHANGED descriptor
        /\ UNCHANGED <<owner, nextWSID, workspaceID, workspaceIDIdx>>

\* wsPostInitFunc, which may fail, and updateOwner, whose error is logged.
TellOwner ==
    LET p == "InitializeWorkspace"
    IN  /\ Handles(p, "ok") \/ Handles(p, "error")
        /\ \/ Answers /\ \E err \in {proj[p].at = "error", TRUE} :
                             UpdateOwner(workspaceID[Event(p)].owner, Event(p), err)
           \/ Fails /\ UNCHANGED owner
        /\ proj' = EventDone(p)
        /\ UNCHANGED <<nextWSID, workspaceID, workspaceIDIdx, descriptor>>

-----------------------------------------------------------------------------
(***************************************************************************)
(* c.sys.InitiateDeactivateWorkspace, of an initialized active workspace.  *)
(***************************************************************************)
InitiateDeactivateWorkspace ==
    /\ \E w \in WSIDs :
          /\ descriptor[w].status = "Active" /\ descriptor[w].completed /\ ~descriptor[w].initError
          /\ descriptor' = [descriptor EXCEPT ![w].status = "ToBeDeactivated"]
          /\ proj' = Triggers(proj, "ApplyDeactivateWorkspace", w)
    /\ UNCHANGED <<owner, nextWSID, workspaceID, workspaceIDIdx, errors>>

\* One call of ApplyDeactivateWorkspace: its effect and what comes after.
Deactivates(step, next, Effect) ==
    LET p == "ApplyDeactivateWorkspace"
    IN  /\ Handles(p, step)
        /\ \/ Answers /\ Effect /\ proj' = next
           \/ Fails /\ Effect /\ proj' = FromSaved(p)
           \/ Fails /\ UNCHANGED <<owner, workspaceID, descriptor>> /\ proj' = FromSaved(p)
        /\ UNCHANGED <<nextWSID, workspaceIDIdx>>

Deactivated == Event("ApplyDeactivateWorkspace")

\* c.sys.OnWorkspaceDeactivated finds the document by the name.
OnWorkspaceDeactivated ==
    Deactivates("start", ToStep("ApplyDeactivateWorkspace", "owner"),
        /\ workspaceID' = IF NameIsTaken
                          THEN [workspaceID EXCEPT ![workspaceIDIdx].active = FALSE]
                          ELSE workspaceID
        /\ UNCHANGED <<owner, descriptor>>)

\* c.sys.OnChildWorkspaceDeactivated
OnOwnerDeactivatedNever ==      \* Mutant: the owner's document stays as it is.
    Deactivates("owner", ToStep("ApplyDeactivateWorkspace", "status"),
        UNCHANGED <<owner, workspaceID, descriptor>>)

OnChildWorkspaceDeactivated ==
    Deactivates("owner", ToStep("ApplyDeactivateWorkspace", "status"),
        /\ owner' = [owner EXCEPT ![workspaceID[Deactivated].owner].active = FALSE]
        /\ UNCHANGED <<workspaceID, descriptor>>)

StatusInactive ==
    Deactivates("status", EventDone("ApplyDeactivateWorkspace"),
        /\ descriptor' = [descriptor EXCEPT ![Deactivated].status = "Inactive"]
        /\ UNCHANGED <<owner, workspaceID>>)

WorkspacesNext ==
    \/ CreateOwner
    \/ InvokeCreateWorkspaceID \/ InvokeCreateWorkspace
    \/ \E p \in Projectors : TellOfFailedCall(p)
    \/ StartInit \/ CompleteInit \/ TellOwner
    \/ InitiateDeactivateWorkspace \/ OnWorkspaceDeactivated
    \/ OnChildWorkspaceDeactivated \/ StatusInactive
    \/ \E p \in Projectors : SavePlace(p) \/ RestartProjector(p)

WorkspacesSpec == WorkspacesInit /\ [][WorkspacesNext]_workspacesVars

-----------------------------------------------------------------------------
(***************************************************************************)
(* A workspace that is Inactive is cut off on the way to it: its           *)
(* WorkspaceID and the document of its owner are inactive, although any    *)
(* call of the way may have failed and been made again when the name had   *)
(* a new owner (sys/workspace/impl_deactivate.go: the status comes last).  *)
(***************************************************************************)
DeactivatedIsCutOff ==
    \A w \in WSIDs :
        descriptor[w].status = "Inactive" =>
            ~workspaceID[w].active /\ ~owner[workspaceID[w].owner].active

(***************************************************************************)
(* An owner that was given a workspace without an error was given its own, *)
(* and the initialization of that workspace is complete, after any errors  *)
(* and replays (sys/workspace/impl.go: updateOwner after the update of     *)
(* initCompletedAtMs).                                                     *)
(***************************************************************************)
OwnerGetsACompleteWorkspace ==
    \A o \in Owners :
        owner[o].wsid # 0 /\ ~owner[o].error =>
            workspaceID[owner[o].wsid].owner = o /\ descriptor[owner[o].wsid].completed
=============================================================================
