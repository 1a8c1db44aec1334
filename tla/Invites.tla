------------------------------ MODULE Invites ------------------------------
(***************************************************************************)
(* One invite into a workspace: pkg/sys/invite.  Commands check the state  *)
(* of cdoc.sys.Invite and leave an event; the projector ApplyInviteEvents  *)
(* takes the events in the order of the PLog, checks the state again and   *)
(* applies them by calls to other workspaces.  A call may fail with or     *)
(* without effect and the process may die at any of them: the projector    *)
(* then begins with the event again.  Commands arrive meanwhile.           *)
(*                                                                         *)
(* States of data older than this code, expiry and verification codes of   *)
(* invitations and the emails are not modelled.                            *)
(***************************************************************************)
EXTENDS Naturals, Sequences

CONSTANTS
    Roles,          \* comma-separated roles an invite may carry
    MaxCommands,    \* bound: accepted commands
    MaxFaults       \* bound: failed calls and crashes

ASSUME InvitesConstants == MaxCommands \in Nat /\ MaxFaults \in Nat

VARIABLES
    invite,     \* cdoc.sys.Invite; login: ActualLogin is filled
    subject,    \* cdoc.sys.Subject in the inviting workspace
    joined,     \* cdoc.sys.JoinedWorkspace in the profile of the invitee
    events,     \* the accepted commands, as the PLog has them
    position,   \* events the projector is done with
    applying,   \* the event being applied: calls left, and the invite as read
    faults

docs        == <<invite, subject, joined>>
invitesVars == <<docs, events, position, applying, faults>>

NoDoc        == [at |-> "none", roles |-> ""]
NotApplying  == [calls |-> <<>>, read |-> [state |-> "none", roles |-> "", login |-> FALSE]]

InvitesInit ==
    /\ invite = [state |-> "none", roles |-> "", login |-> FALSE]
    /\ subject = NoDoc /\ joined = NoDoc
    /\ events = <<>> /\ position = 0 /\ applying = NotApplying
    /\ faults = 0

-----------------------------------------------------------------------------
(***************************************************************************)
(* The commands: the state must allow it, nothing but the re-invite        *)
(* changes the state.                                                      *)
(***************************************************************************)
inviteValidStates == [
    InitiateInvitationByEMail    |-> {"none", "Cancelled", "Left", "Invited", "ToBeInvited"},
    InitiateJoinWorkspace        |-> {"Invited"},
    InitiateUpdateInviteRoles    |-> {"Joined"},
    InitiateCancelAcceptedInvite |-> {"Joined"},
    InitiateLeaveWorkspace       |-> {"Joined"},
    CancelSentInvite             |-> {"Invited", "ToBeInvited"}]

Accept(cmd, roles) ==
    /\ invite.state \in inviteValidStates[cmd]
    /\ Len(events) < MaxCommands
    /\ events' = Append(events, [cmd |-> cmd, roles |-> roles])
    /\ UNCHANGED <<subject, joined, position, applying, faults>>

InitiateInvitationByEMail ==
    \E r \in Roles :
        /\ Accept("InitiateInvitationByEMail", r)
        /\ invite' = [state |-> "ToBeInvited", roles |-> r, login |-> FALSE]

InitiateJoinWorkspace ==
    /\ Accept("InitiateJoinWorkspace", "")
    /\ invite' = [invite EXCEPT !.login = TRUE]

InitiateUpdateInviteRoles ==
    \E r \in Roles : Accept("InitiateUpdateInviteRoles", r) /\ UNCHANGED invite

InitiateCancelAcceptedInvite ==
    Accept("InitiateCancelAcceptedInvite", "") /\ UNCHANGED invite

InitiateLeaveWorkspace == Accept("InitiateLeaveWorkspace", "") /\ UNCHANGED invite

CancelSentInvite == Accept("CancelSentInvite", "") /\ UNCHANGED invite

-----------------------------------------------------------------------------
(***************************************************************************)
(* The projector.                                                          *)
(***************************************************************************)
projectorValidStates == [
    InitiateInvitationByEMail    |-> {"ToBeInvited"},
    InitiateJoinWorkspace        |-> {"Invited"},
    InitiateUpdateInviteRoles    |-> {"Joined"},
    InitiateCancelAcceptedInvite |-> {"Joined"},
    InitiateLeaveWorkspace       |-> {"Joined"},
    CancelSentInvite             |-> {"Invited", "ToBeInvited"}]

event == events[position + 1]

\* The Subject is looked up by the login the invite carries.
JoinCalls ==
    <<"CreateJoinedWorkspace">> \o
    (IF ~invite.login \/ subject.at = "none" THEN <<"InsertSubject">>
     ELSE IF subject.at = "inactive"         THEN <<"ActivateSubject", "UpdateSubject">>
     ELSE <<"UpdateSubject">>)

HandlerCalls(cmd) ==
    CASE cmd = "InitiateJoinWorkspace"     -> JoinCalls
      [] cmd = "InitiateUpdateInviteRoles" -> <<"UpdateSubject", "UpdateJoinedWorkspaceRoles">>
      [] cmd \in {"InitiateCancelAcceptedInvite", "InitiateLeaveWorkspace"}
                                  -> <<"DeactivateSubject", "DeactivateJoinedWorkspace">>
      [] OTHER                    -> <<>>

\* Mutated form of Stale: the state is not looked at again.
StaleNever(cmd) == FALSE

Stale(cmd) == invite.state \notin projectorValidStates[cmd]

ApplyInviteEvent ==
    /\ applying.calls = <<>> /\ position < Len(events)
    /\ applying' = [calls |-> IF Stale(event.cmd) THEN <<"SavePosition">>
                              ELSE HandlerCalls(event.cmd) \o <<"UpdateInvite", "SavePosition">>,
                    read |-> invite]
    /\ UNCHANGED <<docs, events, position, faults>>

\* A call is answered, or fails after it took effect.
Calling(c) ==
    /\ applying.calls # <<>> /\ Head(applying.calls) = c
    /\ \/ applying' = [applying EXCEPT !.calls = Tail(@)] /\ UNCHANGED faults
       \/ applying' = NotApplying /\ faults < MaxFaults /\ faults' = faults + 1
    /\ UNCHANGED events

\* A call fails without effect, or the process dies.
CallFails ==
    /\ applying.calls # <<>> /\ faults < MaxFaults
    /\ applying' = NotApplying /\ faults' = faults + 1
    /\ UNCHANGED <<docs, events, position>>

RolesToPut == IF event.cmd = "InitiateJoinWorkspace" THEN applying.read.roles ELSE event.roles

CreateJoinedWorkspace ==
    /\ Calling("CreateJoinedWorkspace") \/ Calling("UpdateJoinedWorkspaceRoles")
    /\ joined' = [at |-> "active", roles |-> RolesToPut]
    /\ UNCHANGED <<invite, subject, position>>

\* Login is a required field.
InsertSubject ==
    /\ applying.read.login /\ Calling("InsertSubject")
    /\ subject' = [at |-> "active", roles |-> RolesToPut]
    /\ UNCHANGED <<invite, joined, position>>

InsertSubjectFails ==
    /\ ~applying.read.login /\ applying.calls # <<>> /\ Head(applying.calls) = "InsertSubject"
    /\ applying' = NotApplying
    /\ UNCHANGED <<docs, events, position, faults>>

\* sys.IsActive may not be written together with other fields.
ActivateSubject ==
    /\ Calling("ActivateSubject")
    /\ subject' = [subject EXCEPT !.at = "active"]
    /\ UNCHANGED <<invite, joined, position>>

UpdateSubject ==
    /\ Calling("UpdateSubject")
    /\ subject' = [subject EXCEPT !.roles = RolesToPut]
    /\ UNCHANGED <<invite, joined, position>>

DeactivateSubject ==
    /\ Calling("DeactivateSubject")
    /\ subject' = [subject EXCEPT !.at = "inactive"]
    /\ UNCHANGED <<invite, joined, position>>

DeactivateJoinedWorkspace ==
    /\ Calling("DeactivateJoinedWorkspace")
    /\ joined' = [joined EXCEPT !.at = "inactive"]
    /\ UNCHANGED <<invite, subject, position>>

InviteFinalState == [
    InitiateInvitationByEMail    |-> "Invited",
    InitiateJoinWorkspace        |-> "Joined",
    InitiateUpdateInviteRoles    |-> "Joined",
    InitiateCancelAcceptedInvite |-> "Cancelled",
    InitiateLeaveWorkspace       |-> "Left",
    CancelSentInvite             |-> "Cancelled"]

\* updateInviteViaCUD writes the fields it is given, whatever the invite is now.
UpdateInvite ==
    /\ Calling("UpdateInvite")
    /\ invite' = [invite EXCEPT !.state = InviteFinalState[event.cmd],
                     !.roles = IF event.cmd = "InitiateUpdateInviteRoles" THEN event.roles ELSE @]
    /\ UNCHANGED <<subject, joined, position>>

SavePosition ==
    /\ Calling("SavePosition")
    /\ position' = position + 1
    /\ UNCHANGED docs

Commands ==
    \/ InitiateInvitationByEMail \/ InitiateJoinWorkspace \/ InitiateUpdateInviteRoles
    \/ InitiateCancelAcceptedInvite \/ InitiateLeaveWorkspace \/ CancelSentInvite

Projector ==
    \/ ApplyInviteEvent \/ CallFails \/ CreateJoinedWorkspace \/ InsertSubject
    \/ InsertSubjectFails \/ ActivateSubject \/ UpdateSubject \/ DeactivateSubject
    \/ DeactivateJoinedWorkspace \/ UpdateInvite \/ SavePosition

InvitesNext == Commands \/ Projector

InvitesSpec == InvitesInit /\ [][InvitesNext]_invitesVars

-----------------------------------------------------------------------------

\* The projector is about to change, or has begun to change, a membership.
MembershipChanges ==
    /\ position < Len(events)
    /\ event.cmd \in {"InitiateUpdateInviteRoles", "InitiateCancelAcceptedInvite",
                      "InitiateLeaveWorkspace"}

\* Who is Joined is a member on both sides, with one set of roles: whatever
\* calls failed, were repeated or came too late, and however re-invites and
\* cancellations met the join.  Who has Left is a member on neither side.
MembershipFollowsState ==
    /\ invite.state = "Joined" /\ ~MembershipChanges =>
          /\ subject.at = "active" /\ joined.at = "active"
          /\ subject.roles = joined.roles
    /\ invite.state = "Left" => subject.at # "active" /\ joined.at # "active"

\* "If a cancel event arrives while a join is in progress, the join's side
\* effects (Subject, JoinedWorkspace) persist briefly.  The cancel event's
\* handler eventually deactivates them."
CancelConverges ==
    /\ position = Len(events) /\ events # <<>>
    /\ events[Len(events)].cmd \in {"CancelSentInvite", "InitiateCancelAcceptedInvite"}
    => subject.at # "active" /\ joined.at # "active"
=============================================================================
