------------------------------ MODULE Bootstrap ------------------------------
(***************************************************************************)
(* The start of a VVM: btstrp.Bootstrap initializes the workspace of the   *)
(* cluster application, then c.cluster.DeployApp checks the application    *)
(* against its cluster.App record or initializes its workspaces.           *)
(*                                                                         *)
(* InitAppWS writes past the command processor: PutPlog, Apply, PutWlog,   *)
(* at offsets counted from the first.  The process may stop between any    *)
(* two of them.  Sequences trust level 0 (the default): PutPlog inserts.   *)
(*                                                                         *)
(* One application beside the cluster application.  The event of the       *)
(* DeployApp command itself is the command processor's: the record is      *)
(* there or not.                                                           *)
(***************************************************************************)
EXTENDS Naturals, FiniteSets

CONSTANTS
    NumPartitions,  \* values a deployment descriptor may have
    NumAppWorkspaces,
    NoLayout,       \* no cluster.App record
    MaxStops        \* times the process stops in the middle

ASSUME BootstrapConstants ==
    /\ NumPartitions \subseteq Nat \ {0} /\ NumAppWorkspaces \subseteq Nat \ {0}
    /\ MaxStops \in Nat

Layouts == [parts : NumPartitions, wss : NumAppWorkspaces]
ClusterLayout == [parts |-> 1, wss |-> 1]

VARIABLES
    plogRows,         \* PLogs: {[app, part, offset, ws]}
    descriptors,    \* {<<app, ws>>} with a cdoc.sys.WorkspaceDescriptor
    wlogs,          \* {<<app, ws>>} whose first event is in the WLog
    appRecord,      \* the cluster.App record
    boot,           \* [at, app, ws]: where Bootstrap is
    declared,       \* the descriptor the process was built with
    stops

bootVars == <<plogRows, descriptors, wlogs, appRecord, boot, declared, stops>>

BootAt(at, app, ws) == [at |-> at, app |-> app, ws |-> ws]
Off     == BootAt("off", "cluster", 0)
Failed  == BootAt("failed", "cluster", 0)
Running == BootAt("running", "cluster", 0)

BootstrapInit ==
    /\ plogRows = {} /\ descriptors = {} /\ wlogs = {}
    /\ appRecord = NoLayout
    /\ boot = Off /\ declared \in Layouts /\ stops = 0

-----------------------------------------------------------------------------
Layout(app) == IF app = "cluster" THEN ClusterLayout ELSE declared

AppPartitionID(app, ws) == ws % Layout(app).parts

\* InitAppWSes counts the offsets of a partition from FirstOffset, over the
\* workspaces that were initialized before too.
PLogOffset(app, ws) ==
    1 + Cardinality({w \in 0 .. ws - 1 : AppPartitionID(app, w) = AppPartitionID(app, ws)})

InitEvent(app, ws) ==
    [app |-> app, part |-> AppPartitionID(app, ws), offset |-> PLogOffset(app, ws), ws |-> ws]

SamePLogRow(e, f) == e.app = f.app /\ e.part = f.part /\ e.offset = f.offset

\* The loop of InitAppWSes goes on, or ends.
NextWorkspace(app, ws) ==
    boot' = IF ws + 1 < Layout(app).wss THEN BootAt("check", app, ws + 1)
            ELSE IF app = "cluster"     THEN BootAt("compare", app, ws)
            ELSE BootAt("record", app, ws)

(***************************************************************************)
(* The administrator starts the process, perhaps with another descriptor.  *)
(***************************************************************************)
StartVVM ==
    /\ boot \in {Off, Failed, Running}
    /\ boot' = BootAt("check", "cluster", 0)
    /\ declared' \in Layouts
    /\ UNCHANGED <<plogRows, descriptors, wlogs, appRecord, stops>>

SkipInited ==
    /\ boot.at = "check" /\ <<boot.app, boot.ws>> \in descriptors
    /\ NextWorkspace(boot.app, boot.ws)
    /\ UNCHANGED <<plogRows, descriptors, wlogs, appRecord, declared, stops>>

(***************************************************************************)
(* InitAppWS of a workspace without a descriptor.  Its event goes into the *)
(* PLog unless the row is there already (ErrSequencesViolation, on which   *)
(* Bootstrap returns the error and callDeployApp panics).                  *)
(***************************************************************************)
PutPlog ==
    /\ boot.at = "check" /\ <<boot.app, boot.ws>> \notin descriptors
    /\ LET e == InitEvent(boot.app, boot.ws) IN
          IF \E f \in plogRows : SamePLogRow(e, f)
          THEN boot' = Failed /\ UNCHANGED plogRows
          ELSE boot' = [boot EXCEPT !.at = "apply"] /\ plogRows' = plogRows \union {e}
    /\ UNCHANGED <<descriptors, wlogs, appRecord, declared, stops>>

ApplyDescriptor ==
    /\ boot.at = "apply"
    /\ descriptors' = descriptors \union {<<boot.app, boot.ws>>}
    /\ boot' = [boot EXCEPT !.at = "wlog"]
    /\ UNCHANGED <<plogRows, wlogs, appRecord, declared, stops>>

PutWlog ==
    /\ boot.at = "wlog"
    /\ wlogs' = wlogs \union {<<boot.app, boot.ws>>}
    /\ NextWorkspace(boot.app, boot.ws)
    /\ UNCHANGED <<plogRows, descriptors, appRecord, declared, stops>>

\* Mutant of DeployApp: the record is written before the workspaces.
DeployAppRecordsFirst ==
    /\ boot.at = "compare"
    /\ boot' = IF appRecord = NoLayout THEN BootAt("check", "app", 0)
               ELSE IF appRecord = declared THEN Running ELSE Failed
    /\ appRecord' = IF appRecord = NoLayout THEN declared ELSE appRecord
    /\ UNCHANGED <<plogRows, descriptors, wlogs, declared, stops>>

(***************************************************************************)
(* c.cluster.DeployApp: an application that was deployed is only compared. *)
(***************************************************************************)
DeployApp ==
    /\ boot.at = "compare"
    /\ boot' = IF appRecord = NoLayout THEN BootAt("check", "app", 0)
               ELSE IF appRecord = declared THEN Running ELSE Failed
    /\ UNCHANGED <<plogRows, descriptors, wlogs, appRecord, declared, stops>>

RecordApp ==
    /\ boot.at = "record"
    /\ appRecord' = declared
    /\ boot' = Running
    /\ UNCHANGED <<plogRows, descriptors, wlogs, declared, stops>>

StopVVM ==
    /\ stops < MaxStops /\ boot \notin {Off, Failed, Running}
    /\ stops' = stops + 1
    /\ boot' = Off
    /\ UNCHANGED <<plogRows, descriptors, wlogs, appRecord, declared>>

BootstrapNext ==
    \/ StartVVM \/ SkipInited \/ PutPlog \/ ApplyDescriptor \/ PutWlog
    \/ DeployApp \/ RecordApp \/ StopVVM

BootstrapSpec == BootstrapInit /\ [][BootstrapNext]_bootVars

-----------------------------------------------------------------------------
(***************************************************************************)
(* A process that runs has a deployed application: the descriptor it was   *)
(* built with is the recorded one and each workspace of it has its         *)
(* workspace descriptor and the event that created it, whatever stops      *)
(* happened before (cluster/impl_deployapp.go: InitAppWSes before the      *)
(* command's intents are applied).                                         *)
(***************************************************************************)
RunningIsDeployed ==
    boot = Running =>
        /\ appRecord = declared
        /\ \A ws \in 0 .. declared.wss - 1 :
              /\ <<"app", ws>> \in descriptors
              /\ \E e \in plogRows : e.app = "app" /\ e.ws = ws

(***************************************************************************)
(* A bootstrap fails only on a descriptor that differs from the recorded   *)
(* one: initializing the application workspaces again gives no error       *)
(* (sys/it/impl_bootstrap_test.go: "init app ws again ... expect no        *)
(* errors").  Does not hold: a workspace whose process stopped between     *)
(* PutPlog and Apply can never be initialized.                             *)
(***************************************************************************)
RestartSucceeds ==
    boot = Failed => appRecord \notin {NoLayout, declared}

=============================================================================
