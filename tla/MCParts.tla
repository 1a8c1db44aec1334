------------------------------- MODULE MCParts -------------------------------
(* Parts of a VVM that share no state, each checked from an initial state of *)
(* its own: the leader elections under any caller and under orchestration,   *)
(* the storage cache, the bbolt driver, a BLOB, an invite, the login aliases, *)
(* the workspaces and the bootstrap.  The variable part names the one that   *)
(* moves.                                                                    *)
EXTENDS VVMOrch, StorageCache, BboltStorage, BlobStorage, Invites, LoginAlias,
        Workspaces, Bootstrap

VARIABLE part

\* The variables of the parts that have no action with a fairness condition.
storeVars  == <<cacheVars, bboltVars, blobVars>>
sagaVars   == <<invitesVars, aliasVars, workspacesVars, bootVars>>
partsVars == <<vars, storeVars, sagaVars, part>>

PartsInit ==
    /\ part \in {"elections", "orchestration", "cache", "bbolt", "blob", "invites",
                 "aliases", "workspaces", "bootstrap"}
    /\ Init /\ CacheInit /\ BboltInit /\ BlobInit /\ InvitesInit /\ LoginAliasInit
    /\ WorkspacesInit /\ BootstrapInit
    /\ part # "cache" => \A r \in Rows : stored[r] = Absent
    /\ part # "blob"  => ~upload.temp /\ upload.total = 0
    /\ part # "bootstrap" => declared = CHOOSE d \in Layouts : TRUE

\* The identifiers of the alias part are interchangeable until one is used.
FirstLoginIsJSmith == logins # <<>> => logins[1].name = "jsmith"

NextElections     == part = "elections" /\ ElectionsNext
                     /\ UNCHANGED <<orchVars, storeVars, sagaVars>>
NextOrchestration == part = "orchestration" /\ Next /\ UNCHANGED <<storeVars, sagaVars>>

NextCache == part = "cache" /\ CacheNext /\ UNCHANGED <<vars, bboltVars, blobVars, sagaVars>>
NextBbolt == part = "bbolt" /\ BboltNext /\ UNCHANGED <<vars, cacheVars, blobVars, sagaVars>>
NextBlob  == part = "blob" /\ BlobNext /\ UNCHANGED <<vars, cacheVars, bboltVars, sagaVars>>

NextInvites    == part = "invites" /\ InvitesNext
                  /\ UNCHANGED <<vars, storeVars, aliasVars, workspacesVars, bootVars>>
NextAliases    == part = "aliases" /\ LoginAliasNext /\ FirstLoginIsJSmith'
                  /\ UNCHANGED <<vars, storeVars, invitesVars, workspacesVars, bootVars>>
NextWorkspaces == part = "workspaces" /\ WorkspacesNext
                  /\ UNCHANGED <<vars, storeVars, invitesVars, aliasVars, bootVars>>
NextBootstrap  == part = "bootstrap" /\ BootstrapNext
                  /\ UNCHANGED <<vars, storeVars, invitesVars, aliasVars, workspacesVars>>

PartsNext ==
    /\ \/ NextElections \/ NextOrchestration \/ NextCache \/ NextBbolt \/ NextBlob
       \/ NextInvites \/ NextAliases \/ NextWorkspaces \/ NextBootstrap
    /\ UNCHANGED part

(* The fairness of ElectionsFairSpec and of FairSpec, each for its part. *)
PartsFairness ==
    /\ \A v \in VVMs :
          /\ WF_electionsVars(part = "elections" /\ Call(v))
          /\ \A k \in Keys : WF_electionsVars(part = "elections" /\ Maintain(v, k))
          /\ WF_vars(part = "orchestration" /\ Goroutines(v))
    /\ SF_vars(part = "orchestration" /\ OrchTick)

PartsSpec == PartsInit /\ [][PartsNext]_partsVars /\ PartsFairness
=============================================================================
