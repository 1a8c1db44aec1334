----------------------------- MODULE SagaProofs -----------------------------
(***************************************************************************)
(* Proofs about the workflows that projectors drive by calls to other      *)
(* workspaces, for any number of faults and any values of the constants:   *)
(* the bootstrap of an application, workspaces, invites and login aliases. *)
(***************************************************************************)
EXTENDS LoginAlias, Invites, Workspaces, Bootstrap, SequenceTheorems, TLAPS

-----------------------------------------------------------------------------
(***************************************************************************)
(* Bootstrap.  Every workspace before the one that is being initialized    *)
(* has its descriptor, and a descriptor has its event.                     *)
(***************************************************************************)
HasInitEvent(rows, ws) == \E e \in rows : e.app = "app" /\ e.ws = ws

\* The first n workspaces of the application are initialized.
Inited(descs, n) == \A ws \in 0 .. n - 1 : <<"app", ws>> \in descs

BootTypeOK ==
    /\ declared \in Layouts
    /\ boot = BootAt(boot.at, boot.app, boot.ws)
    /\ boot.at \in {"off", "failed", "running", "check", "apply", "wlog", "compare", "record"}
    /\ boot.app \in {"cluster", "app"} /\ boot.ws \in Nat

DescriptorsHaveEvents ==
    \A ws \in Nat : <<"app", ws>> \in descriptors => HasInitEvent(plogRows, ws)

RecordedIsInited ==
    appRecord # NoLayout => appRecord \in Layouts /\ Inited(descriptors, appRecord.wss)

BootedSoFar ==
    /\ boot.app = "app" /\ boot.at \in {"check", "apply", "wlog"} =>
          boot.ws < declared.wss /\ Inited(descriptors, boot.ws)
    /\ boot.app = "app" /\ boot.at = "apply" => HasInitEvent(plogRows, boot.ws)
    /\ boot.app = "app" /\ boot.at = "wlog" => <<"app", boot.ws>> \in descriptors
    /\ boot.at \in {"record", "running"} => Inited(descriptors, declared.wss)
    /\ boot.at = "running" => appRecord = declared

BootInv == BootTypeOK /\ DescriptorsHaveEvents /\ RecordedIsInited /\ BootedSoFar

LEMMA LayoutType == \A l \in Layouts : l.wss \in Nat \ {0}
BY BootstrapConstants DEF Layouts

LEMMA BootInvInit == BootstrapInit => BootInv
BY DEF BootstrapInit, BootInv, BootTypeOK, DescriptorsHaveEvents, RecordedIsInited,
       BootedSoFar, Off, BootAt

LEMMA InitedNext ==
    ASSUME NEW descs, NEW n \in Nat, Inited(descs, n), <<"app", n>> \in descs
    PROVE  Inited(descs, n + 1)
<1>0. (n + 1) - 1 = n  OBVIOUS
<1>1. \A ws \in 0 .. n : ws = n \/ ws \in 0 .. n - 1  OBVIOUS
<1>2. \A ws \in 0 .. n : <<"app", ws>> \in descs  BY <1>1 DEF Inited
<1> QED  BY <1>0, <1>2 DEF Inited

\* What is initialized stays so.
LEMMA InitedStays ==
    ASSUME NEW d1, NEW d2, d1 \subseteq d2, NEW n, Inited(d1, n)
    PROVE  Inited(d2, n)
BY DEF Inited

\* The loop goes on after a workspace that has its descriptor.
LEMMA NextWorkspaceKeepsInv ==
    ASSUME BootInv, boot.at \in {"check", "wlog"}, <<boot.app, boot.ws>> \in descriptors,
           NextWorkspace(boot.app, boot.ws), UNCHANGED <<plogRows, descriptors, appRecord, declared>>
    PROVE  BootInv'
<1> PICK app, ws : app = boot.app /\ ws = boot.ws  OBVIOUS
<1>0. /\ ws \in Nat /\ ws + 1 \in Nat /\ app \in {"cluster", "app"}
      /\ declared.wss \in Nat
  BY LayoutType DEF BootInv, BootTypeOK
<1>1. app = "app" => ws < declared.wss /\ Inited(descriptors, ws + 1)
  BY <1>0, InitedNext DEF BootInv, BootedSoFar
<1>2. app = "app" /\ ~(ws + 1 < declared.wss) => declared.wss = ws + 1
  BY <1>0, <1>1
<1>3. CASE ws + 1 < Layout(app).wss
  <2>1. boot' = BootAt("check", app, ws + 1)  BY <1>3 DEF NextWorkspace
  <2>2. app = "app" => ws + 1 < declared.wss  BY <1>3 DEF Layout
  <2> QED  BY <1>0, <1>1, <2>1, <2>2
           DEF BootInv, BootTypeOK, BootAt, DescriptorsHaveEvents, RecordedIsInited, BootedSoFar
<1>4. CASE ~(ws + 1 < Layout(app).wss) /\ app = "cluster"
  <2>1. boot' = BootAt("compare", app, ws)  BY <1>4 DEF NextWorkspace
  <2> QED  BY <1>0, <1>4, <2>1
           DEF BootInv, BootTypeOK, BootAt, DescriptorsHaveEvents, RecordedIsInited, BootedSoFar
<1>5. CASE ~(ws + 1 < Layout(app).wss) /\ app = "app"
  <2>1. boot' = BootAt("record", app, ws)  BY <1>5 DEF NextWorkspace
  <2>2. Inited(descriptors, declared.wss)  BY <1>1, <1>2, <1>5 DEF Layout
  <2> QED  BY <1>0, <2>1, <2>2
           DEF BootInv, BootTypeOK, BootAt, DescriptorsHaveEvents, RecordedIsInited, BootedSoFar
<1> QED  BY <1>0, <1>3, <1>4, <1>5

LEMMA InitKeepsInv ==
    BootInv /\ (SkipInited \/ PutPlog \/ ApplyDescriptor \/ PutWlog) => BootInv'
<1> USE DEF BootAt
<1>1. ASSUME BootInv, SkipInited  PROVE BootInv'
  BY <1>1, NextWorkspaceKeepsInv DEF SkipInited
<1>2. ASSUME BootInv, PutPlog  PROVE BootInv'
  <2> PICK e : e = InitEvent(boot.app, boot.ws)  OBVIOUS
  <2>0. e.app = boot.app /\ e.ws = boot.ws  BY DEF InitEvent
  <2>1. CASE \E f \in plogRows : SamePLogRow(e, f)
    <3>1. boot' = Failed /\ UNCHANGED <<plogRows, descriptors, appRecord, declared>>
      BY <1>2, <2>1 DEF PutPlog
    <3> QED  BY <1>2, <3>1 DEF Failed, BootInv, BootTypeOK, DescriptorsHaveEvents,
                               RecordedIsInited, BootedSoFar
  <2>2. CASE ~\E f \in plogRows : SamePLogRow(e, f)
    <3>1. /\ boot.at = "check" /\ boot' = [boot EXCEPT !.at = "apply"]
          /\ plogRows' = plogRows \union {e} /\ UNCHANGED <<descriptors, appRecord, declared>>
      BY <1>2, <2>2 DEF PutPlog
    <3>2. boot' = [at |-> "apply", app |-> boot.app, ws |-> boot.ws]
      BY <1>2, <3>1 DEF BootInv, BootTypeOK
    <3>3. boot.app = "app" => HasInitEvent(plogRows', boot.ws)  BY <2>0, <3>1 DEF HasInitEvent
    <3>4. DescriptorsHaveEvents'
      BY <1>2, <3>1 DEF BootInv, DescriptorsHaveEvents, HasInitEvent
    <3> QED  BY <1>2, <3>1, <3>2, <3>3, <3>4 DEF BootInv, BootTypeOK, RecordedIsInited, BootedSoFar
  <2> QED  BY <2>1, <2>2
<1>3. ASSUME BootInv, ApplyDescriptor  PROVE BootInv'
  <2>1. /\ boot.at = "apply" /\ boot' = [at |-> "wlog", app |-> boot.app, ws |-> boot.ws]
        /\ descriptors' = descriptors \union {<<boot.app, boot.ws>>}
        /\ UNCHANGED <<plogRows, appRecord, declared>>
    BY <1>3 DEF ApplyDescriptor, BootInv, BootTypeOK
  <2>2. \A n : Inited(descriptors, n) => Inited(descriptors', n)  BY <2>1, InitedStays
  <2>3. DescriptorsHaveEvents'
    BY <1>3, <2>1 DEF BootInv, BootTypeOK, BootedSoFar, DescriptorsHaveEvents
  <2>4. RecordedIsInited'  BY <1>3, <2>1, <2>2 DEF BootInv, RecordedIsInited
  <2>5. BootedSoFar'  BY <1>3, <2>1, <2>2 DEF BootInv, BootedSoFar
  <2> QED  BY <1>3, <2>1, <2>3, <2>4, <2>5 DEF BootInv, BootTypeOK
<1>4. ASSUME BootInv, PutWlog  PROVE BootInv'
  <2>1. CASE boot.app = "app"
    BY <1>4, <2>1, NextWorkspaceKeepsInv DEF PutWlog, BootInv, BootedSoFar
  <2>2. CASE boot.app = "cluster"
    BY <1>4, <2>2 DEF PutWlog, NextWorkspace, Layout, ClusterLayout, BootInv, BootTypeOK,
                      DescriptorsHaveEvents, RecordedIsInited, BootedSoFar
  <2> QED  BY <1>4, <2>1, <2>2 DEF BootInv, BootTypeOK
<1> QED  BY <1>1, <1>2, <1>3, <1>4

LEMMA StartKeepsInv ==
    BootInv /\ (StartVVM \/ DeployApp \/ RecordApp \/ StopVVM) => BootInv'
<1> SUFFICES ASSUME BootInv, StartVVM \/ DeployApp \/ RecordApp \/ StopVVM  PROVE BootInv'
  OBVIOUS
<1> USE DEF BootAt, Off, Failed, Running
<1>0. UNCHANGED <<plogRows, descriptors>> /\ DescriptorsHaveEvents'
  BY DEF StartVVM, DeployApp, RecordApp, StopVVM, BootInv, DescriptorsHaveEvents
<1>1. CASE StartVVM
  BY <1>0, <1>1 DEF StartVVM, BootInv, BootTypeOK, RecordedIsInited, BootedSoFar
<1>2. CASE DeployApp
  <2>1. UNCHANGED <<appRecord, declared>>  BY <1>2 DEF DeployApp
  <2>2. CASE appRecord = NoLayout
    <3>1. boot' = BootAt("check", "app", 0)  BY <1>2, <2>2 DEF DeployApp
    <3>2. 0 < declared.wss /\ Inited(descriptors, 0)
      BY LayoutType DEF BootInv, BootTypeOK, Inited
    <3> QED  BY <1>0, <2>1, <3>1, <3>2
             DEF BootInv, BootTypeOK, RecordedIsInited, BootedSoFar
  <2>3. CASE appRecord # NoLayout /\ appRecord = declared
    <3>1. boot' = Running  BY <1>2, <2>3 DEF DeployApp
    <3> QED  BY <1>0, <2>1, <2>3, <3>1
             DEF BootInv, BootTypeOK, RecordedIsInited, BootedSoFar
  <2>4. CASE appRecord # NoLayout /\ appRecord # declared
    <3>1. boot' = Failed  BY <1>2, <2>4 DEF DeployApp
    <3> QED  BY <1>0, <2>1, <3>1 DEF BootInv, BootTypeOK, RecordedIsInited, BootedSoFar
  <2> QED  BY <2>2, <2>3, <2>4
<1>3. CASE RecordApp
  BY <1>0, <1>3 DEF RecordApp, BootInv, BootTypeOK, RecordedIsInited, BootedSoFar
<1>4. CASE StopVVM
  BY <1>0, <1>4 DEF StopVVM, BootInv, BootTypeOK, RecordedIsInited, BootedSoFar
<1> QED  BY <1>1, <1>2, <1>3, <1>4

\* A process that runs has the application it was built with: each workspace
\* has its descriptor and the event that created it (InitAppWSes comes before
\* the cluster.App record, and the bootstrap goes on where it was stopped).
THEOREM BootedAppIsDeployed == BootstrapSpec => []RunningIsDeployed
<1>1. BootInv /\ [BootstrapNext]_bootVars => BootInv'
  <2>1. BootInv /\ UNCHANGED bootVars => BootInv'
    BY DEF bootVars, BootInv, BootTypeOK, DescriptorsHaveEvents, RecordedIsInited, BootedSoFar
  <2> QED  BY <2>1, InitKeepsInv, StartKeepsInv DEF BootstrapNext
<1>2. BootInv => RunningIsDeployed
  <2> SUFFICES ASSUME BootInv, boot = Running
               PROVE  /\ appRecord = declared
                      /\ \A ws \in 0 .. declared.wss - 1 :
                            <<"app", ws>> \in descriptors /\ HasInitEvent(plogRows, ws)
    BY DEF RunningIsDeployed, HasInitEvent
  <2>1. boot.at = "running"  BY DEF Running, BootAt
  <2>2. appRecord = declared /\ Inited(descriptors, declared.wss)
    BY <2>1 DEF BootInv, BootedSoFar
  <2>3. declared.wss \in Nat  BY LayoutType DEF BootInv, BootTypeOK
  <2> QED  BY <2>2, <2>3 DEF BootInv, DescriptorsHaveEvents, Inited
<1> QED  BY <1>1, <1>2, BootInvInit, PTL DEF BootstrapSpec

-----------------------------------------------------------------------------
(***************************************************************************)
(* Workspaces.  What a projector has in its log is there: the owner was    *)
(* made, the WSID was given.  What was made stays so, and what became      *)
(* inactive stays inactive, so a call that was made holds when the next    *)
(* one is made, whatever the other projectors did meanwhile.               *)
(***************************************************************************)
Steps == {"start", "owner", "build", "ok", "error", "status"}

ProjTypeOK(pr) ==
    /\ pr = [p \in Projectors |-> pr[p]]
    /\ \A p \in Projectors :
          /\ pr[p] = [log |-> pr[p].log, done |-> pr[p].done, saved |-> pr[p].saved,
                      at |-> pr[p].at]
          /\ pr[p].log \in Seq(Nat) /\ pr[p].done \in Nat /\ pr[p].saved \in Nat
          /\ pr[p].at \in Steps
          /\ pr[p].saved <= pr[p].done /\ pr[p].done <= Len(pr[p].log)
          /\ pr[p].at # "start" => pr[p].done < Len(pr[p].log)

EventOf(pr, p) == pr[p].log[pr[p].done + 1]

\* An event e of projector p is about something that exists.
EntryOK(own, next, desc, p, e) ==
    IF p = "InvokeCreateWorkspaceID" THEN e \in Owners /\ own[e].made
    ELSE e \in WSIDs /\ e < next /\ (p = "InitializeWorkspace" => desc[e].status # "none")

LogsOK(pr, own, next, desc) ==
    \A p \in Projectors : \A i \in 1 .. Len(pr[p].log) :
        EntryOK(own, next, desc, p, pr[p].log[i])

\* What the calls made so far for event e have done.
Reached(own, wid, desc, p, at, e) ==
    /\ p = "ApplyDeactivateWorkspace" /\ at \in {"owner", "status"} => ~wid[e].active
    /\ p = "ApplyDeactivateWorkspace" /\ at = "status" => ~own[wid[e].owner].active
    /\ p = "InitializeWorkspace" /\ at = "ok" => desc[e].completed

StepsOK(pr, own, wid, desc) ==
    \A p \in Projectors :
        pr[p].at # "start" => Reached(own, wid, desc, p, pr[p].at, EventOf(pr, p))

DocsType(own, next, wid, idx, desc) ==
    /\ own = [o \in Owners |-> own[o]]
    /\ wid = [w \in WSIDs |-> wid[w]]
    /\ desc = [w \in WSIDs |-> desc[w]]
    /\ \A o \in Owners :
          own[o] = [made |-> own[o].made, active |-> own[o].active,
                    wsid |-> own[o].wsid, error |-> own[o].error]
    /\ \A w \in WSIDs :
          /\ wid[w] = [owner |-> wid[w].owner, active |-> wid[w].active]
          /\ desc[w] = [status |-> desc[w].status, createError |-> desc[w].createError,
                        completed |-> desc[w].completed, initError |-> desc[w].initError]
    /\ next \in Nat /\ idx \in Nat /\ next > 0 /\ idx < next

\* The name leads to the only WorkspaceID that may be active.
WorkspaceIDsOK(own, next, wid, idx) ==
    \A w \in WSIDs :
        /\ w < next => wid[w].owner \in Owners /\ own[wid[w].owner].made
        /\ wid[w].active => w = idx

CutOff(own, next, wid, desc) ==
    \A w \in WSIDs :
        /\ desc[w].status # "none" => w < next
        /\ desc[w].status = "Inactive" => ~wid[w].active /\ ~own[wid[w].owner].active

GivenIsComplete(own, next, wid, desc) ==
    /\ \A w \in WSIDs : desc[w].completed => desc[w].status # "none"
    /\ \A o \in Owners :
          own[o].wsid # 0 /\ ~own[o].error =>
              /\ own[o].wsid \in WSIDs /\ own[o].wsid < next
              /\ wid[own[o].wsid].owner = o /\ desc[own[o].wsid].completed

DocsOK(own, next, wid, idx, desc) ==
    /\ DocsType(own, next, wid, idx, desc)
    /\ WorkspaceIDsOK(own, next, wid, idx)
    /\ CutOff(own, next, wid, desc)
    /\ GivenIsComplete(own, next, wid, desc)

DocsInv == DocsOK(owner, nextWSID, workspaceID, workspaceIDIdx, descriptor)

WorkspacesInv ==
    /\ DocsInv
    /\ ProjTypeOK(proj)
    /\ LogsOK(proj, owner, nextWSID, descriptor)
    /\ StepsOK(proj, owner, workspaceID, descriptor)

LEMMA WorkspacesInvInit == WorkspacesInit => WorkspacesInv
<1> SUFFICES ASSUME WorkspacesInit  PROVE WorkspacesInv
  OBVIOUS
<1>1. \A p \in Projectors : proj[p] = [log |-> <<>>, done |-> 0, saved |-> 0, at |-> "start"]
  BY DEF WorkspacesInit
<1>2. ProjTypeOK(proj)
  <2>1. proj = [p \in Projectors |-> proj[p]]  BY DEF WorkspacesInit
  <2> PICK empty : empty = <<>>  OBVIOUS
  <2>2. empty \in Seq(Nat) /\ Len(empty) = 0  OBVIOUS
  <2>3. \A p \in Projectors : /\ proj[p].log = empty /\ proj[p].done = 0
                              /\ proj[p].saved = 0 /\ proj[p].at = "start"
    BY <1>1
  <2>4. \A p \in Projectors :
            proj[p] = [log |-> proj[p].log, done |-> proj[p].done, saved |-> proj[p].saved,
                       at |-> proj[p].at]
    BY <1>1, <2>3
  <2>5. \A p \in Projectors :
            /\ proj[p].log \in Seq(Nat) /\ proj[p].done \in Nat /\ proj[p].saved \in Nat
            /\ proj[p].at \in Steps
            /\ proj[p].saved <= proj[p].done /\ proj[p].done <= Len(proj[p].log)
    <3> TAKE p \in Projectors
    <3>1. proj[p].log = empty /\ proj[p].done = 0 /\ proj[p].saved = 0  BY <2>3
    <3>2. proj[p].at \in Steps  BY <2>3 DEF Steps
    <3>3. 0 <= 0 /\ 0 <= Len(empty)  BY <2>2
    <3> QED  BY <2>2, <3>1, <3>2, <3>3
  <2> QED  BY <2>1, <2>3, <2>4, <2>5 DEF ProjTypeOK
<1>3. LogsOK(proj, owner, nextWSID, descriptor)
  <2>1. \A p \in Projectors : Len(proj[p].log) = 0  BY <1>1
  <2> QED  BY <2>1 DEF LogsOK
<1>4. StepsOK(proj, owner, workspaceID, descriptor)  BY <1>1 DEF StepsOK, Projectors
<1>5. DocsInv
  BY DEF WorkspacesInit, DocsInv, DocsOK, DocsType, WorkspaceIDsOK, CutOff,
         GivenIsComplete, NoDescriptor, Owners, WSIDs
<1> QED  BY <1>2, <1>3, <1>4, <1>5 DEF WorkspacesInv

-----------------------------------------------------------------------------
(* Steps of the projectors. *)

IsPlace(r) == r = [log |-> r.log, done |-> r.done, saved |-> r.saved, at |-> r.at]

LEMMA AtUpdate ==
    ASSUME NEW r, IsPlace(r), NEW s
    PROVE  [r EXCEPT !.at = s] = [log |-> r.log, done |-> r.done, saved |-> r.saved, at |-> s]
<1> PICK l, n, v, a : l = r.log /\ n = r.done /\ v = r.saved /\ a = r.at  OBVIOUS
<1>1. r = [log |-> l, done |-> n, saved |-> v, at |-> a]  BY DEF IsPlace
<1>2. [r EXCEPT !.at = s] = [log |-> l, done |-> n, saved |-> v, at |-> s]  BY <1>1
<1> QED  BY <1>2

LEMMA DoneUpdate ==
    ASSUME NEW r, IsPlace(r), NEW d
    PROVE  [r EXCEPT !.done = d] = [log |-> r.log, done |-> d, saved |-> r.saved, at |-> r.at]
<1> PICK l, n, v, a : l = r.log /\ n = r.done /\ v = r.saved /\ a = r.at  OBVIOUS
<1>1. r = [log |-> l, done |-> n, saved |-> v, at |-> a]  BY DEF IsPlace
<1>2. [r EXCEPT !.done = d] = [log |-> l, done |-> d, saved |-> v, at |-> a]  BY <1>1
<1> QED  BY <1>2

LEMMA LogUpdate ==
    ASSUME NEW r, IsPlace(r), NEW log2
    PROVE  [r EXCEPT !.log = log2] = [log |-> log2, done |-> r.done, saved |-> r.saved, at |-> r.at]
<1> PICK l, n, v, a : l = r.log /\ n = r.done /\ v = r.saved /\ a = r.at  OBVIOUS
<1>1. r = [log |-> l, done |-> n, saved |-> v, at |-> a]  BY DEF IsPlace
<1>2. [r EXCEPT !.log = log2] = [log |-> log2, done |-> n, saved |-> v, at |-> a]  BY <1>1
<1> QED  BY <1>2

LEMMA SavedUpdate ==
    ASSUME NEW r, IsPlace(r), NEW d
    PROVE  [r EXCEPT !.saved = d] = [log |-> r.log, done |-> r.done, saved |-> d, at |-> r.at]
<1> PICK l, n, v, a : l = r.log /\ n = r.done /\ v = r.saved /\ a = r.at  OBVIOUS
<1>1. r = [log |-> l, done |-> n, saved |-> v, at |-> a]  BY DEF IsPlace
<1>2. [r EXCEPT !.saved = d] = [log |-> l, done |-> n, saved |-> d, at |-> a]  BY <1>1
<1> QED  BY <1>2

\* What was logged stays logged.
LogsExtend(pr, pr2) ==
    \A p \in Projectors : \A i \in 1 .. Len(pr[p].log) :
        i \in 1 .. Len(pr2[p].log) /\ pr2[p].log[i] = pr[p].log[i]

SamePlace(pr, pr2, p) == pr2[p].at = pr[p].at /\ pr2[p].done = pr[p].done

\* Projector p comes to a step, and nothing is logged.
Comes(pr, pr2, p, at, done) ==
    /\ ProjTypeOK(pr2)
    /\ \A q \in Projectors : pr2[q].log = pr[q].log
    /\ \A q \in Projectors \ {p} : SamePlace(pr, pr2, q)
    /\ pr2[p].at = at /\ pr2[p].done = done

\* An event e is logged for projector q.
Logged(pr, pr2, q, e) ==
    /\ ProjTypeOK(pr2)
    /\ \A p \in Projectors : SamePlace(pr, pr2, p)
    /\ LogsExtend(pr, pr2)
    /\ \A p \in Projectors : \A i \in 1 .. Len(pr2[p].log) :
          i \in 1 .. Len(pr[p].log) \/ (p = q /\ pr2[p].log[i] = e)

LEMMA StepOfProjector ==
    ASSUME ProjTypeOK(proj), NEW p \in Projectors, NEW s \in Steps, NEW d \in Nat, NEW v \in Nat,
           v <= d, d <= Len(proj[p].log), s # "start" => d < Len(proj[p].log),
           NEW pr2, pr2 = [proj EXCEPT ![p] = [log |-> proj[p].log, done |-> d, saved |-> v,
                                               at |-> s]]
    PROVE  Comes(proj, pr2, p, s, d)
<1>1. pr2 = [q \in Projectors |-> pr2[q]]  BY DEF ProjTypeOK
<1>2. pr2[p] = [log |-> proj[p].log, done |-> d, saved |-> v, at |-> s]  BY DEF ProjTypeOK
<1>3. \A q \in Projectors \ {p} : pr2[q] = proj[q]  BY DEF ProjTypeOK
<1>4. ProjTypeOK(pr2)  BY <1>1, <1>2, <1>3 DEF ProjTypeOK
<1> QED  BY <1>2, <1>3, <1>4 DEF Comes, SamePlace

LEMMA ComesToStep ==
    ASSUME ProjTypeOK(proj), NEW p \in Projectors, NEW s \in Steps,
           proj[p].done < Len(proj[p].log)
    PROVE  Comes(proj, ToStep(p, s), p, s, proj[p].done)
<1>1. ToStep(p, s) = [proj EXCEPT ![p] = [log |-> proj[p].log, done |-> proj[p].done,
                                          saved |-> proj[p].saved, at |-> s]]
  <2> PICK r : r = proj[p]  OBVIOUS
  <2>1. IsPlace(r)  BY DEF ProjTypeOK, IsPlace
  <2>2. [r EXCEPT !.at = s] = [log |-> r.log, done |-> r.done, saved |-> r.saved, at |-> s]
    BY <2>1, AtUpdate
  <2>3. ToStep(p, s) = [proj EXCEPT ![p] = [r EXCEPT !.at = s]]  BY DEF ToStep
  <2> QED  BY <2>2, <2>3
<1> QED  BY <1>1, StepOfProjector DEF ProjTypeOK

LEMMA ComesToNextEvent ==
    ASSUME ProjTypeOK(proj), NEW p \in Projectors, proj[p].done < Len(proj[p].log)
    PROVE  Comes(proj, EventDone(p), p, "start", proj[p].done + 1)
<1>1. EventDone(p) = [proj EXCEPT ![p] = [log |-> proj[p].log, done |-> proj[p].done + 1,
                                          saved |-> proj[p].saved, at |-> "start"]]
  <2> PICK r : r = proj[p]  OBVIOUS
  <2>1. IsPlace(r)  BY DEF ProjTypeOK, IsPlace
  <2> PICK r2 : r2 = [r EXCEPT !.at = "start"]  OBVIOUS
  <2>a. r2 = [log |-> r.log, done |-> r.done, saved |-> r.saved, at |-> "start"]
    BY <2>1, AtUpdate
  <2>b. IsPlace(r2) /\ r2.log = r.log /\ r2.saved = r.saved /\ r2.at = "start"
    BY <2>a DEF IsPlace
  <2> PICK d : d = r.done + 1  OBVIOUS
  <2>2. [r2 EXCEPT !.done = d]
            = [log |-> r.log, done |-> d, saved |-> r.saved, at |-> "start"]
    <3>1. IsPlace(r2)  BY <2>b
    <3>2. [r2 EXCEPT !.done = d]
              = [log |-> r2.log, done |-> d, saved |-> r2.saved, at |-> r2.at]
      BY <3>1, DoneUpdate
    <3> QED  BY <2>b, <3>2
  <2>3. EventDone(p) = [proj EXCEPT ![p] = [r2 EXCEPT !.done = d]]
    BY DEF EventDone, ProjTypeOK
  <2> QED  BY <2>2, <2>3
<1>2. /\ proj[p].done + 1 \in Nat /\ proj[p].saved <= proj[p].done + 1
      /\ proj[p].done + 1 <= Len(proj[p].log) /\ proj[p].saved \in Nat
  <2>1. Len(proj[p].log) \in Nat  BY DEF ProjTypeOK
  <2> QED  BY <2>1 DEF ProjTypeOK
<1> QED  BY <1>1, <1>2, StepOfProjector DEF Steps

LEMMA ComesFromSaved ==
    ASSUME ProjTypeOK(proj), NEW p \in Projectors
    PROVE  Comes(proj, FromSaved(p), p, "start", proj[p].saved)
<1>1. FromSaved(p) = [proj EXCEPT ![p] = [log |-> proj[p].log, done |-> proj[p].saved,
                                          saved |-> proj[p].saved, at |-> "start"]]
  <2> PICK r : r = proj[p]  OBVIOUS
  <2>1. IsPlace(r)  BY DEF ProjTypeOK, IsPlace
  <2> PICK r2 : r2 = [r EXCEPT !.at = "start"]  OBVIOUS
  <2>a. r2 = [log |-> r.log, done |-> r.done, saved |-> r.saved, at |-> "start"]
    BY <2>1, AtUpdate
  <2>b. IsPlace(r2) /\ r2.log = r.log /\ r2.saved = r.saved /\ r2.at = "start"
    BY <2>a DEF IsPlace
  <2>2. [r2 EXCEPT !.done = r.saved]
            = [log |-> r.log, done |-> r.saved, saved |-> r.saved, at |-> "start"]
    <3>1. IsPlace(r2)  BY <2>b
    <3>2. [r2 EXCEPT !.done = r.saved]
              = [log |-> r2.log, done |-> r.saved, saved |-> r2.saved, at |-> r2.at]
      BY <3>1, DoneUpdate
    <3> QED  BY <2>b, <3>2
  <2>3. FromSaved(p) = [proj EXCEPT ![p] = [r2 EXCEPT !.done = r.saved]]
    BY DEF FromSaved, ProjTypeOK
  <2> QED  BY <2>2, <2>3
<1>2. proj[p].saved \in Nat /\ proj[p].saved <= proj[p].saved /\ proj[p].saved <= Len(proj[p].log)
  <2>1. Len(proj[p].log) \in Nat  BY DEF ProjTypeOK
  <2> QED  BY <2>1 DEF ProjTypeOK
<1> QED  BY <1>1, <1>2, StepOfProjector DEF Steps

LEMMA EventIsLogged ==
    ASSUME NEW pr, ProjTypeOK(pr), NEW q \in Projectors, NEW e \in Nat
    PROVE  Logged(pr, Triggers(pr, q, e), q, e)
<1> PICK log2 : log2 = Append(pr[q].log, e)  OBVIOUS
<1> PICK pr2 : pr2 = [pr EXCEPT ![q] = [log |-> log2, done |-> pr[q].done,
                                        saved |-> pr[q].saved, at |-> pr[q].at]]
  OBVIOUS
<1>1. Triggers(pr, q, e) = pr2
  <2> PICK r : r = pr[q]  OBVIOUS
  <2>1. IsPlace(r)  BY DEF ProjTypeOK, IsPlace
  <2>2. [r EXCEPT !.log = log2] = [log |-> log2, done |-> r.done, saved |-> r.saved, at |-> r.at]
    BY <2>1, LogUpdate
  <2>3. Triggers(pr, q, e) = [pr EXCEPT ![q] = [r EXCEPT !.log = log2]]  BY DEF Triggers
  <2> QED  BY <2>2, <2>3
<1>2. pr2 = [p \in Projectors |-> pr2[p]]  BY DEF ProjTypeOK
<1>3. pr2[q] = [log |-> log2, done |-> pr[q].done, saved |-> pr[q].saved, at |-> pr[q].at]
  BY DEF ProjTypeOK
<1>4. \A p \in Projectors \ {q} : pr2[p] = pr[p]  BY DEF ProjTypeOK
<1>5. /\ log2 \in Seq(Nat) /\ Len(log2) = Len(pr[q].log) + 1 /\ Len(pr[q].log) \in Nat
      /\ \A i \in 1 .. Len(pr[q].log) : i \in 1 .. Len(log2) /\ log2[i] = pr[q].log[i]
      /\ log2[Len(pr[q].log) + 1] = e
  BY DEF ProjTypeOK
<1>6. ProjTypeOK(pr2)
  <2>1. pr[q].done <= Len(log2) /\ pr[q].done < Len(log2)  BY <1>5 DEF ProjTypeOK
  <2> QED  BY <1>2, <1>3, <1>4, <1>5, <2>1 DEF ProjTypeOK
<1>7. LogsExtend(pr, pr2)  BY <1>3, <1>4, <1>5 DEF LogsExtend
<1>8. \A i \in 1 .. Len(log2) : i \in 1 .. Len(pr[q].log) \/ log2[i] = e  BY <1>5
<1>9. \A p \in Projectors : SamePlace(pr, pr2, p)  BY <1>3, <1>4 DEF SamePlace
<1>10. \A p \in Projectors : \A i \in 1 .. Len(pr2[p].log) :
           i \in 1 .. Len(pr[p].log) \/ (p = q /\ pr2[p].log[i] = e)
  <2>1. ASSUME NEW i \in 1 .. Len(pr2[q].log)
        PROVE  i \in 1 .. Len(pr[q].log) \/ pr2[q].log[i] = e
    BY <1>3, <1>8
  <2>2. ASSUME NEW p \in Projectors \ {q}, NEW i \in 1 .. Len(pr2[p].log)
        PROVE  i \in 1 .. Len(pr[p].log)
    BY <1>4
  <2> SUFFICES ASSUME NEW p \in Projectors, NEW i \in 1 .. Len(pr2[p].log)
               PROVE  i \in 1 .. Len(pr[p].log) \/ (p = q /\ pr2[p].log[i] = e)
    OBVIOUS
  <2>3. CASE p = q  BY <2>1, <2>3
  <2>4. CASE p # q  BY <2>2, <2>4
  <2> QED  BY <2>3, <2>4
<1> QED  BY <1>1, <1>6, <1>7, <1>9, <1>10 DEF Logged

-----------------------------------------------------------------------------
(* Changes of the documents: what holds of a document goes on to hold. *)

DocsGrow ==
    /\ \A o \in Owners :
          owner[o].made => owner'[o].made /\ (~owner[o].active => ~owner'[o].active)
    /\ nextWSID <= nextWSID'
    /\ \A w \in WSIDs :
          /\ w < nextWSID => workspaceID'[w].owner = workspaceID[w].owner
                             /\ (~workspaceID[w].active => ~workspaceID'[w].active)
          /\ descriptor[w].status # "none" => descriptor'[w].status # "none"
          /\ descriptor[w].completed => descriptor'[w].completed

LEMMA DocsStay ==
    ASSUME DocsInv, UNCHANGED docVars
    PROVE  DocsInv' /\ DocsGrow
<1>1. DocsInv'  BY DEF docVars, DocsInv
<1>2. nextWSID <= nextWSID'  BY DEF docVars, DocsInv, DocsOK, DocsType
<1> QED  BY <1>1, <1>2 DEF docVars, DocsGrow

\* A change of the owner's document.
LEMMA OwnerChanges ==
    ASSUME DocsInv, NEW o \in Owners, NEW r, owner' = [owner EXCEPT ![o] = r],
           UNCHANGED <<nextWSID, workspaceID, workspaceIDIdx, descriptor>>,
           r = [made |-> r.made, active |-> r.active, wsid |-> r.wsid, error |-> r.error],
           owner[o].made => r.made /\ (~owner[o].active => ~r.active),
           r.wsid # 0 /\ ~r.error =>
               /\ r.wsid \in WSIDs /\ r.wsid < nextWSID
               /\ workspaceID[r.wsid].owner = o /\ descriptor[r.wsid].completed
    PROVE  DocsInv' /\ DocsGrow /\ owner'[o] = r
<1>1. /\ owner' = [q \in Owners |-> owner'[q]] /\ owner'[o] = r
      /\ \A q \in Owners \ {o} : owner'[q] = owner[q]
  BY DEF DocsInv, DocsOK, DocsType
<1>2. DocsType(owner', nextWSID', workspaceID', workspaceIDIdx', descriptor')
  BY <1>1 DEF DocsInv, DocsOK, DocsType
<1>3. WorkspaceIDsOK(owner', nextWSID', workspaceID', workspaceIDIdx')
  BY <1>1 DEF DocsInv, DocsOK, WorkspaceIDsOK
<1>4. CutOff(owner', nextWSID', workspaceID', descriptor')
  BY <1>1 DEF DocsInv, DocsOK, WorkspaceIDsOK, CutOff
<1>5. GivenIsComplete(owner', nextWSID', workspaceID', descriptor')
  BY <1>1 DEF DocsInv, DocsOK, GivenIsComplete
<1>6. nextWSID <= nextWSID'  BY DEF DocsInv, DocsOK, DocsType
<1>7. DocsGrow  BY <1>1, <1>6 DEF DocsGrow
<1> QED  BY <1>1, <1>2, <1>3, <1>4, <1>5, <1>7 DEF DocsInv, DocsOK

\* A change of a descriptor.
LEMMA DescriptorChanges ==
    ASSUME DocsInv, NEW w \in WSIDs, NEW d, descriptor' = [descriptor EXCEPT ![w] = d],
           UNCHANGED <<owner, nextWSID, workspaceID, workspaceIDIdx>>,
           d = [status |-> d.status, createError |-> d.createError,
                completed |-> d.completed, initError |-> d.initError],
           w < nextWSID, d.status # "none", descriptor[w].completed => d.completed,
           d.status = "Inactive" =>
               ~workspaceID[w].active /\ ~owner[workspaceID[w].owner].active
    PROVE  DocsInv' /\ DocsGrow /\ descriptor'[w] = d
<1>1. /\ descriptor' = [v \in WSIDs |-> descriptor'[v]] /\ descriptor'[w] = d
      /\ \A v \in WSIDs \ {w} : descriptor'[v] = descriptor[v]
  BY DEF DocsInv, DocsOK, DocsType
<1>2. DocsType(owner', nextWSID', workspaceID', workspaceIDIdx', descriptor')
  BY <1>1 DEF DocsInv, DocsOK, DocsType
<1>3. WorkspaceIDsOK(owner', nextWSID', workspaceID', workspaceIDIdx')
  BY DEF DocsInv, DocsOK, WorkspaceIDsOK
<1>4. CutOff(owner', nextWSID', workspaceID', descriptor')
  BY <1>1 DEF DocsInv, DocsOK, CutOff
<1>5. GivenIsComplete(owner', nextWSID', workspaceID', descriptor')
  BY <1>1 DEF DocsInv, DocsOK, GivenIsComplete
<1>6. nextWSID <= nextWSID'  BY DEF DocsInv, DocsOK, DocsType
<1>7. DocsGrow  BY <1>1, <1>6 DEF DocsGrow
<1> QED  BY <1>1, <1>2, <1>3, <1>4, <1>5, <1>7 DEF DocsInv, DocsOK

\* A WorkspaceID is created when no other is active.
LEMMA WorkspaceIDCreated ==
    ASSUME DocsInv, NEW o \in Owners, owner[o].made, ~NameIsTaken, nextWSID \in WSIDs,
           nextWSID' = nextWSID + 1, workspaceIDIdx' = nextWSID,
           workspaceID' = [workspaceID EXCEPT ![nextWSID] = [owner |-> o, active |-> TRUE]],
           UNCHANGED <<owner, descriptor>>
    PROVE  DocsInv' /\ DocsGrow
<1> PICK n : n = nextWSID  OBVIOUS
<1>0. n \in Nat /\ n \in WSIDs /\ n + 1 \in Nat /\ n < n + 1 /\ n <= n + 1 /\ n + 1 > 0
  BY DEF DocsInv, DocsOK, DocsType
<1>1. /\ workspaceID' = [v \in WSIDs |-> workspaceID'[v]]
      /\ workspaceID'[n] = [owner |-> o, active |-> TRUE]
      /\ \A v \in WSIDs \ {n} : workspaceID'[v] = workspaceID[v]
  BY <1>0 DEF DocsInv, DocsOK, DocsType
<1>2. \A v \in WSIDs : ~workspaceID[v].active
  <2>1. \A v \in WSIDs : workspaceID[v].active => v = workspaceIDIdx
    BY DEF DocsInv, DocsOK, WorkspaceIDsOK
  <2>2. 0 \notin WSIDs  BY DEF WSIDs
  <2> QED  BY <2>1, <2>2 DEF NameIsTaken
<1>3. \A v \in WSIDs : v \in Nat /\ (v < n + 1 => v = n \/ v < n) /\ (v < n => v # n /\ v < n + 1)
  BY <1>0 DEF WSIDs
<1>4. DocsType(owner', nextWSID', workspaceID', workspaceIDIdx', descriptor')
  BY <1>0, <1>1 DEF DocsInv, DocsOK, DocsType
<1>5. WorkspaceIDsOK(owner', nextWSID', workspaceID', workspaceIDIdx')
  BY <1>0, <1>1, <1>2, <1>3 DEF DocsInv, DocsOK, WorkspaceIDsOK
<1>6. CutOff(owner', nextWSID', workspaceID', descriptor')
  BY <1>0, <1>1, <1>3 DEF DocsInv, DocsOK, CutOff
<1>7. GivenIsComplete(owner', nextWSID', workspaceID', descriptor')
  BY <1>0, <1>1, <1>3 DEF DocsInv, DocsOK, GivenIsComplete
<1>8. DocsGrow  BY <1>0, <1>1, <1>3 DEF DocsGrow
<1> QED  BY <1>4, <1>5, <1>6, <1>7, <1>8 DEF DocsInv, DocsOK

\* The WorkspaceID that the name leads to is deactivated: none is active then.
LEMMA WorkspaceIDDeactivated ==
    ASSUME DocsInv,
           workspaceID' = IF NameIsTaken
                          THEN [workspaceID EXCEPT ![workspaceIDIdx].active = FALSE]
                          ELSE workspaceID,
           UNCHANGED <<owner, nextWSID, workspaceIDIdx, descriptor>>
    PROVE  DocsInv' /\ DocsGrow /\ \A w \in WSIDs : ~workspaceID'[w].active
<1> PICK n : n = workspaceIDIdx  OBVIOUS
<1>1. /\ workspaceID' = [v \in WSIDs |-> workspaceID'[v]]
      /\ \A v \in WSIDs \ {n} : workspaceID'[v] = workspaceID[v]
      /\ \A v \in WSIDs : workspaceID'[v] = [owner |-> workspaceID[v].owner,
                                             active |-> workspaceID'[v].active]
  <2>1. CASE ~NameIsTaken
    <3>1. workspaceID' = workspaceID  BY <2>1
    <3> QED  BY <3>1 DEF DocsInv, DocsOK, DocsType
  <2>2. CASE NameIsTaken
    <3> PICK r : r = [workspaceID[n] EXCEPT !.active = FALSE]  OBVIOUS
    <3>1. workspaceID' = [workspaceID EXCEPT ![n] = r]  BY <2>2
    <3>2. /\ workspaceID' = [v \in WSIDs |-> workspaceID'[v]]
          /\ \A v \in WSIDs \ {n} : workspaceID'[v] = workspaceID[v]
          /\ n \in WSIDs => workspaceID'[n] = r
      BY <3>1 DEF DocsInv, DocsOK, DocsType
    <3>3. n \in WSIDs => r = [owner |-> workspaceID[n].owner, active |-> FALSE]
      <4> HAVE n \in WSIDs
      <4> PICK x, y : x = workspaceID[n].owner /\ y = workspaceID[n].active  OBVIOUS
      <4>1. workspaceID[n] = [owner |-> x, active |-> y]  BY DEF DocsInv, DocsOK, DocsType
      <4> QED  BY <4>1
    <3>4. n \in WSIDs => workspaceID'[n] = [owner |-> workspaceID[n].owner,
                                            active |-> workspaceID'[n].active]
      BY <3>2, <3>3
    <3>5. \A v \in WSIDs \ {n} :
              workspaceID'[v] = [owner |-> workspaceID[v].owner, active |-> workspaceID'[v].active]
      BY <3>2 DEF DocsInv, DocsOK, DocsType
    <3> QED  BY <3>2, <3>4, <3>5
  <2> QED  BY <2>1, <2>2
<1>2. \A v \in WSIDs : ~workspaceID'[v].active
  <2>1. \A v \in WSIDs : workspaceID[v].active => v = n
    BY DEF DocsInv, DocsOK, WorkspaceIDsOK
  <2>2. 0 \notin WSIDs  BY DEF WSIDs
  <2>3. CASE NameIsTaken /\ n \in WSIDs
    <3>1. workspaceID'[n] = [workspaceID[n] EXCEPT !.active = FALSE]
      BY <2>3 DEF DocsInv, DocsOK, DocsType
    <3>2. workspaceID[n] = [owner |-> workspaceID[n].owner, active |-> workspaceID[n].active]
      BY <2>3 DEF DocsInv, DocsOK, DocsType
    <3>3. ~workspaceID'[n].active  BY <3>1, <3>2
    <3> QED  BY <1>1, <2>1, <3>3
  <2>4. CASE n \notin WSIDs  BY <1>1, <2>1, <2>4
  <2>5. CASE ~NameIsTaken  BY <2>1, <2>2, <2>5 DEF NameIsTaken
  <2> QED  BY <2>3, <2>4, <2>5
<1>3. \A v \in WSIDs : workspaceID'[v].owner = workspaceID[v].owner  BY <1>1
<1>4. DocsType(owner', nextWSID', workspaceID', workspaceIDIdx', descriptor')
  BY <1>1, <1>3 DEF DocsInv, DocsOK, DocsType
<1>5. WorkspaceIDsOK(owner', nextWSID', workspaceID', workspaceIDIdx')
  BY <1>2, <1>3 DEF DocsInv, DocsOK, WorkspaceIDsOK
<1>6. CutOff(owner', nextWSID', workspaceID', descriptor')
  BY <1>2, <1>3 DEF DocsInv, DocsOK, CutOff
<1>7. GivenIsComplete(owner', nextWSID', workspaceID', descriptor')
  BY <1>3 DEF DocsInv, DocsOK, GivenIsComplete
<1>8. nextWSID <= nextWSID'  BY DEF DocsInv, DocsOK, DocsType
<1>9. DocsGrow  BY <1>2, <1>3, <1>8 DEF DocsGrow
<1> QED  BY <1>2, <1>4, <1>5, <1>6, <1>7, <1>9 DEF DocsInv, DocsOK

-----------------------------------------------------------------------------
(* A step of a projector with its change of the documents. *)

LEMMA EventOK ==
    ASSUME WorkspacesInv, NEW p \in Projectors, proj[p].done < Len(proj[p].log)
    PROVE  EntryOK(owner, nextWSID, descriptor, p, EventOf(proj, p))
<1>1. proj[p].done + 1 \in 1 .. Len(proj[p].log)
  <2>1. Len(proj[p].log) \in Nat /\ proj[p].done \in Nat
    BY DEF WorkspacesInv, ProjTypeOK
  <2> QED  BY <2>1
<1> QED  BY <1>1 DEF WorkspacesInv, LogsOK, EventOf

LEMMA EntryStays ==
    ASSUME DocsInv, DocsInv', DocsGrow, NEW p \in Projectors, NEW e,
           EntryOK(owner, nextWSID, descriptor, p, e)
    PROVE  EntryOK(owner', nextWSID', descriptor', p, e)
<1>1. \A w \in WSIDs : w < nextWSID => w < nextWSID'
  BY DEF DocsInv, DocsOK, DocsType, DocsGrow, WSIDs
<1>2. CASE p = "InvokeCreateWorkspaceID"  BY <1>2 DEF EntryOK, DocsGrow
<1>3. CASE p # "InvokeCreateWorkspaceID"  BY <1>1, <1>3 DEF EntryOK, DocsGrow
<1> QED  BY <1>2, <1>3

LEMMA ReachedStays ==
    ASSUME DocsInv, DocsGrow, NEW p \in Projectors, NEW e, NEW at,
           EntryOK(owner, nextWSID, descriptor, p, e),
           Reached(owner, workspaceID, descriptor, p, at, e)
    PROVE  Reached(owner', workspaceID', descriptor', p, at, e)
<1>1. CASE p = "ApplyDeactivateWorkspace"
  <2>1. e \in WSIDs /\ e < nextWSID  BY <1>1 DEF EntryOK
  <2>2. workspaceID[e].owner \in Owners /\ owner[workspaceID[e].owner].made
    BY <2>1 DEF DocsInv, DocsOK, WorkspaceIDsOK
  <2> QED  BY <1>1, <2>1, <2>2 DEF Reached, DocsGrow
<1>2. CASE p = "InitializeWorkspace"
  <2>1. e \in WSIDs  BY <1>2 DEF EntryOK
  <2> QED  BY <1>2, <2>1 DEF Reached, DocsGrow
<1> QED  BY <1>1, <1>2 DEF Reached

\* Projector p comes to step s of the event at hand, or begins with another.
Moves(pr, p, s, d) ==
    \/ Comes(proj, pr, p, s, d) /\ s = "start"
    \/ /\ Comes(proj, pr, p, s, d)
       /\ d = proj[p].done /\ d < Len(proj[p].log)
       /\ Reached(owner', workspaceID', descriptor', p, s, EventOf(proj, p))

LEMMA StepKeepsInv ==
    ASSUME WorkspacesInv, DocsInv', DocsGrow,
           ProjTypeOK(proj'), LogsExtend(proj, proj'),
           \A p \in Projectors : \A i \in 1 .. Len(proj'[p].log) :
               \/ i \in 1 .. Len(proj[p].log)
               \/ EntryOK(owner', nextWSID', descriptor', p, proj'[p].log[i]),
           \A p \in Projectors :
               \/ SamePlace(proj, proj', p)
               \/ proj'[p].at = "start"
               \/ /\ proj'[p].done = proj[p].done /\ proj[p].done < Len(proj[p].log)
                  /\ Reached(owner', workspaceID', descriptor', p, proj'[p].at, EventOf(proj, p))
    PROVE  WorkspacesInv'
<1>0. DocsInv  BY DEF WorkspacesInv
<1>1. LogsOK(proj', owner', nextWSID', descriptor')
  <2> SUFFICES ASSUME NEW p \in Projectors, NEW i \in 1 .. Len(proj'[p].log)
               PROVE  EntryOK(owner', nextWSID', descriptor', p, proj'[p].log[i])
    BY DEF LogsOK
  <2>1. CASE i \in 1 .. Len(proj[p].log)
    <3>1. EntryOK(owner, nextWSID, descriptor, p, proj[p].log[i])
      BY <2>1 DEF WorkspacesInv, LogsOK
    <3>2. proj'[p].log[i] = proj[p].log[i]  BY <2>1 DEF LogsExtend
    <3> QED  BY <1>0, <3>1, <3>2, EntryStays
  <2> QED  BY <2>1
<1>2. StepsOK(proj', owner', workspaceID', descriptor')
  <2> SUFFICES ASSUME NEW p \in Projectors, proj'[p].at # "start"
               PROVE  Reached(owner', workspaceID', descriptor', p, proj'[p].at, EventOf(proj', p))
    BY DEF StepsOK
  <2>1. proj'[p].done = proj[p].done /\ proj[p].done < Len(proj[p].log)
    BY DEF SamePlace, WorkspacesInv, ProjTypeOK
  <2>2. EventOf(proj', p) = EventOf(proj, p)
    <3>1. Len(proj[p].log) \in Nat /\ proj[p].done \in Nat  BY DEF WorkspacesInv, ProjTypeOK
    <3>2. proj[p].done + 1 \in 1 .. Len(proj[p].log)  BY <2>1, <3>1
    <3> QED  BY <2>1, <3>2 DEF LogsExtend, EventOf
  <2>3. CASE SamePlace(proj, proj', p)
    <3>1. Reached(owner, workspaceID, descriptor, p, proj[p].at, EventOf(proj, p))
      BY <2>3 DEF SamePlace, WorkspacesInv, StepsOK
    <3>2. proj'[p].at = proj[p].at  BY <2>3 DEF SamePlace
    <3> QED  BY <1>0, <2>1, <2>2, <3>1, <3>2, EventOK, ReachedStays
  <2> QED  BY <2>2, <2>3
<1> QED  BY <1>1, <1>2 DEF WorkspacesInv

LEMMA MoveKeepsInv ==
    ASSUME WorkspacesInv, DocsInv', DocsGrow, NEW p \in Projectors, NEW s, NEW d,
           Moves(proj', p, s, d)
    PROVE  WorkspacesInv'
<1>1. Comes(proj, proj', p, s, d)  BY DEF Moves
<1>2. ProjTypeOK(proj') /\ LogsExtend(proj, proj')  BY <1>1 DEF Comes, LogsExtend
<1>3. \A q \in Projectors : \A i \in 1 .. Len(proj'[q].log) : i \in 1 .. Len(proj[q].log)
  BY <1>1 DEF Comes
<1>4. \A q \in Projectors :
          \/ SamePlace(proj, proj', q)
          \/ proj'[q].at = "start"
          \/ /\ proj'[q].done = proj[q].done /\ proj[q].done < Len(proj[q].log)
             /\ Reached(owner', workspaceID', descriptor', q, proj'[q].at, EventOf(proj, q))
  <2>1. \A q \in Projectors \ {p} : SamePlace(proj, proj', q)  BY <1>1 DEF Comes
  <2>2. proj'[p].at = s /\ proj'[p].done = d  BY <1>1 DEF Comes
  <2>3. s = "start" \/ (/\ d = proj[p].done /\ d < Len(proj[p].log)
                        /\ Reached(owner', workspaceID', descriptor', p, s, EventOf(proj, p)))
    BY DEF Moves
  <2> QED  BY <2>1, <2>2, <2>3
<1> QED  BY <1>2, <1>3, <1>4, StepKeepsInv

LEMMA MoveAndLogKeepsInv ==
    ASSUME WorkspacesInv, DocsInv', DocsGrow, NEW p \in Projectors, NEW s, NEW d, NEW pr,
           Moves(pr, p, s, d), NEW q \in Projectors, NEW e \in Nat, proj' = Triggers(pr, q, e),
           EntryOK(owner', nextWSID', descriptor', q, e)
    PROVE  WorkspacesInv'
<1>1. Comes(proj, pr, p, s, d) /\ ProjTypeOK(pr)  BY DEF Moves, Comes
<1>2. Logged(pr, proj', q, e)  BY <1>1, EventIsLogged
<1>3. ProjTypeOK(proj') /\ LogsExtend(proj, proj')
  BY <1>1, <1>2 DEF Comes, Logged, LogsExtend
<1>4. \A x \in Projectors : \A i \in 1 .. Len(proj'[x].log) :
          \/ i \in 1 .. Len(proj[x].log)
          \/ EntryOK(owner', nextWSID', descriptor', x, proj'[x].log[i])
  BY <1>1, <1>2 DEF Comes, Logged
<1>5. \A x \in Projectors :
          \/ SamePlace(proj, proj', x)
          \/ proj'[x].at = "start"
          \/ /\ proj'[x].done = proj[x].done /\ proj[x].done < Len(proj[x].log)
             /\ Reached(owner', workspaceID', descriptor', x, proj'[x].at, EventOf(proj, x))
  <2>1. \A x \in Projectors \ {p} : SamePlace(proj, proj', x)
    BY <1>1, <1>2 DEF Comes, Logged, SamePlace
  <2>2. proj'[p].at = s /\ proj'[p].done = d  BY <1>1, <1>2 DEF Comes, Logged, SamePlace
  <2>3. s = "start" \/ (/\ d = proj[p].done /\ d < Len(proj[p].log)
                        /\ Reached(owner', workspaceID', descriptor', p, s, EventOf(proj, p)))
    BY DEF Moves
  <2> QED  BY <2>1, <2>2, <2>3
<1> QED  BY <1>3, <1>4, <1>5, StepKeepsInv

LEMMA LogKeepsInv ==
    ASSUME WorkspacesInv, DocsInv', DocsGrow, NEW q \in Projectors, NEW e \in Nat,
           proj' = Triggers(proj, q, e), EntryOK(owner', nextWSID', descriptor', q, e)
    PROVE  WorkspacesInv'
<1>1. Logged(proj, proj', q, e)  BY EventIsLogged DEF WorkspacesInv
<1>2. \A x \in Projectors : \A i \in 1 .. Len(proj'[x].log) :
          \/ i \in 1 .. Len(proj[x].log)
          \/ EntryOK(owner', nextWSID', descriptor', x, proj'[x].log[i])
  BY <1>1 DEF Logged
<1> QED  BY <1>1, <1>2, StepKeepsInv DEF Logged

\* The places a projector may come to.
LEMMA Places ==
    ASSUME WorkspacesInv, NEW p \in Projectors
    PROVE  /\ Moves(FromSaved(p), p, "start", proj[p].saved)
           /\ proj[p].done < Len(proj[p].log) =>
                 Moves(EventDone(p), p, "start", proj[p].done + 1)
           /\ \A s \in Steps :
                 /\ proj[p].done < Len(proj[p].log)
                 /\ Reached(owner', workspaceID', descriptor', p, s, EventOf(proj, p))
                 => Moves(ToStep(p, s), p, s, proj[p].done)
BY ComesFromSaved, ComesToNextEvent, ComesToStep DEF WorkspacesInv, Moves

\* Updates of the documents, as functions of the documents they change.
IsOwner(r) == r = [made |-> r.made, active |-> r.active, wsid |-> r.wsid, error |-> r.error]

LEMMA OwnerMadeUpdate ==
    ASSUME NEW r, IsOwner(r), NEW x
    PROVE  [r EXCEPT !.made = x]
               = [made |-> x, active |-> r.active, wsid |-> r.wsid, error |-> r.error]
<1> PICK m, a, v, f : m = r.made /\ a = r.active /\ v = r.wsid /\ f = r.error
  OBVIOUS
<1>1. r = [made |-> m, active |-> a, wsid |-> v, error |-> f]  BY DEF IsOwner
<1>2. [[made |-> m, active |-> a, wsid |-> v, error |-> f] EXCEPT !.made = x]
          = [made |-> x, active |-> a, wsid |-> v, error |-> f]
  OBVIOUS
<1> QED  BY <1>1, <1>2

LEMMA OwnerActiveUpdate ==
    ASSUME NEW r, IsOwner(r), NEW x
    PROVE  [r EXCEPT !.active = x]
               = [made |-> r.made, active |-> x, wsid |-> r.wsid, error |-> r.error]
<1> PICK m, a, v, f : m = r.made /\ a = r.active /\ v = r.wsid /\ f = r.error
  OBVIOUS
<1>1. r = [made |-> m, active |-> a, wsid |-> v, error |-> f]  BY DEF IsOwner
<1>2. [[made |-> m, active |-> a, wsid |-> v, error |-> f] EXCEPT !.active = x]
          = [made |-> m, active |-> x, wsid |-> v, error |-> f]
  OBVIOUS
<1> QED  BY <1>1, <1>2

LEMMA OwnerWsidUpdate ==
    ASSUME NEW r, IsOwner(r), NEW x
    PROVE  [r EXCEPT !.wsid = x]
               = [made |-> r.made, active |-> r.active, wsid |-> x, error |-> r.error]
<1> PICK m, a, v, f : m = r.made /\ a = r.active /\ v = r.wsid /\ f = r.error
  OBVIOUS
<1>1. r = [made |-> m, active |-> a, wsid |-> v, error |-> f]  BY DEF IsOwner
<1>2. [[made |-> m, active |-> a, wsid |-> v, error |-> f] EXCEPT !.wsid = x]
          = [made |-> m, active |-> a, wsid |-> x, error |-> f]
  OBVIOUS
<1> QED  BY <1>1, <1>2

LEMMA OwnerErrorUpdate ==
    ASSUME NEW r, IsOwner(r), NEW x
    PROVE  [r EXCEPT !.error = x]
               = [made |-> r.made, active |-> r.active, wsid |-> r.wsid, error |-> x]
<1> PICK m, a, v, f : m = r.made /\ a = r.active /\ v = r.wsid /\ f = r.error
  OBVIOUS
<1>1. r = [made |-> m, active |-> a, wsid |-> v, error |-> f]  BY DEF IsOwner
<1>2. [[made |-> m, active |-> a, wsid |-> v, error |-> f] EXCEPT !.error = x]
          = [made |-> m, active |-> a, wsid |-> v, error |-> x]
  OBVIOUS
<1> QED  BY <1>1, <1>2

IsDescriptor(r) ==
    r = [status |-> r.status, createError |-> r.createError,
         completed |-> r.completed, initError |-> r.initError]

LEMMA DescriptorStatusUpdate ==
    ASSUME NEW r, IsDescriptor(r), NEW x
    PROVE  [r EXCEPT !.status = x]
               = [status |-> x, createError |-> r.createError, completed |-> r.completed, initError |-> r.initError]
<1> PICK t, c, n, i : t = r.status /\ c = r.createError /\ n = r.completed /\ i = r.initError
  OBVIOUS
<1>1. r = [status |-> t, createError |-> c, completed |-> n, initError |-> i]  BY DEF IsDescriptor
<1>2. [[status |-> t, createError |-> c, completed |-> n, initError |-> i] EXCEPT !.status = x]
          = [status |-> x, createError |-> c, completed |-> n, initError |-> i]
  OBVIOUS
<1> QED  BY <1>1, <1>2

LEMMA DescriptorCreateErrorUpdate ==
    ASSUME NEW r, IsDescriptor(r), NEW x
    PROVE  [r EXCEPT !.createError = x]
               = [status |-> r.status, createError |-> x, completed |-> r.completed, initError |-> r.initError]
<1> PICK t, c, n, i : t = r.status /\ c = r.createError /\ n = r.completed /\ i = r.initError
  OBVIOUS
<1>1. r = [status |-> t, createError |-> c, completed |-> n, initError |-> i]  BY DEF IsDescriptor
<1>2. [[status |-> t, createError |-> c, completed |-> n, initError |-> i] EXCEPT !.createError = x]
          = [status |-> t, createError |-> x, completed |-> n, initError |-> i]
  OBVIOUS
<1> QED  BY <1>1, <1>2

LEMMA DescriptorCompletedUpdate ==
    ASSUME NEW r, IsDescriptor(r), NEW x
    PROVE  [r EXCEPT !.completed = x]
               = [status |-> r.status, createError |-> r.createError, completed |-> x, initError |-> r.initError]
<1> PICK t, c, n, i : t = r.status /\ c = r.createError /\ n = r.completed /\ i = r.initError
  OBVIOUS
<1>1. r = [status |-> t, createError |-> c, completed |-> n, initError |-> i]  BY DEF IsDescriptor
<1>2. [[status |-> t, createError |-> c, completed |-> n, initError |-> i] EXCEPT !.completed = x]
          = [status |-> t, createError |-> c, completed |-> x, initError |-> i]
  OBVIOUS
<1> QED  BY <1>1, <1>2

LEMMA DescriptorInitErrorUpdate ==
    ASSUME NEW r, IsDescriptor(r), NEW x
    PROVE  [r EXCEPT !.initError = x]
               = [status |-> r.status, createError |-> r.createError, completed |-> r.completed, initError |-> x]
<1> PICK t, c, n, i : t = r.status /\ c = r.createError /\ n = r.completed /\ i = r.initError
  OBVIOUS
<1>1. r = [status |-> t, createError |-> c, completed |-> n, initError |-> i]  BY DEF IsDescriptor
<1>2. [[status |-> t, createError |-> c, completed |-> n, initError |-> i] EXCEPT !.initError = x]
          = [status |-> t, createError |-> c, completed |-> n, initError |-> x]
  OBVIOUS
<1> QED  BY <1>1, <1>2

LEMMA OwnerIsTold ==
    ASSUME DocsInv, NEW o \in Owners, NEW x, NEW y
    PROVE  [owner EXCEPT ![o].wsid = x, ![o].error = y]
               = [owner EXCEPT ![o] = [made |-> owner[o].made, active |-> owner[o].active,
                                       wsid |-> x, error |-> y]]
<1> PICK r : r = owner[o]  OBVIOUS
<1>1. IsOwner(r) /\ owner = [q \in Owners |-> owner[q]]
  BY DEF DocsInv, DocsOK, DocsType, IsOwner
<1> PICK r2 : r2 = [r EXCEPT !.wsid = x]  OBVIOUS
<1>2. r2 = [made |-> r.made, active |-> r.active, wsid |-> x, error |-> r.error]
  BY <1>1, OwnerWsidUpdate
<1>3. IsOwner(r2) /\ r2.made = r.made /\ r2.active = r.active /\ r2.wsid = x
  BY <1>2 DEF IsOwner
<1>4. [r2 EXCEPT !.error = y] = [made |-> r2.made, active |-> r2.active, wsid |-> r2.wsid,
                                 error |-> y]
  BY <1>3, OwnerErrorUpdate
<1>5. [owner EXCEPT ![o].wsid = x, ![o].error = y] = [owner EXCEPT ![o] = [r2 EXCEPT !.error = y]]
  BY <1>1
<1> QED  BY <1>3, <1>4, <1>5

LEMMA OwnerIsMade ==
    ASSUME DocsInv, NEW o \in Owners, NEW x, NEW y
    PROVE  [owner EXCEPT ![o].made = x, ![o].active = y]
               = [owner EXCEPT ![o] = [made |-> x, active |-> y,
                                       wsid |-> owner[o].wsid, error |-> owner[o].error]]
<1> PICK r : r = owner[o]  OBVIOUS
<1>1. IsOwner(r) /\ owner = [q \in Owners |-> owner[q]]
  BY DEF DocsInv, DocsOK, DocsType, IsOwner
<1> PICK r2 : r2 = [r EXCEPT !.made = x]  OBVIOUS
<1>2. r2 = [made |-> x, active |-> r.active, wsid |-> r.wsid, error |-> r.error]
  BY <1>1, OwnerMadeUpdate
<1>3. IsOwner(r2) /\ r2.made = x /\ r2.wsid = r.wsid /\ r2.error = r.error
  BY <1>2 DEF IsOwner
<1>4. [r2 EXCEPT !.active = y] = [made |-> r2.made, active |-> y, wsid |-> r2.wsid,
                                  error |-> r2.error]
  BY <1>3, OwnerActiveUpdate
<1>5. [owner EXCEPT ![o].made = x, ![o].active = y] = [owner EXCEPT ![o] = [r2 EXCEPT !.active = y]]
  BY <1>1
<1> QED  BY <1>3, <1>4, <1>5

LEMMA OwnerIsDeactivated ==
    ASSUME DocsInv, NEW o \in Owners, NEW x
    PROVE  [owner EXCEPT ![o].active = x]
               = [owner EXCEPT ![o] = [made |-> owner[o].made, active |-> x,
                                       wsid |-> owner[o].wsid, error |-> owner[o].error]]
<1> PICK r : r = owner[o]  OBVIOUS
<1>1. IsOwner(r)  BY DEF DocsInv, DocsOK, DocsType, IsOwner
<1>2. [r EXCEPT !.active = x] = [made |-> r.made, active |-> x, wsid |-> r.wsid,
                                 error |-> r.error]
  BY <1>1, OwnerActiveUpdate
<1>3. [owner EXCEPT ![o].active = x] = [owner EXCEPT ![o] = [r EXCEPT !.active = x]]
  OBVIOUS
<1> QED  BY <1>2, <1>3

LEMMA DescriptorStatusSet ==
    ASSUME DocsInv, NEW w \in WSIDs, NEW x
    PROVE  [descriptor EXCEPT ![w].status = x]
               = [descriptor EXCEPT ![w] =
                     [status |-> x, createError |-> descriptor[w].createError,
                      completed |-> descriptor[w].completed,
                      initError |-> descriptor[w].initError]]
<1> PICK r : r = descriptor[w]  OBVIOUS
<1>1. IsDescriptor(r)  BY DEF DocsInv, DocsOK, DocsType, IsDescriptor
<1>2. [r EXCEPT !.status = x] = [status |-> x, createError |-> r.createError,
                                 completed |-> r.completed, initError |-> r.initError]
  BY <1>1, DescriptorStatusUpdate
<1>3. [descriptor EXCEPT ![w].status = x] = [descriptor EXCEPT ![w] = [r EXCEPT !.status = x]]
  OBVIOUS
<1> QED  BY <1>2, <1>3

LEMMA DescriptorIsCompleted ==
    ASSUME DocsInv, NEW w \in WSIDs, NEW x, NEW y
    PROVE  [descriptor EXCEPT ![w].completed = x, ![w].initError = y]
               = [descriptor EXCEPT ![w] =
                     [status |-> descriptor[w].status, createError |-> descriptor[w].createError,
                      completed |-> x, initError |-> y]]
<1> PICK r : r = descriptor[w]  OBVIOUS
<1>1. IsDescriptor(r) /\ descriptor = [v \in WSIDs |-> descriptor[v]]
  BY DEF DocsInv, DocsOK, DocsType, IsDescriptor
<1> PICK r2 : r2 = [r EXCEPT !.completed = x]  OBVIOUS
<1>2. r2 = [status |-> r.status, createError |-> r.createError, completed |-> x,
            initError |-> r.initError]
  BY <1>1, DescriptorCompletedUpdate
<1>3. IsDescriptor(r2) /\ r2.status = r.status /\ r2.createError = r.createError
      /\ r2.completed = x
  BY <1>2 DEF IsDescriptor
<1>4. [r2 EXCEPT !.initError = y]
          = [status |-> r2.status, createError |-> r2.createError, completed |-> r2.completed,
             initError |-> y]
  BY <1>3, DescriptorInitErrorUpdate
<1>5. [descriptor EXCEPT ![w].completed = x, ![w].initError = y]
          = [descriptor EXCEPT ![w] = [r2 EXCEPT !.initError = y]]
  BY <1>1
<1> QED  BY <1>3, <1>4, <1>5

-----------------------------------------------------------------------------
(* The actions. *)

LEMMA CreateOwnerKeepsInv == WorkspacesInv /\ CreateOwner => WorkspacesInv'
<1> SUFFICES ASSUME WorkspacesInv, CreateOwner  PROVE WorkspacesInv'
  OBVIOUS
<1>1. PICK o \in Owners :
          /\ ~owner[o].made
          /\ owner' = [owner EXCEPT ![o].made = TRUE, ![o].active = TRUE]
          /\ proj' = Triggers(proj, "InvokeCreateWorkspaceID", o)
  BY DEF CreateOwner
<1>2. DocsInv /\ UNCHANGED <<nextWSID, workspaceID, workspaceIDIdx, descriptor>>
  BY DEF CreateOwner, WorkspacesInv
<1>3. PICK yes, v, f : yes = TRUE /\ v = owner[o].wsid /\ f = owner[o].error  OBVIOUS
<1>4. PICK r : r = [made |-> yes, active |-> yes, wsid |-> v, error |-> f]  OBVIOUS
<1>5. DocsInv' /\ DocsGrow /\ owner'[o] = r
  <2>1. owner' = [owner EXCEPT ![o].made = yes, ![o].active = yes]  BY <1>1, <1>3
  <2>2. owner' = [owner EXCEPT ![o] = [made |-> yes, active |-> yes,
                                       wsid |-> owner[o].wsid, error |-> owner[o].error]]
    BY <1>2, <2>1, OwnerIsMade
  <2>3. owner' = [owner EXCEPT ![o] = r]  BY <1>3, <1>4, <2>2
  <2>4. /\ r = [made |-> r.made, active |-> r.active, wsid |-> r.wsid, error |-> r.error]
        /\ r.made = yes /\ r.wsid = v /\ r.error = f
    BY <1>4
  <2>5. r.wsid # 0 /\ ~r.error => /\ r.wsid \in WSIDs /\ r.wsid < nextWSID
                                  /\ workspaceID[r.wsid].owner = o /\ descriptor[r.wsid].completed
    BY <1>2, <1>3, <2>4 DEF DocsInv, DocsOK, GivenIsComplete
  <2>6. owner[o].made => r.made /\ (~owner[o].active => ~r.active)  BY <1>1
  <2> QED  BY <1>2, <2>3, <2>4, <2>5, <2>6, OwnerChanges
<1>6. EntryOK(owner', nextWSID', descriptor', "InvokeCreateWorkspaceID", o)
  BY <1>3, <1>4, <1>5 DEF EntryOK
<1>7. o \in Nat /\ "InvokeCreateWorkspaceID" \in Projectors  BY DEF Owners, Projectors
<1> QED  BY <1>1, <1>5, <1>6, <1>7, LogKeepsInv

LEMMA CreateWorkspaceIDKeepsInv ==
    ASSUME WorkspacesInv, NEW o, EntryOK(owner, nextWSID, descriptor, "InvokeCreateWorkspaceID", o),
           NEW p \in Projectors, NEW s, NEW d, NEW pr, Moves(pr, p, s, d),
           CreateWorkspaceID(o, pr)
    PROVE  WorkspacesInv'
<1>0. DocsInv /\ o \in Owners /\ owner[o].made  BY DEF WorkspacesInv, EntryOK
<1>1. CASE NameIsTaken
  <2>1. proj' = pr /\ UNCHANGED docVars  BY <1>1 DEF CreateWorkspaceID, docVars
  <2> QED  BY <1>0, <2>1, DocsStay, MoveKeepsInv
<1>2. CASE ~NameIsTaken
  <2>1. /\ nextWSID \in WSIDs /\ nextWSID' = nextWSID + 1 /\ workspaceIDIdx' = nextWSID
        /\ workspaceID' = [workspaceID EXCEPT ![nextWSID] = [owner |-> o, active |-> TRUE]]
        /\ proj' = Triggers(pr, "InvokeCreateWorkspace", nextWSID)
        /\ UNCHANGED <<owner, descriptor>>
    BY <1>2 DEF CreateWorkspaceID
  <2>2. DocsInv' /\ DocsGrow  BY <1>0, <1>2, <2>1, WorkspaceIDCreated
  <2>3. nextWSID \in Nat /\ nextWSID < nextWSID'  BY <2>1 DEF WSIDs
  <2>4. EntryOK(owner', nextWSID', descriptor', "InvokeCreateWorkspace", nextWSID)
    BY <2>1, <2>3 DEF EntryOK
  <2>5. "InvokeCreateWorkspace" \in Projectors  BY DEF Projectors
  <2> QED  BY <2>1, <2>2, <2>3, <2>4, <2>5, MoveAndLogKeepsInv
<1> QED  BY <1>1, <1>2

LEMMA CreateWorkspaceKeepsInv ==
    ASSUME WorkspacesInv, NEW w, EntryOK(owner, nextWSID, descriptor, "InvokeCreateWorkspace", w),
           NEW p \in Projectors, NEW s, NEW d, NEW pr, Moves(pr, p, s, d),
           CreateWorkspace(w, pr)
    PROVE  WorkspacesInv'
<1>0. DocsInv /\ w \in WSIDs /\ w < nextWSID /\ w \in Nat
  BY DEF WorkspacesInv, EntryOK, WSIDs
<1>1. CASE descriptor[w].status # "none"
  <2>1. proj' = pr /\ UNCHANGED docVars  BY <1>1 DEF CreateWorkspace, docVars
  <2> QED  BY <1>0, <2>1, DocsStay, MoveKeepsInv
<1>2. CASE descriptor[w].status = "none"
  <2>1. PICK e \in BOOLEAN :
            descriptor' = [descriptor EXCEPT ![w] =
                              [NoDescriptor EXCEPT !.status = "Active", !.createError = e]]
    BY <1>2 DEF CreateWorkspace
  <2>2. /\ proj' = Triggers(pr, "InitializeWorkspace", w)
        /\ UNCHANGED <<owner, nextWSID, workspaceID, workspaceIDIdx>>
    BY <1>2 DEF CreateWorkspace
  <2>a. PICK no : no = FALSE  OBVIOUS
  <2>b. PICK r : r = [status |-> "Active", createError |-> e, completed |-> no, initError |-> no]
    OBVIOUS
  <2>3. descriptor' = [descriptor EXCEPT ![w] = r]
    <3>n. PICK n : n = [NoDescriptor EXCEPT !.status = "Active"]  OBVIOUS
    <3>1. NoDescriptor = [status |-> "none", createError |-> no, completed |-> no,
                          initError |-> no]
      BY <2>a DEF NoDescriptor
    <3>2. IsDescriptor(NoDescriptor) /\ NoDescriptor.createError = no
          /\ NoDescriptor.completed = no /\ NoDescriptor.initError = no
      BY <3>1 DEF IsDescriptor
    <3>3. n = [status |-> "Active", createError |-> no, completed |-> no, initError |-> no]
      BY <3>n, <3>2, DescriptorStatusUpdate
    <3>4. IsDescriptor(n) /\ n.status = "Active" /\ n.completed = no /\ n.initError = no
      BY <3>3 DEF IsDescriptor
    <3>5. [n EXCEPT !.createError = e] = r  BY <2>b, <3>4, DescriptorCreateErrorUpdate
    <3>6. descriptor' = [descriptor EXCEPT ![w] = [n EXCEPT !.createError = e]]
      BY <2>1, <3>n
    <3> QED  BY <3>5, <3>6
  <2>r. /\ r = [status |-> r.status, createError |-> r.createError,
                completed |-> r.completed, initError |-> r.initError]
        /\ r.status = "Active"
    BY <2>b
  <2>4. ~descriptor[w].completed  BY <1>0, <1>2 DEF DocsInv, DocsOK, GivenIsComplete
  <2>5. DocsInv' /\ DocsGrow /\ descriptor'[w] = r
    BY <1>0, <2>r, <2>2, <2>3, <2>4, DescriptorChanges
  <2>6. EntryOK(owner', nextWSID', descriptor', "InitializeWorkspace", w)
    BY <1>0, <2>r, <2>2, <2>5 DEF EntryOK
  <2>7. "InitializeWorkspace" \in Projectors  BY DEF Projectors
  <2> QED  BY <1>0, <2>2, <2>5, <2>6, <2>7, MoveAndLogKeepsInv
<1> QED  BY <1>1, <1>2

LEMMA InvokeKeepsInv ==
    WorkspacesInv /\ (InvokeCreateWorkspaceID \/ InvokeCreateWorkspace) => WorkspacesInv'
<1> SUFFICES ASSUME WorkspacesInv, NEW p \in {"InvokeCreateWorkspaceID", "InvokeCreateWorkspace"},
                    IF p = "InvokeCreateWorkspaceID" THEN InvokeCreateWorkspaceID
                                                     ELSE InvokeCreateWorkspace
             PROVE  WorkspacesInv'
  OBVIOUS
<1>0. p \in Projectors /\ proj[p].done < Len(proj[p].log) /\ DocsInv
      /\ Event(p) = EventOf(proj, p) /\ "owner" \in Steps
  BY DEF InvokeCreateWorkspaceID, InvokeCreateWorkspace, Handles, Projectors, WorkspacesInv,
         Event, EventOf, Steps
<1>1. EntryOK(owner, nextWSID, descriptor, p, Event(p))  BY <1>0, EventOK
<1>2. Reached(owner', workspaceID', descriptor', p, "owner", EventOf(proj, p))
  BY DEF Reached
<1>3. /\ Moves(EventDone(p), p, "start", proj[p].done + 1)
      /\ Moves(ToStep(p, "owner"), p, "owner", proj[p].done)
  BY <1>0, <1>2, Places
<1>4. CASE proj' = ToStep(p, "owner") /\ UNCHANGED docVars
  BY <1>0, <1>3, <1>4, DocsStay, MoveKeepsInv
<1>5. CASE p = "InvokeCreateWorkspaceID"
  <2>1. \/ CreateWorkspaceID(Event(p), EventDone(p))
        \/ CreateWorkspaceID(Event(p), ToStep(p, "owner"))
        \/ proj' = ToStep(p, "owner") /\ UNCHANGED docVars
    BY <1>5 DEF InvokeCreateWorkspaceID
  <2> QED  BY <1>0, <1>1, <1>3, <1>4, <1>5, <2>1, CreateWorkspaceIDKeepsInv
<1>6. CASE p = "InvokeCreateWorkspace"
  <2>1. \/ CreateWorkspace(Event(p), EventDone(p))
        \/ CreateWorkspace(Event(p), ToStep(p, "owner"))
        \/ proj' = ToStep(p, "owner") /\ UNCHANGED docVars
    BY <1>6 DEF InvokeCreateWorkspace
  <2> QED  BY <1>0, <1>1, <1>3, <1>4, <1>6, <2>1, CreateWorkspaceKeepsInv
<1> QED  BY <1>5, <1>6

LEMMA UpdateOwnerKeepsDocs ==
    ASSUME DocsInv, NEW o \in Owners, NEW w, NEW err, UpdateOwner(o, w, err),
           UNCHANGED <<nextWSID, workspaceID, workspaceIDIdx, descriptor>>,
           w # 0 /\ ~err => /\ w \in WSIDs /\ w < nextWSID
                            /\ workspaceID[w].owner = o /\ descriptor[w].completed
    PROVE  DocsInv' /\ DocsGrow
<1>1. owner' = [owner EXCEPT ![o] = [made |-> owner[o].made, active |-> owner[o].active,
                                     wsid |-> w, error |-> err]]
  BY OwnerIsTold DEF UpdateOwner
<1>2. PICK r : r = [made |-> owner[o].made, active |-> owner[o].active, wsid |-> w, error |-> err]
  OBVIOUS
<1>3. /\ r = [made |-> r.made, active |-> r.active, wsid |-> r.wsid, error |-> r.error]
      /\ r.made = owner[o].made /\ r.active = owner[o].active /\ r.wsid = w /\ r.error = err
  BY <1>2
<1>4. owner' = [owner EXCEPT ![o] = r]  BY <1>1, <1>2
<1>5. owner[o].made => r.made /\ (~owner[o].active => ~r.active)  BY <1>3
<1>6. r.wsid # 0 /\ ~r.error => /\ r.wsid \in WSIDs /\ r.wsid < nextWSID
                                /\ workspaceID[r.wsid].owner = o /\ descriptor[r.wsid].completed
  BY <1>3
<1> QED  BY <1>3, <1>4, <1>5, <1>6, OwnerChanges

LEMMA TellOfFailedCallKeepsInv ==
    ASSUME WorkspacesInv, NEW p \in Projectors, TellOfFailedCall(p)
    PROVE  WorkspacesInv'
<1>0. /\ DocsInv /\ proj[p].done < Len(proj[p].log) /\ Event(p) = EventOf(proj, p)
      /\ p \in {"InvokeCreateWorkspaceID", "InvokeCreateWorkspace"}
      /\ UNCHANGED <<nextWSID, workspaceID, workspaceIDIdx, descriptor>>
  BY DEF TellOfFailedCall, Handles, WorkspacesInv, Event, EventOf
<1>1. PICK o : o = IF p = "InvokeCreateWorkspaceID" THEN Event(p) ELSE workspaceID[Event(p)].owner
  OBVIOUS
<1>2. /\ UpdateOwner(o, 0, TRUE) \/ owner' = owner
      /\ proj' = EventDone(p) \/ proj' = FromSaved(p)
  BY <1>1 DEF TellOfFailedCall
<1>3. o \in Owners
  <2>1. EntryOK(owner, nextWSID, descriptor, p, Event(p))  BY <1>0, EventOK
  <2>2. CASE p = "InvokeCreateWorkspaceID"  BY <1>1, <2>1, <2>2 DEF EntryOK
  <2>3. CASE p = "InvokeCreateWorkspace"
    BY <1>0, <1>1, <2>1, <2>3 DEF EntryOK, DocsInv, DocsOK, WorkspaceIDsOK
  <2> QED  BY <1>0, <2>2, <2>3
<1>4. DocsInv' /\ DocsGrow
  <2>1. CASE UpdateOwner(o, 0, TRUE)  BY <1>0, <1>3, <2>1, UpdateOwnerKeepsDocs
  <2>2. CASE owner' = owner  BY <1>0, <2>2, DocsStay DEF docVars
  <2> QED  BY <1>2, <2>1, <2>2
<1>5. /\ Moves(FromSaved(p), p, "start", proj[p].saved)
      /\ Moves(EventDone(p), p, "start", proj[p].done + 1)
  BY <1>0, Places
<1> QED  BY <1>2, <1>4, <1>5, MoveKeepsInv

LEMMA StartInitKeepsInv == WorkspacesInv /\ StartInit => WorkspacesInv'
<1> SUFFICES ASSUME WorkspacesInv, StartInit  PROVE WorkspacesInv'
  OBVIOUS
<1>0. PICK p : p = "InitializeWorkspace"  OBVIOUS
<1>1. /\ p \in Projectors /\ proj[p].done < Len(proj[p].log) /\ DocsInv /\ UNCHANGED docVars
      /\ proj' = ToStep(p, "error") \/ proj' = ToStep(p, "build") \/ proj' = EventDone(p)
  BY <1>0 DEF StartInit, Handles, Projectors, WorkspacesInv
<1>2. DocsInv' /\ DocsGrow  BY <1>1, DocsStay
<1>3. \A s \in {"error", "build"} : Moves(ToStep(p, s), p, s, proj[p].done)
  <2> TAKE s \in {"error", "build"}
  <2>1. s \in Steps /\ Reached(owner', workspaceID', descriptor', p, s, EventOf(proj, p))
    BY <1>0 DEF Steps, Reached
  <2> QED  BY <1>1, <2>1, Places
<1>4. Moves(EventDone(p), p, "start", proj[p].done + 1)  BY <1>1, Places
<1> QED  BY <1>1, <1>2, <1>3, <1>4, MoveKeepsInv

LEMMA CompletedKeepsDocs ==
    ASSUME DocsInv, NEW w \in WSIDs, w < nextWSID, descriptor[w].status # "none", NEW err,
           Completed(w, err), UNCHANGED <<owner, nextWSID, workspaceID, workspaceIDIdx>>
    PROVE  DocsInv' /\ DocsGrow /\ descriptor'[w].completed
<1>1. PICK yes : yes = TRUE  OBVIOUS
<1>2. PICK r : r = [status |-> descriptor[w].status, createError |-> descriptor[w].createError,
                    completed |-> yes, initError |-> err]
  OBVIOUS
<1>3. descriptor' = [descriptor EXCEPT ![w] = r]
  <2>1. descriptor' = [descriptor EXCEPT ![w].completed = yes, ![w].initError = err]
    BY <1>1 DEF Completed
  <2> QED  BY <1>2, <2>1, DescriptorIsCompleted
<1>4. /\ r = [status |-> r.status, createError |-> r.createError,
              completed |-> r.completed, initError |-> r.initError]
      /\ r.status = descriptor[w].status /\ r.completed = yes
  BY <1>2
<1>5. r.status = "Inactive" =>
          ~workspaceID[w].active /\ ~owner[workspaceID[w].owner].active
  BY <1>4 DEF DocsInv, DocsOK, CutOff
<1>6. DocsInv' /\ DocsGrow /\ descriptor'[w] = r
  BY <1>1, <1>3, <1>4, <1>5, DescriptorChanges
<1> QED  BY <1>1, <1>4, <1>6

LEMMA CompleteInitKeepsInv == WorkspacesInv /\ CompleteInit => WorkspacesInv'
<1> SUFFICES ASSUME WorkspacesInv, CompleteInit  PROVE WorkspacesInv'
  OBVIOUS
<1>0. PICK p : p = "InitializeWorkspace"  OBVIOUS
<1>1. /\ p \in Projectors /\ proj[p].done < Len(proj[p].log) /\ DocsInv
      /\ Event(p) = EventOf(proj, p)
      /\ UNCHANGED <<owner, nextWSID, workspaceID, workspaceIDIdx>>
  BY <1>0 DEF CompleteInit, Handles, Projectors, WorkspacesInv, Event, EventOf
<1>2. PICK err \in BOOLEAN :
          \/ Completed(Event(p), err) /\ proj' = ToStep(p, IF err THEN "error" ELSE "ok")
          \/ Completed(Event(p), err) /\ proj' = EventDone(p)
          \/ proj' = EventDone(p) /\ UNCHANGED descriptor
  BY <1>0 DEF CompleteInit
<1>3. PICK e : e = Event(p)  OBVIOUS
<1>4. e \in WSIDs /\ e < nextWSID /\ descriptor[e].status # "none"
  <2>1. EntryOK(owner, nextWSID, descriptor, p, e)  BY <1>1, <1>3, EventOK
  <2> QED  BY <1>0, <2>1 DEF EntryOK
<1>5. Moves(EventDone(p), p, "start", proj[p].done + 1)  BY <1>1, Places
<1>6. CASE Completed(e, err)
  <2>1. DocsInv' /\ DocsGrow /\ descriptor'[e].completed
    BY <1>1, <1>4, <1>6, CompletedKeepsDocs
  <2>2. \A s \in {"error", "ok"} : Moves(ToStep(p, s), p, s, proj[p].done)
    <3> TAKE s \in {"error", "ok"}
    <3>1. s \in Steps /\ Reached(owner', workspaceID', descriptor', p, s, EventOf(proj, p))
      BY <1>0, <1>1, <1>3, <2>1 DEF Steps, Reached
    <3> QED  BY <1>1, <3>1, Places
  <2>3. PICK s \in {"error", "ok"} : s = IF err THEN "error" ELSE "ok"  OBVIOUS
  <2>4. proj' = EventDone(p) \/ proj' = ToStep(p, s)  BY <1>2, <2>3
  <2> QED  BY <1>1, <1>5, <2>1, <2>2, <2>4, MoveKeepsInv
<1>7. CASE proj' = EventDone(p) /\ UNCHANGED descriptor
  BY <1>1, <1>5, <1>7, DocsStay, MoveKeepsInv DEF docVars
<1> QED  BY <1>2, <1>3, <1>6, <1>7

LEMMA TellOwnerKeepsInv == WorkspacesInv /\ TellOwner => WorkspacesInv'
<1> SUFFICES ASSUME WorkspacesInv, TellOwner  PROVE WorkspacesInv'
  OBVIOUS
<1>0. PICK p : p = "InitializeWorkspace"  OBVIOUS
<1>1. /\ p \in Projectors /\ proj[p].done < Len(proj[p].log) /\ DocsInv
      /\ Event(p) = EventOf(proj, p) /\ proj[p].at \in {"ok", "error"} /\ proj' = EventDone(p)
      /\ UNCHANGED <<nextWSID, workspaceID, workspaceIDIdx, descriptor>>
  BY <1>0 DEF TellOwner, Handles, Projectors, WorkspacesInv, Event, EventOf
<1>2. PICK e : e = Event(p)  OBVIOUS
<1>3. PICK o : o = workspaceID[e].owner  OBVIOUS
<1>4. /\ e \in WSIDs /\ e < nextWSID /\ o \in Owners
  <2>1. EntryOK(owner, nextWSID, descriptor, p, e)  BY <1>1, <1>2, EventOK
  <2>2. e \in WSIDs /\ e < nextWSID  BY <1>0, <2>1 DEF EntryOK
  <2> QED  BY <1>1, <1>3, <2>2 DEF DocsInv, DocsOK, WorkspaceIDsOK
<1>5. proj[p].at = "ok" => descriptor[e].completed
  BY <1>0, <1>1, <1>2 DEF WorkspacesInv, StepsOK, Reached
<1>6. DocsInv' /\ DocsGrow
  <2>1. ASSUME NEW err \in {proj[p].at = "error", TRUE}, UpdateOwner(o, e, err)
        PROVE  DocsInv' /\ DocsGrow
    <3>1. ~err => proj[p].at = "ok"  BY <1>1, <2>1
    <3>2. e # 0 /\ ~err => /\ e \in WSIDs /\ e < nextWSID
                           /\ workspaceID[e].owner = o /\ descriptor[e].completed
      BY <1>3, <1>4, <1>5, <3>1
    <3> QED  BY <1>1, <1>4, <2>1, <3>2, UpdateOwnerKeepsDocs
  <2>2. CASE UNCHANGED owner  BY <1>1, <2>2, DocsStay DEF docVars
  <2> QED  BY <1>0, <1>2, <1>3, <2>1, <2>2 DEF TellOwner
<1>7. Moves(EventDone(p), p, "start", proj[p].done + 1)  BY <1>1, Places
<1> QED  BY <1>1, <1>6, <1>7, MoveKeepsInv

LEMMA StatusSetKeepsDocs ==
    ASSUME DocsInv, NEW w \in WSIDs, w < nextWSID, NEW st, st # "none",
           st = "Inactive" => ~workspaceID[w].active /\ ~owner[workspaceID[w].owner].active,
           descriptor' = [descriptor EXCEPT ![w].status = st],
           UNCHANGED <<owner, nextWSID, workspaceID, workspaceIDIdx>>
    PROVE  DocsInv' /\ DocsGrow
<1>1. PICK r : r = [status |-> st, createError |-> descriptor[w].createError,
                    completed |-> descriptor[w].completed, initError |-> descriptor[w].initError]
  OBVIOUS
<1>2. descriptor' = [descriptor EXCEPT ![w] = r]  BY <1>1, DescriptorStatusSet
<1>3. /\ r = [status |-> r.status, createError |-> r.createError,
              completed |-> r.completed, initError |-> r.initError]
      /\ r.status = st /\ r.completed = descriptor[w].completed
  BY <1>1
<1> QED  BY <1>2, <1>3, DescriptorChanges

LEMMA OwnerDeactivatedKeepsDocs ==
    ASSUME DocsInv, NEW o \in Owners, owner' = [owner EXCEPT ![o].active = FALSE],
           UNCHANGED <<nextWSID, workspaceID, workspaceIDIdx, descriptor>>
    PROVE  DocsInv' /\ DocsGrow /\ ~owner'[o].active
<1>1. PICK no : no = FALSE  OBVIOUS
<1>2. PICK r : r = [made |-> owner[o].made, active |-> no, wsid |-> owner[o].wsid,
                    error |-> owner[o].error]
  OBVIOUS
<1>3. owner' = [owner EXCEPT ![o] = r]
  <2>1. owner' = [owner EXCEPT ![o].active = no]  BY <1>1
  <2> QED  BY <1>2, <2>1, OwnerIsDeactivated
<1>4. /\ r = [made |-> r.made, active |-> r.active, wsid |-> r.wsid, error |-> r.error]
      /\ r.made = owner[o].made /\ r.active = no /\ r.wsid = owner[o].wsid
      /\ r.error = owner[o].error
  BY <1>2
<1>5. owner[o].made => r.made /\ (~owner[o].active => ~r.active)  BY <1>1, <1>4
<1>6. r.wsid # 0 /\ ~r.error => /\ r.wsid \in WSIDs /\ r.wsid < nextWSID
                                /\ workspaceID[r.wsid].owner = o /\ descriptor[r.wsid].completed
  BY <1>4 DEF DocsInv, DocsOK, GivenIsComplete
<1>7. DocsInv' /\ DocsGrow /\ owner'[o] = r  BY <1>3, <1>4, <1>5, <1>6, OwnerChanges
<1> QED  BY <1>1, <1>4, <1>7

LEMMA InitiateDeactivateKeepsInv ==
    WorkspacesInv /\ InitiateDeactivateWorkspace => WorkspacesInv'
<1> SUFFICES ASSUME WorkspacesInv, InitiateDeactivateWorkspace  PROVE WorkspacesInv'
  OBVIOUS
<1>1. PICK w \in WSIDs :
          /\ descriptor[w].status = "Active"
          /\ descriptor' = [descriptor EXCEPT ![w].status = "ToBeDeactivated"]
          /\ proj' = Triggers(proj, "ApplyDeactivateWorkspace", w)
  BY DEF InitiateDeactivateWorkspace
<1>2. DocsInv /\ UNCHANGED <<owner, nextWSID, workspaceID, workspaceIDIdx>>
  BY DEF InitiateDeactivateWorkspace, WorkspacesInv
<1>3. w < nextWSID /\ w \in Nat  BY <1>1, <1>2 DEF DocsInv, DocsOK, CutOff, WSIDs
<1>4. DocsInv' /\ DocsGrow
  <2>1. PICK st : st = "ToBeDeactivated"  OBVIOUS
  <2>2. descriptor' = [descriptor EXCEPT ![w].status = st] /\ st # "none" /\ st # "Inactive"
    BY <1>1, <2>1
  <2> QED  BY <1>2, <1>3, <2>2, StatusSetKeepsDocs
<1>5. /\ "ApplyDeactivateWorkspace" \in Projectors
      /\ EntryOK(owner', nextWSID', descriptor', "ApplyDeactivateWorkspace", w)
  BY <1>2, <1>3 DEF Projectors, EntryOK
<1> QED  BY <1>1, <1>3, <1>4, <1>5, LogKeepsInv

\* ApplyDeactivateWorkspace: each call finds what the one before it has done.
LEMMA DeactivateKeepsInv ==
    WorkspacesInv /\ (OnWorkspaceDeactivated \/ OnChildWorkspaceDeactivated \/ StatusInactive)
        => WorkspacesInv'
<1> SUFFICES ASSUME WorkspacesInv,
                    OnWorkspaceDeactivated \/ OnChildWorkspaceDeactivated \/ StatusInactive
             PROVE  WorkspacesInv'
  OBVIOUS
<1>0. PICK p : p = "ApplyDeactivateWorkspace"  OBVIOUS
<1>1. PICK e : e = Deactivated  OBVIOUS
<1>2. /\ p \in Projectors /\ proj[p].done < Len(proj[p].log) /\ DocsInv
      /\ e = EventOf(proj, p) /\ UNCHANGED <<nextWSID, workspaceIDIdx>>
  BY <1>0, <1>1 DEF OnWorkspaceDeactivated, OnChildWorkspaceDeactivated, StatusInactive,
     Deactivates, Handles, Projectors, WorkspacesInv, Deactivated, Event, EventOf
<1>3. /\ e \in WSIDs /\ e < nextWSID
      /\ workspaceID[e].owner \in Owners /\ owner[workspaceID[e].owner].made
  <2>1. EntryOK(owner, nextWSID, descriptor, p, e)  BY <1>2, EventOK
  <2>2. e \in WSIDs /\ e < nextWSID  BY <1>0, <2>1 DEF EntryOK
  <2> QED  BY <1>2, <2>2 DEF DocsInv, DocsOK, WorkspaceIDsOK
<1>4. /\ proj[p].at \in {"owner", "status"} => ~workspaceID[e].active
      /\ proj[p].at = "status" => ~owner[workspaceID[e].owner].active
  BY <1>0, <1>2 DEF WorkspacesInv, StepsOK, Reached
<1>5. /\ Moves(FromSaved(p), p, "start", proj[p].saved)
      /\ Moves(EventDone(p), p, "start", proj[p].done + 1)
  BY <1>2, Places
<1>6. CASE proj' = FromSaved(p) /\ UNCHANGED <<owner, workspaceID, descriptor>>
  BY <1>2, <1>5, <1>6, DocsStay, MoveKeepsInv DEF docVars
<1>7. CASE OnWorkspaceDeactivated
  <2>1. CASE /\ workspaceID' = IF NameIsTaken
                               THEN [workspaceID EXCEPT ![workspaceIDIdx].active = FALSE]
                               ELSE workspaceID
             /\ UNCHANGED <<owner, descriptor>>
             /\ proj' = ToStep(p, "owner") \/ proj' = FromSaved(p)
    <3>1. DocsInv' /\ DocsGrow /\ \A w \in WSIDs : ~workspaceID'[w].active
      BY <1>2, <2>1, WorkspaceIDDeactivated
    <3>2. "owner" \in Steps
          /\ Reached(owner', workspaceID', descriptor', p, "owner", EventOf(proj, p))
      BY <1>0, <1>2, <1>3, <3>1 DEF Steps, Reached
    <3>3. Moves(ToStep(p, "owner"), p, "owner", proj[p].done)  BY <1>2, <3>2, Places
    <3> QED  BY <1>2, <1>5, <2>1, <3>1, <3>3, MoveKeepsInv
  <2> QED  BY <1>0, <1>6, <1>7, <2>1 DEF OnWorkspaceDeactivated, Deactivates
<1>8. CASE OnChildWorkspaceDeactivated
  <2>1. proj[p].at = "owner"  BY <1>0, <1>8 DEF OnChildWorkspaceDeactivated, Deactivates, Handles
  <2>2. CASE /\ owner' = [owner EXCEPT ![workspaceID[e].owner].active = FALSE]
             /\ UNCHANGED <<workspaceID, descriptor>>
             /\ proj' = ToStep(p, "status") \/ proj' = FromSaved(p)
    <3>1. PICK o \in Owners : o = workspaceID[e].owner  BY <1>3
    <3>2. DocsInv' /\ DocsGrow /\ ~owner'[o].active
      BY <1>2, <2>2, <3>1, OwnerDeactivatedKeepsDocs
    <3>3. "status" \in Steps
          /\ Reached(owner', workspaceID', descriptor', p, "status", EventOf(proj, p))
      BY <1>0, <1>2, <1>4, <2>1, <2>2, <3>1, <3>2 DEF Steps, Reached
    <3>4. Moves(ToStep(p, "status"), p, "status", proj[p].done)  BY <1>2, <3>3, Places
    <3> QED  BY <1>2, <1>5, <2>2, <3>2, <3>4, MoveKeepsInv
  <2> QED  BY <1>0, <1>1, <1>6, <1>8, <2>2 DEF OnChildWorkspaceDeactivated, Deactivates
<1>9. CASE StatusInactive
  <2>1. proj[p].at = "status"  BY <1>0, <1>9 DEF StatusInactive, Deactivates, Handles
  <2>2. CASE /\ descriptor' = [descriptor EXCEPT ![e].status = "Inactive"]
             /\ UNCHANGED <<owner, workspaceID>>
             /\ proj' = EventDone(p) \/ proj' = FromSaved(p)
    <3>1. PICK st : st = "Inactive"  OBVIOUS
    <3>2. descriptor' = [descriptor EXCEPT ![e].status = st] /\ st # "none"  BY <2>2, <3>1
    <3>3. ~workspaceID[e].active /\ ~owner[workspaceID[e].owner].active  BY <1>4, <2>1
    <3>4. DocsInv' /\ DocsGrow  BY <1>2, <1>3, <2>2, <3>2, <3>3, StatusSetKeepsDocs
    <3> QED  BY <1>2, <1>5, <2>2, <3>4, MoveKeepsInv
  <2> QED  BY <1>0, <1>1, <1>6, <1>9, <2>2 DEF StatusInactive, Deactivates
<1> QED  BY <1>7, <1>8, <1>9

\* The position is saved, or the projector begins again at the saved one.
LEMMA SaveKeepsInv ==
    ASSUME WorkspacesInv, NEW p \in Projectors, SavePlace(p) \/ RestartProjector(p)
    PROVE  WorkspacesInv'
<1>0. DocsInv /\ UNCHANGED docVars  BY DEF SavePlace, RestartProjector, WorkspacesInv
<1>1. DocsInv' /\ DocsGrow  BY <1>0, DocsStay
<1>2. CASE SavePlace(p)
  <2>1. /\ proj[p].at = "start" /\ proj' = [proj EXCEPT ![p].saved = proj[p].done]
        /\ proj[p].done \in Nat /\ proj[p].done <= proj[p].done
        /\ proj[p].done <= Len(proj[p].log)
    BY <1>2 DEF SavePlace, WorkspacesInv, ProjTypeOK
  <2>2. PICK r, d : r = proj[p] /\ d = proj[p].done  OBVIOUS
  <2>3. IsPlace(r)  BY <2>2 DEF WorkspacesInv, ProjTypeOK, IsPlace
  <2>4. [r EXCEPT !.saved = d] = [log |-> r.log, done |-> r.done, saved |-> d, at |-> r.at]
    BY <2>3, SavedUpdate
  <2>5. proj' = [proj EXCEPT ![p] = [r EXCEPT !.saved = d]]  BY <2>1, <2>2
  <2>6. proj' = [proj EXCEPT ![p] = [log |-> proj[p].log, done |-> d, saved |-> d, at |-> "start"]]
    BY <2>1, <2>2, <2>4, <2>5
  <2>7. "start" \in Steps  BY DEF Steps
  <2>8. Comes(proj, proj', p, "start", d)
    BY <2>1, <2>2, <2>6, <2>7, StepOfProjector DEF WorkspacesInv
  <2> QED  BY <1>1, <2>8, MoveKeepsInv DEF Moves
<1>3. CASE RestartProjector(p)
  <2>1. Moves(FromSaved(p), p, "start", proj[p].saved)  BY Places
  <2> QED  BY <1>1, <1>3, <2>1, MoveKeepsInv DEF RestartProjector
<1> QED  BY <1>2, <1>3

LEMMA WorkspacesInductive == WorkspacesInv /\ [WorkspacesNext]_workspacesVars => WorkspacesInv'
<1> SUFFICES ASSUME WorkspacesInv, [WorkspacesNext]_workspacesVars  PROVE WorkspacesInv'
  OBVIOUS
<1>1. CASE UNCHANGED workspacesVars
  BY <1>1 DEF workspacesVars, docVars, WorkspacesInv, DocsInv
<1>2. ASSUME NEW p \in Projectors, TellOfFailedCall(p) \/ SavePlace(p) \/ RestartProjector(p)
      PROVE  WorkspacesInv'
  BY <1>2, TellOfFailedCallKeepsInv, SaveKeepsInv
<1> QED  BY <1>1, <1>2, CreateOwnerKeepsInv, InvokeKeepsInv, StartInitKeepsInv,
            CompleteInitKeepsInv, TellOwnerKeepsInv, InitiateDeactivateKeepsInv,
            DeactivateKeepsInv
         DEF WorkspacesNext

\* A workspace that is Inactive was cut off on the way: ApplyDeactivateWorkspace
\* sets the status last, and nothing that it made inactive becomes active again,
\* although the name may have a new owner and a new workspace meanwhile.
THEOREM InactiveIsCutOff == WorkspacesSpec => []DeactivatedIsCutOff
<1>1. WorkspacesInv => DeactivatedIsCutOff
  BY DEF WorkspacesInv, DocsInv, DocsOK, CutOff, DeactivatedIsCutOff
<1> QED  BY <1>1, WorkspacesInvInit, WorkspacesInductive, PTL DEF WorkspacesSpec

\* An owner is given a workspace without an error only when its initialization
\* was completed, and only its own, whatever calls failed or were made again.
THEOREM GivenWorkspaceIsComplete == WorkspacesSpec => []OwnerGetsACompleteWorkspace
<1>1. WorkspacesInv => OwnerGetsACompleteWorkspace
  BY DEF WorkspacesInv, DocsInv, DocsOK, GivenIsComplete, OwnerGetsACompleteWorkspace
<1> QED  BY <1>1, WorkspacesInvInit, WorkspacesInductive, PTL DEF WorkspacesSpec

-----------------------------------------------------------------------------
(***************************************************************************)
(* Invites.  What the calls left to make say about the membership: the     *)
(* projector is the only one that changes it, and a command that comes     *)
(* meanwhile can only take the invite back to ToBeInvited.                 *)
(***************************************************************************)

(* Sequences of calls. *)

LEMMA Catenation ==
    ASSUME NEW S, NEW x \in Seq(S), NEW y \in Seq(S), NEW z \in Seq(S),
           Len(z) = Len(x) + Len(y),
           \A i \in 1 .. Len(x) : z[i] = x[i],
           \A i \in 1 .. Len(y) : z[i + Len(x)] = y[i]
    PROVE  x \o y = z
<1>1. /\ x \o y \in Seq(S) /\ Len(x \o y) = Len(x) + Len(y)
      /\ \A i \in 1 .. Len(x) + Len(y) :
            (x \o y)[i] = IF i <= Len(x) THEN x[i] ELSE y[i - Len(x)]
  BY ConcatProperties
<1>2. Len(x) \in Nat /\ Len(y) \in Nat  OBVIOUS
<1>3. ASSUME NEW i \in 1 .. Len(x) + Len(y)  PROVE (x \o y)[i] = z[i]
  <2>1. CASE i <= Len(x)
    <3>1. i \in 1 .. Len(x)  BY <1>2, <2>1
    <3> QED  BY <1>1, <2>1, <3>1
  <2>2. CASE ~(i <= Len(x))
    <3>1. PICK j : j = i - Len(x)  OBVIOUS
    <3>2. j \in 1 .. Len(y) /\ i = j + Len(x)  BY <1>2, <2>2, <3>1
    <3>3. (x \o y)[i] = y[j]  BY <1>1, <2>2, <3>1
    <3> QED  BY <3>2, <3>3
  <2> QED  BY <2>1, <2>2
<1> QED  BY <1>1, <1>2, <1>3, SeqEqual

LEMMA Cat11 ==
    ASSUME NEW a, NEW b
    PROVE  <<a>> \o <<b>> = <<a, b>>
<1>1. PICK S, x, y, z : /\ S = {a, b} /\ x = <<a>> /\ y = <<b>>
                        /\ z = <<a, b>>
  OBVIOUS
<1>2. /\ x \in Seq(S) /\ y \in Seq(S) /\ z \in Seq(S)
      /\ Len(x) = 1 /\ Len(y) = 1 /\ Len(z) = 2
  BY <1>1
<1>3. /\ x[1] = a /\ y[1] = b
      /\ z[1] = a /\ z[2] = b
  BY <1>1
<1>4. /\ \A i \in 1 .. Len(x) : z[i] = x[i]
      /\ \A i \in 1 .. Len(y) : z[i + Len(x)] = y[i]
  BY <1>2, <1>3
<1>5. Len(z) = Len(x) + Len(y)  BY <1>2
<1>6. x \o y = z  BY <1>2, <1>4, <1>5, Catenation
<1> QED  BY <1>1, <1>6

LEMMA Cat12 ==
    ASSUME NEW a, NEW b, NEW c
    PROVE  <<a>> \o <<b, c>> = <<a, b, c>>
<1>1. PICK S, x, y, z : /\ S = {a, b, c} /\ x = <<a>> /\ y = <<b, c>>
                        /\ z = <<a, b, c>>
  OBVIOUS
<1>2. /\ x \in Seq(S) /\ y \in Seq(S) /\ z \in Seq(S)
      /\ Len(x) = 1 /\ Len(y) = 2 /\ Len(z) = 3
  BY <1>1
<1>3. /\ x[1] = a /\ y[1] = b /\ y[2] = c
      /\ z[1] = a /\ z[2] = b /\ z[3] = c
  BY <1>1
<1>4. /\ \A i \in 1 .. Len(x) : z[i] = x[i]
      /\ \A i \in 1 .. Len(y) : z[i + Len(x)] = y[i]
  BY <1>2, <1>3
<1>5. Len(z) = Len(x) + Len(y)  BY <1>2
<1>6. x \o y = z  BY <1>2, <1>4, <1>5, Catenation
<1> QED  BY <1>1, <1>6

LEMMA Cat22 ==
    ASSUME NEW a, NEW b, NEW c, NEW d
    PROVE  <<a, b>> \o <<c, d>> = <<a, b, c, d>>
<1>1. PICK S, x, y, z : /\ S = {a, b, c, d} /\ x = <<a, b>> /\ y = <<c, d>>
                        /\ z = <<a, b, c, d>>
  OBVIOUS
<1>2. /\ x \in Seq(S) /\ y \in Seq(S) /\ z \in Seq(S)
      /\ Len(x) = 2 /\ Len(y) = 2 /\ Len(z) = 4
  BY <1>1
<1>3. /\ x[1] = a /\ x[2] = b /\ y[1] = c /\ y[2] = d
      /\ z[1] = a /\ z[2] = b /\ z[3] = c /\ z[4] = d
  BY <1>1
<1>4. /\ \A i \in 1 .. Len(x) : z[i] = x[i]
      /\ \A i \in 1 .. Len(y) : z[i + Len(x)] = y[i]
  BY <1>2, <1>3
<1>5. Len(z) = Len(x) + Len(y)  BY <1>2
<1>6. x \o y = z  BY <1>2, <1>4, <1>5, Catenation
<1> QED  BY <1>1, <1>6

LEMMA Cat32 ==
    ASSUME NEW a, NEW b, NEW c, NEW d, NEW e
    PROVE  <<a, b, c>> \o <<d, e>> = <<a, b, c, d, e>>
<1>1. PICK S, x, y, z : /\ S = {a, b, c, d, e} /\ x = <<a, b, c>> /\ y = <<d, e>>
                        /\ z = <<a, b, c, d, e>>
  OBVIOUS
<1>2. /\ x \in Seq(S) /\ y \in Seq(S) /\ z \in Seq(S)
      /\ Len(x) = 3 /\ Len(y) = 2 /\ Len(z) = 5
  BY <1>1
<1>3. /\ x[1] = a /\ x[2] = b /\ x[3] = c /\ y[1] = d /\ y[2] = e
      /\ z[1] = a /\ z[2] = b /\ z[3] = c /\ z[4] = d /\ z[5] = e
  BY <1>1
<1>4. /\ \A i \in 1 .. Len(x) : z[i] = x[i]
      /\ \A i \in 1 .. Len(y) : z[i + Len(x)] = y[i]
  BY <1>2, <1>3
<1>5. Len(z) = Len(x) + Len(y)  BY <1>2
<1>6. x \o y = z  BY <1>2, <1>4, <1>5, Catenation
<1> QED  BY <1>1, <1>6

CallsSave        == <<"SavePosition">>
CallsFinish      == <<"UpdateInvite", "SavePosition">>
CallsInsert      == <<"InsertSubject", "UpdateInvite", "SavePosition">>
CallsUpdate      == <<"UpdateSubject", "UpdateInvite", "SavePosition">>
CallsActivate    == <<"ActivateSubject", "UpdateSubject", "UpdateInvite", "SavePosition">>
CallsJoinInsert  == <<"CreateJoinedWorkspace", "InsertSubject", "UpdateInvite", "SavePosition">>
CallsJoinUpdate  == <<"CreateJoinedWorkspace", "UpdateSubject", "UpdateInvite", "SavePosition">>
CallsJoinActivate == <<"CreateJoinedWorkspace", "ActivateSubject", "UpdateSubject",
                       "UpdateInvite", "SavePosition">>
CallsRoles       == <<"UpdateJoinedWorkspaceRoles", "UpdateInvite", "SavePosition">>
CallsBothRoles   == <<"UpdateSubject", "UpdateJoinedWorkspaceRoles",
                      "UpdateInvite", "SavePosition">>
CallsLeave       == <<"DeactivateJoinedWorkspace", "UpdateInvite", "SavePosition">>
CallsBothLeave   == <<"DeactivateSubject", "DeactivateJoinedWorkspace",
                      "UpdateInvite", "SavePosition">>

LEMMA CallsInOrder ==
    /\ Head(CallsSave) = "SavePosition" /\ Tail(CallsSave) = <<>>
    /\ Head(CallsFinish) = "UpdateInvite" /\ Tail(CallsFinish) = CallsSave
    /\ Head(CallsInsert) = "InsertSubject" /\ Tail(CallsInsert) = CallsFinish
    /\ Head(CallsUpdate) = "UpdateSubject" /\ Tail(CallsUpdate) = CallsFinish
    /\ Head(CallsActivate) = "ActivateSubject" /\ Tail(CallsActivate) = CallsUpdate
    /\ Head(CallsJoinInsert) = "CreateJoinedWorkspace" /\ Tail(CallsJoinInsert) = CallsInsert
    /\ Head(CallsJoinUpdate) = "CreateJoinedWorkspace" /\ Tail(CallsJoinUpdate) = CallsUpdate
    /\ Head(CallsJoinActivate) = "CreateJoinedWorkspace"
    /\ Tail(CallsJoinActivate) = CallsActivate
    /\ Head(CallsRoles) = "UpdateJoinedWorkspaceRoles" /\ Tail(CallsRoles) = CallsFinish
    /\ Head(CallsBothRoles) = "UpdateSubject" /\ Tail(CallsBothRoles) = CallsRoles
    /\ Head(CallsLeave) = "DeactivateJoinedWorkspace" /\ Tail(CallsLeave) = CallsFinish
    /\ Head(CallsBothLeave) = "DeactivateSubject" /\ Tail(CallsBothLeave) = CallsLeave
<1>1. /\ Head(CallsSave) = "SavePosition" /\ Tail(CallsSave) = <<>>
      /\ Head(CallsFinish) = "UpdateInvite" /\ Tail(CallsFinish) = CallsSave
  BY DEF CallsSave, CallsFinish
<1>2. /\ Head(CallsInsert) = "InsertSubject" /\ Tail(CallsInsert) = CallsFinish
      /\ Head(CallsUpdate) = "UpdateSubject" /\ Tail(CallsUpdate) = CallsFinish
  BY DEF CallsInsert, CallsUpdate, CallsFinish
<1>3. /\ Head(CallsActivate) = "ActivateSubject" /\ Tail(CallsActivate) = CallsUpdate
      /\ Head(CallsJoinInsert) = "CreateJoinedWorkspace" /\ Tail(CallsJoinInsert) = CallsInsert
  BY DEF CallsActivate, CallsUpdate, CallsJoinInsert, CallsInsert
<1>4. /\ Head(CallsJoinUpdate) = "CreateJoinedWorkspace" /\ Tail(CallsJoinUpdate) = CallsUpdate
      /\ Head(CallsJoinActivate) = "CreateJoinedWorkspace"
      /\ Tail(CallsJoinActivate) = CallsActivate
  BY DEF CallsJoinUpdate, CallsUpdate, CallsJoinActivate, CallsActivate
<1>5. /\ Head(CallsRoles) = "UpdateJoinedWorkspaceRoles" /\ Tail(CallsRoles) = CallsFinish
      /\ Head(CallsBothRoles) = "UpdateSubject" /\ Tail(CallsBothRoles) = CallsRoles
  BY DEF CallsRoles, CallsFinish, CallsBothRoles
<1>6. /\ Head(CallsLeave) = "DeactivateJoinedWorkspace" /\ Tail(CallsLeave) = CallsFinish
      /\ Head(CallsBothLeave) = "DeactivateSubject" /\ Tail(CallsBothLeave) = CallsLeave
  BY DEF CallsLeave, CallsFinish, CallsBothLeave
<1> QED  BY <1>1, <1>2, <1>3, <1>4, <1>5, <1>6

-----------------------------------------------------------------------------
Member(sub, joi)   == sub.at = "active" /\ joi.at = "active" /\ sub.roles = joi.roles
NoMember(sub, joi) == sub.at # "active" /\ joi.at # "active"

ChangesMembership(cmd) ==
    cmd \in {"InitiateUpdateInviteRoles", "InitiateCancelAcceptedInvite", "InitiateLeaveWorkspace"}

Leaves(cmd) == cmd \in {"InitiateCancelAcceptedInvite", "InitiateLeaveWorkspace"}

\* The state of the invite while the calls for a command are made.
Fits(state, cmd) ==
    IF ChangesMembership(cmd) THEN state = "Joined" ELSE state \in {"Invited", "ToBeInvited"}

JoinLeft(calls, roles, sub, joi) ==
    \/ calls \in {CallsJoinInsert, CallsJoinActivate}
    \/ calls = CallsJoinUpdate /\ sub.at = "active"
    \/ /\ joi.at = "active" /\ joi.roles = roles
       /\ \/ calls \in {CallsInsert, CallsActivate}
          \/ calls = CallsUpdate /\ sub.at = "active"

RolesLeft(calls, roles, sub) ==
    \/ calls = CallsBothRoles
    \/ calls = CallsRoles /\ sub.roles = roles

LeaveLeft(calls, sub) ==
    \/ calls = CallsBothLeave
    \/ calls = CallsLeave /\ sub.at # "active"

Finished(cmd, sub, joi) ==
    /\ cmd \in {"InitiateJoinWorkspace", "InitiateUpdateInviteRoles"} => Member(sub, joi)
    /\ Leaves(cmd) => NoMember(sub, joi)

\* The calls that are left to make for event e, and what was done so far.
CallsLeft(calls, roles, e, state, sub, joi) ==
    \/ calls = <<>>
    \/ calls = CallsSave /\ (state = "Joined" => Member(sub, joi))
    \/ /\ Fits(state, e.cmd)
       /\ \/ calls = CallsFinish /\ Finished(e.cmd, sub, joi)
          \/ e.cmd = "InitiateJoinWorkspace" /\ JoinLeft(calls, roles, sub, joi)
          \/ e.cmd = "InitiateUpdateInviteRoles" /\ RolesLeft(calls, e.roles, sub)
          \/ Leaves(e.cmd) /\ LeaveLeft(calls, sub)

\* The membership of who is Joined, before an event with command cmd is done.
JoinedBefore(cmd, sub, joi) ==
    /\ ~ChangesMembership(cmd) => Member(sub, joi)
    /\ cmd = "InitiateUpdateInviteRoles" => sub.at = "active" /\ joi.at = "active"

InviteCommands == {"InitiateInvitationByEMail", "InitiateJoinWorkspace",
                   "InitiateUpdateInviteRoles", "InitiateCancelAcceptedInvite",
                   "InitiateLeaveWorkspace", "CancelSentInvite"}

InvitesTypeOK ==
    /\ invite = [state |-> invite.state, roles |-> invite.roles, login |-> invite.login]
    /\ subject = [at |-> subject.at, roles |-> subject.roles]
    /\ subject.at \in {"none", "active", "inactive"}
    /\ joined = [at |-> joined.at, roles |-> joined.roles]
    /\ events \in Seq([cmd : InviteCommands, roles : Roles \union {""}])
    /\ position \in Nat /\ position <= Len(events)
    /\ applying = [calls |-> applying.calls, read |-> applying.read]

MembershipOK ==
    /\ invite.state = "Joined" =>
          IF position < Len(events) THEN JoinedBefore(events[position + 1].cmd, subject, joined)
          ELSE Member(subject, joined)
    /\ invite.state = "Left" => NoMember(subject, joined)

WorkOK ==
    /\ applying.calls # <<>> => position < Len(events)
    /\ CallsLeft(applying.calls, applying.read.roles, events[position + 1], invite.state,
                 subject, joined)

InvitesInv == InvitesTypeOK /\ MembershipOK /\ WorkOK

LEMMA InvitesInvInit == InvitesInit => InvitesInv
<1> SUFFICES ASSUME InvitesInit  PROVE InvitesInv
  OBVIOUS
<1>1. /\ invite.state = "none" /\ subject.at = "none"
      /\ invite = [state |-> invite.state, roles |-> invite.roles, login |-> invite.login]
      /\ subject = [at |-> subject.at, roles |-> subject.roles]
      /\ joined = [at |-> joined.at, roles |-> joined.roles]
  BY DEF InvitesInit, NoDoc
<1>2. applying.calls = <<>> /\ applying = [calls |-> applying.calls, read |-> applying.read]
  BY DEF InvitesInit, NotApplying
<1>3. /\ events \in Seq([cmd : InviteCommands, roles : Roles \union {""}])
      /\ position = 0 /\ Len(events) = 0
  <2>1. PICK E : E = [cmd : InviteCommands, roles : Roles \union {""}]  OBVIOUS
  <2>2. <<>> \in Seq(E) /\ Len(<<>>) = 0  OBVIOUS
  <2> QED  BY <2>1, <2>2 DEF InvitesInit
<1>4. InvitesTypeOK  BY <1>1, <1>2, <1>3 DEF InvitesTypeOK
<1> QED  BY <1>1, <1>2, <1>4 DEF InvitesInv, MembershipOK, WorkOK, CallsLeft

LEMMA InvFollowsState == InvitesInv => MembershipFollowsState
<1> SUFFICES ASSUME InvitesInv  PROVE MembershipFollowsState
  OBVIOUS
<1>1. ASSUME invite.state = "Joined", ~MembershipChanges  PROVE Member(subject, joined)
  BY <1>1 DEF InvitesInv, MembershipOK, JoinedBefore, MembershipChanges, event, ChangesMembership
<1>2. ASSUME invite.state = "Left"  PROVE NoMember(subject, joined)
  BY <1>2 DEF InvitesInv, MembershipOK
<1> QED  BY <1>1, <1>2 DEF MembershipFollowsState, Member, NoMember

(* The calls, one by one. *)

IsDoc(doc) == doc = [at |-> doc.at, roles |-> doc.roles]

LEMMA DocUpdates ==
    ASSUME NEW doc, IsDoc(doc), NEW v
    PROVE  /\ [doc EXCEPT !.at = v] = [at |-> v, roles |-> doc.roles]
           /\ [doc EXCEPT !.roles = v] = [at |-> doc.at, roles |-> v]
  BY DEF IsDoc

LEMMA JoinedWorkspaceMade ==
    ASSUME NEW calls, NEW roles, NEW e, NEW state, NEW sub, NEW joi,
           CallsLeft(calls, roles, e, state, sub, joi), calls # <<>>,
           Head(calls) = "CreateJoinedWorkspace", NEW new, new.at = "active",
           e.cmd = "InitiateJoinWorkspace" => new.roles = roles
    PROVE  /\ CallsLeft(Tail(calls), roles, e, state, sub, new)
           /\ state \notin {"Joined", "Left"}
<1>1. /\ e.cmd = "InitiateJoinWorkspace" /\ Fits(state, e.cmd)
      /\ \/ calls \in {CallsJoinInsert, CallsJoinActivate}
         \/ calls = CallsJoinUpdate /\ sub.at = "active"
  BY CallsInOrder DEF CallsLeft, JoinLeft, RolesLeft, LeaveLeft
<1>2. JoinLeft(Tail(calls), roles, sub, new)  BY <1>1, CallsInOrder DEF JoinLeft
<1>3. state \notin {"Joined", "Left"}  BY <1>1 DEF Fits, ChangesMembership
<1> QED  BY <1>1, <1>2, <1>3 DEF CallsLeft

LEMMA JoinedRolesPut ==
    ASSUME NEW calls, NEW roles, NEW e, NEW state, NEW sub, NEW joi,
           CallsLeft(calls, roles, e, state, sub, joi), calls # <<>>,
           Head(calls) = "UpdateJoinedWorkspaceRoles", sub.at = "active",
           NEW new, new.at = "active",
           e.cmd = "InitiateUpdateInviteRoles" => new.roles = e.roles
    PROVE  /\ CallsLeft(Tail(calls), roles, e, state, sub, new)
           /\ state = "Joined" /\ e.cmd = "InitiateUpdateInviteRoles"
<1>1. /\ e.cmd = "InitiateUpdateInviteRoles" /\ Fits(state, e.cmd)
      /\ calls = CallsRoles /\ sub.roles = e.roles
  BY CallsInOrder DEF CallsLeft, JoinLeft, RolesLeft, LeaveLeft
<1>2. Finished(e.cmd, sub, new)  BY <1>1 DEF Finished, Member, Leaves
<1>3. state = "Joined"  BY <1>1 DEF Fits, ChangesMembership
<1> QED  BY <1>1, <1>2, <1>3, CallsInOrder DEF CallsLeft

LEMMA SubjectInserted ==
    ASSUME NEW calls, NEW roles, NEW e, NEW state, NEW sub, NEW joi,
           CallsLeft(calls, roles, e, state, sub, joi), calls # <<>>,
           Head(calls) = "InsertSubject", NEW new, new.at = "active",
           e.cmd = "InitiateJoinWorkspace" => new.roles = roles
    PROVE  /\ CallsLeft(Tail(calls), roles, e, state, new, joi)
           /\ state \notin {"Joined", "Left"}
<1>1. /\ e.cmd = "InitiateJoinWorkspace" /\ Fits(state, e.cmd)
      /\ calls = CallsInsert /\ joi.at = "active" /\ joi.roles = roles
  BY CallsInOrder DEF CallsLeft, JoinLeft, RolesLeft, LeaveLeft
<1>2. Finished(e.cmd, new, joi)  BY <1>1 DEF Finished, Member, Leaves
<1>3. state \notin {"Joined", "Left"}  BY <1>1 DEF Fits, ChangesMembership
<1> QED  BY <1>1, <1>2, <1>3, CallsInOrder DEF CallsLeft

LEMMA SubjectActivated ==
    ASSUME NEW calls, NEW roles, NEW e, NEW state, NEW sub, NEW joi,
           CallsLeft(calls, roles, e, state, sub, joi), calls # <<>>,
           Head(calls) = "ActivateSubject", NEW new, new.at = "active"
    PROVE  /\ CallsLeft(Tail(calls), roles, e, state, new, joi)
           /\ state \notin {"Joined", "Left"}
<1>1. /\ e.cmd = "InitiateJoinWorkspace" /\ Fits(state, e.cmd)
      /\ calls = CallsActivate /\ joi.at = "active" /\ joi.roles = roles
  BY CallsInOrder DEF CallsLeft, JoinLeft, RolesLeft, LeaveLeft
<1>2. JoinLeft(Tail(calls), roles, new, joi)  BY <1>1, CallsInOrder DEF JoinLeft
<1>3. state \notin {"Joined", "Left"}  BY <1>1 DEF Fits, ChangesMembership
<1> QED  BY <1>1, <1>2, <1>3 DEF CallsLeft

LEMMA SubjectRolesPut ==
    ASSUME NEW calls, NEW roles, NEW e, NEW state, NEW sub, NEW joi,
           CallsLeft(calls, roles, e, state, sub, joi), calls # <<>>,
           Head(calls) = "UpdateSubject", NEW new, new.at = sub.at,
           new.roles = IF e.cmd = "InitiateJoinWorkspace" THEN roles ELSE e.roles
    PROVE  /\ CallsLeft(Tail(calls), roles, e, state, new, joi)
           /\ \/ state \notin {"Joined", "Left"}
              \/ state = "Joined" /\ e.cmd = "InitiateUpdateInviteRoles"
<1>1. CASE /\ e.cmd = "InitiateJoinWorkspace" /\ Fits(state, e.cmd)
           /\ calls = CallsUpdate /\ joi.at = "active" /\ joi.roles = roles
           /\ sub.at = "active"
  <2>1. Finished(e.cmd, new, joi)  BY <1>1 DEF Finished, Member, Leaves
  <2>2. state \notin {"Joined", "Left"}  BY <1>1 DEF Fits, ChangesMembership
  <2> QED  BY <1>1, <2>1, <2>2, CallsInOrder DEF CallsLeft
<1>2. CASE /\ e.cmd = "InitiateUpdateInviteRoles" /\ Fits(state, e.cmd)
           /\ calls = CallsBothRoles
  <2>1. RolesLeft(Tail(calls), e.roles, new)  BY <1>2, CallsInOrder DEF RolesLeft
  <2>2. state = "Joined"  BY <1>2 DEF Fits, ChangesMembership
  <2> QED  BY <1>2, <2>1, <2>2 DEF CallsLeft
<1> QED  BY <1>1, <1>2, CallsInOrder DEF CallsLeft, JoinLeft, RolesLeft, LeaveLeft

LEMMA SubjectDeactivated ==
    ASSUME NEW calls, NEW roles, NEW e, NEW state, NEW sub, NEW joi,
           CallsLeft(calls, roles, e, state, sub, joi), calls # <<>>,
           Head(calls) = "DeactivateSubject", NEW new, new.at = "inactive"
    PROVE  /\ CallsLeft(Tail(calls), roles, e, state, new, joi)
           /\ state = "Joined" /\ Leaves(e.cmd)
<1>1. Leaves(e.cmd) /\ Fits(state, e.cmd) /\ calls = CallsBothLeave
  BY CallsInOrder DEF CallsLeft, JoinLeft, RolesLeft, LeaveLeft
<1>2. LeaveLeft(Tail(calls), new)  BY <1>1, CallsInOrder DEF LeaveLeft
<1>3. state = "Joined"  BY <1>1 DEF Fits, ChangesMembership, Leaves
<1> QED  BY <1>1, <1>2, <1>3 DEF CallsLeft

LEMMA JoinedWorkspaceDeactivated ==
    ASSUME NEW calls, NEW roles, NEW e, NEW state, NEW sub, NEW joi,
           CallsLeft(calls, roles, e, state, sub, joi), calls # <<>>,
           Head(calls) = "DeactivateJoinedWorkspace", NEW new, new.at = "inactive"
    PROVE  /\ CallsLeft(Tail(calls), roles, e, state, sub, new)
           /\ state = "Joined" /\ Leaves(e.cmd)
<1>1. Leaves(e.cmd) /\ Fits(state, e.cmd) /\ calls = CallsLeave /\ sub.at # "active"
  BY CallsInOrder DEF CallsLeft, JoinLeft, RolesLeft, LeaveLeft
<1>2. Finished(e.cmd, sub, new)  BY <1>1 DEF Finished, NoMember, Leaves
<1>3. state = "Joined"  BY <1>1 DEF Fits, ChangesMembership, Leaves
<1> QED  BY <1>1, <1>2, <1>3, CallsInOrder DEF CallsLeft

LEMMA InviteUpdated ==
    ASSUME NEW calls, NEW roles, NEW e, NEW state, NEW sub, NEW joi,
           CallsLeft(calls, roles, e, state, sub, joi), calls # <<>>,
           Head(calls) = "UpdateInvite", e.cmd \in InviteCommands,
           NEW new, new = InviteFinalState[e.cmd]
    PROVE  /\ CallsLeft(Tail(calls), roles, e, new, sub, joi)
           /\ new = "Joined" => Member(sub, joi)
           /\ new = "Left" => NoMember(sub, joi)
<1>1. calls = CallsFinish /\ Finished(e.cmd, sub, joi)
  BY CallsInOrder DEF CallsLeft, JoinLeft, RolesLeft, LeaveLeft
<1>2. /\ new = "Joined" => e.cmd \in {"InitiateJoinWorkspace", "InitiateUpdateInviteRoles"}
      /\ new = "Left" => Leaves(e.cmd)
  BY DEF InviteCommands, InviteFinalState, Leaves
<1> QED  BY <1>1, <1>2, CallsInOrder DEF CallsLeft, Finished

LEMMA LastCall ==
    ASSUME NEW calls, NEW roles, NEW e, NEW state, NEW sub, NEW joi,
           CallsLeft(calls, roles, e, state, sub, joi), calls # <<>>,
           Head(calls) = "SavePosition"
    PROVE  Tail(calls) = <<>> /\ (state = "Joined" => Member(sub, joi))
  BY CallsInOrder DEF CallsLeft, JoinLeft, RolesLeft, LeaveLeft

(* The actions. *)

LEMMA CallIsMade ==
    ASSUME InvitesInv, NEW c, Calling(c)
    PROVE  /\ applying.calls # <<>> /\ Head(applying.calls) = c
           /\ position < Len(events) /\ events' = events
           /\ applying' = [calls |-> applying'.calls, read |-> applying'.read]
           /\ \/ applying'.calls = Tail(applying.calls) /\ applying'.read = applying.read
              \/ applying'.calls = <<>>
<1>1. /\ applying.calls # <<>> /\ Head(applying.calls) = c
      /\ position < Len(events) /\ events' = events
      /\ applying = [calls |-> applying.calls, read |-> applying.read]
  BY DEF Calling, InvitesInv, WorkOK, InvitesTypeOK
<1>2. CASE applying' = [applying EXCEPT !.calls = Tail(@)]
  <2>1. applying' = [calls |-> Tail(applying.calls), read |-> applying.read]
    BY <1>1, <1>2
  <2> QED  BY <1>1, <2>1
<1>3. CASE applying' = NotApplying  BY <1>1, <1>3 DEF NotApplying
<1> QED  BY <1>2, <1>3 DEF Calling

LEMMA EventIsACommand ==
    ASSUME InvitesInv, position < Len(events)
    PROVE  events[position + 1].cmd \in InviteCommands /\ position + 1 \in 1 .. Len(events)
<1>0. position \in Nat  BY DEF InvitesInv, InvitesTypeOK
<1>1. events \in Seq([cmd : InviteCommands, roles : Roles \union {""}])
  BY DEF InvitesInv, InvitesTypeOK
<1>2. \A E : events \in Seq(E) =>
          position + 1 \in 1 .. Len(events) /\ events[position + 1] \in E
  <2> SUFFICES ASSUME NEW E, events \in Seq(E)
               PROVE  position + 1 \in 1 .. Len(events) /\ events[position + 1] \in E
    OBVIOUS
  <2>1. Len(events) \in Nat /\ \A i \in 1 .. Len(events) : events[i] \in E
    BY ElementOfSeq, LenProperties
  <2>2. PICK n : n = Len(events)  OBVIOUS
  <2>3. position + 1 \in 1 .. n  BY <1>0, <2>1, <2>2
  <2> QED  BY <2>1, <2>2, <2>3
<1>3. PICK E : E = [cmd : InviteCommands, roles : Roles \union {""}]  OBVIOUS
<1>4. position + 1 \in 1 .. Len(events) /\ events[position + 1] \in E  BY <1>1, <1>2, <1>3
<1> QED  BY <1>3, <1>4

LEMMA CallKeepsInv ==
    ASSUME InvitesInv, NEW c, Calling(c), position' = position,
           invite' = [state |-> invite'.state, roles |-> invite'.roles, login |-> invite'.login],
           IsDoc(subject)', subject'.at \in {"none", "active", "inactive"}, IsDoc(joined)',
           MembershipOK',
           CallsLeft(Tail(applying.calls), applying.read.roles, events[position + 1],
                     invite'.state, subject', joined')
    PROVE  InvitesInv'
<1>1. InvitesTypeOK'  BY CallIsMade DEF InvitesInv, InvitesTypeOK, IsDoc
<1>2. position' < Len(events')  BY CallIsMade
<1>3. CallsLeft(applying'.calls, applying'.read.roles, events'[position' + 1],
                invite'.state, subject', joined')
  <2>1. CASE applying'.calls = <<>>  BY <2>1 DEF CallsLeft
  <2>2. CASE applying'.calls = Tail(applying.calls) /\ applying'.read = applying.read
    BY <2>2, CallIsMade
  <2> QED  BY <2>1, <2>2, CallIsMade
<1> QED  BY <1>1, <1>2, <1>3 DEF InvitesInv, WorkOK

\* What holds before the subject or the joined workspace is changed by call c.
Working(c) ==
    /\ InvitesInv /\ Calling(c) /\ UNCHANGED <<invite, position>>
    /\ CallsLeft(applying.calls, applying.read.roles, events[position + 1], invite.state,
                 subject, joined)
    /\ applying.calls # <<>> /\ Head(applying.calls) = c
    /\ IsDoc(subject) /\ IsDoc(joined)

LEMMA CallOnDocs ==
    ASSUME InvitesInv, NEW c, Calling(c), UNCHANGED <<invite, position>>
    PROVE  Working(c)
  BY CallIsMade DEF Working, InvitesInv, WorkOK, InvitesTypeOK, IsDoc

LEMMA DocsChange ==
    ASSUME NEW c, Working(c),
           IsDoc(subject)', subject'.at \in {"none", "active", "inactive"}, IsDoc(joined)',
           CallsLeft(Tail(applying.calls), applying.read.roles, events[position + 1],
                     invite.state, subject', joined'),
           \/ invite.state \notin {"Joined", "Left"}
           \/ /\ invite.state = "Joined"
              /\ \/ Leaves(events[position + 1].cmd)
                 \/ /\ events[position + 1].cmd = "InitiateUpdateInviteRoles"
                    /\ subject'.at = subject.at /\ joined'.at = joined.at
    PROVE  InvitesInv'
<1>1. /\ InvitesInv /\ Calling(c) /\ UNCHANGED <<invite, position>>
      /\ invite' = [state |-> invite'.state, roles |-> invite'.roles, login |-> invite'.login]
      /\ position < Len(events) /\ events' = events
  BY CallIsMade DEF Working, InvitesInv, InvitesTypeOK
<1>2. MembershipOK'
  <2>1. CASE invite.state \notin {"Joined", "Left"}  BY <1>1, <2>1 DEF MembershipOK
  <2>2. CASE invite.state = "Joined" /\ Leaves(events[position + 1].cmd)
    BY <1>1, <2>2 DEF MembershipOK, JoinedBefore, Leaves, ChangesMembership
  <2>3. CASE /\ invite.state = "Joined"
             /\ events[position + 1].cmd = "InitiateUpdateInviteRoles"
             /\ subject'.at = subject.at /\ joined'.at = joined.at
    BY <1>1, <2>3 DEF InvitesInv, MembershipOK, JoinedBefore, ChangesMembership
  <2> QED  BY <2>1, <2>2, <2>3
<1> QED  BY <1>1, <1>2, CallKeepsInv

LEMMA WorkspaceJoinedKeepsInv == InvitesInv /\ CreateJoinedWorkspace => InvitesInv'
<1> SUFFICES ASSUME InvitesInv, CreateJoinedWorkspace  PROVE InvitesInv'
  OBVIOUS
<1>1. PICK e : e = events[position + 1]  OBVIOUS
<1>2. /\ joined'.at = "active" /\ IsDoc(joined)' /\ UNCHANGED <<invite, subject, position>>
      /\ e.cmd = "InitiateJoinWorkspace" => joined'.roles = applying.read.roles
      /\ e.cmd # "InitiateJoinWorkspace" => joined'.roles = e.roles
  BY <1>1 DEF CreateJoinedWorkspace, RolesToPut, event, IsDoc
<1>3. IsDoc(subject)' /\ subject'.at \in {"none", "active", "inactive"}
  BY <1>2 DEF InvitesInv, InvitesTypeOK, IsDoc
<1>4. CASE Calling("CreateJoinedWorkspace")
  <2>1. Working("CreateJoinedWorkspace")  BY <1>2, <1>4, CallOnDocs
  <2>2. /\ CallsLeft(Tail(applying.calls), applying.read.roles, e, invite.state,
                     subject, joined')
        /\ invite.state \notin {"Joined", "Left"}
    BY <1>1, <1>2, <2>1, JoinedWorkspaceMade DEF Working
  <2> QED  BY <1>1, <1>2, <1>3, <2>1, <2>2, DocsChange
<1>5. CASE Calling("UpdateJoinedWorkspaceRoles")
  <2>1. Working("UpdateJoinedWorkspaceRoles")  BY <1>2, <1>5, CallOnDocs
  <2>2. /\ invite.state = "Joined" /\ e.cmd = "InitiateUpdateInviteRoles"
        /\ subject.at = "active" /\ joined.at = "active"
    <3>1. invite.state = "Joined" /\ e.cmd = "InitiateUpdateInviteRoles"
      BY <1>1, <2>1, CallsInOrder
         DEF Working, CallsLeft, JoinLeft, RolesLeft, LeaveLeft, Fits, ChangesMembership
    <3>2. position < Len(events)  BY <1>5, CallIsMade
    <3> QED  BY <1>1, <3>1, <3>2 DEF InvitesInv, MembershipOK, JoinedBefore
  <2>3. CallsLeft(Tail(applying.calls), applying.read.roles, e, invite.state,
                  subject, joined')
    BY <1>1, <1>2, <2>1, <2>2, JoinedRolesPut DEF Working
  <2> QED  BY <1>1, <1>2, <1>3, <2>1, <2>2, <2>3, DocsChange
<1> QED  BY <1>4, <1>5 DEF CreateJoinedWorkspace

LEMMA SubjectInsertedKeepsInv == InvitesInv /\ InsertSubject => InvitesInv'
<1> SUFFICES ASSUME InvitesInv, InsertSubject  PROVE InvitesInv'
  OBVIOUS
<1>1. PICK e : e = events[position + 1]  OBVIOUS
<1>2. /\ subject'.at = "active" /\ IsDoc(subject)' /\ UNCHANGED <<invite, joined, position>>
      /\ e.cmd = "InitiateJoinWorkspace" => subject'.roles = applying.read.roles
  BY <1>1 DEF InsertSubject, RolesToPut, event, IsDoc
<1>3. Working("InsertSubject")  BY <1>2, CallOnDocs DEF InsertSubject
<1>4. /\ CallsLeft(Tail(applying.calls), applying.read.roles, e, invite.state,
                   subject', joined)
      /\ invite.state \notin {"Joined", "Left"}
  BY <1>1, <1>2, <1>3, SubjectInserted DEF Working
<1>5. IsDoc(joined)'  BY <1>2, <1>3 DEF Working, IsDoc
<1> QED  BY <1>1, <1>2, <1>3, <1>4, <1>5, DocsChange

LEMMA SubjectActivatedKeepsInv == InvitesInv /\ ActivateSubject => InvitesInv'
<1> SUFFICES ASSUME InvitesInv, ActivateSubject  PROVE InvitesInv'
  OBVIOUS
<1>1. UNCHANGED <<invite, joined, position>>  BY DEF ActivateSubject
<1>2. Working("ActivateSubject")  BY <1>1, CallOnDocs DEF ActivateSubject
<1>3. subject' = [at |-> "active", roles |-> subject.roles]
  <2>1. IsDoc(subject)  BY <1>2 DEF Working
  <2> QED  BY <2>1, DocUpdates DEF ActivateSubject
<1>4. subject'.at = "active" /\ IsDoc(subject)'  BY <1>3 DEF IsDoc
<1>5. /\ CallsLeft(Tail(applying.calls), applying.read.roles, events[position + 1],
                   invite.state, subject', joined)
      /\ invite.state \notin {"Joined", "Left"}
  BY <1>2, <1>4, SubjectActivated DEF Working
<1>6. IsDoc(joined)'  BY <1>1, <1>2 DEF Working, IsDoc
<1> QED  BY <1>1, <1>2, <1>4, <1>5, <1>6, DocsChange

LEMMA SubjectUpdatedKeepsInv == InvitesInv /\ UpdateSubject => InvitesInv'
<1> SUFFICES ASSUME InvitesInv, UpdateSubject  PROVE InvitesInv'
  OBVIOUS
<1>1. UNCHANGED <<invite, joined, position>>  BY DEF UpdateSubject
<1>2. Working("UpdateSubject")  BY <1>1, CallOnDocs DEF UpdateSubject
<1>3. PICK e : e = events[position + 1]  OBVIOUS
<1>4. PICK r : r = IF e.cmd = "InitiateJoinWorkspace" THEN applying.read.roles ELSE e.roles
  OBVIOUS
<1>5. subject' = [at |-> subject.at, roles |-> r]
  <2>1. IsDoc(subject)  BY <1>2 DEF Working
  <2>2. subject' = [subject EXCEPT !.roles = r]
    BY <1>3, <1>4 DEF UpdateSubject, RolesToPut, event
  <2> QED  BY <2>1, <2>2, DocUpdates
<1>6. /\ subject'.at = subject.at /\ subject'.roles = r /\ IsDoc(subject)'
      /\ subject'.at \in {"none", "active", "inactive"}
  BY <1>5 DEF IsDoc, InvitesInv, InvitesTypeOK
<1>7. /\ CallsLeft(Tail(applying.calls), applying.read.roles, e, invite.state,
                   subject', joined)
      /\ \/ invite.state \notin {"Joined", "Left"}
         \/ invite.state = "Joined" /\ e.cmd = "InitiateUpdateInviteRoles"
  BY <1>2, <1>3, <1>4, <1>6, SubjectRolesPut DEF Working
<1>8. IsDoc(joined)'  BY <1>1, <1>2 DEF Working, IsDoc
<1> QED  BY <1>1, <1>2, <1>3, <1>6, <1>7, <1>8, DocsChange

LEMMA SubjectDeactivatedKeepsInv == InvitesInv /\ DeactivateSubject => InvitesInv'
<1> SUFFICES ASSUME InvitesInv, DeactivateSubject  PROVE InvitesInv'
  OBVIOUS
<1>1. UNCHANGED <<invite, joined, position>>  BY DEF DeactivateSubject
<1>2. Working("DeactivateSubject")  BY <1>1, CallOnDocs DEF DeactivateSubject
<1>3. subject' = [at |-> "inactive", roles |-> subject.roles]
  <2>1. IsDoc(subject)  BY <1>2 DEF Working
  <2> QED  BY <2>1, DocUpdates DEF DeactivateSubject
<1>4. subject'.at = "inactive" /\ IsDoc(subject)'  BY <1>3 DEF IsDoc
<1>5. /\ CallsLeft(Tail(applying.calls), applying.read.roles, events[position + 1],
                   invite.state, subject', joined)
      /\ invite.state = "Joined" /\ Leaves(events[position + 1].cmd)
  BY <1>2, <1>4, SubjectDeactivated DEF Working
<1>6. IsDoc(joined)'  BY <1>1, <1>2 DEF Working, IsDoc
<1> QED  BY <1>1, <1>2, <1>4, <1>5, <1>6, DocsChange

LEMMA JoinedDeactivatedKeepsInv == InvitesInv /\ DeactivateJoinedWorkspace => InvitesInv'
<1> SUFFICES ASSUME InvitesInv, DeactivateJoinedWorkspace  PROVE InvitesInv'
  OBVIOUS
<1>1. UNCHANGED <<invite, subject, position>>  BY DEF DeactivateJoinedWorkspace
<1>2. Working("DeactivateJoinedWorkspace")
  BY <1>1, CallOnDocs DEF DeactivateJoinedWorkspace
<1>3. joined' = [at |-> "inactive", roles |-> joined.roles]
  <2>1. IsDoc(joined)  BY <1>2 DEF Working
  <2> QED  BY <2>1, DocUpdates DEF DeactivateJoinedWorkspace
<1>4. joined'.at = "inactive" /\ IsDoc(joined)'  BY <1>3 DEF IsDoc
<1>5. /\ CallsLeft(Tail(applying.calls), applying.read.roles, events[position + 1],
                   invite.state, subject, joined')
      /\ invite.state = "Joined" /\ Leaves(events[position + 1].cmd)
  BY <1>2, <1>4, JoinedWorkspaceDeactivated DEF Working
<1>6. IsDoc(subject)' /\ subject'.at \in {"none", "active", "inactive"}
  BY <1>1, <1>2 DEF Working, IsDoc, InvitesInv, InvitesTypeOK
<1> QED  BY <1>1, <1>2, <1>4, <1>5, <1>6, DocsChange

LEMMA CallFailsKeepsInv == InvitesInv /\ (CallFails \/ InsertSubjectFails) => InvitesInv'
<1> SUFFICES ASSUME InvitesInv, CallFails \/ InsertSubjectFails  PROVE InvitesInv'
  OBVIOUS
<1>1. applying' = NotApplying /\ UNCHANGED <<docs, events, position>>
  BY DEF CallFails, InsertSubjectFails
<1>2. applying'.calls = <<>> /\ applying' = [calls |-> applying'.calls, read |-> applying'.read]
  BY <1>1 DEF NotApplying
<1>3. UNCHANGED <<invite, subject, joined, events, position>>  BY <1>1 DEF docs
<1>4. InvitesTypeOK' /\ MembershipOK'
  BY <1>2, <1>3 DEF InvitesInv, InvitesTypeOK, MembershipOK
<1> QED  BY <1>2, <1>4 DEF InvitesInv, WorkOK, CallsLeft

LEMMA UpdateInviteKeepsInv == InvitesInv /\ UpdateInvite => InvitesInv'
<1> SUFFICES ASSUME InvitesInv, UpdateInvite  PROVE InvitesInv'
  OBVIOUS
<1>0. PICK c : c = "UpdateInvite"  OBVIOUS
<1>1. Calling(c) /\ UNCHANGED <<subject, joined, position>>  BY <1>0 DEF UpdateInvite
<1>2. /\ applying.calls # <<>> /\ Head(applying.calls) = c
      /\ position < Len(events) /\ events' = events
  BY <1>1, CallIsMade
<1>3. PICK e : e = events[position + 1]  OBVIOUS
<1>4. e.cmd \in InviteCommands  BY <1>2, <1>3, EventIsACommand
<1>5. CallsLeft(applying.calls, applying.read.roles, e, invite.state, subject, joined)
  BY <1>3 DEF InvitesInv, WorkOK
<1>6. PICK s, r : /\ s = InviteFinalState[e.cmd]
                  /\ r = IF e.cmd = "InitiateUpdateInviteRoles" THEN e.roles ELSE invite.roles
  OBVIOUS
<1>7. invite' = [state |-> s, roles |-> r, login |-> invite.login]
  <2>1. invite = [state |-> invite.state, roles |-> invite.roles, login |-> invite.login]
    BY DEF InvitesInv, InvitesTypeOK
  <2>2. invite' = [invite EXCEPT !.state = s, !.roles = r]
    BY <1>3, <1>6, <2>1 DEF UpdateInvite, event
  <2> QED  BY <2>1, <2>2
<1>8. /\ invite'.state = s
      /\ invite' = [state |-> invite'.state, roles |-> invite'.roles, login |-> invite'.login]
  BY <1>7
<1>9. /\ CallsLeft(Tail(applying.calls), applying.read.roles, e, s, subject, joined)
      /\ s = "Joined" => Member(subject, joined)
      /\ s = "Left" => NoMember(subject, joined)
  BY <1>0, <1>2, <1>4, <1>5, <1>6, InviteUpdated
<1>10. MembershipOK'
  <2>1. s = "Joined" => \A cmd : JoinedBefore(cmd, subject, joined)
    BY <1>9 DEF JoinedBefore, Member
  <2> QED  BY <1>1, <1>8, <1>9, <2>1 DEF MembershipOK
<1>11. /\ IsDoc(subject)' /\ subject'.at \in {"none", "active", "inactive"} /\ IsDoc(joined)'
  BY <1>1 DEF InvitesInv, InvitesTypeOK, IsDoc
<1>12. CallsLeft(Tail(applying.calls), applying.read.roles, events[position + 1],
                 invite'.state, subject', joined')
  BY <1>1, <1>3, <1>8, <1>9
<1> QED  BY <1>1, <1>8, <1>10, <1>11, <1>12, CallKeepsInv

LEMMA SavePositionKeepsInv == InvitesInv /\ SavePosition => InvitesInv'
<1> SUFFICES ASSUME InvitesInv, SavePosition  PROVE InvitesInv'
  OBVIOUS
<1>0. PICK c : c = "SavePosition"  OBVIOUS
<1>1. Calling(c) /\ position' = position + 1 /\ UNCHANGED <<invite, subject, joined>>
  BY <1>0 DEF SavePosition, docs
<1>2. /\ applying.calls # <<>> /\ Head(applying.calls) = c
      /\ position < Len(events) /\ events' = events
      /\ applying' = [calls |-> applying'.calls, read |-> applying'.read]
      /\ applying'.calls = Tail(applying.calls) \/ applying'.calls = <<>>
  BY <1>1, CallIsMade
<1>3. Tail(applying.calls) = <<>> /\ (invite.state = "Joined" => Member(subject, joined))
  BY <1>0, <1>2, LastCall DEF InvitesInv, WorkOK
<1>4. applying'.calls = <<>>  BY <1>2, <1>3
<1>5. position' \in Nat /\ position' <= Len(events')
  <2>1. position + 1 \in 1 .. Len(events)  BY <1>2, EventIsACommand
  <2>2. PICK n : n = Len(events)  OBVIOUS
  <2>3. position + 1 \in 1 .. n  BY <2>1, <2>2
  <2>4. position \in Nat  BY DEF InvitesInv, InvitesTypeOK
  <2>5. position + 1 \in Nat /\ position + 1 <= n  BY <2>3, <2>4
  <2> QED  BY <1>1, <1>2, <2>2, <2>5
<1>6. InvitesTypeOK'
  BY <1>1, <1>2, <1>5 DEF InvitesInv, InvitesTypeOK
<1>7. MembershipOK'
  <2>1. invite.state = "Joined" => \A cmd : JoinedBefore(cmd, subject, joined)
    BY <1>3 DEF JoinedBefore, Member
  <2> QED  BY <1>1, <1>3, <2>1 DEF InvitesInv, MembershipOK
<1> QED  BY <1>4, <1>6, <1>7 DEF InvitesInv, WorkOK, CallsLeft

(* The commands and the choice of the calls. *)

LEMMA Positions ==
    ASSUME NEW n \in Nat, NEW p \in Nat, p <= n
    PROVE  p < n + 1 /\ p <= n + 1 /\ (p < n => p + 1 \in 1 .. n)
  OBVIOUS

LEMMA EventAppended ==
    ASSUME NEW E, NEW s \in Seq(E), NEW x \in E
    PROVE  /\ Append(s, x) \in Seq(E) /\ Len(s) \in Nat /\ Len(Append(s, x)) = Len(s) + 1
           /\ \A i \in 1 .. Len(s) : Append(s, x)[i] = s[i]
  BY AppendProperties, LenProperties

LEMMA AcceptKeepsInv ==
    ASSUME InvitesInv, NEW cmd \in InviteCommands, NEW r \in Roles \union {""}, Accept(cmd, r),
           invite' = [state |-> invite'.state, roles |-> invite'.roles, login |-> invite'.login],
           \/ invite'.state = invite.state
           \/ invite.state # "Joined" /\ invite'.state = "ToBeInvited"
    PROVE  InvitesInv'
<1>1. PICK x : x = [cmd |-> cmd, roles |-> r]  OBVIOUS
<1>2. events' = Append(events, x) /\ UNCHANGED <<subject, joined, position, applying>>
  BY <1>1 DEF Accept
<1>3. \A E : events \in Seq(E) /\ x \in E =>
          /\ events' \in Seq(E) /\ Len(events) \in Nat /\ Len(events') = Len(events) + 1
          /\ \A i \in 1 .. Len(events) : events'[i] = events[i]
  BY <1>2, EventAppended
<1>4. PICK E : E = [cmd : InviteCommands, roles : Roles \union {""}]  OBVIOUS
<1>5. events \in Seq(E)  BY <1>4 DEF InvitesInv, InvitesTypeOK
<1>6. x \in E /\ x.cmd = cmd  BY <1>1, <1>4
<1>7. PICK n : n = Len(events)  OBVIOUS
<1>8. events' \in Seq(E) /\ \A i \in 1 .. n : events'[i] = events[i]
  BY <1>3, <1>5, <1>6, <1>7
<1>9. /\ position \in Nat /\ position <= n
      /\ n \in Nat /\ Len(events') = n + 1
  BY <1>3, <1>5, <1>6, <1>7 DEF InvitesInv, InvitesTypeOK
<1>10. position' <= Len(events') /\ position' < Len(events')
  BY <1>2, <1>9, Positions
<1>11. InvitesTypeOK'
  BY <1>2, <1>4, <1>8, <1>10 DEF InvitesInv, InvitesTypeOK
<1>12. position < n => events'[position + 1] = events[position + 1]
  <2>1. position < n => position + 1 \in 1 .. n  BY <1>9, Positions
  <2> QED  BY <1>8, <2>1
<1>13. MembershipOK'
  <2>1. CASE invite'.state = "Joined"
    <3>1. invite.state = "Joined"  BY <2>1
    <3>2. CASE position < n
      BY <1>2, <1>7, <1>10, <1>12, <2>1, <3>1, <3>2 DEF InvitesInv, MembershipOK
    <3>3. CASE ~(position < n)
      <4>1. Member(subject, joined)  BY <1>7, <3>1, <3>3 DEF InvitesInv, MembershipOK
      <4>2. \A c : JoinedBefore(c, subject, joined)  BY <4>1 DEF JoinedBefore, Member
      <4> QED  BY <1>2, <1>10, <2>1, <4>2 DEF MembershipOK
    <3> QED  BY <3>2, <3>3
  <2>2. CASE invite'.state # "Joined"
    <3>1. invite'.state = "Left" => invite.state = "Left"  OBVIOUS
    <3> QED  BY <1>2, <2>2, <3>1 DEF InvitesInv, MembershipOK
  <2> QED  BY <2>1, <2>2
<1>14. WorkOK'
  <2>1. CASE applying.calls = <<>>  BY <1>2, <2>1 DEF WorkOK, CallsLeft
  <2>2. CASE applying.calls # <<>>
    <3>1. PICK e : e = events[position + 1]  OBVIOUS
    <3>2. e = events'[position' + 1]
      BY <1>2, <1>7, <1>12, <2>2, <3>1 DEF InvitesInv, WorkOK
    <3>3. CallsLeft(applying.calls, applying.read.roles, e, invite.state, subject, joined)
      BY <3>1 DEF InvitesInv, WorkOK
    <3>4. CallsLeft(applying.calls, applying.read.roles, e, invite'.state, subject, joined)
      BY <3>3 DEF CallsLeft, Fits
    <3> QED  BY <1>2, <1>10, <3>2, <3>4 DEF WorkOK
  <2> QED  BY <2>1, <2>2
<1> QED  BY <1>11, <1>13, <1>14 DEF InvitesInv

LEMMA CommandsKeepInv == InvitesInv /\ Commands => InvitesInv'
<1> SUFFICES ASSUME InvitesInv, Commands  PROVE InvitesInv'
  OBVIOUS
<1>1. invite = [state |-> invite.state, roles |-> invite.roles, login |-> invite.login]
  BY DEF InvitesInv, InvitesTypeOK
<1>2. CASE InitiateInvitationByEMail
  <2>1. PICK r \in Roles :
            /\ Accept("InitiateInvitationByEMail", r)
            /\ invite' = [state |-> "ToBeInvited", roles |-> r, login |-> FALSE]
    BY <1>2 DEF InitiateInvitationByEMail
  <2>2. invite.state # "Joined"  BY <2>1 DEF Accept, inviteValidStates
  <2>3. "InitiateInvitationByEMail" \in InviteCommands  BY DEF InviteCommands
  <2>4. /\ invite'.state = "ToBeInvited"
        /\ invite' = [state |-> invite'.state, roles |-> invite'.roles, login |-> invite'.login]
    BY <2>1
  <2> QED  BY <2>1, <2>2, <2>3, <2>4, AcceptKeepsInv
<1>3. CASE InitiateJoinWorkspace
  <2>1. PICK yes : yes = TRUE  OBVIOUS
  <2>2. Accept("InitiateJoinWorkspace", "") /\ invite' = [invite EXCEPT !.login = yes]
    BY <1>3, <2>1 DEF InitiateJoinWorkspace
  <2>3. invite' = [state |-> invite.state, roles |-> invite.roles, login |-> yes]
    BY <1>1, <2>2
  <2>4. /\ invite'.state = invite.state
        /\ invite' = [state |-> invite'.state, roles |-> invite'.roles, login |-> invite'.login]
    BY <2>3
  <2>5. "InitiateJoinWorkspace" \in InviteCommands  BY DEF InviteCommands
  <2> QED  BY <2>2, <2>4, <2>5, AcceptKeepsInv
<1>4. CASE \/ InitiateUpdateInviteRoles \/ InitiateCancelAcceptedInvite
           \/ InitiateLeaveWorkspace \/ CancelSentInvite
  <2>1. PICK cmd \in InviteCommands, r \in Roles \union {""} :
            Accept(cmd, r) /\ UNCHANGED invite
    BY <1>4 DEF InitiateUpdateInviteRoles, InitiateCancelAcceptedInvite,
                InitiateLeaveWorkspace, CancelSentInvite, InviteCommands
  <2> QED  BY <1>1, <2>1, AcceptKeepsInv
<1> QED  BY <1>2, <1>3, <1>4 DEF Commands

LEMMA JoinCallsAre ==
    LET calls == JoinCalls \o CallsFinish
    IN  \/ calls \in {CallsJoinInsert, CallsJoinActivate}
        \/ calls = CallsJoinUpdate /\ subject.at \notin {"none", "inactive"}
<1>1. CASE ~invite.login \/ subject.at = "none"
  <2>1. JoinCalls = <<"CreateJoinedWorkspace", "InsertSubject">>
    BY <1>1, Cat11 DEF JoinCalls
  <2> QED  BY <2>1, Cat22 DEF CallsFinish, CallsJoinInsert
<1>2. CASE ~(~invite.login \/ subject.at = "none") /\ subject.at = "inactive"
  <2>1. JoinCalls = <<"CreateJoinedWorkspace", "ActivateSubject", "UpdateSubject">>
    BY <1>2, Cat12 DEF JoinCalls
  <2> QED  BY <2>1, Cat32 DEF CallsFinish, CallsJoinActivate
<1>3. CASE ~(~invite.login \/ subject.at = "none") /\ subject.at # "inactive"
  <2>1. JoinCalls = <<"CreateJoinedWorkspace", "UpdateSubject">>
    BY <1>3, Cat11 DEF JoinCalls
  <2> QED  BY <1>3, <2>1, Cat22 DEF CallsFinish, CallsJoinUpdate
<1> QED  BY <1>1, <1>2, <1>3

LEMMA ApplyKeepsInv == InvitesInv /\ ApplyInviteEvent => InvitesInv'
<1> SUFFICES ASSUME InvitesInv, ApplyInviteEvent  PROVE InvitesInv'
  OBVIOUS
<1>1. /\ position < Len(events)
      /\ UNCHANGED <<invite, subject, joined, events, position>>
      /\ applying' = [calls |-> applying'.calls, read |-> applying'.read]
  BY DEF ApplyInviteEvent, docs
<1>2. InvitesTypeOK' /\ MembershipOK'
  BY <1>1 DEF InvitesInv, InvitesTypeOK, MembershipOK
<1>3. PICK e : e = events[position + 1]  OBVIOUS
<1>4. e.cmd \in InviteCommands  BY <1>1, <1>3, EventIsACommand
<1>5. applying'.calls = IF Stale(e.cmd) THEN CallsSave ELSE HandlerCalls(e.cmd) \o CallsFinish
  BY <1>3 DEF ApplyInviteEvent, event, CallsSave, CallsFinish
<1>6. PICK roles : roles = applying'.read.roles  OBVIOUS
<1>7. CASE Stale(e.cmd)
  <2>1. invite.state = "Joined" => ~ChangesMembership(e.cmd)
    BY <1>7 DEF Stale, projectorValidStates, ChangesMembership
  <2>2. invite.state = "Joined" => Member(subject, joined)
    BY <1>1, <1>3, <2>1 DEF InvitesInv, MembershipOK, JoinedBefore
  <2> QED  BY <1>1, <1>2, <1>3, <1>5, <1>7, <2>2 DEF InvitesInv, WorkOK, CallsLeft
<1>8. CASE ~Stale(e.cmd)
  <2>1. Fits(invite.state, e.cmd)
    BY <1>4, <1>8 DEF Stale, projectorValidStates, Fits, ChangesMembership, InviteCommands
  <2>2. PICK calls : calls = HandlerCalls(e.cmd) \o CallsFinish  OBVIOUS
  <2>3. \/ calls = CallsFinish /\ Finished(e.cmd, subject, joined)
        \/ e.cmd = "InitiateJoinWorkspace" /\ JoinLeft(calls, roles, subject, joined)
        \/ e.cmd = "InitiateUpdateInviteRoles" /\ RolesLeft(calls, e.roles, subject)
        \/ Leaves(e.cmd) /\ LeaveLeft(calls, subject)
    <3>1. CASE e.cmd = "InitiateJoinWorkspace"
      <4>1. calls = JoinCalls \o CallsFinish  BY <2>2, <3>1 DEF HandlerCalls
      <4>2. subject.at \in {"none", "active", "inactive"}  BY DEF InvitesInv, InvitesTypeOK
      <4> QED  BY <3>1, <4>1, <4>2, JoinCallsAre DEF JoinLeft
    <3>2. CASE e.cmd = "InitiateUpdateInviteRoles"
      <4>1. HandlerCalls(e.cmd) = <<"UpdateSubject", "UpdateJoinedWorkspaceRoles">>
        BY <3>2 DEF HandlerCalls
      <4>2. calls = CallsBothRoles  BY <2>2, <4>1, Cat22 DEF CallsFinish, CallsBothRoles
      <4> QED  BY <3>2, <4>2 DEF RolesLeft
    <3>3. CASE Leaves(e.cmd)
      <4>1. HandlerCalls(e.cmd) = <<"DeactivateSubject", "DeactivateJoinedWorkspace">>
        BY <3>3 DEF HandlerCalls, Leaves
      <4>2. calls = CallsBothLeave  BY <2>2, <4>1, Cat22 DEF CallsFinish, CallsBothLeave
      <4> QED  BY <3>3, <4>2 DEF LeaveLeft
    <3>4. CASE /\ e.cmd \notin {"InitiateJoinWorkspace", "InitiateUpdateInviteRoles"}
               /\ ~Leaves(e.cmd)
      <4>1. HandlerCalls(e.cmd) = <<>>  BY <3>4 DEF HandlerCalls, Leaves
      <4>2. CallsFinish \in Seq({"UpdateInvite", "SavePosition"})  BY DEF CallsFinish
      <4>3. <<>> \o CallsFinish = CallsFinish  BY <4>2, ConcatEmptySeq
      <4> QED  BY <2>2, <3>4, <4>1, <4>3 DEF Finished
    <3> QED  BY <3>1, <3>2, <3>3, <3>4
  <2>4. CallsLeft(calls, roles, e, invite.state, subject, joined)
    BY <2>1, <2>3 DEF CallsLeft
  <2> QED  BY <1>1, <1>2, <1>3, <1>5, <1>6, <1>8, <2>2, <2>4 DEF InvitesInv, WorkOK
<1> QED  BY <1>7, <1>8

LEMMA InvitesInductive == InvitesInv /\ [InvitesNext]_invitesVars => InvitesInv'
<1> SUFFICES ASSUME InvitesInv, [InvitesNext]_invitesVars  PROVE InvitesInv'
  OBVIOUS
<1>1. CASE UNCHANGED invitesVars
  BY <1>1 DEF invitesVars, docs, InvitesInv, InvitesTypeOK, MembershipOK, WorkOK
<1>2. CASE Projector
  BY <1>2, ApplyKeepsInv, CallFailsKeepsInv, WorkspaceJoinedKeepsInv, SubjectInsertedKeepsInv,
     SubjectActivatedKeepsInv, SubjectUpdatedKeepsInv, SubjectDeactivatedKeepsInv,
     JoinedDeactivatedKeepsInv, UpdateInviteKeepsInv, SavePositionKeepsInv
     DEF Projector
<1> QED  BY <1>1, <1>2, CommandsKeepInv DEF InvitesNext

\* Who is Joined is a member on both sides with one set of roles, and who has
\* Left is a member on neither: the projector's check of the state and the
\* order of its calls keep it so, whichever calls fail or are made again and
\* whichever commands come meanwhile.
THEOREM MembershipFollowsInvite == InvitesSpec => []MembershipFollowsState
<1> QED  BY InvitesInvInit, InvitesInductive, InvFollowsState, PTL DEF InvitesSpec

-----------------------------------------------------------------------------
(***************************************************************************)
(* Login aliases.  The names of active logins and the active aliases keep  *)
(* apart, and an alias leads to the login that its change was asked for.   *)
(***************************************************************************)
Aliases == Identifiers \union {NoIdentifier}

LoginType == [name : Identifiers, active : BOOLEAN, alias : Aliases,
              inProc : BOOLEAN, error : BOOLEAN]

RegistryType ==
    /\ logins \in Seq(LoginType)
    /\ aliasIndex \in [Identifiers -> [active : BOOLEAN, login : Nat]]
    /\ requests \in [Identifiers -> Seq(Aliases)]
    /\ changing = [x \in Identifiers |-> changing[x]]

\* A change in progress has its request and its login.
ChangeOK(x) ==
    /\ changing[x] = [calls |-> changing[x].calls, login |-> changing[x].login,
                      old |-> changing[x].old]
    /\ changing[x].calls # <<>> =>
          changing[x].login \in 1 .. Len(logins) /\ requests[x] # <<>>

NamesAreUnique ==
    \A i, j \in 1 .. Len(logins) :
        logins[i].active /\ logins[j].active /\ logins[i].name = logins[j].name => i = j

\* No active login has the name of an active alias.
AliasesAreNoNames ==
    \A x \in Identifiers : aliasIndex[x].active =>
        /\ aliasIndex[x].login # 0
        /\ \A i \in 1 .. Len(logins) : logins[i].active => logins[i].name # x

RegistryOK == RegistryType /\ \A x \in Identifiers : ChangeOK(x)

AliasInv == RegistryOK /\ NamesAreUnique /\ AliasesAreNoNames

-----------------------------------------------------------------------------
LEMMA InvInit == LoginAliasInit => AliasInv
BY DEF LoginAliasInit, AliasInv, RegistryOK, RegistryType, ChangeOK, NotChanging,
       NamesAreUnique, AliasesAreNoNames

LEMMA InvUnambiguous == AliasInv => IdentifiersAreUnambiguous
<1> SUFFICES ASSUME AliasInv, NEW x \in Identifiers,
                    NEW i \in ByName(x) \union ByAlias(x),
                    NEW j \in ByName(x) \union ByAlias(x)
             PROVE  i = j
  BY DEF IdentifiersAreUnambiguous
<1>0. DOMAIN logins = 1 .. Len(logins)
  BY DEF AliasInv, RegistryOK, RegistryType
<1>1. CASE i \in ByName(x) /\ j \in ByName(x)
  BY <1>0, <1>1 DEF AliasInv, NamesAreUnique, ByName
<1>2. CASE i \in ByAlias(x) /\ j \in ByAlias(x)
  BY <1>2 DEF ByAlias
<1>3. ByName(x) = {} \/ ByAlias(x) = {}
  BY <1>0 DEF AliasInv, AliasesAreNoNames, ByName, ByAlias
<1> QED  BY <1>1, <1>2, <1>3

LEMMA CDocLoginFinds ==
    ASSUME RegistryType, NEW x \in Identifiers
    PROVE  /\ CDocLogin(x) # 0 => CDocLogin(x) \in 1 .. Len(logins)
           /\ CDocLogin(x) = 0 =>
                 \A i \in 1 .. Len(logins) : logins[i].active => logins[i].name # x
<1>1. DOMAIN logins = 1 .. Len(logins) /\ Len(logins) \in Nat
  BY DEF RegistryType
<1>2. CASE \E i \in DOMAIN logins : logins[i].name = x /\ logins[i].active
  BY <1>1, <1>2 DEF CDocLogin
<1>3. CASE ~\E i \in DOMAIN logins : logins[i].name = x /\ logins[i].active
  BY <1>1, <1>3 DEF CDocLogin
<1> QED  BY <1>2, <1>3

-----------------------------------------------------------------------------
(* The steps, by what they touch. *)

\* No name is taken, no login becomes active, and no alias.
LEMMA HarmlessKeeps ==
    ASSUME AliasInv, RegistryOK', Len(logins') = Len(logins),
           \A i \in 1 .. Len(logins) : /\ logins'[i].name = logins[i].name
                                       /\ logins'[i].active => logins[i].active,
           \A x \in Identifiers : /\ aliasIndex'[x].active => aliasIndex[x].active
                                  /\ aliasIndex'[x].login = aliasIndex[x].login
    PROVE  AliasInv'
<1>1. NamesAreUnique'
  BY DEF AliasInv, NamesAreUnique
<1>2. AliasesAreNoNames'
  BY DEF AliasInv, AliasesAreNoNames
<1> QED  BY <1>1, <1>2 DEF AliasInv

LEMMA CreateLoginKeeps ==
    ASSUME AliasInv, NEW x \in Identifiers, CreateLogin(x)
    PROVE  AliasInv'
<1> DEFINE new == [name |-> x, active |-> TRUE, alias |-> NoIdentifier,
                   inProc |-> FALSE, error |-> FALSE]
<1>1. RegistryOK
  BY DEF AliasInv
<1>2. new \in LoginType /\ logins \in Seq(LoginType) /\ logins' = Append(logins, new)
  BY <1>1 DEF LoginType, Aliases, CreateLogin, RegistryOK, RegistryType
<1> HIDE DEF new
<1>3. /\ logins' \in Seq(LoginType) /\ Len(logins') = Len(logins) + 1
      /\ logins'[Len(logins) + 1] = new /\ Len(logins) \in Nat
      /\ \A i \in 1 .. Len(logins) : logins'[i] = logins[i]
  BY <1>2
<1>4. new.name = x
  BY DEF new
<1>5. /\ \A i \in 1 .. Len(logins) : logins[i].active => logins[i].name # x
      /\ aliasIndex[x].active => aliasIndex[x].login = 0
  BY <1>1, CDocLoginFinds DEF CreateLogin, IdentifierAvailable, RegistryOK
<1>6. RegistryOK'
  BY <1>1, <1>3 DEF CreateLogin, RegistryOK, RegistryType, ChangeOK
<1>7. NamesAreUnique'
  BY <1>3, <1>4, <1>5 DEF AliasInv, NamesAreUnique
<1>8. AliasesAreNoNames'
  <2>1. aliasIndex' = aliasIndex /\ ~aliasIndex[x].active
    BY <1>5 DEF CreateLogin, AliasInv, AliasesAreNoNames
  <2> QED  BY <1>3, <1>4, <2>1 DEF AliasInv, AliasesAreNoNames
<1> QED  BY <1>6, <1>7, <1>8 DEF AliasInv

LEMMA LoginStepKeeps ==
    ASSUME AliasInv,
           \/ \E i \in DOMAIN logins : LoginDeactivated(i)
           \/ \E x \in Identifiers, alias \in Aliases : InitiateSetLoginAlias(x, alias)
    PROVE  AliasInv'
<1>1. RegistryOK
  BY DEF AliasInv
<1>2. DOMAIN logins = 1 .. Len(logins)
  BY <1>1 DEF RegistryOK, RegistryType
<1>3. ASSUME NEW i \in DOMAIN logins, LoginDeactivated(i)  PROVE AliasInv'
  <2>1. /\ logins' = [logins EXCEPT ![i].active = FALSE]
        /\ UNCHANGED <<aliasIndex, requests, changing>>
    BY <1>3 DEF LoginDeactivated
  <2>2. logins' \in Seq(LoginType) /\ Len(logins') = Len(logins)
    <3>1. logins \in Seq(LoginType) /\ logins[i] \in LoginType
      BY <1>1, <1>2 DEF RegistryOK, RegistryType
    <3>2. PICK new : new = [logins[i] EXCEPT !.active = FALSE]
      OBVIOUS
    <3>3. new \in LoginType
      BY <3>1, <3>2 DEF LoginType
    <3> QED  BY <1>2, <2>1, <3>1, <3>2, <3>3
  <2>3. RegistryOK'
    BY <1>1, <2>1, <2>2 DEF RegistryOK, RegistryType, ChangeOK
  <2>4. ASSUME NEW k \in 1 .. Len(logins)
        PROVE  logins'[k].name = logins[k].name /\ (logins'[k].active => logins[k].active)
    <3>1. logins[k] \in LoginType
      BY <1>1 DEF RegistryOK, RegistryType
    <3>2. logins'[k] = IF k = i THEN [logins[k] EXCEPT !.active = FALSE] ELSE logins[k]
      BY <1>2, <2>1
    <3> QED  BY <3>1, <3>2 DEF LoginType
  <2> QED  BY <2>1, <2>2, <2>3, <2>4, HarmlessKeeps
<1>4. ASSUME NEW x \in Identifiers, NEW alias \in Aliases, InitiateSetLoginAlias(x, alias)
      PROVE  AliasInv'
  <2> DEFINE i == CDocLogin(x)
  <2>1. i \in 1 .. Len(logins)
    BY <1>1, <1>4, CDocLoginFinds DEF InitiateSetLoginAlias, RegistryOK
  <2>2. /\ logins' = [logins EXCEPT ![i].inProc = TRUE]
        /\ requests' = [requests EXCEPT ![x] = Append(@, alias)]
        /\ UNCHANGED <<aliasIndex, changing>>
    BY <1>4 DEF InitiateSetLoginAlias
  <2> HIDE DEF i
  <2>3. logins' \in Seq(LoginType) /\ Len(logins') = Len(logins)
    <3>1. logins \in Seq(LoginType) /\ logins[i] \in LoginType
      BY <1>1, <1>2, <2>1 DEF RegistryOK, RegistryType
    <3>2. PICK new : new = [logins[i] EXCEPT !.inProc = TRUE]
      OBVIOUS
    <3>3. new \in LoginType
      BY <3>1, <3>2 DEF LoginType
    <3> QED  BY <2>1, <2>2, <3>1, <3>2, <3>3
  <2>4. requests' \in [Identifiers -> Seq(Aliases)] /\ requests'[x] # <<>>
    <3>1. requests \in [Identifiers -> Seq(Aliases)]
      BY <1>1 DEF RegistryOK, RegistryType
    <3>2. requests[x] \in Seq(Aliases) /\ requests'[x] = Append(requests[x], alias)
      BY <2>2, <3>1
    <3>3. Append(requests[x], alias) \in Seq(Aliases) /\ Len(Append(requests[x], alias)) # 0
      BY <3>2
    <3>4. Append(requests[x], alias) # <<>>
      BY <3>3
    <3> QED  BY <2>2, <3>1, <3>2, <3>3, <3>4
  <2>5. RegistryOK'
    BY <1>1, <2>2, <2>3, <2>4 DEF RegistryOK, RegistryType, ChangeOK
  <2>6. ASSUME NEW k \in 1 .. Len(logins)
        PROVE  logins'[k].name = logins[k].name /\ (logins'[k].active => logins[k].active)
    <3>1. logins[k] \in LoginType
      BY <1>1 DEF RegistryOK, RegistryType
    <3>2. logins'[k] = IF k = i THEN [logins[k] EXCEPT !.inProc = TRUE] ELSE logins[k]
      BY <1>2, <2>2
    <3> QED  BY <3>1, <3>2 DEF LoginType
  <2> QED  BY <2>2, <2>3, <2>5, <2>6, HarmlessKeeps
<1> QED  BY <1>3, <1>4

\* The record of a change is replaced by one that keeps its login.
LEMMA ChangeKeeps ==
    ASSUME RegistryOK, NEW x \in Identifiers, NEW calls,
           changing' = [changing EXCEPT ![x].calls = calls] \/
           changing' = [changing EXCEPT ![x] = NotChanging],
           changing[x].calls # <<>>,
           logins' \in Seq(LoginType), Len(logins') = Len(logins),
           aliasIndex' \in [Identifiers -> [active : BOOLEAN, login : Nat]],
           requests' = requests
    PROVE  RegistryOK'
<1>1. RegistryType'
  BY DEF RegistryOK, RegistryType
<1>2. ASSUME NEW y \in Identifiers \ {x}  PROVE ChangeOK(y)'
  BY DEF RegistryOK, RegistryType, ChangeOK
<1>3. ChangeOK(x)'
  <2>1. ChangeOK(x) /\ changing = [y \in Identifiers |-> changing[y]]
    BY DEF RegistryOK, RegistryType
  <2>2. CASE changing' = [changing EXCEPT ![x] = NotChanging]
    <3>1. changing'[x] = NotChanging  BY <2>1, <2>2
    <3> QED  BY <3>1 DEF NotChanging, ChangeOK
  <2>3. CASE changing' = [changing EXCEPT ![x].calls = calls]
    <3>1. changing'[x] = [changing[x] EXCEPT !.calls = calls]  BY <2>1, <2>3
    <3>2. changing'[x] = [calls |-> calls, login |-> changing[x].login,
                          old |-> changing[x].old]
      BY <2>1, <3>1 DEF ChangeOK
    <3>3. changing[x].login \in 1 .. Len(logins) /\ requests[x] # <<>>
      BY <2>1 DEF ChangeOK
    <3> QED  BY <3>2, <3>3 DEF ChangeOK
  <2> QED  BY <2>2, <2>3
<1> QED  BY <1>1, <1>2, <1>3 DEF RegistryOK

LEMMA PutKeeps ==
    ASSUME AliasInv, NEW x \in Identifiers, PutLoginAliasIndex(x)
    PROVE  AliasInv'
<1> DEFINE alias == Wanted(x)
           loginID == changing[x].login
<1>1. RegistryOK /\ ChangeOK(x) /\ changing[x].calls # <<>>
  BY DEF AliasInv, RegistryOK, PutLoginAliasIndex, At
<1>2. loginID \in 1 .. Len(logins) /\ loginID \in Nat \ {0}
  BY <1>1 DEF ChangeOK, RegistryOK, RegistryType
<1>3. alias \in Aliases
  BY <1>1 DEF Wanted, ChangeOK, RegistryOK, RegistryType
<1>4. /\ logins' = logins /\ requests' = requests
      /\ \E calls : changing' = [changing EXCEPT ![x].calls = calls]
  BY DEF PutLoginAliasIndex, Answered, Refused
<1>5. CASE IdentifierAvailable(alias, loginID)
           /\ aliasIndex' = [aliasIndex EXCEPT ![alias] = [active |-> TRUE, login |-> loginID]]
  <2> HIDE DEF alias, loginID
  <2>1. aliasIndex' \in [Identifiers -> [active : BOOLEAN, login : Nat]]
    BY <1>1, <1>2, <1>5 DEF RegistryOK, RegistryType
  <2>2. RegistryOK'
    BY <1>1, <1>4, <2>1, ChangeKeeps DEF RegistryOK, RegistryType
  <2>3. AliasesAreNoNames'
    <3>1. ASSUME alias \in Identifiers
          PROVE  \A i \in 1 .. Len(logins) : logins[i].active => logins[i].name # alias
      BY <1>1, <1>5, <3>1, CDocLoginFinds DEF IdentifierAvailable, RegistryOK
    <3>2. \A y \in Identifiers \ {alias} : aliasIndex'[y] = aliasIndex[y]
      BY <1>1, <1>5 DEF RegistryOK, RegistryType
    <3>3. alias \in Identifiers => aliasIndex'[alias].login = loginID
      BY <1>1, <1>5 DEF RegistryOK, RegistryType
    <3> QED  BY <1>2, <1>4, <3>1, <3>2, <3>3 DEF AliasInv, AliasesAreNoNames
  <2> QED  BY <1>4, <2>2, <2>3 DEF AliasInv, NamesAreUnique
<1>6. CASE UNCHANGED aliasIndex
  <2>1. RegistryOK'
    BY <1>1, <1>4, <1>6, ChangeKeeps DEF RegistryOK, RegistryType
  <2> QED  BY <1>4, <1>6, <2>1 DEF AliasInv, NamesAreUnique, AliasesAreNoNames
<1> QED  BY <1>5, <1>6 DEF PutLoginAliasIndex

LEMMA DeactivateKeeps ==
    ASSUME AliasInv, NEW x \in Identifiers, DeactivateLoginAliasIndex(x)
    PROVE  AliasInv'
<1> DEFINE old == changing[x].old
<1>1. RegistryOK /\ changing[x].calls # <<>>
  BY DEF AliasInv, DeactivateLoginAliasIndex, At
<1>2. /\ logins' = logins /\ requests' = requests
      /\ \E calls : changing' = [changing EXCEPT ![x].calls = calls]
  BY DEF DeactivateLoginAliasIndex, Answered, Refused
<1>3. aliasIndex' = [aliasIndex EXCEPT ![old].active = FALSE] \/ aliasIndex' = aliasIndex
  BY DEF DeactivateLoginAliasIndex
<1> HIDE DEF old
<1>4. /\ aliasIndex' \in [Identifiers -> [active : BOOLEAN, login : Nat]]
      /\ \A y \in Identifiers : /\ aliasIndex'[y].active => aliasIndex[y].active
                                /\ aliasIndex'[y].login = aliasIndex[y].login
  <2>1. aliasIndex \in [Identifiers -> [active : BOOLEAN, login : Nat]]
    BY <1>1 DEF RegistryOK, RegistryType
  <2>2. CASE aliasIndex' = aliasIndex
    BY <2>1, <2>2
  <2>3. CASE aliasIndex' = [aliasIndex EXCEPT ![old].active = FALSE]
    <3>1. ASSUME NEW y \in Identifiers
          PROVE  /\ aliasIndex'[y] \in [active : BOOLEAN, login : Nat]
                 /\ aliasIndex'[y].active => aliasIndex[y].active
                 /\ aliasIndex'[y].login = aliasIndex[y].login
      <4>1. aliasIndex[y] \in [active : BOOLEAN, login : Nat]
        BY <2>1
      <4>2. aliasIndex'[y] = IF y = old THEN [aliasIndex[y] EXCEPT !.active = FALSE]
                             ELSE aliasIndex[y]
        BY <2>1, <2>3
      <4> QED  BY <4>1, <4>2
    <3>2. aliasIndex' = [y \in Identifiers |-> aliasIndex'[y]]
      BY <2>1, <2>3
    <3> QED  BY <3>1, <3>2
  <2> QED  BY <1>3, <2>2, <2>3
<1>5. RegistryOK'
  BY <1>1, <1>2, <1>4, ChangeKeeps DEF RegistryOK, RegistryType
<1> QED  BY <1>2, <1>4, <1>5, HarmlessKeeps

\* CommitAlias and WriteAliasError write the login of the change, and neither
\* its name nor whether it is active.
LEMMA SourceLoginKeeps ==
    ASSUME AliasInv, NEW x \in Identifiers, CommitAlias(x) \/ WriteAliasError(x)
    PROVE  AliasInv'
<1> DEFINE i == changing[x].login
<1>1. RegistryOK /\ ChangeOK(x) /\ changing[x].calls # <<>>
  BY DEF AliasInv, RegistryOK, CommitAlias, WriteAliasError, At
<1>2. i \in 1 .. Len(logins) /\ Wanted(x) \in Aliases
  BY <1>1 DEF Wanted, ChangeOK, RegistryOK, RegistryType
<1>3. PICK login : /\ logins' = [logins EXCEPT ![i] = login]
                   /\ \/ login = [logins[i] EXCEPT !.alias = Wanted(x), !.inProc = FALSE,
                                                   !.error = FALSE]
                      \/ login = [logins[i] EXCEPT !.inProc = FALSE, !.error = TRUE]
  BY DEF CommitAlias, WriteAliasError, UpdateSourceLogin
<1>4. /\ aliasIndex' = aliasIndex /\ requests' = requests
      /\ \E calls : \/ changing' = [changing EXCEPT ![x].calls = calls]
                    \/ changing' = [changing EXCEPT ![x] = NotChanging]
  BY DEF CommitAlias, WriteAliasError, UpdateSourceLogin, Answered
<1> HIDE DEF i
<1>5. logins[i] \in LoginType
  BY <1>1, <1>2 DEF RegistryOK, RegistryType
<1>6. login \in LoginType /\ login.name = logins[i].name /\ login.active = logins[i].active
  BY <1>2, <1>3, <1>5 DEF LoginType
<1>7. /\ logins' \in Seq(LoginType) /\ Len(logins') = Len(logins)
      /\ \A k \in 1 .. Len(logins) : /\ logins'[k].name = logins[k].name
                                     /\ logins'[k].active => logins[k].active
  BY <1>1, <1>2, <1>3, <1>6 DEF RegistryOK, RegistryType
<1>8. RegistryOK'
  BY <1>1, <1>4, <1>7, ChangeKeeps DEF RegistryOK, RegistryType
<1> QED  BY <1>4, <1>7, <1>8, HarmlessKeeps

LEMMA ProjectorStepKeeps ==
    ASSUME AliasInv, NEW x \in Identifiers,
           \/ ApplySetLoginAlias(x) \/ IndexCallFails(x) \/ CommitFails(x)
           \/ AliasChangeDone(x) \/ ProjectorStartsAgain(x)
    PROVE  AliasInv'
<1>1. RegistryOK /\ ChangeOK(x)
  BY DEF AliasInv, RegistryOK
<1>2. logins' = logins /\ aliasIndex' = aliasIndex
  BY DEF ApplySetLoginAlias, IndexCallFails, CommitFails, AliasChangeDone,
         ProjectorStartsAgain
<1>3. RegistryOK' => AliasInv'
  BY <1>2 DEF AliasInv, NamesAreUnique, AliasesAreNoNames
<1>4. CASE ApplySetLoginAlias(x)
  <2>1. CDocLogin(x) \in 1 .. Len(logins) /\ requests[x] # <<>> /\ requests' = requests
    BY <1>1, <1>4, CDocLoginFinds DEF ApplySetLoginAlias, RegistryOK
  <2>2. PICK calls, old : changing' = [changing EXCEPT ![x] =
            [calls |-> calls, login |-> CDocLogin(x), old |-> old]]
    BY <1>4 DEF ApplySetLoginAlias
  <2>3. ChangeOK(x)'
    BY <1>1, <1>2, <2>1, <2>2 DEF ChangeOK, RegistryOK, RegistryType
  <2>4. ASSUME NEW y \in Identifiers \ {x}  PROVE ChangeOK(y)'
    BY <1>1, <1>2, <2>1, <2>2 DEF ChangeOK, RegistryOK, RegistryType
  <2>5. RegistryType'
    BY <1>1, <1>2, <2>1, <2>2 DEF RegistryOK, RegistryType
  <2> QED  BY <1>3, <2>3, <2>4, <2>5 DEF RegistryOK
<1>5. CASE IndexCallFails(x) \/ CommitFails(x) \/ ProjectorStartsAgain(x)
  <2>1. requests' = requests
    BY <1>5 DEF IndexCallFails, CommitFails, ProjectorStartsAgain
  <2>2. \E calls : \/ changing' = [changing EXCEPT ![x].calls = calls]
                   \/ changing' = [changing EXCEPT ![x] = NotChanging]
    BY <1>5 DEF IndexCallFails, CommitFails, ProjectorStartsAgain, Refused
  <2>3. CASE changing[x].calls # <<>>
    BY <1>1, <1>2, <1>3, <2>1, <2>2, <2>3, ChangeKeeps DEF RegistryOK, RegistryType
  <2>4. CASE changing[x].calls = <<>>
    <3>1. changing' = [changing EXCEPT ![x] = NotChanging]
      BY <1>5, <2>4 DEF IndexCallFails, CommitFails, ProjectorStartsAgain, At
    <3>2. RegistryOK'
      BY <1>1, <1>2, <2>1, <3>1 DEF RegistryOK, RegistryType, ChangeOK, NotChanging
    <3> QED  BY <1>3, <3>2
  <2> QED  BY <2>3, <2>4
<1>6. CASE AliasChangeDone(x)
  <2>1. /\ requests' = [requests EXCEPT ![x] = Tail(@)]
        /\ changing' = [changing EXCEPT ![x] = NotChanging] /\ requests[x] # <<>>
    BY <1>1, <1>6 DEF AliasChangeDone, At, ChangeOK
  <2>2. requests' \in [Identifiers -> Seq(Aliases)]
    BY <1>1, <2>1 DEF RegistryOK, RegistryType
  <2>3. RegistryOK'
    BY <1>1, <1>2, <2>1, <2>2 DEF RegistryOK, RegistryType, ChangeOK, NotChanging
  <2> QED  BY <1>3, <2>3
<1> QED  BY <1>4, <1>5, <1>6

-----------------------------------------------------------------------------
\* An identifier leads to one login at most (registry, createLogin and
\* ApplySetLoginAlias): whatever is created, deactivated, replaced or taken
\* over at the same time, and whichever calls fail half-way.
THEOREM OneLoginPerIdentifier == LoginAliasSpec => []IdentifiersAreUnambiguous
<1>1. AliasInv /\ [LoginAliasNext]_aliasVars => AliasInv'
  <2> SUFFICES ASSUME AliasInv, [LoginAliasNext]_aliasVars  PROVE AliasInv'
    OBVIOUS
  <2>1. CASE UNCHANGED aliasVars
    BY <2>1 DEF aliasVars, AliasInv, RegistryOK, RegistryType, ChangeOK, NamesAreUnique,
                AliasesAreNoNames
  <2>2. CASE LoginAliasNext
    BY <2>2, CreateLoginKeeps, LoginStepKeeps, PutKeeps, DeactivateKeeps, SourceLoginKeeps,
       ProjectorStepKeeps
    DEF LoginAliasNext, Aliases
  <2> QED  BY <2>1, <2>2
<1> QED  BY <1>1, InvInit, InvUnambiguous, PTL DEF LoginAliasSpec

=============================================================================
