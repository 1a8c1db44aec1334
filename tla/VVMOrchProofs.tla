--------------------------- MODULE VVMOrchProofs ---------------------------
(***************************************************************************)
(* Proofs about Elections and VVMOrch, for any VVMs, any number of indexes *)
(* and any length of the renewal interval: whoever leads owns the record,  *)
(* a cleanup ends every renewal, the orchestration implements Elections,   *)
(* and a record outlives the services that rely on it.                     *)
(***************************************************************************)
EXTENDS VVMOrch, FiniteSetTheorems, TLAPS

-----------------------------------------------------------------------------
(* Elections. *)

LEMMA QuarterType == Quarter \in Nat /\ Quarter > 0 /\ NoVVM \notin VVMs
BY ElectionsConstants DEF ElectionsConstants

USE QuarterType DEF Duration

-----------------------------------------------------------------------------
(* Type correctness. *)

LEMMA TypeInit == ElectionsInit => ElectionsTypeOK
BY DEF ElectionsInit, ElectionsTypeOK, NoLeadership, LeaderInfo, NoCall

\* The storage operations of a VVM keep the types of the storage.
LEMMA StorageType ==
    ASSUME ElectionsTypeOK, NEW v \in VVMs, NEW k \in Keys,
           Insert(k, v) \/ Swap(k, v) \/ Delete(k, v) \/ UNCHANGED storageVars
    PROVE  /\ holder' \in [Keys -> VVMs \union {NoVVM}]
           /\ ttl' \in [Keys -> 0 .. Duration]
<1> USE DEF ElectionsTypeOK
<1>1. CASE Insert(k, v)  BY <1>1 DEF Insert
<1>2. CASE Swap(k, v)  BY <1>2 DEF Swap
<1>3. CASE Delete(k, v)
  <2>1. CASE holder[k] = v  BY <1>3, <2>1 DEF Delete
  <2>2. CASE holder[k] # v  BY <1>3, <2>2 DEF Delete, storageVars
  <2> QED  BY <2>1, <2>2
<1>4. CASE UNCHANGED storageVars  BY <1>4 DEF storageVars
<1> QED  BY <1>1, <1>2, <1>3, <1>4

\* What the goroutine of a leadership may do to its record.
LEMMA MaintainType ==
    ASSUME ElectionsTypeOK, NEW v \in VVMs, NEW k \in Keys, Maintain(v, k)
    PROVE  /\ li' = [li EXCEPT ![v][k] = li'[v][k]]
           /\ li'[v][k] \in LeaderInfo
<1> DEFINE r == li[v][k]
<1>0. r \in LeaderInfo /\ li \in [VVMs -> [Keys -> LeaderInfo]]
  BY DEF ElectionsTypeOK
<1>1. CASE TickerFires(v, k)
  <2> DEFINE new == [r EXCEPT !.at = "renewing", !.ticker = Quarter, !.deadline = Quarter]
  <2>0. Quarter \in 0 .. Quarter  OBVIOUS
  <2>1. new \in LeaderInfo  BY <1>0, <2>0 DEF LeaderInfo
  <2>2. li' = [li EXCEPT ![v][k] = new]  BY <1>1 DEF TickerFires
  <2> QED  BY <1>0, <2>1, <2>2
<1>2. CASE RenewOk(v, k)  BY <1>0, <1>2 DEF RenewOk, LeaderInfo
<1>3. CASE RenewErrs(v, k)  BY <1>0, <1>3 DEF RenewErrs, LeaderInfo
<1>4. CASE Retry(v, k)  BY <1>0, <1>4 DEF Retry, LeaderInfo
<1>5. ASSUME LoadAndDelete(v, k)
      PROVE  li' = [li EXCEPT ![v][k] = li'[v][k]] /\ li'[v][k] \in LeaderInfo
  <2>1. CASE r.entry  BY <1>0, <1>5, <2>1 DEF LoadAndDelete, LeaderInfo
  <2>2. CASE ~r.entry  BY <1>0, <1>5, <2>2 DEF LoadAndDelete, LeaderInfo
  <2> QED  BY <2>1, <2>2
<1>6. CASE RenewStolen(v, k) \/ GiveUp(v, k)  BY <1>5, <1>6 DEF RenewStolen, GiveUp
<1>7. CASE MaintainDeletes(v, k)  BY <1>0, <1>7 DEF MaintainDeletes, LeaderInfo
<1>8. CASE MaintainCancels(v, k)  BY <1>0, <1>8 DEF MaintainCancels, LeaderInfo
<1>9. CASE MaintainEnds(v, k)  BY <1>0, <1>9 DEF MaintainEnds, LeaderInfo
<1> QED  BY <1>1, <1>2, <1>3, <1>4, <1>6, <1>7, <1>8, <1>9 DEF Maintain

\* What ReleaseLeadership and cleanup do to the leaderships of their instance.
LEMMA CallType ==
    ASSUME ElectionsTypeOK, NEW v \in VVMs,
           Call(v) \/ Cleanup(v) \/ \E k \in Keys : ReleaseLeadership(v, k),
           caller[v].at \in {"delete", "cancel", "wait"} => caller[v].key \in Keys
    PROVE  ElectionsTypeOK'
<1> USE DEF ElectionsTypeOK
<1>0. ASSUME NEW k \in Keys, NEW e \in BOOLEAN, NEW c \in {"none", "live", "cancelled"}
      PROVE  [li[v][k] EXCEPT !.entry = e] \in LeaderInfo
             /\ [li[v][k] EXCEPT !.ctx = c] \in LeaderInfo
  <2>1. li[v][k] \in LeaderInfo  OBVIOUS
  <2> QED  BY <2>1 DEF LeaderInfo
<1>1. ASSUME NEW k \in Keys, ReleaseLeadership(v, k)  PROVE ElectionsTypeOK'
  <2>1. li' \in [VVMs -> [Keys -> LeaderInfo]]  BY <1>0, <1>1 DEF ReleaseLeadership
  <2> QED  BY <1>1, <2>1 DEF ReleaseLeadership, storageVars
<1>2. CASE Cleanup(v)  BY <1>2 DEF Cleanup, storageVars
<1>3. ASSUME NEW k \in Keys, CleanupNext(v, k)  PROVE ElectionsTypeOK'
  BY <1>3 DEF CleanupNext, storageVars
<1>4. CASE CleanupDone(v)  BY <1>4 DEF CleanupDone, storageVars
<1>5. CASE CallerDeletes(v)
  <2>1. caller[v].key \in Keys  BY <1>5 DEF CallerDeletes
  <2>2. Delete(caller[v].key, v) \/ UNCHANGED storageVars  BY <1>5 DEF CallerDeletes
  <2>3. holder' \in [Keys -> VVMs \union {NoVVM}] /\ ttl' \in [Keys -> 0 .. Duration]
    BY <2>1, <2>2, StorageType
  <2>4. caller' = [caller EXCEPT ![v].at = "cancel"] /\ li' = li /\ isFinalized' = isFinalized
    BY <1>5 DEF CallerDeletes
  <2> DEFINE Callers == [op : {"none", "release", "cleanup"}, key : Keys \union {NoKey},
                         at : {"none", "range", "delete", "cancel", "wait", "done"}]
  <2>5. caller' \in [VVMs -> Callers]
    <3>1. caller \in [VVMs -> Callers]  OBVIOUS
    <3>2. [caller[v] EXCEPT !.at = "cancel"] \in Callers  BY <3>1
    <3> HIDE DEF Callers, ElectionsTypeOK
    <3>3. caller' = [caller EXCEPT ![v] = [caller[v] EXCEPT !.at = "cancel"]]  BY <2>4
    <3> QED  BY <3>1, <3>2, <3>3
  <2>6. li' \in [VVMs -> [Keys -> LeaderInfo]] /\ isFinalized' \in [VVMs -> BOOLEAN]
    BY <2>4
  <2> QED  BY <2>3, <2>5, <2>6
<1>6. CASE CallerCancels(v)
  <2>1. caller[v].key \in Keys  BY <1>6 DEF CallerCancels
  <2>2. li' \in [VVMs -> [Keys -> LeaderInfo]]  BY <1>0, <1>6, <2>1 DEF CallerCancels
  <2>3. caller' \in [VVMs -> [op : {"none", "release", "cleanup"},
                            key : Keys \union {NoKey},
                            at : {"none", "range", "delete", "cancel", "wait", "done"}]]
    BY <1>6 DEF CallerCancels
  <2> QED  BY <1>6, <2>2, <2>3 DEF CallerCancels, storageVars
<1>7. CASE CallerReturns(v)
  <2>1. caller[v].key \in Keys  BY <1>7 DEF CallerReturns
  <2>2. CASE caller[v].op = "cleanup"
    <3> DEFINE k == caller[v].key
    <3>0. [li[v][k] EXCEPT !.entry = FALSE] \in LeaderInfo  BY <1>0, <2>1
    <3>2. li' = [li EXCEPT ![v][k].entry = FALSE]  BY <1>7, <2>2 DEF CallerReturns
    <3>1. li' \in [VVMs -> [Keys -> LeaderInfo]]  BY <3>0, <3>2, <2>1
    <3> QED  BY <1>7, <2>2, <3>1 DEF CallerReturns, storageVars
  <2>3. CASE caller[v].op # "cleanup"
    BY <1>7, <2>3 DEF CallerReturns, storageVars, NoCall
  <2> QED  BY <2>2, <2>3
<1> QED  BY <1>1, <1>2, <1>3, <1>4, <1>5, <1>6, <1>7 DEF Call

LEMMA CountDownType ==
    ASSUME NEW n \in Nat, NEW t \in 0 .. n
    PROVE  CountDown(t) \in 0 .. n
BY DEF CountDown

\* A second passes.
LEMMA TickType == ElectionsTypeOK /\ Tick => ElectionsTypeOK'
<1> SUFFICES ASSUME ElectionsTypeOK, Tick  PROVE ElectionsTypeOK'
  OBVIOUS
<1> USE DEF ElectionsTypeOK, Tick
<1>1. holder' \in [Keys -> VVMs \union {NoVVM}]  OBVIOUS
<1>2. ttl' \in [Keys -> 0 .. Duration]
  <2>1. \A k \in Keys : CountDown(ttl[k]) \in 0 .. Duration
    <3> TAKE k \in Keys
    <3>1. ttl[k] \in 0 .. Duration  OBVIOUS
    <3> QED  BY <3>1, CountDownType
  <2> QED  BY <2>1
<1>3. \A v \in VVMs, k \in Keys : Elapse(li[v][k]) \in LeaderInfo
  <2> TAKE v \in VVMs, k \in Keys
  <2> DEFINE r == li[v][k]
             at == IF r.at = "retrying" THEN "retry" ELSE r.at
  <2>1. r \in LeaderInfo  OBVIOUS
  <2>2. r.ticker \in 0 .. Quarter /\ r.deadline \in 0 .. Quarter  BY <2>1 DEF LeaderInfo
  <2>3. CountDown(r.ticker) \in 0 .. Quarter /\ CountDown(r.deadline) \in 0 .. Quarter
    BY <2>2, CountDownType
  <2>4. at \in {"off", "waiting", "renewing", "retrying", "retry", "deleting", "cancelling"}
    BY <2>1 DEF LeaderInfo
  <2>5. Elapse(r) = [r EXCEPT !.ticker = CountDown(r.ticker),
                              !.deadline = CountDown(r.deadline), !.at = at]
    BY <2>1 DEF Elapse, LeaderInfo
  <2> HIDE DEF at
  <2> QED  BY <2>1, <2>3, <2>4, <2>5 DEF LeaderInfo
<1>4. li' \in [VVMs -> [Keys -> LeaderInfo]]  BY <1>3
<1> QED  BY <1>1, <1>2, <1>4

-----------------------------------------------------------------------------
(***************************************************************************)
(* The inductive invariant.  A record is held by the VVM that relies on it *)
(* and lives longer than the goroutine may go on before it renews it, or   *)
(* gives up; a VVM that does not run its goroutine any more is about to    *)
(* cancel the context itself.                                              *)
(***************************************************************************)
CallOnKey(v) == caller[v].at \in {"delete", "cancel", "wait"} => caller[v].key \in Keys

Covered(v, k) ==
    /\ holder[k] = v
    /\ li[v][k].at = "waiting" => ttl[k] >= 3 * Quarter + li[v][k].ticker
    /\ li[v][k].at \in {"renewing", "retrying", "retry"} =>
           ttl[k] >= 2 * Quarter + li[v][k].deadline

Abandoned(v, k) ==
    \/ li[v][k].at = "off"
    \/ ~li[v][k].entry /\ li[v][k].at \notin {"deleting", "cancelling"}

Orderly(v, k) ==
    /\ Leads(v, k) => Covered(v, k)
    /\ li[v][k].ctx = "live" /\ Abandoned(v, k) =>
           caller[v].key = k /\ caller[v].at \in {"delete", "cancel"}
    /\ caller[v].at = "wait" /\ caller[v].key = k => li[v][k].ctx # "live"

ElectionsInv ==
    /\ ElectionsTypeOK
    /\ \A v \in VVMs : CallOnKey(v)
    /\ \A v \in VVMs, k \in Keys : Orderly(v, k)

\* A storage operation of a VVM leaves the records of the others alone.
LEMMA StorageFrame ==
    ASSUME ElectionsTypeOK, NEW v \in VVMs, NEW k \in Keys,
           Insert(k, v) \/ Swap(k, v) \/ Delete(k, v) \/ UNCHANGED storageVars,
           NEW w \in VVMs, NEW j \in Keys, w # v \/ j # k, holder[j] = w
    PROVE  holder'[j] = w /\ ttl'[j] = ttl[j]
<1> USE DEF ElectionsTypeOK
<1>1. CASE Insert(k, v)  BY <1>1 DEF Insert
<1>2. CASE Swap(k, v)  BY <1>2 DEF Swap
<1>3. CASE Delete(k, v)
  <2>1. CASE holder[k] = v  BY <1>3, <2>1 DEF Delete
  <2>2. CASE holder[k] # v  BY <1>3, <2>2 DEF Delete, storageVars
  <2> QED  BY <2>1, <2>2
<1>4. CASE UNCHANGED storageVars  BY <1>4 DEF storageVars
<1> QED  BY <1>1, <1>2, <1>3, <1>4

\* A leadership that does not move stays orderly when its record stays.
LEMMA OrderlyFrame ==
    ASSUME NEW w \in VVMs, NEW j \in Keys, Orderly(w, j),
           li'[w][j] = li[w][j], caller'[w] = caller[w],
           holder[j] = w => holder'[j] = w /\ ttl'[j] = ttl[j]
    PROVE  Orderly(w, j)'
BY DEF Orderly, Abandoned, Leads, Covered

LEMMA CallOnKeyInductive ==
    ElectionsInv /\ [ElectionsNext]_electionsVars => \A v \in VVMs : CallOnKey(v)'
<1> SUFFICES ASSUME ElectionsInv, [ElectionsNext]_electionsVars, NEW w \in VVMs
             PROVE  CallOnKey(w)'
  OBVIOUS
<1> USE DEF ElectionsInv, ElectionsTypeOK, CallOnKey
<1>1. CASE caller'[w] = caller[w]  BY <1>1
<1>2. ASSUME NEW v \in VVMs, NEW k \in Keys,
             ReleaseLeadership(v, k) \/ CleanupNext(v, k)
      PROVE  CallOnKey(w)'
  <2>1. CASE ReleaseLeadership(v, k)  BY <1>2, <2>1 DEF ReleaseLeadership
  <2>2. CASE CleanupNext(v, k)  BY <1>2, <2>2 DEF CleanupNext
  <2> QED  BY <1>2, <2>1, <2>2
<1>3. ASSUME NEW v \in VVMs, Cleanup(v) \/ CleanupDone(v)  PROVE CallOnKey(w)'
  <2>1. CASE Cleanup(v)  BY <1>3, <2>1 DEF Cleanup
  <2>2. CASE CleanupDone(v)  BY <1>3, <2>2 DEF CleanupDone
  <2> QED  BY <1>3, <2>1, <2>2
<1>4. ASSUME NEW v \in VVMs, CallerDeletes(v) \/ CallerCancels(v)  PROVE CallOnKey(w)'
  <2>1. CASE CallerDeletes(v)  BY <1>4, <2>1 DEF CallerDeletes
  <2>2. CASE CallerCancels(v)  BY <1>4, <2>2 DEF CallerCancels
  <2> QED  BY <1>4, <2>1, <2>2
<1>5. ASSUME NEW v \in VVMs, CallerReturns(v)  PROVE CallOnKey(w)'
  <2>1. CASE caller[v].op = "cleanup"
    <3>1. caller' = [caller EXCEPT ![v].key = NoKey, ![v].at = "range"]
      BY <1>5, <2>1 DEF CallerReturns
    <3>2. caller'[v].at = "range" \/ caller'[w] = caller[w]  BY <3>1
    <3>3. w # v => caller'[w] = caller[w]  BY <3>1
    <3> QED  BY <1>1, <3>2, <3>3
  <2>2. CASE caller[v].op # "cleanup"  BY <1>5, <2>2 DEF CallerReturns, NoCall
  <2> QED  BY <2>1, <2>2
<1>6. ASSUME NEW v \in VVMs, Reset(v)  PROVE CallOnKey(w)'
  BY <1>6 DEF Reset, NoCall
<1>7. ASSUME NEW v \in VVMs, NEW k \in Keys,
             Acquire(v, k) \/ AcquireFails(v, k) \/ Maintain(v, k)
      PROVE  caller' = caller
  BY <1>7 DEF Acquire, AcquireFails, Maintain, TickerFires, RenewOk, RenewErrs, Retry,
              RenewStolen, GiveUp, MaintainDeletes, MaintainCancels, MaintainEnds
<1>8. Tick \/ UNCHANGED electionsVars => caller' = caller  BY DEF Tick, electionsVars
<1> QED  BY <1>1, <1>2, <1>3, <1>4, <1>5, <1>6, <1>7, <1>8
         DEF ElectionsNext, ElectionsStep, Call

\* The goroutine of one leadership keeps every leadership orderly.
LEMMA MaintainKeepsOrder ==
    ASSUME ElectionsInv, NEW v \in VVMs, NEW k \in Keys, Maintain(v, k),
           NEW w \in VVMs, NEW j \in Keys
    PROVE  Orderly(w, j)'
<1> DEFINE r == li[v][k]
<1>0. /\ r \in LeaderInfo /\ li \in [VVMs -> [Keys -> LeaderInfo]] /\ Orderly(w, j)
      /\ ElectionsTypeOK
  BY DEF ElectionsInv, ElectionsTypeOK
<1>1. /\ caller' = caller
      /\ Insert(k, v) \/ Swap(k, v) \/ Delete(k, v) \/ UNCHANGED storageVars
  BY DEF Maintain, TickerFires, RenewOk, RenewErrs, Retry,
              RenewStolen, GiveUp, MaintainDeletes, MaintainCancels, MaintainEnds
<1>2. CASE w # v \/ j # k
  <2>1. li'[w][j] = li[w][j]  BY <1>0, <1>2, MaintainType
  <2>2. holder[j] = w => holder'[j] = w /\ ttl'[j] = ttl[j]
    BY <1>0, <1>1, <1>2, StorageFrame
  <2> QED  BY <1>0, <1>1, <2>1, <2>2, OrderlyFrame
<1>3. ASSUME Orderly(v, k)  PROVE Orderly(v, k)'
  <2> USE <1>0, <1>1, <1>3 DEF Orderly, Abandoned, Leads, Covered, storageVars
  <2>1. CASE TickerFires(v, k)
    BY <2>1 DEF TickerFires, LeaderInfo, ElectionsTypeOK
  <2>2. CASE RenewOk(v, k)
    BY <2>2 DEF RenewOk, Swap, LeaderInfo, ElectionsTypeOK
  <2>3. CASE RenewErrs(v, k)
    BY <2>3 DEF RenewErrs, Swap, LeaderInfo, ElectionsTypeOK
  <2>4. CASE Retry(v, k)
    BY <2>4 DEF Retry, LeaderInfo, ElectionsTypeOK
  <2>5. CASE RenewStolen(v, k)
    BY <2>5 DEF RenewStolen, LoadAndDelete, LeaderInfo, ElectionsTypeOK
  <2>6. CASE GiveUp(v, k)
    <3>1. CASE r.entry
      BY <2>6, <3>1 DEF GiveUp, LoadAndDelete, LeaderInfo, ElectionsTypeOK
    <3>2. CASE ~r.entry
      BY <2>6, <3>2 DEF GiveUp, LoadAndDelete, LeaderInfo, ElectionsTypeOK
    <3> QED  BY <3>1, <3>2
  <2>7. CASE MaintainDeletes(v, k)
    BY <2>7 DEF MaintainDeletes, LeaderInfo, ElectionsTypeOK
  <2>8. CASE MaintainCancels(v, k)
    BY <2>8 DEF MaintainCancels, LeaderInfo, ElectionsTypeOK
  <2>9. CASE MaintainEnds(v, k)
    BY <2>9 DEF MaintainEnds, LeaderInfo, ElectionsTypeOK
  <2> QED  BY <2>1, <2>2, <2>3, <2>4, <2>5, <2>6, <2>7, <2>8, <2>9 DEF Maintain
<1> QED  BY <1>0, <1>2, <1>3

\* ReleaseLeadership and cleanup keep every leadership orderly.
LEMMA CallKeepsOrder ==
    ASSUME ElectionsInv, NEW v \in VVMs,
           Call(v) \/ Cleanup(v) \/ \E k \in Keys : ReleaseLeadership(v, k),
           NEW w \in VVMs, NEW j \in Keys
    PROVE  Orderly(w, j)'
<1>0. /\ li \in [VVMs -> [Keys -> LeaderInfo]] /\ Orderly(w, j) /\ CallOnKey(v)
      /\ ElectionsTypeOK /\ NoKey \notin Keys
  BY ElectionsConstants DEF ElectionsInv, ElectionsTypeOK, ElectionsConstants
<1> USE <1>0 DEF ElectionsTypeOK, Orderly, Abandoned, Leads, Covered
<1>1. ASSUME NEW k \in Keys, ReleaseLeadership(v, k)  PROVE Orderly(w, j)'
  <2>1. CASE w # v  BY <1>1, <2>1 DEF ReleaseLeadership, storageVars
  <2>2. CASE w = v /\ j # k  BY <1>1, <2>2 DEF ReleaseLeadership, storageVars
  <2>3. CASE w = v /\ j = k
    BY <1>1, <2>3 DEF ReleaseLeadership, storageVars, LeaderInfo
  <2> QED  BY <2>1, <2>2, <2>3
<1>2. CASE Cleanup(v)  BY <1>2 DEF Cleanup, storageVars
<1>3. ASSUME NEW k \in Keys, CleanupNext(v, k)  PROVE Orderly(w, j)'
  BY <1>3 DEF CleanupNext, storageVars
<1>4. CASE CleanupDone(v)  BY <1>4 DEF CleanupDone, storageVars
<1>5. CASE CallerDeletes(v)
  <2>1. caller[v].key \in Keys  BY <1>5 DEF CallerDeletes, CallOnKey
  <2>2. CASE w # v \/ j # caller[v].key
    <3>1. holder[j] = w => holder'[j] = w /\ ttl'[j] = ttl[j]
      BY <1>5, <2>1, <2>2, StorageFrame DEF CallerDeletes
    <3> QED  BY <1>5, <2>2, <3>1 DEF CallerDeletes
  <2>3. CASE w = v /\ j = caller[v].key  BY <1>5, <2>3 DEF CallerDeletes
  <2> QED  BY <2>2, <2>3
<1>6. CASE CallerCancels(v)
  <2>1. caller[v].key \in Keys  BY <1>6 DEF CallerCancels, CallOnKey
  <2> QED  BY <1>6, <2>1 DEF CallerCancels, storageVars, LeaderInfo
<1>7. CASE CallerReturns(v)
  <2>1. caller[v].key \in Keys  BY <1>7 DEF CallerReturns, CallOnKey
  <2>2. CASE caller[v].op = "cleanup"
    <3>1. li' = [li EXCEPT ![v][caller[v].key].entry = FALSE]
      BY <1>7, <2>2 DEF CallerReturns
    <3>2. caller' = [caller EXCEPT ![v].key = NoKey, ![v].at = "range"]
      BY <1>7, <2>2 DEF CallerReturns
    <3>3. CASE w # v  BY <1>7, <3>1, <3>2, <3>3 DEF CallerReturns, storageVars
    <3>4. CASE w = v
      <4>1. /\ caller'[v].at = "range" /\ caller[v].at = "wait"
            /\ holder' = holder /\ ttl' = ttl
        BY <1>7, <3>2 DEF CallerReturns, storageVars
      <4>2. CASE j = caller[v].key  BY <1>7, <2>1, <3>1, <3>4, <4>1, <4>2 DEF LeaderInfo
      <4>3. CASE j # caller[v].key  BY <2>1, <3>1, <3>4, <4>1, <4>3
      <4> QED  BY <4>2, <4>3
    <3> QED  BY <3>3, <3>4
  <2>3. CASE caller[v].op # "cleanup"
    <3>1. /\ caller[v].at = "wait" /\ caller' = [caller EXCEPT ![v] = NoCall]
          /\ li' = li /\ holder' = holder /\ ttl' = ttl
      BY <1>7, <2>3 DEF CallerReturns, storageVars
    <3> QED  BY <2>1, <3>1 DEF NoCall
  <2> QED  BY <2>2, <2>3
<1> QED  BY <1>1, <1>2, <1>3, <1>4, <1>5, <1>6, <1>7 DEF Call

\* A second passes for every record and every timer alike, and only when no
\* goroutine has something to do.
LEMMA TickKeepsOrder ==
    ASSUME ElectionsInv, Tick, NEW v \in VVMs, NEW k \in Keys
    PROVE  Orderly(v, k)'
<1> DEFINE r == li[v][k]
<1>0. /\ r \in LeaderInfo /\ li \in [VVMs -> [Keys -> LeaderInfo]]
      /\ Orderly(v, k) /\ ElectionsTypeOK /\ ttl[k] \in 0 .. Duration
  BY DEF ElectionsInv, ElectionsTypeOK
<1>1. /\ caller' = caller /\ caller[v].at \in {"none", "done"} /\ ~Due(v, k)
      /\ ttl'[k] = CountDown(ttl[k])
      /\ holder'[k] = IF ttl[k] <= 1 THEN NoVVM ELSE holder[k]
      /\ li'[v][k] = IF r.at = "off" THEN r ELSE Elapse(r)
  BY DEF Tick, NothingDue
<1> USE <1>0, <1>1 DEF Orderly, Abandoned, Leads, Covered
<1>2. CASE r.at = "off"  BY <1>2
<1>3. CASE r.at # "off"
  <2>1. /\ li'[v][k].ctx = r.ctx /\ li'[v][k].entry = r.entry
        /\ li'[v][k].ticker = CountDown(r.ticker)
        /\ li'[v][k].deadline = CountDown(r.deadline)
        /\ li'[v][k].at = IF r.at = "retrying" THEN "retry" ELSE r.at
    BY <1>3 DEF Elapse, LeaderInfo
  <2>2. r.ticker \in 0 .. Quarter /\ r.deadline \in 0 .. Quarter  BY DEF LeaderInfo
  <2>3. CASE r.ctx = "live"
    <3>1. holder[k] = v /\ r.at \in {"waiting", "retrying"}
      BY <1>3, <2>3 DEF Due, LeaderInfo
    <3>2. CASE r.at = "waiting"
      BY <2>1, <2>2, <2>3, <3>1, <3>2 DEF Due, CountDown
    <3>3. CASE r.at = "retrying"
      BY <2>1, <2>2, <2>3, <3>1, <3>3 DEF Due, CountDown
    <3> QED  BY <3>1, <3>2, <3>3
  <2>4. CASE r.ctx # "live"  BY <2>1, <2>4
  <2> QED  BY <2>3, <2>4
<1> QED  BY <1>2, <1>3

\* A VVM that inserted the record starts to lead with a whole duration ahead.
LEMMA AcquireKeepsOrder ==
    ASSUME ElectionsInv, NEW v \in VVMs, NEW k \in Keys,
           Acquire(v, k) \/ AcquireFails(v, k),
           NEW w \in VVMs, NEW j \in Keys
    PROVE  Orderly(w, j)' /\ ElectionsTypeOK'
<1>0. /\ li \in [VVMs -> [Keys -> LeaderInfo]] /\ Orderly(w, j)
      /\ ElectionsTypeOK /\ NoVVM \notin VVMs
  BY DEF ElectionsInv, ElectionsTypeOK
<1>1. /\ caller' = caller /\ isFinalized' = isFinalized
      /\ Insert(k, v) \/ UNCHANGED storageVars
  BY DEF Acquire, AcquireFails
<1>2. /\ holder' \in [Keys -> VVMs \union {NoVVM}]
      /\ ttl' \in [Keys -> 0 .. Duration]
  BY <1>0, <1>1, StorageType
<1>3. CASE AcquireFails(v, k)
  <2>1. li' = li  BY <1>3 DEF AcquireFails
  <2>2. holder[j] = w => holder'[j] = w /\ ttl'[j] = ttl[j]
    BY <1>0, <1>1 DEF Insert, storageVars, ElectionsTypeOK
  <2> QED  BY <1>0, <1>1, <1>2, <2>1, <2>2, OrderlyFrame DEF ElectionsTypeOK
<1>4. CASE Acquire(v, k)
  <2> DEFINE new == [entry |-> TRUE, ctx |-> "live", at |-> "waiting",
                     ticker |-> Quarter, deadline |-> 0]
  <2>1. li' = [li EXCEPT ![v][k] = new] /\ Insert(k, v)  BY <1>4 DEF Acquire
  <2>2. new \in LeaderInfo  BY DEF LeaderInfo
  <2>3. li' \in [VVMs -> [Keys -> LeaderInfo]]  BY <1>0, <2>1, <2>2
  <2>4. CASE w # v \/ j # k
    <3>1. li'[w][j] = li[w][j]  BY <1>0, <2>1, <2>4
    <3>2. holder[j] = w => holder'[j] = w /\ ttl'[j] = ttl[j]
      BY <1>0, <2>1, <2>4, StorageFrame
    <3> QED  BY <1>0, <1>1, <1>2, <2>3, <3>1, <3>2, OrderlyFrame DEF ElectionsTypeOK
  <2>5. CASE w = v /\ j = k
    <3>1. li'[v][k] = new /\ holder'[k] = v /\ ttl'[k] = Duration /\ caller[v].at = "none"
      BY <1>0, <1>4, <2>1 DEF Insert, ElectionsTypeOK, Acquire
    <3>2. Orderly(v, k)'
      BY <1>1, <3>1 DEF Orderly, Abandoned, Leads, Covered
    <3> QED  BY <1>0, <1>1, <1>2, <2>3, <2>5, <3>2 DEF ElectionsTypeOK
  <2> QED  BY <2>4, <2>5
<1> QED  BY <1>3, <1>4

LEMMA ResetType == ASSUME ElectionsTypeOK, NEW v \in VVMs, Reset(v)
                   PROVE  ElectionsTypeOK'
<1>1. [k \in Keys |-> NoLeadership] \in [Keys -> LeaderInfo]
  BY DEF NoLeadership, LeaderInfo
<1> QED  BY <1>1 DEF Reset, ElectionsTypeOK, storageVars, NoCall

LEMMA ResetKeepsOrder ==
    ASSUME ElectionsInv, NEW v \in VVMs, Reset(v), NEW w \in VVMs, NEW j \in Keys
    PROVE  Orderly(w, j)'
<1>0. /\ li \in [VVMs -> [Keys -> LeaderInfo]] /\ Orderly(w, j) /\ ElectionsTypeOK
  BY DEF ElectionsInv, ElectionsTypeOK
<1>1. CASE w = v
  <2>1. li'[w][j] = NoLeadership  BY <1>0, <1>1 DEF Reset
  <2> QED  BY <1>0, <1>1, <2>1
           DEF NoLeadership, Reset, NoCall, Orderly, Abandoned, Leads, ElectionsTypeOK
<1>2. CASE w # v
  BY <1>0, <1>2, OrderlyFrame DEF Reset, storageVars, ElectionsTypeOK
<1> QED  BY <1>1, <1>2

-----------------------------------------------------------------------------
LEMMA ElectionsInvInit == ElectionsInit => ElectionsInv
<1> SUFFICES ASSUME ElectionsInit  PROVE ElectionsInv
  OBVIOUS
<1>1. ElectionsTypeOK  BY TypeInit
<1>2. \A v \in VVMs : CallOnKey(v)  BY DEF ElectionsInit, NoCall, CallOnKey
<1>3. \A v \in VVMs, k \in Keys : Orderly(v, k)
  BY DEF ElectionsInit, NoLeadership, NoCall, Orderly, Abandoned, Leads
<1> QED  BY <1>1, <1>2, <1>3 DEF ElectionsInv

LEMMA ElectionsTypeInductive ==
    ElectionsInv /\ [ElectionsNext]_electionsVars => ElectionsTypeOK'
<1> SUFFICES ASSUME ElectionsInv, [ElectionsNext]_electionsVars  PROVE ElectionsTypeOK'
  OBVIOUS
<1>0. ElectionsTypeOK /\ \A v \in VVMs : CallOnKey(v)  BY DEF ElectionsInv
<1>1. ASSUME NEW v \in VVMs, NEW k \in Keys, Acquire(v, k) \/ AcquireFails(v, k)
      PROVE  ElectionsTypeOK'
  BY <1>1, AcquireKeepsOrder
<1>2. ASSUME NEW v \in VVMs, NEW k \in Keys, Maintain(v, k)  PROVE ElectionsTypeOK'
  <2>1. /\ caller' = caller /\ isFinalized' = isFinalized
        /\ Insert(k, v) \/ Swap(k, v) \/ Delete(k, v) \/ UNCHANGED storageVars
    BY <1>2 DEF Maintain, TickerFires, RenewOk, RenewErrs, Retry,
                RenewStolen, GiveUp, MaintainDeletes, MaintainCancels, MaintainEnds
  <2>2. /\ holder' \in [Keys -> VVMs \union {NoVVM}]
        /\ ttl' \in [Keys -> 0 .. Duration]
    BY <1>0, <2>1, StorageType
  <2>3. li' \in [VVMs -> [Keys -> LeaderInfo]]
    <3>1. li' = [li EXCEPT ![v][k] = li'[v][k]] /\ li'[v][k] \in LeaderInfo
      BY <1>0, <1>2, MaintainType
    <3> DEFINE new == li'[v][k]
    <3>2. li' = [li EXCEPT ![v][k] = new] /\ new \in LeaderInfo  BY <3>1
    <3>3. li \in [VVMs -> [Keys -> LeaderInfo]]  BY <1>0 DEF ElectionsTypeOK
    <3> HIDE DEF new
    <3> QED  BY <3>2, <3>3
  <2> QED  BY <1>0, <2>1, <2>2, <2>3 DEF ElectionsTypeOK
<1>3. ASSUME NEW v \in VVMs,
             Call(v) \/ Cleanup(v) \/ \E k \in Keys : ReleaseLeadership(v, k)
      PROVE  ElectionsTypeOK'
  BY <1>0, <1>3, CallType DEF CallOnKey
<1>4. CASE Tick  BY <1>0, <1>4, TickType
<1>5. ASSUME NEW v \in VVMs, Reset(v)  PROVE ElectionsTypeOK'
  BY <1>0, <1>5, ResetType
<1>6. CASE UNCHANGED electionsVars  BY <1>0, <1>6 DEF electionsVars, ElectionsTypeOK
<1> QED  BY <1>1, <1>2, <1>3, <1>4, <1>5, <1>6 DEF ElectionsNext, ElectionsStep

LEMMA ElectionsInvInductive ==
    ElectionsInv /\ [ElectionsNext]_electionsVars => ElectionsInv'
<1> SUFFICES ASSUME ElectionsInv, [ElectionsNext]_electionsVars
             PROVE  \A w \in VVMs, j \in Keys : Orderly(w, j)'
  BY CallOnKeyInductive, ElectionsTypeInductive DEF ElectionsInv
<1> TAKE w \in VVMs, j \in Keys
<1>1. ASSUME NEW v \in VVMs, NEW k \in Keys, Acquire(v, k) \/ AcquireFails(v, k)
      PROVE  Orderly(w, j)'
  BY <1>1, AcquireKeepsOrder
<1>2. ASSUME NEW v \in VVMs, NEW k \in Keys, Maintain(v, k)  PROVE Orderly(w, j)'
  BY <1>2, MaintainKeepsOrder
<1>3. ASSUME NEW v \in VVMs,
             Call(v) \/ Cleanup(v) \/ \E k \in Keys : ReleaseLeadership(v, k)
      PROVE  Orderly(w, j)'
  BY <1>3, CallKeepsOrder
<1>4. CASE Tick  BY <1>4, TickKeepsOrder
<1>5. ASSUME NEW v \in VVMs, Reset(v)  PROVE Orderly(w, j)'
  BY <1>5, ResetKeepsOrder
<1>6. CASE UNCHANGED electionsVars
  BY <1>6 DEF electionsVars, ElectionsInv, Orderly, Abandoned, Leads, Covered
<1> QED  BY <1>1, <1>2, <1>3, <1>4, <1>5, <1>6 DEF ElectionsNext, ElectionsStep

\* ElectionsInv holds in every reachable state; it covers the type invariant.
THEOREM ElectionsInvariance == ElectionsSpec => []ElectionsInv
<1>1. ElectionsInit => ElectionsInv  BY ElectionsInvInit
<1>2. ElectionsInv /\ [ElectionsNext]_electionsVars => ElectionsInv'
  BY ElectionsInvInductive
<1> QED  BY <1>1, <1>2, PTL DEF ElectionsSpec

\* The variables keep their types, the timers included.
THEOREM ElectionsTypeCorrect == ElectionsSpec => []ElectionsTypeOK
<1>1. ElectionsInv => ElectionsTypeOK  BY DEF ElectionsInv
<1> QED  BY <1>1, ElectionsInvariance, PTL

\* Whoever relies on a live leadership context owns the unexpired record,
\* whatever errors the storage returns and whenever processes restart.
THEOREM LeadershipIsSafe == ElectionsSpec => []LeaderHoldsTheRecord
<1>1. ElectionsInv => LeaderHoldsTheRecord
  BY DEF ElectionsInv, Orderly, Covered, LeaderHoldsTheRecord
<1> QED  BY <1>1, ElectionsInvariance, PTL

-----------------------------------------------------------------------------
(***************************************************************************)
(* cleanup() leaves nobody behind: a goroutine whose leadership is no more *)
(* in e.leadership is on its way out, or somebody is ending it, and after  *)
(* the cleanup there is none in e.leadership.                              *)
(***************************************************************************)
OnItsWayOut == {"off", "deleting", "cancelling"}

Attended(v, k) ==
    /\ ~li[v][k].entry /\ li[v][k].at \notin OnItsWayOut =>
           caller[v].key = k /\ caller[v].at \in {"delete", "cancel", "wait"}
    /\ caller[v].at = "done" => ~li[v][k].entry

AttendedInv == \A v \in VVMs, k \in Keys : Attended(v, k)

\* A leadership of which these do not change stays attended.
LEMMA AttendedFrame ==
    ASSUME NEW v \in VVMs, NEW k \in Keys, Attended(v, k), caller'[v] = caller[v],
           li'[v][k].entry => li[v][k].entry,
           li'[v][k].at \in OnItsWayOut \/ ( /\ li'[v][k].entry = li[v][k].entry
                                            /\ li[v][k].at \notin OnItsWayOut )
    PROVE  Attended(v, k)'
BY DEF Attended

\* What a goroutine does to its own leadership.
LEMMA MaintainAttends ==
    ASSUME ElectionsTypeOK, AttendedInv, NEW v \in VVMs, NEW k \in Keys, Maintain(v, k),
           NEW w \in VVMs, NEW j \in Keys
    PROVE  Attended(w, j)'
<1>0. /\ li \in [VVMs -> [Keys -> LeaderInfo]] /\ li[v][k] \in LeaderInfo
      /\ Attended(w, j)
  BY DEF ElectionsTypeOK, AttendedInv
<1>1. caller' = caller /\ li' = [li EXCEPT ![v][k] = li'[v][k]]
  BY MaintainType DEF Maintain, TickerFires, RenewOk, RenewErrs, Retry, RenewStolen, GiveUp,
                      MaintainDeletes, MaintainCancels, MaintainEnds
<1>2. CASE w # v \/ j # k
  <2>1. li'[w][j] = li[w][j]  BY <1>0, <1>1, <1>2
  <2> QED  BY <1>0, <1>1, <2>1 DEF Attended
<1>3. CASE w = v /\ j = k
  <2> DEFINE r == li[v][k]
             keeps == /\ li'[v][k].entry => r.entry
                      /\ li'[v][k].at \in OnItsWayOut \/ ( /\ li'[v][k].entry = r.entry
                                                          /\ r.at \notin OnItsWayOut )
  <2>2. ASSUME TickerFires(v, k)  PROVE keeps
    <3>1. li'[v][k] = [r EXCEPT !.at = "renewing", !.ticker = Quarter, !.deadline = Quarter]
          /\ r.at = "waiting"
      BY <1>0, <2>2 DEF TickerFires
    <3> QED  BY <1>0, <3>1 DEF LeaderInfo, OnItsWayOut
  <2>3. ASSUME \/ RenewOk(v, k) \/ RenewErrs(v, k) \/ Retry(v, k) \/ MaintainDeletes(v, k)
               \/ MaintainEnds(v, k)
        PROVE  keeps
    <3>1. /\ li'[v][k].entry = r.entry
          /\ r.at \in {"renewing", "retry"} \/ li'[v][k].at \in {"cancelling", "off"}
      BY <1>0, <2>3 DEF RenewOk, RenewErrs, Retry, MaintainDeletes, MaintainEnds, LeaderInfo
    <3> QED  BY <3>1 DEF OnItsWayOut
  <2>4. ASSUME MaintainCancels(v, k)  PROVE keeps
    <3>1. li'[v][k] = [r EXCEPT !.at = "off", !.ctx = "cancelled"]
      BY <1>0, <2>4 DEF MaintainCancels
    <3> QED  BY <1>0, <3>1 DEF LeaderInfo, OnItsWayOut
  <2>5. ASSUME LoadAndDelete(v, k)  PROVE keeps
    <3>1. li'[v][k] = IF r.entry THEN [r EXCEPT !.entry = FALSE, !.at = "deleting"]
                                 ELSE [r EXCEPT !.at = "off"]
      BY <1>0, <2>5 DEF LoadAndDelete
    <3> QED  BY <1>0, <3>1 DEF LeaderInfo, OnItsWayOut
  <2>6. keeps  BY <2>2, <2>3, <2>4, <2>5 DEF Maintain, RenewStolen, GiveUp
  <2> QED  BY <1>0, <1>1, <1>3, <2>6, AttendedFrame
<1> QED  BY <1>2, <1>3

\* ReleaseLeadership and cleanup.
LEMMA CallAttends ==
    ASSUME ElectionsTypeOK, AttendedInv, NEW v \in VVMs, CallOnKey(v),
           Call(v) \/ Cleanup(v) \/ \E k \in Keys : ReleaseLeadership(v, k),
           NEW w \in VVMs, NEW j \in Keys
    PROVE  Attended(w, j)'
<1>0. /\ li \in [VVMs -> [Keys -> LeaderInfo]]
      /\ \A k \in Keys : li[v][k] \in LeaderInfo
      /\ \A k \in Keys : Attended(v, k)
      /\ Attended(w, j)
      /\ caller \in [VVMs -> [op : {"none", "release", "cleanup"},
                              key : Keys \union {NoKey},
                              at : {"none", "range", "delete", "cancel", "wait", "done"}]]
  BY DEF ElectionsTypeOK, AttendedInv
<1>1. CASE w # v
  <2>1. caller'[w] = caller[w] /\ li'[w] = li[w]
    BY <1>0, <1>1 DEF Call, Cleanup, ReleaseLeadership, CleanupNext, CleanupDone, CallerDeletes,
                      CallerCancels, CallerReturns
  <2> QED  BY <1>0, <2>1 DEF Attended
<1>2. CASE w = v
  <2> USE <1>0, <1>2 DEF Attended, OnItsWayOut
  <2>1. ASSUME NEW k \in Keys, ReleaseLeadership(v, k)  PROVE Attended(v, j)'
    BY <2>1 DEF ReleaseLeadership, LeaderInfo
  <2>2. CASE Cleanup(v)  BY <2>2 DEF Cleanup
  <2>3. ASSUME NEW k \in Keys, CleanupNext(v, k)  PROVE Attended(v, j)'
    BY <2>3 DEF CleanupNext
  <2>4. CASE CleanupDone(v)  BY <2>4 DEF CleanupDone
  <2>5. CASE CallerDeletes(v)  BY <2>5 DEF CallerDeletes
  <2>6. CASE CallerCancels(v)
    BY <2>6 DEF CallerCancels, CallOnKey, LeaderInfo
  <2>7. CASE CallerReturns(v)
    <3>1. CASE caller[v].op = "cleanup"
      BY <2>7, <3>1 DEF CallerReturns, CallOnKey, LeaderInfo
    <3>2. CASE caller[v].op # "cleanup"
      BY <2>7, <3>2 DEF CallerReturns, CallOnKey, NoCall
    <3> QED  BY <3>1, <3>2
  <2> QED  BY <2>1, <2>2, <2>3, <2>4, <2>5, <2>6, <2>7 DEF Call
<1> QED  BY <1>1, <1>2

LEMMA AttendedInvInductive ==
    ElectionsInv /\ AttendedInv /\ [ElectionsNext]_electionsVars => AttendedInv'
<1> SUFFICES ASSUME ElectionsInv, AttendedInv, [ElectionsNext]_electionsVars,
                    NEW w \in VVMs, NEW j \in Keys
             PROVE  Attended(w, j)'
  BY DEF AttendedInv
<1>0. /\ ElectionsTypeOK /\ \A v \in VVMs : CallOnKey(v)
      /\ li \in [VVMs -> [Keys -> LeaderInfo]] /\ li[w][j] \in LeaderInfo /\ Attended(w, j)
  BY DEF ElectionsInv, ElectionsTypeOK, AttendedInv
<1>1. ASSUME NEW v \in VVMs, NEW k \in Keys, Acquire(v, k) \/ AcquireFails(v, k)
      PROVE  Attended(w, j)'
  BY <1>0, <1>1 DEF Acquire, AcquireFails, Attended
<1>2. ASSUME NEW v \in VVMs, NEW k \in Keys, Maintain(v, k)  PROVE Attended(w, j)'
  BY <1>0, <1>2, MaintainAttends
<1>3. ASSUME NEW v \in VVMs,
             Call(v) \/ Cleanup(v) \/ \E k \in Keys : ReleaseLeadership(v, k)
      PROVE  Attended(w, j)'
  BY <1>0, <1>3, CallAttends
<1>4. CASE Tick
  BY <1>0, <1>4 DEF Tick, Elapse, LeaderInfo, Attended, OnItsWayOut
<1>5. ASSUME NEW v \in VVMs, Reset(v)  PROVE Attended(w, j)'
  BY <1>0, <1>5 DEF Reset, NoLeadership, NoCall, Attended, OnItsWayOut, ElectionsTypeOK
<1>6. CASE UNCHANGED electionsVars  BY <1>0, <1>6 DEF electionsVars, Attended
<1> QED  BY <1>1, <1>2, <1>3, <1>4, <1>5, <1>6 DEF ElectionsNext, ElectionsStep

\* After cleanup() no goroutine of the instance renews a record, whatever it was
\* doing when the cleanup met it.
THEOREM CleanupEndsRenewals == ElectionsSpec => []CleanupStopsRenewals
<1>1. ElectionsInit => AttendedInv
  BY DEF ElectionsInit, NoLeadership, NoCall, AttendedInv, Attended, OnItsWayOut
<1>2. AttendedInv => CleanupStopsRenewals
  BY DEF AttendedInv, Attended, CleanupStopsRenewals, OnItsWayOut
<1> QED  BY <1>1, <1>2, AttendedInvInductive, ElectionsInvariance, PTL DEF ElectionsSpec

-----------------------------------------------------------------------------
(* VVMOrch. *)

\* The types of the variables VVMOrch adds to those of Elections.
OrchTypeOK ==
    /\ launch \in [VVMs -> {"new", "try", "sleeping", "igniting", "launched"}]
    /\ vvmIdx \in [VVMs -> Keys]
    /\ acquireTimer \in [VVMs -> 0 .. AcquisitionDuration]
    /\ services \in [VVMs -> BOOLEAN] /\ problem \in [VVMs -> BOOLEAN]
    /\ monitor \in [VVMs -> {"off", "waiting", "stopped"}]
    /\ killer \in [VVMs -> (0 .. Quarter) \union {NoTimer}]
    /\ shutdowner \in [VVMs -> {"off", "waiting", "services", "monitor", "elections", "done"}]
    /\ handedOver \in [VVMs -> BOOLEAN]

\* The steps of one VVM.
VVMStep(v) ==
    \/ Launch(v) \/ TryAcquires(v) \/ TryNextIndex(v) \/ AcquisitionTimeout(v)
    \/ Ignite(v) \/ MonitorSeesLoss(v) \/ MonitorStops(v) \/ Kill(v) \/ Crash(v)
    \/ Shutdown(v) \/ ServicesStop(v) \/ ElectionsCleanup(v) \/ ShutdownDone(v)
    \/ ElectionsRun(v)

LEMMA NextSteps == Next <=> OrchTick \/ \E v \in VVMs : VVMStep(v)
BY DEF Next, Step, Goroutines, VVMStep

LEMMA IndexType ==
    /\ numVVM \in Nat /\ Keys = 1 .. numVVM /\ 1 \in Keys
    /\ AcquisitionDuration \in Nat /\ NoTimer \notin Nat
BY VVMOrchConstants, FS_CardinalityType DEF VVMOrchConstants, numVVM

-----------------------------------------------------------------------------
(* Type correctness. *)

LEMMA OrchTypeInit == Init => OrchTypeOK
BY IndexType DEF Init, OrchTypeOK

LEMMA OrchTypeInductive == OrchTypeOK /\ [Next]_vars => OrchTypeOK'
<1> SUFFICES ASSUME OrchTypeOK, [Next]_vars  PROVE OrchTypeOK'
  OBVIOUS
<1> USE IndexType DEF OrchTypeOK
<1>1. CASE OrchTick
  <2>1. \A v \in VVMs : CountDown(acquireTimer[v]) \in 0 .. AcquisitionDuration
    <3> TAKE v \in VVMs
    <3>1. acquireTimer[v] \in 0 .. AcquisitionDuration  OBVIOUS
    <3> QED  BY <3>1, CountDownType
  <2>2. \A v \in VVMs : killer[v] # NoTimer => CountDown(killer[v]) \in 0 .. Quarter
    <3> TAKE v \in VVMs
    <3> HAVE killer[v] # NoTimer
    <3>1. killer[v] \in 0 .. Quarter  OBVIOUS
    <3> QED  BY <3>1, CountDownType
  <2>3. acquireTimer' \in [VVMs -> 0 .. AcquisitionDuration]  BY <1>1, <2>1 DEF OrchTick
  <2>4. killer' \in [VVMs -> (0 .. Quarter) \union {NoTimer}]  BY <1>1, <2>2 DEF OrchTick
  <2>5. launch' \in [VVMs -> {"new", "try", "sleeping", "igniting", "launched"}]
    BY <1>1 DEF OrchTick
  <2> QED  BY <1>1, <2>3, <2>4, <2>5 DEF OrchTick
<1>2. ASSUME NEW v \in VVMs, VVMStep(v)  PROVE OrchTypeOK'
  <2>1. CASE Launch(v)  BY <2>1 DEF Launch
  <2>2. CASE TryAcquires(v)  BY <2>2 DEF TryAcquires
  <2>3. CASE TryNextIndex(v)
    <3>1. (IF vvmIdx[v] + 1 > numVVM THEN 1 ELSE vvmIdx[v] + 1) \in Keys  OBVIOUS
    <3>2. vvmIdx' \in [VVMs -> Keys]  BY <2>3, <3>1 DEF TryNextIndex
    <3> QED  BY <2>3, <3>2 DEF TryNextIndex
  <2>4. CASE AcquisitionTimeout(v)  BY <2>4 DEF AcquisitionTimeout
  <2>5. CASE Ignite(v)  BY <2>5 DEF Ignite
  <2>6. CASE MonitorSeesLoss(v)  BY <2>6 DEF MonitorSeesLoss, processKillThreshold
  <2>7. CASE MonitorStops(v)  BY <2>7 DEF MonitorStops
  <2>8. CASE Kill(v) \/ Crash(v)
    <3>1. ProcessEnds(v)  BY <2>8 DEF Kill, Crash
    <3>2. 0 \in 0 .. AcquisitionDuration  OBVIOUS
    <3>3. /\ vvmIdx' \in [VVMs -> Keys]
          /\ acquireTimer' \in [VVMs -> 0 .. AcquisitionDuration]
          /\ services' \in [VVMs -> BOOLEAN] /\ problem' \in [VVMs -> BOOLEAN]
          /\ handedOver' \in [VVMs -> BOOLEAN]
      BY <3>1, <3>2, Zenon DEF ProcessEnds
    <3>4. /\ launch' \in [VVMs -> {"new", "try", "sleeping", "igniting", "launched"}]
          /\ killer' \in [VVMs -> (0 .. Quarter) \union {NoTimer}]
      BY <3>1 DEF ProcessEnds
    <3> QED  BY <3>1, <3>3, <3>4 DEF ProcessEnds
  <2>9. CASE Shutdown(v)  BY <2>9 DEF Shutdown
  <2>10. CASE ServicesStop(v)  BY <2>10 DEF ServicesStop
  <2>11. CASE ElectionsCleanup(v)  BY <2>11 DEF ElectionsCleanup
  <2>12. CASE ShutdownDone(v)  BY <2>12 DEF ShutdownDone
  <2>13. CASE ElectionsRun(v)
    <3> DEFINE lost == Lead(v).at = "deleting" /\ holder[vvmIdx[v]] = v
                                               /\ holder'[vvmIdx[v]] # v
    <3>1. handedOver' = [handedOver EXCEPT ![v] = @ \/ lost]  BY <2>13 DEF ElectionsRun
    <3> HIDE DEF lost
    <3>2. handedOver' \in [VVMs -> BOOLEAN]  BY <3>1, Zenon
    <3> QED  BY <2>13, <3>2 DEF ElectionsRun
  <2> QED  BY <1>2, <2>1, <2>2, <2>3, <2>4, <2>5, <2>6, <2>7, <2>8, <2>9, <2>10, <2>11,
              <2>12, <2>13 DEF VVMStep
<1>3. CASE UNCHANGED vars  BY <1>3 DEF vars, orchVars
<1> QED  BY <1>1, <1>2, <1>3, NextSteps

-----------------------------------------------------------------------------
(* Every step of the orchestration is a step of the elections or none. *)

LEMMA StepsImplementElections ==
    OrchTypeOK /\ [Next]_vars => [ElectionsNext]_electionsVars
<1> SUFFICES ASSUME OrchTypeOK, [Next]_vars  PROVE [ElectionsNext]_electionsVars
  OBVIOUS
<1> USE DEF ElectionsNext, ElectionsStep
<1>1. CASE OrchTick  BY <1>1 DEF OrchTick
<1>2. ASSUME NEW v \in VVMs, VVMStep(v)  PROVE [ElectionsNext]_electionsVars
  <2>0. vvmIdx[v] \in Keys  BY DEF OrchTypeOK
  <2>1. CASE \/ Launch(v) \/ AcquisitionTimeout(v) \/ Ignite(v) \/ MonitorSeesLoss(v)
             \/ MonitorStops(v) \/ Shutdown(v) \/ ServicesStop(v) \/ ShutdownDone(v)
    BY <2>1 DEF Launch, AcquisitionTimeout, Ignite, MonitorSeesLoss, MonitorStops,
                Shutdown, ServicesStop, ShutdownDone
  <2>2. CASE TryAcquires(v) \/ TryNextIndex(v)
    BY <2>0, <2>2 DEF TryAcquires, TryNextIndex
  <2>3. CASE Kill(v) \/ Crash(v)  BY <2>3 DEF Kill, Crash, ProcessEnds
  <2>4. CASE ElectionsCleanup(v)  BY <2>4 DEF ElectionsCleanup
  <2>5. CASE ElectionsRun(v)  BY <2>0, <2>5 DEF ElectionsRun
  <2> QED  BY <1>2, <2>1, <2>2, <2>3, <2>4, <2>5 DEF VVMStep
<1>3. CASE UNCHANGED vars  BY <1>3 DEF vars
<1> QED  BY <1>1, <1>2, <1>3, NextSteps

LEMMA OrchTypes == Spec => []OrchTypeOK
BY OrchTypeInit, OrchTypeInductive, PTL DEF Spec

\* The orchestration uses the elections as Elections describes their callers:
\* one call at a time, and no acquisition after cleanup.
THEOREM OrchestrationImplementsElections == Spec => ElectionsSpec
<1>1. Init => ElectionsInit  BY DEF Init
<1> QED  BY <1>1, StepsImplementElections, OrchTypes, PTL DEF Spec, ElectionsSpec

\* The variables keep their types.
THEOREM OrchTypeCorrect == Spec => []TypeOK
<1>1. ElectionsTypeOK /\ OrchTypeOK => TypeOK  BY DEF OrchTypeOK, TypeOK
<1> QED  BY <1>1, OrchTypes, OrchestrationImplementsElections, ElectionsTypeCorrect, PTL

\* Under the orchestration, too, a live leadership context implies the record.
THEOREM OrchLeadershipIsSafe == Spec => []LeaderHoldsTheRecord
BY OrchestrationImplementsElections, LeadershipIsSafe, PTL

-----------------------------------------------------------------------------
(***************************************************************************)
(* The inductive invariant.  From the moment a VVM ignites its services    *)
(* until they are stopped nobody releases its leadership but the goroutine *)
(* that renews it; when that gives up, two renewal intervals of the record *)
(* are left, of which the killer uses one.                                 *)
(***************************************************************************)
Relies(v) == launch[v] = "igniting" \/ services[v]

LaunchOrder(v) ==
    /\ launch[v] \in {"try", "sleeping", "igniting"} => shutdowner[v] = "waiting"
    /\ services[v] => launch[v] = "launched"

\* How long the record lives at least.
Budget(v) ==
    /\ holder[vvmIdx[v]] = v
    /\ Lead(v).at \in {"deleting", "cancelling"} => ttl[vvmIdx[v]] >= 2 * Quarter
    /\ Lead(v).ctx = "cancelled" /\ monitor[v] = "waiting" =>
           ttl[vvmIdx[v]] >= 2 * Quarter
    /\ monitor[v] = "stopped" => ttl[vvmIdx[v]] >= Quarter + killer[v]

Guarded(v) ==
    /\ caller[v].at = "none"
    /\ shutdowner[v] \in {"waiting", "services"}
    /\ Lead(v).ctx = "live" \/ (Lead(v).ctx = "cancelled" /\ Lead(v).at = "off")
    /\ \/ monitor[v] = "waiting"
       \/ monitor[v] = "stopped" /\ Lead(v).ctx = "cancelled" /\ killer[v] # NoTimer
    /\ ~handedOver[v] => Budget(v)

Serves(v) == LaunchOrder(v) /\ (Relies(v) => Guarded(v))

OrchInv == ElectionsInv /\ OrchTypeOK /\ \A v \in VVMs : Serves(v)

\* What one VVM does to the records, it does to its own.
LEMMA StepFrame ==
    ASSUME OrchInv, NEW v \in VVMs, VVMStep(v), NEW w \in VVMs, w # v
    PROVE  /\ li'[w] = li[w] /\ caller'[w] = caller[w] /\ vvmIdx'[w] = vvmIdx[w]
           /\ launch'[w] = launch[w] /\ services'[w] = services[w]
           /\ monitor'[w] = monitor[w] /\ killer'[w] = killer[w]
           /\ shutdowner'[w] = shutdowner[w] /\ handedOver'[w] = handedOver[w]
           /\ \A j \in Keys : holder[j] = w => holder'[j] = w /\ ttl'[j] = ttl[j]
<1>0. /\ ElectionsTypeOK /\ OrchTypeOK /\ vvmIdx[v] \in Keys /\ CallOnKey(v)
  BY DEF OrchInv, ElectionsInv, OrchTypeOK
<1>1. /\ vvmIdx'[w] = vvmIdx[w] /\ launch'[w] = launch[w] /\ services'[w] = services[w]
      /\ monitor'[w] = monitor[w] /\ killer'[w] = killer[w]
      /\ shutdowner'[w] = shutdowner[w] /\ handedOver'[w] = handedOver[w]
  <2> USE <1>0 DEF OrchTypeOK
  <2>1. CASE Launch(v) \/ Ignite(v) \/ Shutdown(v) \/ ServicesStop(v)
    BY <2>1 DEF Launch, Ignite, Shutdown, ServicesStop
  <2>2. CASE TryAcquires(v) \/ TryNextIndex(v)  BY <2>2 DEF TryAcquires, TryNextIndex
  <2>3. CASE AcquisitionTimeout(v) \/ MonitorSeesLoss(v) \/ MonitorStops(v)
    BY <2>3 DEF AcquisitionTimeout, MonitorSeesLoss, MonitorStops
  <2>4. CASE Kill(v) \/ Crash(v)  BY <2>4 DEF Kill, Crash, ProcessEnds
  <2>5. CASE ElectionsCleanup(v) \/ ShutdownDone(v)
    BY <2>5 DEF ElectionsCleanup, ShutdownDone
  <2>6. CASE ElectionsRun(v)  BY <2>6 DEF ElectionsRun
  <2> QED  BY <2>1, <2>2, <2>3, <2>4, <2>5, <2>6 DEF VVMStep
<1>2. ASSUME NEW k \in Keys,
             Insert(k, v) \/ Swap(k, v) \/ Delete(k, v) \/ UNCHANGED storageVars
      PROVE  \A j \in Keys : holder[j] = w => holder'[j] = w /\ ttl'[j] = ttl[j]
  <2> TAKE j \in Keys
  <2> QED  BY <1>0, <1>2, StorageFrame
<1>3. ASSUME NEW k \in Keys, Acquire(v, k) \/ AcquireFails(v, k)
      PROVE  /\ li'[w] = li[w] /\ caller'[w] = caller[w]
             /\ Insert(k, v) \/ UNCHANGED storageVars
  BY <1>0, <1>3 DEF Acquire, AcquireFails, ElectionsTypeOK
<1>4. ASSUME NEW k \in Keys, Maintain(v, k)
      PROVE  /\ li'[w] = li[w] /\ caller'[w] = caller[w]
             /\ Insert(k, v) \/ Swap(k, v) \/ Delete(k, v) \/ UNCHANGED storageVars
  <2>1. li' = [li EXCEPT ![v][k] = li'[v][k]]  BY <1>0, <1>4, MaintainType
  <2>2. li'[w] = li[w]  BY <1>0, <2>1 DEF ElectionsTypeOK
  <2> QED
    BY <1>4, <2>2 DEF Maintain, TickerFires, RenewOk, RenewErrs, Retry,
              RenewStolen, GiveUp, MaintainDeletes, MaintainCancels, MaintainEnds
<1>5. ASSUME Call(v)
      PROVE  /\ li'[w] = li[w] /\ caller'[w] = caller[w]
             /\ \/ caller[v].key \in Keys /\ Delete(caller[v].key, v)
                \/ UNCHANGED storageVars
  <2> USE <1>0 DEF ElectionsTypeOK, CallOnKey
  <2>1. CASE CallerReturns(v)
    <3>1. CASE caller[v].op = "cleanup"
      <4>1. /\ li' = [li EXCEPT ![v][caller[v].key].entry = FALSE]
            /\ caller' = [caller EXCEPT ![v].key = NoKey, ![v].at = "range"]
            /\ UNCHANGED storageVars
        BY <2>1, <3>1 DEF CallerReturns
      <4> QED  BY <4>1
    <3>2. CASE caller[v].op # "cleanup"  BY <2>1, <3>2 DEF CallerReturns
    <3> QED  BY <3>1, <3>2
  <2>2. CASE CallerCancels(v)  BY <2>2 DEF CallerCancels
  <2>3. CASE CallerDeletes(v)  BY <2>3 DEF CallerDeletes
  <2>4. CASE CleanupDone(v) \/ \E k \in Keys : CleanupNext(v, k)
    BY <2>4 DEF CleanupDone, CleanupNext
  <2> QED  BY <1>5, <2>1, <2>2, <2>3, <2>4 DEF Call
<1>6. /\ li'[w] = li[w] /\ caller'[w] = caller[w]
      /\ \A j \in Keys : holder[j] = w => holder'[j] = w /\ ttl'[j] = ttl[j]
  <2> USE <1>0
  <2>1. CASE \/ Launch(v) \/ AcquisitionTimeout(v) \/ Ignite(v) \/ MonitorSeesLoss(v)
             \/ MonitorStops(v) \/ Shutdown(v) \/ ServicesStop(v) \/ ShutdownDone(v)
    BY <2>1 DEF Launch, AcquisitionTimeout, Ignite, MonitorSeesLoss, MonitorStops,
                Shutdown, ServicesStop, ShutdownDone, electionsVars
  <2>2. CASE TryAcquires(v) \/ TryNextIndex(v)
    BY <1>2, <1>3, <2>2 DEF TryAcquires, TryNextIndex
  <2>3. CASE Kill(v) \/ Crash(v)
    BY <2>3 DEF Kill, Crash, ProcessEnds, Reset, storageVars, ElectionsTypeOK
  <2>4. CASE ElectionsCleanup(v)
    BY <2>4 DEF ElectionsCleanup, Cleanup, storageVars, ElectionsTypeOK
  <2>5. CASE ElectionsRun(v)
    <3>1. CASE Maintain(v, vvmIdx[v])  BY <1>2, <1>4, <3>1
    <3>2. CASE Call(v)
      <4>1. CASE UNCHANGED storageVars  BY <1>5, <3>2, <4>1 DEF storageVars
      <4>2. CASE caller[v].key \in Keys /\ Delete(caller[v].key, v)
        BY <1>2, <1>5, <3>2, <4>2
      <4> QED  BY <1>5, <3>2, <4>1, <4>2
    <3> QED  BY <2>5, <3>1, <3>2 DEF ElectionsRun
  <2> QED  BY <2>1, <2>2, <2>3, <2>4, <2>5 DEF VVMStep
<1> QED  BY <1>1, <1>6

\* The step of another VVM does not touch a VVM's services and their record.
LEMMA OthersKeepServing ==
    ASSUME OrchInv, NEW v \in VVMs, VVMStep(v), NEW w \in VVMs, w # v
    PROVE  Serves(w)'
<1>1. Serves(w) /\ vvmIdx[w] \in Keys  BY DEF OrchInv, OrchTypeOK
<1>2. Lead(w)' = Lead(w)  BY StepFrame DEF Lead
<1> QED  BY <1>1, <1>2, StepFrame DEF Serves, LaunchOrder, Relies, Guarded, Budget

\* The goroutine that renews: it gives up with two intervals left.
LEMMA RenewalKeepsServing ==
    ASSUME OrchInv, NEW v \in VVMs, ElectionsRun(v)
    PROVE  Serves(v)'
<1> DEFINE k == vvmIdx[v]
           r == li[v][k]
<1>0. /\ Serves(v) /\ k \in Keys /\ r \in LeaderInfo /\ Orderly(v, k)
      /\ li \in [VVMs -> [Keys -> LeaderInfo]] /\ ElectionsTypeOK /\ OrchTypeOK
      /\ ttl \in [Keys -> 0 .. Duration] /\ holder \in [Keys -> VVMs \union {NoVVM}]
  BY DEF OrchInv, OrchTypeOK, ElectionsInv, ElectionsTypeOK
<1>1. /\ vvmIdx' = vvmIdx /\ launch' = launch /\ services' = services
      /\ monitor' = monitor /\ killer' = killer /\ shutdowner' = shutdowner
      /\ handedOver'[v] = (handedOver[v] \/ (r.at = "deleting" /\ holder[k] = v
                                                              /\ holder'[k] # v))
  BY <1>0 DEF ElectionsRun, OrchTypeOK, Lead
<1>2. LaunchOrder(v)'  BY <1>0, <1>1 DEF Serves, LaunchOrder
<1>3. SUFFICES ASSUME Relies(v)  PROVE Guarded(v)'
  BY <1>1, <1>2 DEF Serves, Relies
<1>4. /\ Guarded(v) /\ caller[v].at = "none" /\ ~Call(v) /\ Maintain(v, k)
  BY <1>0, <1>3 DEF Serves, Guarded, Call, CleanupNext, CleanupDone, CallerDeletes,
                    CallerCancels, CallerReturns, ElectionsRun
<1>5. /\ r.ctx = "live" /\ r.at # "off" /\ monitor[v] = "waiting"
      /\ r.at # "cancelling" => Covered(v, k)
  <2>1. r.at # "off"
    BY <1>4 DEF Maintain, TickerFires, RenewOk, RenewErrs, Retry,
                RenewStolen, GiveUp, MaintainDeletes, MaintainCancels, MaintainEnds
  <2> QED  BY <1>0, <1>4, <2>1 DEF Guarded, Lead, Orderly, Leads
<1>6. Lead(v)' = li'[v][k] /\ Lead(v) = r  BY <1>1 DEF Lead
<1>7. caller' = caller
  BY <1>4 DEF Maintain, TickerFires, RenewOk, RenewErrs, Retry,
              RenewStolen, GiveUp, MaintainDeletes, MaintainCancels, MaintainEnds
<1>8. SUFFICES /\ li'[v][k].ctx = "live" \/ (li'[v][k].ctx = "cancelled" /\ li'[v][k].at = "off")
               /\ ~handedOver'[v] =>
                    /\ holder'[k] = v
                    /\ li'[v][k].at \in {"deleting", "cancelling"} => ttl'[k] >= 2 * Quarter
                    /\ li'[v][k].ctx = "cancelled" => ttl'[k] >= 2 * Quarter
  BY <1>0, <1>1, <1>4, <1>5, <1>6, <1>7 DEF Guarded, Budget
<1>9. ~handedOver[v] => /\ holder[k] = v
                        /\ r.at \in {"deleting", "cancelling"} => ttl[k] >= 2 * Quarter
  BY <1>4, <1>6 DEF Guarded, Budget
<1> USE <1>0, <1>1, <1>5 DEF Covered, storageVars, Duration
<1>10. CASE TickerFires(v, k)  BY <1>10 DEF TickerFires, LeaderInfo
<1>11. CASE RenewOk(v, k)  BY <1>11 DEF RenewOk, Swap, LeaderInfo
<1>12. CASE RenewErrs(v, k)  BY <1>12 DEF RenewErrs, Swap, LeaderInfo
<1>13. CASE Retry(v, k)  BY <1>13 DEF Retry, LeaderInfo
<1>14. CASE RenewStolen(v, k)  BY <1>14 DEF RenewStolen
<1>15. CASE GiveUp(v, k)
  <2>1. ttl[k] >= 2 * Quarter /\ UNCHANGED storageVars /\ holder[k] = v
    BY <1>15 DEF GiveUp, LeaderInfo
  <2>2. r.entry
    BY <1>4, <1>15 DEF GiveUp, Orderly, Abandoned
  <2> QED  BY <1>15, <2>1, <2>2 DEF GiveUp, LoadAndDelete, LeaderInfo
<1>16. CASE MaintainDeletes(v, k)
  <2>1. li'[v][k].ctx = "live" /\ r.at = "deleting"  BY <1>16 DEF MaintainDeletes, LeaderInfo
  <2>2. CASE UNCHANGED storageVars  BY <1>9, <2>1, <2>2
  <2>3. CASE Delete(k, v)  BY <2>1, <2>3 DEF Delete
  <2> QED  BY <1>16, <2>2, <2>3 DEF MaintainDeletes
<1>17. CASE MaintainCancels(v, k)  BY <1>9, <1>17 DEF MaintainCancels, LeaderInfo
<1>18. CASE MaintainEnds(v, k)  BY <1>18 DEF MaintainEnds
<1> QED  BY <1>4, <1>10, <1>11, <1>12, <1>13, <1>14, <1>15, <1>16, <1>17, <1>18 DEF Maintain

\* The other steps of a VVM.
LEMMA StepKeepsServing ==
    ASSUME OrchInv, NEW v \in VVMs, VVMStep(v)
    PROVE  Serves(v)'
<1> DEFINE k == vvmIdx[v]
<1>0. /\ Serves(v) /\ k \in Keys /\ ElectionsTypeOK /\ OrchTypeOK
      /\ li[v][k] \in LeaderInfo /\ ttl[k] \in 0 .. Duration
  BY DEF OrchInv, OrchTypeOK, ElectionsInv, ElectionsTypeOK
<1> USE <1>0 DEF Serves, LaunchOrder, Relies, OrchTypeOK
<1>1. CASE Launch(v)  BY <1>1 DEF Launch
<1>2. CASE TryAcquires(v)
  <2>1. /\ launch[v] = "try" /\ shutdowner[v] = "waiting" /\ caller[v].at = "none"
        /\ vvmIdx' = vvmIdx /\ caller' = caller /\ shutdowner' = shutdowner
        /\ services' = services /\ ~services[v] /\ launch'[v] = "igniting"
        /\ monitor'[v] = "waiting"
    BY <1>2 DEF TryAcquires, Acquire
  <2>2. holder'[k] = v /\ li'[v][k].ctx = "live" /\ li'[v][k].at = "waiting"
    BY <1>2 DEF TryAcquires, Acquire, Insert, ElectionsTypeOK
  <2> QED  BY <2>1, <2>2 DEF Guarded, Budget, Lead
<1>3. CASE TryNextIndex(v)  BY <1>3 DEF TryNextIndex
<1>4. CASE AcquisitionTimeout(v)  BY <1>4 DEF AcquisitionTimeout
<1>5. CASE Ignite(v)
  <2>1. Guarded(v) /\ launch'[v] = "launched"  BY <1>5 DEF Ignite
  <2>2. Guarded(v)'
    BY <1>5, <2>1 DEF Ignite, Guarded, Budget, Lead, electionsVars
  <2> QED  BY <2>1, <2>2
<1>6. CASE MonitorSeesLoss(v)
  <2>1. UNCHANGED <<electionsVars, vvmIdx, launch, services, shutdowner, handedOver>>
    BY <1>6 DEF MonitorSeesLoss
  <2>2. /\ monitor[v] = "waiting" /\ Lead(v).ctx = "cancelled"
        /\ monitor'[v] = "stopped" /\ killer'[v] = Quarter
    BY <1>6 DEF MonitorSeesLoss, LeadershipLost, processKillThreshold
  <2>3. Guarded(v) => Guarded(v)'
    BY <2>1, <2>2, IndexType DEF Guarded, Budget, Lead, electionsVars
  <2> QED  BY <2>1, <2>3
<1>7. CASE MonitorStops(v)  BY <1>7 DEF MonitorStops, Guarded
<1>8. CASE Kill(v) \/ Crash(v)  BY <1>8 DEF Kill, Crash, ProcessEnds
<1>9. CASE Shutdown(v)
  <2>1. UNCHANGED <<electionsVars, vvmIdx, launch, services, monitor, killer, handedOver>>
    BY <1>9 DEF Shutdown
  <2>2. launch[v] = "launched" /\ shutdowner'[v] = "services"  BY <1>9 DEF Shutdown
  <2>3. Guarded(v) => Guarded(v)'
    BY <2>1, <2>2 DEF Guarded, Budget, Lead, electionsVars
  <2> QED  BY <2>1, <2>2, <2>3
<1>10. CASE ServicesStop(v)  BY <1>10 DEF ServicesStop
<1>11. CASE ElectionsCleanup(v)  BY <1>11 DEF ElectionsCleanup, Guarded
<1>12. CASE ShutdownDone(v)  BY <1>12 DEF ShutdownDone, Guarded
<1>13. CASE ElectionsRun(v)  BY <1>13, RenewalKeepsServing
<1> QED  BY <1>1, <1>2, <1>3, <1>4, <1>5, <1>6, <1>7, <1>8, <1>9, <1>10, <1>11, <1>12,
            <1>13 DEF VVMStep

\* A second passes for the record and for the killer alike, and not while the
\* monitor has a loss to see.
LEMMA TickKeepsServing ==
    ASSUME OrchInv, OrchTick, NEW v \in VVMs
    PROVE  Serves(v)'
<1> DEFINE k == vvmIdx[v]
           r == li[v][k]
<1>0. /\ Serves(v) /\ k \in Keys /\ r \in LeaderInfo /\ Orderly(v, k) /\ OrchTypeOK
      /\ ttl[k] \in 0 .. Duration /\ killer[v] \in (0 .. Quarter) \union {NoTimer}
  BY DEF OrchInv, OrchTypeOK, ElectionsInv, ElectionsTypeOK
<1>1. /\ vvmIdx' = vvmIdx /\ services' = services /\ monitor' = monitor
      /\ shutdowner' = shutdowner /\ handedOver' = handedOver /\ caller' = caller
      /\ launch'[v] = IF launch[v] = "sleeping" THEN "try" ELSE launch[v]
      /\ killer'[v] = IF killer[v] = NoTimer THEN NoTimer ELSE CountDown(killer[v])
      /\ ~OrchDue(v)
  BY DEF OrchTick, Tick
<1>2. /\ ~Due(v, k)
      /\ ttl'[k] = CountDown(ttl[k])
      /\ holder'[k] = IF ttl[k] <= 1 THEN NoVVM ELSE holder[k]
      /\ li'[v][k] = IF r.at = "off" THEN r ELSE Elapse(r)
  BY <1>0 DEF OrchTick, Tick, NothingDue
<1>3. /\ Lead(v) = r /\ Lead(v)' = li'[v][k]
      /\ li'[v][k].ctx = r.ctx
      /\ li'[v][k].at = IF r.at = "retrying" THEN "retry" ELSE r.at
  BY <1>0, <1>1, <1>2 DEF Lead, Elapse, LeaderInfo
<1>4. LaunchOrder(v)'  BY <1>0, <1>1 DEF Serves, LaunchOrder
<1>5. SUFFICES ASSUME Relies(v)  PROVE Guarded(v)'
  BY <1>1, <1>4 DEF Serves, Relies
<1>6. Guarded(v)  BY <1>0, <1>5 DEF Serves
<1>7. r.at \notin {"renewing", "retry", "deleting", "cancelling"}  BY <1>2 DEF Due
<1>8. CASE r.ctx = "live"
  <2>1. monitor[v] = "waiting" /\ caller[v].at = "none"  BY <1>3, <1>6, <1>8 DEF Guarded
  <2>2. Covered(v, k) /\ r.at \in {"waiting", "retrying"}
    BY <1>0, <1>7, <1>8, <2>1 DEF Orderly, Leads, Abandoned, LeaderInfo
  <2>3. r.ticker \in Nat /\ r.deadline \in Nat  BY <1>0 DEF LeaderInfo
  <2>4. holder[k] = v /\ ttl[k] >= 2 * Quarter  BY <2>2, <2>3, <1>0 DEF Covered, Duration
  <2>5. holder'[k] = v  BY <1>2, <2>4, <1>0 DEF Duration
  <2> QED  BY <1>1, <1>3, <1>6, <1>7, <1>8, <2>1, <2>5 DEF Guarded, Budget
<1>9. CASE r.ctx = "cancelled"
  <2>1. /\ monitor[v] = "stopped" /\ r.at = "off" /\ killer[v] # NoTimer /\ killer[v] # 0
    BY <1>1, <1>3, <1>6, <1>9 DEF Guarded, OrchDue, LeadershipLost
  <2>2. killer[v] \in 1 .. Quarter /\ killer'[v] = killer[v] - 1
    BY <1>0, <1>1, <2>1 DEF CountDown
  <2>3. killer'[v] # NoTimer  BY <2>2, IndexType
  <2>4. ~handedOver[v] => holder[k] = v /\ ttl[k] >= Quarter + killer[v]
    BY <1>6, <2>1 DEF Guarded, Budget
  <2>5. ~handedOver[v] => holder'[k] = v /\ ttl'[k] >= Quarter + killer'[v]
    BY <1>0, <1>2, <2>2, <2>4 DEF CountDown, Duration
  <2> QED  BY <1>1, <1>3, <1>6, <1>9, <2>1, <2>3, <2>5 DEF Guarded, Budget
<1> QED  BY <1>3, <1>6, <1>8, <1>9 DEF Guarded

-----------------------------------------------------------------------------
LEMMA OrchInvInit == Init => OrchInv
<1> SUFFICES ASSUME Init  PROVE OrchInv
  OBVIOUS
<1>1. ElectionsInv  BY ElectionsInvInit DEF Init
<1>2. \A v \in VVMs : Serves(v)
  BY DEF Init, Serves, LaunchOrder, Relies
<1> QED  BY <1>1, <1>2, OrchTypeInit DEF OrchInv

LEMMA OrchInvInductive == OrchInv /\ [Next]_vars => OrchInv'
<1> SUFFICES ASSUME OrchInv, [Next]_vars  PROVE OrchInv'
  OBVIOUS
<1>1. OrchTypeOK' /\ ElectionsInv'
  BY OrchTypeInductive, StepsImplementElections, ElectionsInvInductive DEF OrchInv
<1>2. ASSUME NEW w \in VVMs  PROVE Serves(w)'
  <2>1. CASE OrchTick  BY <2>1, TickKeepsServing
  <2>2. ASSUME NEW v \in VVMs, VVMStep(v)  PROVE Serves(w)'
    BY <2>2, StepKeepsServing, OthersKeepServing
  <2>3. CASE UNCHANGED vars
    <3>1. Serves(w)  BY DEF OrchInv
    <3> QED
      BY <2>3, <3>1 DEF vars, orchVars, electionsVars, Serves, LaunchOrder, Relies,
                        Guarded, Budget, Lead
  <2> QED  BY <2>1, <2>2, <2>3, NextSteps
<1> QED  BY <1>1, <1>2 DEF OrchInv

\* OrchInv holds in every reachable state.
THEOREM OrchInvariance == Spec => []OrchInv
BY OrchInvInit, OrchInvInductive, PTL DEF Spec

\* The services of a VVM that has not removed its record itself end before the
\* record expires, even when they hang: giving up and killing fit into its life.
THEOREM ServicesEndInTime == Spec => []RecordOutlivesServices
<1>1. OrchInv => RecordOutlivesServices
  BY DEF OrchInv, Serves, Relies, Guarded, Budget, RecordOutlivesServices
<1> QED  BY <1>1, OrchInvariance, PTL

\* Services without leadership are about to be killed, also when a shutdown is
\* under way.
THEOREM LostLeadersAreDoomed == Spec => []LostLeaderIsDoomed
<1>1. OrchInv => LostLeaderIsDoomed
  BY DEF OrchInv, Serves, Relies, Guarded, LostLeaderIsDoomed
<1> QED  BY <1>1, OrchInvariance, PTL
=============================================================================
