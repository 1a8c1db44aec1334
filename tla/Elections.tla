----------------------------- MODULE Elections -----------------------------
(***************************************************************************)
(* Leader election among VVMs: pkg/ielections on the TTL storage of        *)
(* pkg/vvm/storage.  A VVM that inserted the record of a key is its leader *)
(* and renews the record from a goroutine until the renewal fails for too  *)
(* long or the leadership is released.                                     *)
(*                                                                         *)
(* Time is discrete.  One tick is the second between two attempts to renew *)
(* after an error; a renewal interval has Quarter ticks and the record     *)
(* lives renewalsPerLeadershipDur = 4 intervals.  Timers count down.  A    *)
(* tick passes only when nothing is due: goroutines are scheduled and      *)
(* storage calls answer within a tick.                                     *)
(***************************************************************************)
EXTENDS Integers

CONSTANTS
    VVMs,
    Keys,           \* VVM indexes 1 .. numVVM
    NoVVM,          \* no unexpired record
    NoKey,
    Quarter         \* ticks in a renewal interval

ASSUME ElectionsConstants ==
    /\ NoVVM \notin VVMs /\ NoKey \notin Keys
    /\ Quarter \in Nat \ {0}

Duration == 4 * Quarter     \* leadershipDurationSeconds

VARIABLES
    holder,     \* [Keys -> VVMs \union {NoVVM}]: value of the unexpired record
    ttl,        \* [Keys -> 0 .. Duration]: its time to live
    li,         \* [VVMs -> [Keys -> LeaderInfo]]
    caller,     \* [VVMs -> [op, key, at]]: ReleaseLeadership() or cleanup()
    isFinalized

storageVars   == <<holder, ttl>>
electionsVars == <<holder, ttl, li, caller, isFinalized>>

LeaderInfo ==
    [entry : BOOLEAN,           \* is in e.leadership
     ctx : {"none", "live", "cancelled"},
     at : {"off", "waiting", "renewing", "retrying", "retry", "deleting",
           "cancelling"},       \* where maintainLeadership is
     ticker : 0 .. Quarter, deadline : 0 .. Quarter]

NoLeadership == [entry |-> FALSE, ctx |-> "none", at |-> "off",
                 ticker |-> 0, deadline |-> 0]
NoCall == [op |-> "none", key |-> NoKey, at |-> "none"]

ElectionsInit ==
    /\ holder = [k \in Keys |-> NoVVM] /\ ttl = [k \in Keys |-> 0]
    /\ li = [v \in VVMs |-> [k \in Keys |-> NoLeadership]]
    /\ caller = [v \in VVMs |-> NoCall]
    /\ isFinalized = [v \in VVMs |-> FALSE]

-----------------------------------------------------------------------------
(***************************************************************************)
(* The TTL storage.  The value of a record is the IP of its VVM.  An       *)
(* operation that answers with an error may have taken effect.             *)
(***************************************************************************)
Insert(k, v) ==
    /\ holder[k] = NoVVM
    /\ holder' = [holder EXCEPT ![k] = v] /\ ttl' = [ttl EXCEPT ![k] = Duration]

Swap(k, v) ==
    /\ holder[k] = v
    /\ ttl' = [ttl EXCEPT ![k] = Duration] /\ UNCHANGED holder

Delete(k, v) ==
    IF holder[k] = v
    THEN holder' = [holder EXCEPT ![k] = NoVVM] /\ ttl' = [ttl EXCEPT ![k] = 0]
    ELSE UNCHANGED storageVars

-----------------------------------------------------------------------------
(***************************************************************************)
(* AcquireLeadership(k).  A VVM calls its elections from one goroutine at  *)
(* a time: Launch acquires, the shutdowner cleans up later.                *)
(***************************************************************************)
Acquire(v, k) ==
    /\ ~isFinalized[v] /\ caller[v].at = "none" /\ li[v][k].at = "off"
    /\ Insert(k, v)
    /\ li' = [li EXCEPT ![v][k] = [entry |-> TRUE, ctx |-> "live", at |-> "waiting",
                                   ticker |-> Quarter, deadline |-> 0]]
    /\ UNCHANGED <<caller, isFinalized>>

\* nil is returned: elections are cleaned up, the record exists, or an error.
AcquireFails(v, k) ==
    /\ caller[v].at \in {"none", "done"} /\ li[v][k].at = "off"
    /\ UNCHANGED storageVars \/ (~isFinalized[v] /\ Insert(k, v))
    /\ UNCHANGED <<li, caller, isFinalized>>

(***************************************************************************)
(* maintainLeadership and renewWithRetry.                                  *)
(***************************************************************************)
\* Mutated form of TickerFires: renewing is retried for a whole leadership duration.
TickerFiresLongDeadline(v, k) ==
    /\ li[v][k].at = "waiting" /\ li[v][k].ctx = "live" /\ li[v][k].ticker = 0
    /\ li' = [li EXCEPT ![v][k] = [@ EXCEPT !.at = "renewing",
                                   !.ticker = Quarter, !.deadline = Duration]]
    /\ UNCHANGED <<storageVars, caller, isFinalized>>

TickerFires(v, k) ==
    /\ li[v][k].at = "waiting" /\ li[v][k].ctx = "live" /\ li[v][k].ticker = 0
    /\ li' = [li EXCEPT ![v][k] = [@ EXCEPT !.at = "renewing",
                                   !.ticker = Quarter, !.deadline = Quarter]]
    /\ UNCHANGED <<storageVars, caller, isFinalized>>

RenewOk(v, k) ==
    /\ li[v][k].at = "renewing"
    /\ Swap(k, v)
    /\ li' = [li EXCEPT ![v][k].at = "waiting"]
    /\ UNCHANGED <<caller, isFinalized>>

RenewErrs(v, k) ==
    /\ li[v][k].at = "renewing"
    /\ UNCHANGED storageVars \/ Swap(k, v)
    /\ li' = [li EXCEPT ![v][k].at = "retrying"]
    /\ UNCHANGED <<caller, isFinalized>>

\* A second later, if the leadership has not been released meanwhile.
Retry(v, k) ==
    /\ li[v][k].at = "retry" /\ li[v][k].ctx = "live"
    /\ li' = [li EXCEPT ![v][k].at = "renewing"]
    /\ UNCHANGED <<storageVars, caller, isFinalized>>

\* The beginning of releaseLeadership: LoadAndDelete.
LoadAndDelete(v, k) ==
    li' = [li EXCEPT ![v][k] =
              IF @.entry THEN [@ EXCEPT !.entry = FALSE, !.at = "deleting"]
                         ELSE [@ EXCEPT !.at = "off"]]

\* The record has another value or is gone.
RenewStolen(v, k) ==
    /\ li[v][k].at = "renewing" /\ holder[k] # v
    /\ LoadAndDelete(v, k)
    /\ UNCHANGED <<storageVars, caller, isFinalized>>

\* The renewal did not succeed before the deadline.
GiveUp(v, k) ==
    /\ li[v][k].at \in {"retrying", "retry"} /\ li[v][k].deadline = 0
    /\ LoadAndDelete(v, k)
    /\ UNCHANGED <<storageVars, caller, isFinalized>>

\* releaseLeadership deletes the record first and cancels the context next.
MaintainDeletes(v, k) ==
    /\ li[v][k].at = "deleting"
    /\ Delete(k, v) \/ UNCHANGED storageVars
    /\ li' = [li EXCEPT ![v][k].at = "cancelling"]
    /\ UNCHANGED <<caller, isFinalized>>

MaintainCancels(v, k) ==
    /\ li[v][k].at = "cancelling"
    /\ li' = [li EXCEPT ![v][k] = [@ EXCEPT !.at = "off", !.ctx = "cancelled"]]
    /\ UNCHANGED <<storageVars, caller, isFinalized>>

\* Mutated form of MaintainEnds: a waiting goroutine does not look at its context.
MaintainEndsOnRetry(v, k) ==
    /\ li[v][k].at \in {"retrying", "retry"} /\ li[v][k].ctx = "cancelled"
    /\ li' = [li EXCEPT ![v][k].at = "off"]
    /\ UNCHANGED <<storageVars, caller, isFinalized>>

\* The goroutine sees its context cancelled by ReleaseLeadership or cleanup.
MaintainEnds(v, k) ==
    /\ li[v][k].at \in {"waiting", "retrying", "retry"} /\ li[v][k].ctx = "cancelled"
    /\ li' = [li EXCEPT ![v][k].at = "off"]
    /\ UNCHANGED <<storageVars, caller, isFinalized>>

Maintain(v, k) ==
    \/ TickerFires(v, k) \/ RenewOk(v, k) \/ RenewErrs(v, k) \/ Retry(v, k)
    \/ RenewStolen(v, k) \/ GiveUp(v, k) \/ MaintainDeletes(v, k)
    \/ MaintainCancels(v, k) \/ MaintainEnds(v, k)

(***************************************************************************)
(* ReleaseLeadership(k) and cleanup().                                     *)
(***************************************************************************)
ReleaseLeadership(v, k) ==
    /\ caller[v].at = "none" /\ li[v][k].entry
    /\ li' = [li EXCEPT ![v][k].entry = FALSE]
    /\ caller' = [caller EXCEPT ![v] = [op |-> "release", key |-> k, at |-> "delete"]]
    /\ UNCHANGED <<storageVars, isFinalized>>

Cleanup(v) ==
    /\ caller[v].at = "none"
    /\ isFinalized' = [isFinalized EXCEPT ![v] = TRUE]
    /\ caller' = [caller EXCEPT ![v] = [op |-> "cleanup", key |-> NoKey, at |-> "range"]]
    /\ UNCHANGED <<storageVars, li>>

CleanupNext(v, k) ==
    /\ caller[v].at = "range" /\ li[v][k].entry
    /\ caller' = [caller EXCEPT ![v].key = k, ![v].at = "delete"]
    /\ UNCHANGED <<storageVars, li, isFinalized>>

CleanupDone(v) ==
    /\ caller[v].at = "range" /\ \A k \in Keys : ~li[v][k].entry
    /\ caller' = [caller EXCEPT ![v] = [op |-> "cleanup", key |-> NoKey, at |-> "done"]]
    /\ UNCHANGED <<storageVars, li, isFinalized>>

CallerDeletes(v) ==
    /\ caller[v].at = "delete"
    /\ Delete(caller[v].key, v) \/ UNCHANGED storageVars
    /\ caller' = [caller EXCEPT ![v].at = "cancel"]
    /\ UNCHANGED <<li, isFinalized>>

CallerCancels(v) ==
    /\ caller[v].at = "cancel"
    /\ li' = [li EXCEPT ![v][caller[v].key].ctx = "cancelled"]
    /\ caller' = [caller EXCEPT ![v].at = "wait"]
    /\ UNCHANGED <<storageVars, isFinalized>>

\* Mutated form of CallerReturns: li.wg is not waited for.
CallerReturnsEarly(v) ==
    /\ caller[v].at = "wait"
    /\ IF caller[v].op = "cleanup"
       THEN /\ li' = [li EXCEPT ![v][caller[v].key].entry = FALSE]
            /\ caller' = [caller EXCEPT ![v].key = NoKey, ![v].at = "range"]
       ELSE caller' = [caller EXCEPT ![v] = NoCall] /\ UNCHANGED li
    /\ UNCHANGED <<storageVars, isFinalized>>

\* li.wg.Wait() is over.
CallerReturns(v) ==
    /\ caller[v].at = "wait" /\ li[v][caller[v].key].at = "off"
    /\ IF caller[v].op = "cleanup"
       THEN /\ li' = [li EXCEPT ![v][caller[v].key].entry = FALSE]
            /\ caller' = [caller EXCEPT ![v].key = NoKey, ![v].at = "range"]
       ELSE caller' = [caller EXCEPT ![v] = NoCall] /\ UNCHANGED li
    /\ UNCHANGED <<storageVars, isFinalized>>

Call(v) ==
    \/ \E k \in Keys : CleanupNext(v, k)
    \/ CleanupDone(v) \/ CallerDeletes(v) \/ CallerCancels(v) \/ CallerReturns(v)

-----------------------------------------------------------------------------
(***************************************************************************)
(* Time.                                                                   *)
(***************************************************************************)
Due(v, k) ==
    \/ li[v][k].at \in {"renewing", "retry", "deleting", "cancelling"}
    \/ li[v][k].at = "waiting" /\ (li[v][k].ticker = 0 \/ li[v][k].ctx = "cancelled")
    \/ li[v][k].at = "retrying" /\ (li[v][k].deadline = 0 \/ li[v][k].ctx = "cancelled")

NothingDue ==
    \A v \in VVMs : /\ caller[v].at \in {"none", "done"}
                    /\ \A k \in Keys : ~Due(v, k)

CountDown(t) == IF t = 0 THEN 0 ELSE t - 1

Elapse(r) == [r EXCEPT !.ticker = CountDown(@), !.deadline = CountDown(@),
                       !.at = IF @ = "retrying" THEN "retry" ELSE @]

\* A second passes: records expire, tickers and deadlines come nearer.
Tick ==
    /\ NothingDue
    /\ ttl' = [k \in Keys |-> CountDown(ttl[k])]
    /\ holder' = [k \in Keys |-> IF ttl[k] <= 1 THEN NoVVM ELSE holder[k]]
    /\ li' = [v \in VVMs |-> [k \in Keys |-> IF li[v][k].at = "off" THEN li[v][k]
                                             ELSE Elapse(li[v][k])]]
    /\ UNCHANGED <<caller, isFinalized>>

\* The process of a VVM dies and is started again; its records stay.
Reset(v) ==
    /\ li' = [li EXCEPT ![v] = [k \in Keys |-> NoLeadership]]
    /\ caller' = [caller EXCEPT ![v] = NoCall]
    /\ isFinalized' = [isFinalized EXCEPT ![v] = FALSE]
    /\ UNCHANGED storageVars

ElectionsStep ==
    \/ Tick
    \/ \E v \in VVMs :
          \/ Cleanup(v) \/ Call(v)
          \/ \E k \in Keys : \/ Acquire(v, k) \/ AcquireFails(v, k)
                            \/ Maintain(v, k) \/ ReleaseLeadership(v, k)

ElectionsNext == ElectionsStep \/ \E v \in VVMs : Reset(v)

ElectionsSpec == ElectionsInit /\ [][ElectionsNext]_electionsVars

\* The goroutines of a VVM run.
ElectionsFairness ==
    \A v \in VVMs : /\ \A k \in Keys : WF_electionsVars(Maintain(v, k))
                    /\ WF_electionsVars(Call(v))

ElectionsFairSpec == ElectionsSpec /\ ElectionsFairness

-----------------------------------------------------------------------------
ElectionsTypeOK ==
    /\ holder \in [Keys -> VVMs \union {NoVVM}]
    /\ ttl \in [Keys -> 0 .. Duration]
    /\ li \in [VVMs -> [Keys -> LeaderInfo]]
    /\ caller \in [VVMs -> [op : {"none", "release", "cleanup"},
                            key : Keys \union {NoKey},
                            at : {"none", "range", "delete", "cancel", "wait", "done"}]]
    /\ isFinalized \in [VVMs -> BOOLEAN]

\* The leadership context is live and nobody is about to cancel it.
Leads(v, k) ==
    /\ li[v][k].ctx = "live" /\ li[v][k].at # "cancelling"
    /\ ~(caller[v].at = "cancel" /\ caller[v].key = k)

\* "The returned ctx remains active while leadership is held": whoever relies
\* on a live context owns an unexpired record, hence leads alone.  The renewal
\* and its retries end before the record expires.
LeaderHoldsTheRecord ==
    \A v \in VVMs, k \in Keys : Leads(v, k) => holder[k] = v

\* When cleanup() has returned nobody renews a record of this instance, or will:
\* a goroutine that is left is on its way to cancel the context itself.
CleanupStopsRenewals ==
    \A v \in VVMs : caller[v].at = "done" =>
        \A k \in Keys : li[v][k].at \in {"off", "deleting", "cancelling"}

\* ReleaseLeadership() and cleanup() return, in whatever phase of a renewal or
\* its retries they meet the goroutine they wait for.
CallsReturn ==
    \A v \in VVMs : []<>(caller[v].at \notin {"range", "delete", "cancel", "wait"})
=============================================================================
