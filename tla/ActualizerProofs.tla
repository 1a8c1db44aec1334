-------------------------- MODULE ActualizerProofs --------------------------
(***************************************************************************)
(* Proofs about AsyncActualizer: its types, that a projection is a fold of *)
(* a prefix of the log with the position behind it, and that the           *)
(* actualizer implements Projection.                                       *)
(***************************************************************************)
EXTENDS AsyncActualizer, TLAPS

USE DEF Channel, PLogUpdates

-----------------------------------------------------------------------------
(* Facts about EventsIn and IsFold. *)

LOCAL Log == Seq(WSIDs \cup {NoWSID})

\* More of the log holds more events.
LEMMA EventsGrow ==
    ASSUME NEW log, NEW w, NEW n \in Nat, NEW m \in Nat, n <= m
    PROVE  EventsIn(log, w, n) \subseteq EventsIn(log, w, m)
BY DEF EventsIn

\* No event comes before the first.
LEMMA NoEventsAtZero ==
    ASSUME NEW log, NEW w
    PROVE  EventsIn(log, w, 0) = {}
BY DEF EventsIn

\* The events up to n are those up to n - 1 and, perhaps, n.
LEMMA EventsStep ==
    ASSUME NEW log \in Log, NEW w, NEW n \in 1..Len(log)
    PROVE  EventsIn(log, w, n) = IF log[n] = w THEN EventsIn(log, w, n - 1) \cup {n}
                                 ELSE EventsIn(log, w, n - 1)
BY DEF EventsIn, Log

\* An event at the end changes nothing before it.
LEMMA EventsAppend ==
    ASSUME NEW log \in Log, NEW v \in WSIDs \cup {NoWSID}, NEW w, NEW n \in 0..Len(log)
    PROVE  EventsIn(Append(log, v), w, n) = EventsIn(log, w, n)
BY DEF EventsIn, Log

\* A fold stays one when the log grows.
LEMMA FoldAppend ==
    ASSUME NEW log \in Log, NEW v \in WSIDs \cup {NoWSID}, NEW w, NEW S,
           IsFold(S, log, w)
    PROVE  IsFold(S, Append(log, v), w)
<1>1. Len(log) \in Nat /\ Append(log, v) \in Log /\ Len(Append(log, v)) = Len(log) + 1
  BY DEF Log
<1>2. EventsIn(log, w, Len(log)) \subseteq EventsIn(Append(log, v), w, Len(log) + 1)
  BY <1>1, EventsAppend, EventsGrow
<1>3. \A n \in S : n \in 0..Len(log)
  BY <1>1 DEF IsFold, EventsIn
<1>4. \A n \in S : EventsIn(Append(log, v), w, n) = EventsIn(log, w, n)
  BY <1>3, EventsAppend
<1> QED BY <1>1, <1>2, <1>4 DEF IsFold

\* Nothing is a fold of nothing.
LEMMA FoldEmpty == ASSUME NEW log, NEW w PROVE IsFold({}, log, w)
BY DEF IsFold

\* The next event of a workspace may be added to a fold of those before it.
LEMMA FoldAdd ==
    ASSUME NEW log \in Log, NEW w, NEW S, NEW n \in 1..Len(log),
           IsFold(S, log, w), log[n] = w, EventsIn(log, w, n - 1) \subseteq S
    PROVE  /\ IsFold(S \cup {n}, log, w)
           /\ EventsIn(log, w, n) \subseteq S \cup {n}
<1>1. EventsIn(log, w, n) = EventsIn(log, w, n - 1) \cup {n}
  BY EventsStep
<1>2. Len(log) \in Nat /\ n \in Nat
  BY DEF Log
<1>3. n \in EventsIn(log, w, Len(log))
  BY <1>2 DEF EventsIn
<1> QED BY <1>1, <1>3 DEF IsFold

-----------------------------------------------------------------------------
(* The inductive invariant. *)

\* The last event the projector has been given.
Taken == IF inbox = 0 THEN read ELSE inbox - 1

\* The last event it has dealt with.
Folded == IF at = "invoke" \/ (at = "apply" /\ purpose = "read") THEN Taken - 1 ELSE Taken

\* What the projector would read of a workspace.
Known(w) == IF kind = "view" THEN Row(w) ELSE projected[w]

Active == pc # "init" /\ ~failed

LogInv ==
    /\ called \subseteq 1..Len(plog)
    /\ announced <= Len(plog)
    /\ position <= Len(plog)
    /\ read <= batchEnd /\ till <= Len(plog)
    /\ inbox # 0 => inbox = read

Busy == {"invoke", "flush", "apply"}

StageInv ==
    /\ pc = "init" => at = "closed"
    /\ at = "closed" => pc \in {"init", "closing"} /\ inbox = 0
    /\ at = "apply" /\ purpose = "close" => pc = "closing" /\ inbox = 0
    /\ failed => at \in {"idle", "closed"}
    /\ failed /\ pc # "init" => bundle = EmptyBundle
    /\ pc # "init" => position <= Taken
    /\ bundlePos # 0 => at = "apply" /\ purpose # "read" /\ bundlePos = pLogOffset
    /\ Active \/ at \in Busy => pLogOffset \in {0, Taken}
    /\ at \in Busy => pLogOffset # 0 /\ ~failed
    /\ at = "invoke" \/ (at = "apply" /\ purpose = "read") => plog[pLogOffset] # NoWSID

RowInv ==
    \A w \in WSIDs : /\ IsFold(view[w], plog, w) /\ IsFold(bundle[w], plog, w)
                     /\ bundle[w] # {} => view[w] \subseteq bundle[w]

KnownInv == Active => \A w \in WSIDs : EventsIn(plog, w, Folded) \subseteq Known(w)

IInv == /\ TypeOK /\ LogInv /\ StageInv /\ RowInv /\ KnownInv
        /\ RowsHaveNoGaps /\ PositionIsCovered

LEMMA InitIInv == Init => IInv
<1> SUFFICES ASSUME Init PROVE IInv
  OBVIOUS
<1> USE ConstantsAssumption
<1>1. plog \in Log /\ Len(plog) = 0
  BY DEF Init, Log
<1>2. TypeOK
  <2>1. Broker!Init
    BY DEF Init
  <2>2. /\ offset \in [{PLogUpdates} -> Offsets]
        /\ subscriptions \in [{Channel} -> SUBSET {PLogUpdates}]
        /\ delivered \in [{Channel} -> [{PLogUpdates} -> Offsets]]
    BY <2>1 DEF Broker!Init, Offsets
  <2>3. /\ view \in [WSIDs -> SUBSET (1..MaxEvents)]
        /\ bundle \in [WSIDs -> SUBSET (1..MaxEvents)]
        /\ plog \in Seq(WSIDs \cup {NoWSID}) /\ Len(plog) <= MaxEvents
    BY <1>1 DEF Init, EmptyBundle, Log
  <2>4. kind \in {"view", "http"}
    BY DEF Init
  <2>5. batchEnd \in 0..Len(plog)
    BY <1>1 DEF Init
  <2>6. /\ accepted \in BOOLEAN /\ armed \in BOOLEAN
        /\ failed \in BOOLEAN /\ stdout \in BOOLEAN /\ cancelled \in BOOLEAN
    BY Zenon DEF Init
  <2>7. /\ called \in SUBSET (1..MaxEvents) /\ position \in Offsets
        /\ pc \in {"init", "toEnd", "watch", "toOffset", "closing"}
        /\ read \in Offsets /\ till \in Offsets /\ inbox \in Offsets
        /\ at \in {"idle", "invoke", "flush", "apply", "closed"}
        /\ purpose \in {"event", "read", "timer", "close"}
        /\ pLogOffset \in Offsets /\ bundlePos \in Offsets /\ faults \in 0..MaxFaults
    BY DEF Init, Offsets
  <2> QED BY <2>2, <2>3, <2>4, <2>5, <2>6, <2>7, Zenon DEF TypeOK
<1>3. LogInv /\ StageInv /\ KnownInv
  BY <1>1 DEF Init, LogInv, StageInv, KnownInv, Taken, Active, Busy, Broker!Init, announced
<1>4. \A w \in WSIDs : view[w] = {} /\ bundle[w] = {} /\ projected[w] = {}
  BY DEF Init, projected, EmptyBundle
<1>5. RowInv /\ RowsHaveNoGaps
  BY <1>4, FoldEmpty DEF RowInv, RowsHaveNoGaps
<1>6. PositionIsCovered
  BY <1>4, NoEventsAtZero DEF PositionIsCovered, Init
<1> QED BY <1>2, <1>3, <1>5, <1>6 DEF IInv

-----------------------------------------------------------------------------
(* Types. *)

Booleans == /\ accepted \in BOOLEAN /\ armed \in BOOLEAN
            /\ failed \in BOOLEAN /\ stdout \in BOOLEAN /\ cancelled \in BOOLEAN

LEMMA NextBooleans == TypeOK /\ [Next]_vars => Booleans'
<1> SUFFICES ASSUME TypeOK, [Next]_vars PROVE Booleans'
  OBVIOUS
<1> USE DEF TypeOK, Booleans, storage, broker, reader, projector, errors
<1>1. CASE UNCHANGED vars
  BY <1>1 DEF vars
<1>2. CASE PutPLog
  BY <1>2 DEF PutPLog
<1>3. CASE Announce
  BY <1>3 DEF Announce
<1>4. CASE Start
  BY <1>4 DEF Start
<1>5. CASE ReadBatch
  BY <1>5 DEF ReadBatch
<1>6. CASE SendAsync
  BY <1>6 DEF SendAsync
<1>7. CASE SendSeesError
  <2>1. cancelled' \in BOOLEAN
    BY <1>7, Zenon DEF SendSeesError
  <2>2. stdout' \in BOOLEAN /\ failed' \in BOOLEAN
    BY <1>7, Zenon DEF SendSeesError
  <2> QED BY <1>7, <2>1, <2>2 DEF SendSeesError
<1>8. CASE Notified
  BY <1>8 DEF Notified
<1>9. CASE WatchEnds
  BY <1>9 DEF WatchEnds
<1>10. CASE CleanupChannel
  BY <1>10 DEF CleanupChannel
<1>11. CASE TakeEvent
  BY <1>11, Zenon DEF TakeEvent, Done
<1>12. CASE RangeRead
  BY <1>12 DEF RangeRead
<1>13. CASE InvokeFolds
  BY <1>13, Zenon DEF InvokeFolds, Done
<1>14. CASE InvokeCalls
  BY <1>14, Zenon DEF InvokeCalls
<1>15. CASE FlushEvent
  BY <1>15, Zenon DEF FlushEvent, FlushStarts
<1>16. CASE PipelineCloses
  BY <1>16, Zenon DEF PipelineCloses, FlushStarts
<1>17. CASE ApplyPosition
  BY <1>17, Zenon DEF ApplyPosition, FlushDone, Done
<1>18. ASSUME NEW w \in WSIDs, ApplyRows(w) PROVE Booleans'
  BY <1>18 DEF ApplyRows
<1>19. CASE TimerFires
  BY <1>19, Zenon DEF TimerFires, FlushStarts
<1>20. CASE ReadFails
  BY <1>20, Zenon DEF ReadFails
<1>21. CASE InvokeFails
  BY <1>21, Zenon DEF InvokeFails, Fails
<1>22. CASE ApplyFails
  BY <1>22, Zenon DEF ApplyFails, Fails
<1>23. CASE Crash
  BY <1>23, Zenon DEF Crash
<1> QED BY <1>1, <1>2, <1>3, <1>4, <1>5, <1>6, <1>7, <1>8, <1>9, <1>10, <1>11, <1>12,
           <1>13, <1>14, <1>15, <1>16, <1>17, <1>18, <1>19, <1>20, <1>21, <1>22, <1>23
        DEF Next, Read, Project

\* TypeOK without the Boolean variables.
DataTypes ==
    /\ plog \in Seq(WSIDs \cup {NoWSID}) /\ Len(plog) <= MaxEvents
    /\ view \in [WSIDs -> SUBSET (1..MaxEvents)]
    /\ called \in SUBSET (1..MaxEvents)
    /\ position \in Offsets
    /\ offset \in [{PLogUpdates} -> Offsets]
    /\ subscriptions \in [{Channel} -> SUBSET {PLogUpdates}]
    /\ delivered \in [{Channel} -> [{PLogUpdates} -> Offsets]]
    /\ kind \in {"view", "http"}
    /\ pc \in {"init", "toEnd", "watch", "toOffset", "closing"}
    /\ read \in Offsets /\ batchEnd \in 0..Len(plog) /\ till \in Offsets
    /\ inbox \in Offsets
    /\ at \in {"idle", "invoke", "flush", "apply", "closed"}
    /\ purpose \in {"event", "read", "timer", "close"}
    /\ pLogOffset \in Offsets
    /\ bundle \in [WSIDs -> SUBSET (1..MaxEvents)]
    /\ bundlePos \in Offsets
    /\ faults \in 0..MaxFaults

LEMMA TypesOfParts == TypeOK <=> DataTypes /\ Booleans
BY Zenon DEF TypeOK, DataTypes, Booleans

LEMMA NextDataTypes == DataTypes /\ LogInv /\ StageInv /\ [Next]_vars => DataTypes'
<1> SUFFICES ASSUME DataTypes, LogInv, StageInv, [Next]_vars PROVE DataTypes'
  OBVIOUS
<1> USE ConstantsAssumption
<1> USE DEF Offsets, storage, broker, reader, projector, errors
<1>l. Len(plog) \in Nat
  BY DEF DataTypes
<1>1. CASE UNCHANGED vars
  BY <1>1 DEF DataTypes, vars
<1>2. CASE PutPLog
  BY <1>2 DEF DataTypes, PutPLog
<1>3. CASE Announce
  <2>1. Len(plog) \in Offsets
    BY <1>l DEF DataTypes
  <2>2. offset' \in [{PLogUpdates} -> Offsets]
    BY <1>3, <2>1 DEF DataTypes, Announce
  <2> QED BY <1>3, <2>2 DEF DataTypes, Announce, Broker!Update
<1>4. CASE Start
  BY <1>4 DEF DataTypes, LogInv, Start, Broker!Subscribe, EmptyBundle
<1>5. CASE ReadBatch
  BY <1>5 DEF DataTypes, LogInv, ReadBatch, LastOfBatch, Limit
<1>6. CASE SendAsync
  BY <1>6 DEF DataTypes, LogInv, SendAsync
<1>7. CASE SendSeesError
  BY <1>7 DEF DataTypes, LogInv, SendSeesError
<1>8. CASE Notified
  BY <1>8 DEF DataTypes, LogInv, Notified, Broker!Deliver, Broker!Pending, announced
<1>9. CASE WatchEnds
  BY <1>9 DEF DataTypes, WatchEnds
<1>10. CASE CleanupChannel
  BY <1>10 DEF DataTypes, CleanupChannel, Broker!Unsubscribe
<1>11. CASE TakeEvent
  BY <1>11 DEF DataTypes, TakeEvent, Done
<1>12. CASE RangeRead
  BY <1>12 DEF DataTypes, RangeRead
<1>13. CASE InvokeFolds
  BY <1>13, <1>l DEF DataTypes, LogInv, StageInv, Busy, Taken, InvokeFolds, Done, Row
<1>14. CASE InvokeCalls
  BY <1>14, <1>l DEF DataTypes, LogInv, StageInv, Busy, Taken, InvokeCalls
<1>15. CASE FlushEvent
  BY <1>15 DEF DataTypes, FlushEvent, FlushStarts
<1>16. CASE PipelineCloses
  BY <1>16 DEF DataTypes, PipelineCloses, FlushStarts
<1>17. CASE ApplyPosition
  <2>1. /\ at' \in {"idle", "invoke", "flush", "apply", "closed"}
        /\ pLogOffset' \in {0, pLogOffset}
    BY <1>17 DEF DataTypes, ApplyPosition, FlushDone, Done
  <2>2. position' \in Offsets /\ pLogOffset' \in Offsets /\ bundlePos' \in Offsets
    BY <1>17, <2>1 DEF DataTypes, ApplyPosition
  <2> QED BY <1>17, <2>1, <2>2 DEF DataTypes, ApplyPosition
<1>18. ASSUME NEW w \in WSIDs, ApplyRows(w) PROVE DataTypes'
  BY <1>18 DEF DataTypes, ApplyRows
<1>19. CASE TimerFires
  BY <1>19 DEF DataTypes, TimerFires, FlushStarts
<1>20. CASE ReadFails
  BY <1>20 DEF DataTypes, ReadFails, Fault
<1>21. CASE InvokeFails
  <2>1. pLogOffset \in 1..MaxEvents
    BY <1>21 DEF DataTypes, StageInv, Busy, InvokeFails
  <2>2. called' \in SUBSET (1..MaxEvents)
    BY <1>21, <2>1 DEF DataTypes, InvokeFails
  <2> QED BY <1>21, <2>2 DEF DataTypes, InvokeFails, Fails, Fault, EmptyBundle
<1>22. CASE ApplyFails
  BY <1>22 DEF DataTypes, ApplyFails, Fails, Fault, EmptyBundle
<1>23. CASE Crash
  BY <1>23, <1>l DEF DataTypes, Crash, Fault, EmptyBundle
<1> QED BY <1>1, <1>2, <1>3, <1>4, <1>5, <1>6, <1>7, <1>8, <1>9, <1>10, <1>11, <1>12,
           <1>13, <1>14, <1>15, <1>16, <1>17, <1>18, <1>19, <1>20, <1>21, <1>22, <1>23
        DEF Next, Read, Project

LEMMA NextTypeOK == TypeOK /\ LogInv /\ StageInv /\ [Next]_vars => TypeOK'
<1> SUFFICES ASSUME TypeOK, LogInv, StageInv, [Next]_vars PROVE TypeOK'
  OBVIOUS
<1>1. DataTypes /\ Booleans
  BY TypesOfParts
<1>2. DataTypes' /\ Booleans'
  BY <1>1, NextDataTypes, NextBooleans
<1> QED BY <1>2, TypesOfParts, Zenon DEF TypeOK, DataTypes, Booleans

-----------------------------------------------------------------------------
(* The log, the reader and the stages of the projector. *)

LEMMA NextLogInv == TypeOK /\ LogInv /\ StageInv /\ [Next]_vars => LogInv'
<1> SUFFICES ASSUME TypeOK, LogInv, StageInv, [Next]_vars PROVE LogInv'
  OBVIOUS
<1> USE ConstantsAssumption
<1> USE DEF Offsets, storage, broker, reader, projector, errors, LogInv, announced
<1>l. Len(plog) \in Nat
  BY DEF TypeOK
<1>t. DataTypes
  BY TypesOfParts
<1> USE DEF DataTypes
<1>1. CASE UNCHANGED vars
  BY <1>1, <1>t DEF vars
<1>2. CASE PutPLog
  <2>1. Len(plog') = Len(plog) + 1
    BY <1>2, <1>t DEF PutPLog
  <2> QED BY <1>2, <1>t, <1>l, <2>1 DEF PutPLog
<1>3. CASE Announce
  BY <1>3, <1>t, <1>l DEF Announce
<1>4. CASE Start
  BY <1>4, <1>t, <1>l DEF Start, StageInv, Broker!Subscribe
<1>5. CASE ReadBatch
  BY <1>5, <1>t, <1>l DEF ReadBatch, LastOfBatch, Limit
<1>6. CASE SendAsync
  BY <1>6, <1>t, <1>l DEF SendAsync
<1>7. CASE SendSeesError
  BY <1>7, <1>t, <1>l DEF SendSeesError
<1>8. CASE Notified
  BY <1>8, <1>t, <1>l DEF Notified, Broker!Deliver
<1>9. CASE WatchEnds
  BY <1>9 DEF WatchEnds
<1>10. CASE CleanupChannel
  BY <1>10 DEF CleanupChannel, Broker!Unsubscribe
<1>11. CASE TakeEvent
  BY <1>11, <1>t DEF TakeEvent
<1>12. CASE RangeRead
  BY <1>12 DEF RangeRead
<1>13. CASE InvokeFolds
  BY <1>13 DEF InvokeFolds
<1>14. CASE InvokeCalls
  <2>1. pLogOffset \in 1..Len(plog)
    BY <1>14, <1>t, <1>l DEF InvokeCalls, StageInv, Busy, Taken
  <2> QED BY <1>14, <2>1 DEF InvokeCalls
<1>15. CASE FlushEvent
  BY <1>15 DEF FlushEvent
<1>16. CASE PipelineCloses
  BY <1>16 DEF PipelineCloses
<1>17. CASE ApplyPosition
  BY <1>17, <1>t, <1>l DEF ApplyPosition, StageInv, Busy, Taken
<1>18. ASSUME NEW w \in WSIDs, ApplyRows(w) PROVE LogInv'
  BY <1>18 DEF ApplyRows
<1>19. CASE TimerFires
  BY <1>19 DEF TimerFires
<1>20. CASE ReadFails
  BY <1>20 DEF ReadFails
<1>21. CASE InvokeFails
  <2>1. pLogOffset \in 1..Len(plog)
    BY <1>21, <1>t, <1>l DEF InvokeFails, StageInv, Busy, Taken
  <2> QED BY <1>21, <2>1 DEF InvokeFails
<1>22. CASE ApplyFails
  BY <1>22, <1>t, <1>l DEF ApplyFails, StageInv, Busy, Taken
<1>23. CASE Crash
  BY <1>23, <1>t, <1>l DEF Crash
<1> QED BY <1>1, <1>2, <1>3, <1>4, <1>5, <1>6, <1>7, <1>8, <1>9, <1>10, <1>11, <1>12,
           <1>13, <1>14, <1>15, <1>16, <1>17, <1>18, <1>19, <1>20, <1>21, <1>22, <1>23
        DEF Next, Read, Project

LEMMA NextStageInv == TypeOK /\ LogInv /\ StageInv /\ [Next]_vars => StageInv'
<1> SUFFICES ASSUME TypeOK, LogInv, StageInv, [Next]_vars PROVE StageInv'
  OBVIOUS
<1> USE ConstantsAssumption
<1> USE DEF Offsets, storage, broker, reader, projector, errors
<1>l. Len(plog) \in Nat
  BY DEF TypeOK
<1>t. DataTypes
  BY TypesOfParts
<1> USE DEF DataTypes, StageInv, Busy, Taken, Active
<1>1. CASE UNCHANGED vars
  BY <1>1 DEF vars
<1>2. CASE PutPLog
  <2>1. \A i \in 1..Len(plog) : plog'[i] = plog[i]
    BY <1>2, <1>t DEF PutPLog
  <2>2. at \in Busy => pLogOffset \in 1..Len(plog)
    BY <1>t, <1>l DEF LogInv
  <2> QED BY <1>2, <1>t, <2>1, <2>2 DEF PutPLog
<1>3. CASE Announce
  BY <1>3, <1>t DEF Announce
<1>4. CASE Start
  BY <1>4, <1>t DEF Start
<1>5. CASE ReadBatch
  BY <1>5, <1>t DEF ReadBatch
<1>6. CASE SendAsync
  BY <1>6, <1>t DEF SendAsync
<1>7. CASE SendSeesError
  BY <1>7, <1>t DEF SendSeesError
<1>8. CASE Notified
  BY <1>8, <1>t DEF Notified
<1>9. CASE WatchEnds
  BY <1>9, <1>t DEF WatchEnds
<1>10. CASE CleanupChannel
  BY <1>10, <1>t DEF CleanupChannel
<1>11. CASE TakeEvent
  BY <1>11, <1>t, <1>l DEF TakeEvent, Done, LogInv
<1>12. CASE RangeRead
  BY <1>12, <1>t DEF RangeRead
<1>13. CASE InvokeFolds
  BY <1>13, <1>t DEF InvokeFolds, Done
<1>14. CASE InvokeCalls
  BY <1>14, <1>t DEF InvokeCalls
<1>15. CASE FlushEvent
  BY <1>15, <1>t DEF FlushEvent, FlushStarts
<1>16. CASE PipelineCloses
  BY <1>16, <1>t DEF PipelineCloses, FlushStarts
<1>17. CASE ApplyPosition
  <2>1. \/ purpose = "read" /\ at' = "invoke" /\ pLogOffset' = pLogOffset
        \/ purpose = "close" /\ at' = "closed" /\ pLogOffset' = 0
        \/ purpose # "read" /\ at' = "idle" /\ pLogOffset' = 0
    BY <1>17, <1>t DEF ApplyPosition, FlushDone, Done
  <2>2. at = "apply" /\ bundlePos' = 0 /\ position' \in {position, bundlePos}
    BY <1>17 DEF ApplyPosition
  <2>3. UNCHANGED <<plog, pc, inbox, read, purpose, failed, bundle>>
    BY <1>17 DEF ApplyPosition
  <2>4. position' <= Taken
    BY <1>t, <2>2 DEF LogInv
  <2> QED BY <1>t, <2>1, <2>2, <2>3, <2>4
<1>18. ASSUME NEW w \in WSIDs, ApplyRows(w) PROVE StageInv'
  BY <1>18, <1>t DEF ApplyRows
<1>19. CASE TimerFires
  BY <1>19, <1>t DEF TimerFires, FlushStarts
<1>20. CASE ReadFails
  BY <1>20, <1>t DEF ReadFails
<1>21. CASE InvokeFails
  BY <1>21, <1>t DEF InvokeFails, Fails
<1>22. CASE ApplyFails
  BY <1>22, <1>t DEF ApplyFails, Fails
<1>23. CASE Crash
  BY <1>23, <1>t DEF Crash
<1> QED BY <1>1, <1>2, <1>3, <1>4, <1>5, <1>6, <1>7, <1>8, <1>9, <1>10, <1>11, <1>12,
           <1>13, <1>14, <1>15, <1>16, <1>17, <1>18, <1>19, <1>20, <1>21, <1>22, <1>23
        DEF Next, Read, Project

-----------------------------------------------------------------------------
(* The rows. *)

\* The event the projector is invoked for.
LEMMA InvokedEvent ==
    ASSUME TypeOK, LogInv, StageInv, at = "invoke"
    PROVE  /\ plog \in Log /\ pLogOffset \in 1..Len(plog) /\ pLogOffset = Taken
           /\ plog[pLogOffset] \in WSIDs
BY ConstantsAssumption DEF TypeOK, LogInv, StageInv, Busy, Taken, Log, Offsets

LEMMA NextRowInv == TypeOK /\ LogInv /\ StageInv /\ RowInv /\ KnownInv /\ [Next]_vars => RowInv'
<1> SUFFICES ASSUME TypeOK, LogInv, StageInv, RowInv, KnownInv, [Next]_vars PROVE RowInv'
  OBVIOUS
<1> USE DEF storage, broker, reader, projector, errors
<1> DEFINE Sound(v, b, log, w) == /\ IsFold(v, log, w) /\ IsFold(b, log, w)
                                  /\ b # {} => v \subseteq b
<1>r. \A w \in WSIDs : Sound(view[w], bundle[w], plog, w)
  BY DEF RowInv
<1>s. (\A w \in WSIDs : Sound(view'[w], bundle'[w], plog', w)) => RowInv'
  BY DEF RowInv
<1>f. view \in [WSIDs -> SUBSET (1..MaxEvents)] /\ bundle \in [WSIDs -> SUBSET (1..MaxEvents)]
  BY DEF TypeOK
<1>e. ASSUME UNCHANGED plog,
             UNCHANGED view \/ \E w \in WSIDs : /\ bundle[w] # {}
                                                /\ view' = [view EXCEPT ![w] = bundle[w]],
             bundle' = EmptyBundle
      PROVE  RowInv'
  <2>1. \A w \in WSIDs : view'[w] = view[w] \/ view'[w] = bundle[w]
    BY <1>e, <1>f
  <2>2. \A w \in WSIDs : bundle'[w] = {}
    BY <1>e DEF EmptyBundle
  <2>3. \A w \in WSIDs : IsFold(view'[w], plog', w)
    BY <2>1, <1>r, <1>e
  <2> QED BY <2>2, <2>3, <1>s, <1>e, FoldEmpty
<1>u. ASSUME UNCHANGED <<plog, view, bundle>> PROVE RowInv'
  BY <1>r, <1>s, <1>u
<1> HIDE DEF Sound
<1>1. CASE UNCHANGED vars
  BY <1>1, <1>u DEF vars
<1>2. CASE PutPLog
  <2>1. PICK v \in WSIDs \cup {NoWSID} : plog' = Append(plog, v)
    BY <1>2 DEF PutPLog
  <2>2. UNCHANGED <<view, bundle>> /\ plog \in Log
    BY <1>2 DEF PutPLog, TypeOK, Log
  <2> QED BY <2>1, <2>2, <1>r, <1>s, FoldAppend DEF Sound
<1>3. CASE Announce
  BY <1>3, <1>u DEF Announce
<1>4. CASE Start
  BY <1>4, <1>e DEF Start
<1>5. CASE ReadBatch
  BY <1>5, <1>u DEF ReadBatch
<1>6. CASE SendAsync
  BY <1>6, <1>u DEF SendAsync
<1>7. CASE SendSeesError
  BY <1>7, <1>u DEF SendSeesError
<1>8. CASE Notified
  BY <1>8, <1>u DEF Notified
<1>9. CASE WatchEnds
  BY <1>9, <1>u DEF WatchEnds
<1>10. CASE CleanupChannel
  BY <1>10, <1>u DEF CleanupChannel
<1>11. CASE TakeEvent
  BY <1>11, <1>u DEF TakeEvent
<1>12. CASE RangeRead
  BY <1>12, <1>u DEF RangeRead
<1>13. CASE InvokeFolds
  <2> DEFINE u == plog[pLogOffset]
  <2>1. /\ u \in WSIDs /\ UNCHANGED <<plog, view>> /\ ~failed /\ pc # "init" /\ kind = "view"
        /\ at = "invoke" /\ bundle' = [bundle EXCEPT ![u] = Row(u) \cup {pLogOffset}]
    BY <1>13, InvokedEvent DEF InvokeFolds, StageInv, Busy
  <2>2. EventsIn(plog, u, pLogOffset - 1) \subseteq Row(u)
    BY <2>1, InvokedEvent DEF KnownInv, Known, Folded, Active
  <2>3. IsFold(Row(u), plog, u) /\ view[u] \subseteq Row(u)
    BY <2>1, <1>r DEF Row, Sound
  <2>4. IsFold(Row(u) \cup {pLogOffset}, plog, u)
    BY <2>1, <2>2, <2>3, FoldAdd, InvokedEvent
  <2>5. Sound(view'[u], bundle'[u], plog', u)
    BY <2>1, <2>3, <2>4, <1>r, <1>f DEF Sound
  <2>6. \A w \in WSIDs \ {u} : bundle'[w] = bundle[w]
    BY <2>1, <1>f
  <2> QED BY <2>1, <2>5, <2>6, <1>r, <1>s
<1>14. CASE InvokeCalls
  BY <1>14, <1>u DEF InvokeCalls
<1>15. CASE FlushEvent
  BY <1>15, <1>u DEF FlushEvent
<1>16. CASE PipelineCloses
  BY <1>16, <1>u DEF PipelineCloses
<1>17. CASE ApplyPosition
  BY <1>17, <1>u DEF ApplyPosition
<1>18. ASSUME NEW w \in WSIDs, ApplyRows(w) PROVE RowInv'
  <2>1. /\ UNCHANGED plog /\ bundle[w] # {}
        /\ view'[w] = bundle[w] /\ bundle'[w] = {}
        /\ \A x \in WSIDs \ {w} : view'[x] = view[x] /\ bundle'[x] = bundle[x]
    BY <1>18, <1>f DEF ApplyRows
  <2>2. Sound(view'[w], bundle'[w], plog', w)
    BY <2>1, <1>r, FoldEmpty DEF Sound
  <2> QED BY <2>1, <2>2, <1>r, <1>s
<1>19. CASE TimerFires
  BY <1>19, <1>u DEF TimerFires
<1>20. CASE ReadFails
  BY <1>20, <1>u DEF ReadFails
<1>21. CASE InvokeFails
  BY <1>21, <1>e DEF InvokeFails, Fails
<1>22. CASE ApplyFails
  BY <1>22, <1>e DEF ApplyFails, Fails
<1>23. CASE Crash
  BY <1>23, <1>e DEF Crash
<1> QED BY <1>1, <1>2, <1>3, <1>4, <1>5, <1>6, <1>7, <1>8, <1>9, <1>10, <1>11, <1>12,
           <1>13, <1>14, <1>15, <1>16, <1>17, <1>18, <1>19, <1>20, <1>21, <1>22, <1>23
        DEF Next, Read, Project

\* What is projected, for the two kinds of projectors.
LEMMA ProjectedOf ==
    ASSUME TypeOK, NEW w \in WSIDs
    PROVE  projected[w] = IF kind = "view" THEN view[w]
                          ELSE called \cap EventsIn(plog, w, Len(plog))
BY DEF projected

LEMMA ProjectedOfNext ==
    ASSUME NEW w \in WSIDs
    PROVE  projected'[w] = IF kind' = "view" THEN view'[w]
                           ELSE called' \cap EventsIn(plog', w, Len(plog'))
BY DEF projected

\* A call for the event the projector is invoked for adds that event.
LEMMA CallAdds ==
    ASSUME IInv, at = "invoke", kind = "http", called' = called \cup {pLogOffset},
           UNCHANGED <<plog, kind, view>>, NEW w \in WSIDs
    PROVE  /\ projected'[w] = IF w = plog[pLogOffset] THEN projected[w] \cup {pLogOffset}
                              ELSE projected[w]
           /\ IsFold(projected'[w], plog', w)
<1>1. /\ plog \in Log /\ pLogOffset \in 1..Len(plog) /\ pLogOffset = Taken
      /\ ~failed /\ pc # "init"
  BY InvokedEvent DEF IInv, StageInv, Busy
<1>2. pLogOffset \in EventsIn(plog, w, Len(plog)) <=> w = plog[pLogOffset]
  BY <1>1 DEF EventsIn, Log
<1>3. projected'[w] = IF w = plog[pLogOffset] THEN projected[w] \cup {pLogOffset}
                      ELSE projected[w]
  <2> DEFINE E == EventsIn(plog, w, Len(plog))
  <2>1. projected[w] = called \cap E
    BY ProjectedOf DEF IInv
  <2>2. projected'[w] = (called \cup {pLogOffset}) \cap E
    BY ProjectedOfNext
  <2> HIDE DEF E
  <2>3. pLogOffset \in E <=> w = plog[pLogOffset]
    BY <1>2 DEF E
  <2> QED BY <2>1, <2>2, <2>3
<1>4. EventsIn(plog, w, pLogOffset - 1) \subseteq projected[w]
  BY <1>1 DEF IInv, KnownInv, Active, Folded, Known
<1>5. IsFold(projected[w], plog, w)
  BY DEF IInv, RowsHaveNoGaps
<1>6. CASE w = plog[pLogOffset]
  <2>1. IsFold(projected[w] \cup {pLogOffset}, plog, w)
    BY <1>1, <1>4, <1>5, <1>6, FoldAdd
  <2>2. projected'[w] = projected[w] \cup {pLogOffset} /\ plog' = plog
    BY <1>3, <1>6
  <2>3. IsFold(projected'[w], plog', w)
    BY <2>1, <2>2, Zenon
  <2> QED BY <2>3, <1>3
<1>7. CASE w # plog[pLogOffset]
  BY <1>3, <1>5, <1>7
<1> QED BY <1>3, <1>6, <1>7

\* What is projected only grows, and stays a fold.
LEMMA NextProjected ==
    ASSUME IInv, [Next]_vars, NEW w \in WSIDs
    PROVE  projected[w] \subseteq projected'[w] /\ IsFold(projected'[w], plog', w)
<1> DEFINE Goal == projected[w] \subseteq projected'[w] /\ IsFold(projected'[w], plog', w)
<1> SUFFICES Goal
  OBVIOUS
<1> USE DEF storage, broker, reader, projector, errors
<1>i. /\ IsFold(projected[w], plog, w) /\ IsFold(bundle[w], plog, w)
      /\ bundle[w] # {} => view[w] \subseteq bundle[w]
      /\ TypeOK /\ plog \in Log /\ called \subseteq 1..Len(plog)
  BY DEF IInv, RowsHaveNoGaps, RowInv, LogInv, TypeOK, Log
<1>f. view \in [WSIDs -> SUBSET (1..MaxEvents)]
  BY DEF IInv, TypeOK
<1>u. ASSUME UNCHANGED <<plog, view, called, kind>> PROVE Goal
  BY <1>u, <1>i, ProjectedOf, ProjectedOfNext
<1>v. ASSUME UNCHANGED <<plog, called, kind>>, NEW x \in WSIDs, bundle[x] # {},
             view' = [view EXCEPT ![x] = bundle[x]]
      PROVE  Goal
  <2>1. view'[w] = view[w] \/ (view'[w] = bundle[w] /\ bundle[w] # {})
    BY <1>v, <1>f
  <2>2. CASE kind = "view"
    BY <2>1, <2>2, <1>v, <1>i, ProjectedOf, ProjectedOfNext
  <2>3. CASE kind # "view"
    BY <2>3, <1>v, <1>i, ProjectedOf, ProjectedOfNext
  <2> QED BY <2>2, <2>3
<1>1. CASE UNCHANGED vars
  BY <1>1, <1>u DEF vars
<1>2. CASE PutPLog
  <2>1. PICK v \in WSIDs \cup {NoWSID} : plog' = Append(plog, v)
    BY <1>2 DEF PutPLog
  <2>2. UNCHANGED <<view, called, kind>>
    BY <1>2 DEF PutPLog
  <2>3. called \cap EventsIn(plog', w, Len(plog')) = called \cap EventsIn(plog, w, Len(plog))
    BY <2>1, <1>i DEF EventsIn, Log
  <2>4. projected'[w] = projected[w]
    BY <2>2, <2>3, <1>i, ProjectedOf, ProjectedOfNext
  <2> QED BY <2>1, <2>4, <1>i, FoldAppend
<1>3. CASE Announce
  BY <1>3, <1>u DEF Announce
<1>4. CASE Start
  BY <1>4, <1>u DEF Start
<1>5. CASE ReadBatch
  BY <1>5, <1>u DEF ReadBatch
<1>6. CASE SendAsync
  BY <1>6, <1>u DEF SendAsync
<1>7. CASE SendSeesError
  BY <1>7, <1>u DEF SendSeesError
<1>8. CASE Notified
  BY <1>8, <1>u DEF Notified
<1>9. CASE WatchEnds
  BY <1>9, <1>u DEF WatchEnds
<1>10. CASE CleanupChannel
  BY <1>10, <1>u DEF CleanupChannel
<1>11. CASE TakeEvent
  BY <1>11, <1>u DEF TakeEvent
<1>12. CASE RangeRead
  BY <1>12, <1>u DEF RangeRead
<1>13. CASE InvokeFolds
  BY <1>13, <1>u DEF InvokeFolds
<1>14. CASE InvokeCalls
  BY <1>14, CallAdds DEF InvokeCalls
<1>15. CASE FlushEvent
  BY <1>15, <1>u DEF FlushEvent
<1>16. CASE PipelineCloses
  BY <1>16, <1>u DEF PipelineCloses
<1>17. CASE ApplyPosition
  BY <1>17, <1>u DEF ApplyPosition
<1>18. ASSUME NEW x \in WSIDs, ApplyRows(x) PROVE Goal
  BY <1>18, <1>v DEF ApplyRows
<1>19. CASE TimerFires
  BY <1>19, <1>u DEF TimerFires
<1>20. CASE ReadFails
  BY <1>20, <1>u DEF ReadFails
<1>21. CASE InvokeFails
  <2>1. CASE UNCHANGED called
    BY <1>21, <2>1, <1>u DEF InvokeFails
  <2>2. CASE kind = "http" /\ called' = called \cup {pLogOffset}
    BY <1>21, <2>2, CallAdds DEF InvokeFails
  <2> QED BY <1>21, <2>1, <2>2 DEF InvokeFails
<1>22. CASE ApplyFails
  <2>1. CASE UNCHANGED view
    BY <1>22, <2>1, <1>u DEF ApplyFails
  <2>2. CASE \E x \in WSIDs : bundle[x] # {} /\ view' = [view EXCEPT ![x] = bundle[x]]
    BY <1>22, <2>2, <1>v DEF ApplyFails
  <2> QED BY <1>22, <2>1, <2>2 DEF ApplyFails
<1>23. CASE Crash
  BY <1>23, <1>u DEF Crash
<1> QED BY <1>1, <1>2, <1>3, <1>4, <1>5, <1>6, <1>7, <1>8, <1>9, <1>10, <1>11, <1>12,
           <1>13, <1>14, <1>15, <1>16, <1>17, <1>18, <1>19, <1>20, <1>21, <1>22, <1>23
        DEF Next, Read, Project

\* When a flush has written its rows, all that was taken is projected.
LEMMA FlushedIsProjected ==
    ASSUME IInv, at = "apply", bundle = EmptyBundle, bundlePos # 0, NEW w \in WSIDs
    PROVE  EventsIn(plog, w, bundlePos) \subseteq projected[w]
<1>1. /\ purpose # "read" /\ bundlePos = Taken /\ pc # "init" /\ ~failed
  BY DEF IInv, StageInv, Busy
<1>2. EventsIn(plog, w, bundlePos) \subseteq Known(w)
  BY <1>1 DEF IInv, KnownInv, Active, Folded
<1>3. bundle[w] = {}
  BY DEF EmptyBundle
<1> QED BY <1>2, <1>3, ProjectedOf DEF Known, Row, IInv

\* Only a flush that has written its rows moves the position.
LEMMA NextPosition ==
    ASSUME IInv, [Next]_vars
    PROVE  \/ UNCHANGED position
           \/ /\ at = "apply" /\ bundle = EmptyBundle /\ bundlePos # 0
              /\ position' = bundlePos /\ UNCHANGED plog
<1> USE DEF storage, broker, reader, projector, errors
<1> QED BY DEF Next, Read, Project, vars, PutPLog, Announce, Start, ReadBatch, SendAsync,
      SendSeesError, Notified, WatchEnds, CleanupChannel, TakeEvent, RangeRead, InvokeFolds,
      InvokeCalls, FlushEvent, PipelineCloses, ApplyPosition, ApplyRows, TimerFires,
      ReadFails, InvokeFails, ApplyFails, Crash

\* The log only grows at its end.
LEMMA NextLog ==
    ASSUME [Next]_vars
    PROVE  UNCHANGED plog \/ \E v \in WSIDs \cup {NoWSID} : plog' = Append(plog, v)
<1> USE DEF storage, broker, reader, projector, errors
<1> QED BY DEF Next, Read, Project, vars, PutPLog, Announce, Start, ReadBatch, SendAsync,
      SendSeesError, Notified, WatchEnds, CleanupChannel, TakeEvent, RangeRead, InvokeFolds,
      InvokeCalls, FlushEvent, PipelineCloses, ApplyPosition, ApplyRows, TimerFires,
      ReadFails, InvokeFails, ApplyFails, Crash

LEMMA NextPositionIsCovered == IInv /\ [Next]_vars => PositionIsCovered'
<1> SUFFICES ASSUME IInv, [Next]_vars, NEW w \in WSIDs
             PROVE  EventsIn(plog', w, position') \subseteq projected'[w]
  BY DEF PositionIsCovered
<1>1. projected[w] \subseteq projected'[w]
  BY NextProjected
<1>2. plog \in Log /\ position \in 0..Len(plog)
  BY DEF IInv, TypeOK, LogInv, Log, Offsets
<1>3. CASE UNCHANGED position
  <2>1. EventsIn(plog', w, position) = EventsIn(plog, w, position)
    BY <1>2, NextLog, EventsAppend
  <2> QED BY <2>1, <1>1, <1>3 DEF IInv, PositionIsCovered
<1>4. CASE /\ at = "apply" /\ bundle = EmptyBundle /\ bundlePos # 0
           /\ position' = bundlePos /\ UNCHANGED plog
  BY <1>1, <1>4, FlushedIsProjected
<1> QED BY <1>3, <1>4, NextPosition

\* The projector knows every event it has dealt with.
LEMMA NextKnownInv == IInv /\ [Next]_vars => KnownInv'
<1> SUFFICES ASSUME IInv, [Next]_vars, Active', NEW w \in WSIDs
             PROVE  EventsIn(plog', w, Folded') \subseteq Known(w)'
  BY DEF KnownInv
<1> DEFINE Goal == EventsIn(plog', w, Folded') \subseteq Known(w)'
<1> SUFFICES Goal
  OBVIOUS
<1> USE DEF storage, broker, reader, projector, errors
<1>k. Active => EventsIn(plog, w, Folded) \subseteq Known(w)
  BY DEF IInv, KnownInv
<1>a. at \in Busy => Active /\ pLogOffset = Taken /\ pLogOffset \in 1..Len(plog)
  <2>1. TypeOK /\ LogInv /\ StageInv /\ Len(plog) \in Nat
    BY DEF IInv, TypeOK
  <2>2. at \in Busy => pc # "init" /\ ~failed /\ pLogOffset = Taken /\ pLogOffset # 0
    BY <2>1 DEF StageInv, Busy
  <2>3. Taken <= Len(plog) /\ pLogOffset \in Nat
    BY <2>1 DEF Taken, LogInv, TypeOK, Offsets
  <2> QED BY <2>1, <2>2, <2>3 DEF Active
<1>n. /\ plog \in Log /\ Len(plog) \in Nat /\ Taken \in 0..Len(plog) /\ Folded \in 0..Len(plog)
  <2>1. TypeOK /\ LogInv /\ StageInv /\ Len(plog) \in Nat /\ plog \in Log
    BY DEF IInv, TypeOK, Log
  <2>2. Taken \in 0..Len(plog)
    BY <2>1 DEF Taken, LogInv, TypeOK, Offsets
  <2>3. at \in Busy => Taken >= 1
    BY <1>a
  <2> QED BY <2>1, <2>2, <2>3 DEF Folded, Busy
<1>p. projected[w] \subseteq projected'[w]
  BY NextProjected
<1>f. view \in [WSIDs -> SUBSET (1..MaxEvents)] /\ bundle \in [WSIDs -> SUBSET (1..MaxEvents)]
  BY DEF IInv, TypeOK
\* What is known has not changed, nor has the last event dealt with.
<1>u. ASSUME UNCHANGED <<plog, view, bundle, kind>>, Active, Folded' = Folded PROVE Goal
  <2>1. Known(w) \subseteq Known(w)'
    BY <1>u, <1>p DEF Known, Row
  <2> QED BY <2>1, <1>u, <1>k
<1>1. CASE UNCHANGED vars
  BY <1>1, <1>u DEF vars, Active, Folded, Taken
<1>2. CASE PutPLog
  <2>1. EventsIn(plog', w, Folded) = EventsIn(plog, w, Folded)
    <3>1. CASE UNCHANGED plog  BY <3>1
    <3>2. CASE \E v \in WSIDs \cup {NoWSID} : plog' = Append(plog, v)
      <4>1. PICK v \in WSIDs \cup {NoWSID} : plog' = Append(plog, v)  BY <3>2
      <4> QED  BY <1>n, <4>1, EventsAppend
    <3> QED  BY <3>1, <3>2, NextLog
  <2>2. UNCHANGED <<view, bundle, kind>> /\ Active /\ Folded' = Folded
    BY <1>2 DEF PutPLog, Active, Folded, Taken
  <2>3. Known(w) \subseteq Known(w)'
    BY <2>2, <1>p DEF Known, Row
  <2> QED BY <2>1, <2>2, <2>3, <1>k
<1>3. CASE Announce
  BY <1>3, <1>u DEF Announce, Active, Folded, Taken
<1>4. CASE Start
  <2>1. Folded' = position
    BY <1>4 DEF Start, Folded, Taken, IInv, StageInv
  <2>2. EventsIn(plog, w, position) \subseteq projected[w]
    BY DEF IInv, PositionIsCovered
  <2>3. kind = "view" => Known(w)' = projected[w]
    <3>1. bundle'[w] = {} /\ UNCHANGED <<view, kind>>
      BY <1>4 DEF Start, EmptyBundle
    <3> QED BY <3>1, ProjectedOf DEF Known, Row, IInv
  <2>4. kind # "view" => Known(w)' = projected'[w]
    BY <1>4 DEF Start, Known
  <2>5. UNCHANGED plog
    BY <1>4 DEF Start
  <2> QED BY <2>1, <2>2, <2>3, <2>4, <2>5, <1>p
<1>5. CASE ReadBatch
  BY <1>5, <1>u DEF ReadBatch, Active, Folded, Taken
<1>6. CASE SendAsync
  <2>1. Taken' = Taken
    BY <1>6 DEF SendAsync, Taken, IInv, TypeOK, Offsets
  <2> QED BY <1>6, <2>1, <1>u DEF SendAsync, Active, Folded
<1>7. CASE SendSeesError
  BY <1>7, <1>u DEF SendSeesError, Active, Folded, Taken
<1>8. CASE Notified
  BY <1>8, <1>u DEF Notified, Active, Folded, Taken
<1>9. CASE WatchEnds
  BY <1>9, <1>u DEF WatchEnds, Active, Folded, Taken
<1>10. CASE CleanupChannel
  BY <1>10 DEF CleanupChannel, Active
<1>11. CASE TakeEvent
  <2>1. /\ ~failed /\ Active /\ UNCHANGED <<plog, view, bundle, kind>> /\ at = "idle" /\ inbox # 0
        /\ inbox' = 0 /\ UNCHANGED read
        /\ IF plog[inbox] = NoWSID THEN at' = "idle" ELSE at' = "invoke"
    BY <1>11 DEF TakeEvent, Active, Done
  <2>2. inbox = read /\ Taken' = inbox /\ Taken = inbox - 1 /\ inbox \in 1..Len(plog)
    BY <2>1, <1>n DEF Taken, IInv, LogInv, TypeOK, Offsets
  <2>3. Folded = Taken
    BY <2>1 DEF Folded
  <2>4. CASE plog[inbox] # NoWSID
    BY <2>1, <2>2, <2>3, <2>4, <1>u DEF Folded
  <2>5. CASE plog[inbox] = NoWSID
    <3>1. Folded' = inbox
      BY <2>1, <2>2, <2>5 DEF Folded
    <3>2. EventsIn(plog, w, inbox) = EventsIn(plog, w, inbox - 1)
      BY <2>2, <2>5, <1>n, EventsStep, ConstantsAssumption
    <3>3. Known(w) \subseteq Known(w)'
      BY <2>1, <1>p DEF Known, Row
    <3> QED BY <3>1, <3>2, <3>3, <2>1, <2>2, <2>3, <1>k
  <2> QED BY <2>4, <2>5
<1>12. CASE RangeRead
  BY <1>12, <1>u, <1>a DEF RangeRead, Folded, Taken, Busy
<1>13. CASE InvokeFolds
  <2> DEFINE u == plog[pLogOffset]
  <2>1. /\ u \in WSIDs /\ UNCHANGED <<plog, view, kind>> /\ kind = "view" /\ at = "invoke"
        /\ bundle' = [bundle EXCEPT ![u] = Row(u) \cup {pLogOffset}]
        /\ at' \in {"idle", "flush"} /\ UNCHANGED <<inbox, read>>
    BY <1>13, InvokedEvent DEF InvokeFolds, IInv, Done
  <2>2. Active /\ pLogOffset = Taken /\ pLogOffset \in 1..Len(plog)
    BY <1>a, <2>1 DEF Busy
  <2>3. Folded' = pLogOffset /\ Folded = pLogOffset - 1
    BY <2>1, <2>2 DEF Folded, Taken
  <2>4. EventsIn(plog, w, pLogOffset - 1) \subseteq Row(w)
    BY <2>1, <2>2, <2>3, <1>k DEF Known
  <2>5. Row(w) \cup (IF w = u THEN {pLogOffset} ELSE {}) \subseteq Row(w)'
    BY <2>1, <1>f DEF Row
  <2>6. EventsIn(plog, w, pLogOffset)
            \subseteq EventsIn(plog, w, pLogOffset - 1) \cup (IF w = u THEN {pLogOffset} ELSE {})
    BY <2>2, <1>n, EventsStep
  <2>7. Known(w)' = Row(w)'
    BY <2>1 DEF Known
  <2> QED BY <2>1, <2>3, <2>4, <2>5, <2>6, <2>7
<1>14. CASE InvokeCalls
  <2>1. /\ at = "invoke" /\ kind = "http" /\ called' = called \cup {pLogOffset}
        /\ UNCHANGED <<plog, kind, view, inbox, read>> /\ at' = "flush"
    BY <1>14 DEF InvokeCalls
  <2>2. Active /\ pLogOffset = Taken /\ pLogOffset \in 1..Len(plog)
    BY <1>a, <2>1 DEF Busy
  <2>3. Folded' = pLogOffset /\ Folded = pLogOffset - 1
    BY <2>1, <2>2 DEF Folded, Taken
  <2>4. EventsIn(plog, w, pLogOffset - 1) \subseteq projected[w]
    BY <2>1, <2>2, <2>3, <1>k DEF Known
  <2>5. EventsIn(plog, w, pLogOffset) = IF plog[pLogOffset] = w
                                        THEN EventsIn(plog, w, pLogOffset - 1) \cup {pLogOffset}
                                        ELSE EventsIn(plog, w, pLogOffset - 1)
    BY <2>2, <1>n, EventsStep
  <2>6. projected'[w] = IF w = plog[pLogOffset] THEN projected[w] \cup {pLogOffset}
                        ELSE projected[w]
    BY <2>1, CallAdds
  <2>7. Known(w)' = projected'[w]
    BY <2>1 DEF Known
  <2> QED BY <2>1, <2>3, <2>4, <2>5, <2>6, <2>7
<1>15. CASE FlushEvent
  BY <1>15, <1>u, <1>a DEF FlushEvent, FlushStarts, Folded, Taken, Busy
<1>16. CASE PipelineCloses
  BY <1>16, <1>u DEF PipelineCloses, FlushStarts, Folded, Taken, Active
<1>17. CASE ApplyPosition
  <2>1. /\ at = "apply" /\ UNCHANGED <<plog, view, bundle, kind, purpose, inbox, read>>
        /\ IF purpose = "read" THEN at' = "invoke" ELSE at' \in {"idle", "closed"}
    BY <1>17 DEF ApplyPosition, FlushDone, Done, IInv, TypeOK
  <2>2. Folded' = Folded
    BY <2>1 DEF Folded, Taken
  <2> QED BY <2>1, <2>2, <1>u, <1>a DEF Busy
<1>18. ASSUME NEW x \in WSIDs, ApplyRows(x) PROVE Goal
  <2>1. /\ UNCHANGED plog /\ bundle[x] # {} /\ UNCHANGED kind
        /\ view'[x] = bundle[x] /\ bundle'[x] = {}
        /\ \A y \in WSIDs \ {x} : view'[y] = view[y] /\ bundle'[y] = bundle[y]
        /\ at \in Busy /\ Folded' = Folded
    BY <1>18, <1>f DEF ApplyRows, Busy, Folded, Taken
  <2>2. Row(w)' = Row(w)
    BY <2>1 DEF Row
  <2>3. Known(w) \subseteq Known(w)'
    BY <2>1, <2>2, <1>p DEF Known
  <2> QED BY <2>1, <2>3, <1>a, <1>k
<1>19. CASE TimerFires
  BY <1>19, <1>u DEF TimerFires, FlushStarts, Folded, Taken, Active
<1>20. CASE ReadFails
  BY <1>20, <1>u DEF ReadFails, Folded, Taken, Active
<1>21. CASE InvokeFails
  BY <1>21 DEF InvokeFails, Fails, Active
<1>22. CASE ApplyFails
  BY <1>22 DEF ApplyFails, Fails, Active
<1>23. CASE Crash
  BY <1>23 DEF Crash, Active
<1> QED BY <1>1, <1>2, <1>3, <1>4, <1>5, <1>6, <1>7, <1>8, <1>9, <1>10, <1>11, <1>12,
           <1>13, <1>14, <1>15, <1>16, <1>17, <1>18, <1>19, <1>20, <1>21, <1>22, <1>23
        DEF Next, Read, Project

-----------------------------------------------------------------------------
(* Theorems. *)

LEMMA NextIInv == IInv /\ [Next]_vars => IInv'
<1> SUFFICES ASSUME IInv, [Next]_vars PROVE IInv'
  OBVIOUS
<1>1. TypeOK' /\ LogInv' /\ StageInv' /\ RowInv'
  BY NextTypeOK, NextLogInv, NextStageInv, NextRowInv DEF IInv
<1>2. RowsHaveNoGaps'
  BY NextProjected DEF RowsHaveNoGaps
<1> QED BY <1>1, <1>2, NextKnownInv, NextPositionIsCovered DEF IInv

\* The inductive invariant holds: TypeOK; where the reader and the projector
\* are; the rows and what the projector reads are folds of what it was given.
THEOREM Invariance == Spec => []IInv
BY InitIInv, NextIInv, PTL DEF Spec

\* The types.
THEOREM TypeCorrect == Spec => []TypeOK
<1>1. IInv => TypeOK
  BY DEF IInv
<1> QED BY <1>1, Invariance, PTL

\* Rows are folds of all the events of their workspace up to the last one they
\* have seen, whatever is applied again after errors and crashes.
THEOREM RowsAreFolds == Spec => []RowsHaveNoGaps
<1>1. IInv => RowsHaveNoGaps
  BY DEF IInv
<1> QED BY <1>1, Invariance, PTL

\* The position of a projector never passes an event it has not projected.
THEOREM PositionCovered == Spec => []PositionIsCovered
<1>1. IInv => PositionIsCovered
  BY DEF IInv
<1> QED BY <1>1, Invariance, PTL

-----------------------------------------------------------------------------
(* The refinement. *)

\* The two modules mean the same by a fold.
LEMMA SameFolds ==
    ASSUME NEW log, NEW w
    PROVE  /\ \A n : Projected!EventsIn(log, w, n) = EventsIn(log, w, n)
           /\ \A S : Projected!IsFold(S, log, w) <=> IsFold(S, log, w)
BY DEF Projected!EventsIn, EventsIn, Projected!IsFold, IsFold

\* Every step is a step of Projection or a stutter.
LEMMA NextImplements == IInv /\ [Next]_vars => [Projected!Next]_(Projected!vars)
<1> SUFFICES ASSUME IInv, [Next]_vars PROVE Projected!Next \/ UNCHANGED Projected!vars
  OBVIOUS
<1> DEFINE Goal == Projected!Next \/ UNCHANGED Projected!vars
<1> SUFFICES Goal
  OBVIOUS
<1> USE DEF storage, broker, reader, projector, errors
<1>i. /\ TypeOK /\ plog \in Log /\ Len(plog) \in Nat
      /\ \A w \in WSIDs : projected[w] \subseteq projected'[w] /\ IsFold(projected'[w], plog', w)
  BY NextProjected DEF IInv, TypeOK, Log
<1>d. DOMAIN projected = WSIDs /\ DOMAIN projected' = WSIDs
  BY DEF projected
\* Nothing that Projection sees has changed.
<1>u. ASSUME UNCHANGED <<plog, view, called, kind, position, offset>> PROVE Goal
  BY <1>u DEF Projected!vars, projected, announced
\* A flush has written the position.
<1>s. ASSUME UNCHANGED <<plog, view, called, kind, offset>>, position' = bundlePos,
             at = "apply", bundle = EmptyBundle, bundlePos # 0
      PROVE  Goal
  <2>1. /\ bundlePos = Taken /\ pc # "init" /\ Taken \in Nat /\ Taken <= Len(plog)
        /\ position \in Nat /\ position <= Taken
    BY <1>s, <1>i DEF IInv, StageInv, LogInv, TypeOK, Busy, Taken, Offsets
  <2>2. position' \in position..Len(plog)
    BY <2>1, <1>s, <1>i
  <2>3. \A w \in WSIDs : Projected!EventsIn(plog, w, position') \subseteq projected[w]
    BY <1>s, FlushedIsProjected, SameFolds
  <2>4. UNCHANGED <<plog, projected, announced>>
    BY <1>s DEF projected, announced
  <2> QED BY <2>2, <2>3, <2>4 DEF Projected!Save, Projected!Next
\* What is projected of one workspace has changed.
<1>g. ASSUME UNCHANGED <<plog, position, offset>>, NEW x \in WSIDs,
             \A w \in WSIDs \ {x} : projected'[w] = projected[w]
      PROVE  Goal
  <2>1. projected' = [projected EXCEPT ![x] = projected'[x]]
    BY <1>g, <1>d DEF projected
  <2>2. Projected!IsFold(projected'[x], plog, x) /\ projected[x] \subseteq projected'[x]
    BY <1>g, <1>i, SameFolds
  <2>3. projected'[x] \in SUBSET Projected!EventsIn(plog, x, Len(plog))
    BY <2>2 DEF Projected!IsFold
  <2>4. announced' = announced
    BY <1>g DEF announced
  <2>5. Projected!Fold(x)
    BY <2>1, <2>2, <2>3, <2>4, <1>g DEF Projected!Fold
  <2> QED BY <2>5 DEF Projected!Next
<1>v. ASSUME UNCHANGED <<plog, called, kind, position, offset>>, NEW x \in WSIDs,
             view' = [view EXCEPT ![x] = bundle[x]]
      PROVE  Goal
  <2>1. \A w \in WSIDs \ {x} : projected'[w] = projected[w]
    BY <1>v, <1>i, ProjectedOf, ProjectedOfNext DEF TypeOK
  <2> QED BY <2>1, <1>v, <1>g
<1>c. ASSUME UNCHANGED <<plog, view, kind, position, offset>>, at = "invoke", kind = "http",
             called' = called \cup {pLogOffset}
      PROVE  Goal
  <2>1. plog[pLogOffset] \in WSIDs
    BY <1>c, InvokedEvent DEF IInv
  <2>2. \A w \in WSIDs \ {plog[pLogOffset]} : projected'[w] = projected[w]
    BY <1>c, CallAdds
  <2> QED BY <2>1, <2>2, <1>c, <1>g
<1>1. CASE UNCHANGED vars
  BY <1>1, <1>u DEF vars
<1>2. CASE PutPLog
  <2>1. PICK v \in WSIDs \cup {NoWSID} : plog' = Append(plog, v)
    BY <1>2 DEF PutPLog
  <2>2. UNCHANGED <<view, called, kind, position, offset>> /\ called \subseteq 1..Len(plog)
    BY <1>2 DEF PutPLog, IInv, LogInv
  <2>3. \A w \in WSIDs : called \cap EventsIn(plog', w, Len(plog'))
                            = called \cap EventsIn(plog, w, Len(plog))
    BY <2>1, <2>2, <1>i DEF EventsIn, Log
  <2>4. projected' = projected /\ announced' = announced
    BY <2>2, <2>3 DEF projected, announced
  <2> QED BY <2>1, <2>2, <2>4 DEF Projected!AppendEvent, Projected!Next
<1>3. CASE Announce
  <2>1. UNCHANGED <<plog, projected, position>>
    BY <1>3 DEF Announce, projected
  <2>2. announced' = Len(plog)
    BY <1>3, <1>i DEF Announce, announced, TypeOK
  <2> QED BY <2>1, <2>2, <1>i DEF Projected!Announce, Projected!Next
<1>4. CASE Start
  BY <1>4, <1>u DEF Start, Broker!Subscribe
<1>5. CASE ReadBatch
  BY <1>5, <1>u DEF ReadBatch
<1>6. CASE SendAsync
  BY <1>6, <1>u DEF SendAsync
<1>7. CASE SendSeesError
  BY <1>7, <1>u DEF SendSeesError
<1>8. CASE Notified
  BY <1>8, <1>u DEF Notified, Broker!Deliver
<1>9. CASE WatchEnds
  BY <1>9, <1>u DEF WatchEnds
<1>10. CASE CleanupChannel
  BY <1>10, <1>u DEF CleanupChannel, Broker!Unsubscribe
<1>11. CASE TakeEvent
  BY <1>11, <1>u DEF TakeEvent
<1>12. CASE RangeRead
  BY <1>12, <1>u DEF RangeRead
<1>13. CASE InvokeFolds
  BY <1>13, <1>u DEF InvokeFolds
<1>14. CASE InvokeCalls
  BY <1>14, <1>c DEF InvokeCalls
<1>15. CASE FlushEvent
  BY <1>15, <1>u DEF FlushEvent
<1>16. CASE PipelineCloses
  BY <1>16, <1>u DEF PipelineCloses
<1>17. CASE ApplyPosition
  <2>1. CASE bundlePos = 0
    BY <1>17, <2>1, <1>u DEF ApplyPosition
  <2>2. CASE bundlePos # 0
    BY <1>17, <2>2, <1>s DEF ApplyPosition
  <2> QED BY <2>1, <2>2
<1>18. ASSUME NEW x \in WSIDs, ApplyRows(x) PROVE Goal
  BY <1>18, <1>v DEF ApplyRows
<1>19. CASE TimerFires
  BY <1>19, <1>u DEF TimerFires
<1>20. CASE ReadFails
  BY <1>20, <1>u DEF ReadFails
<1>21. CASE InvokeFails
  <2>1. CASE UNCHANGED called
    BY <1>21, <2>1, <1>u DEF InvokeFails
  <2>2. CASE kind = "http" /\ called' = called \cup {pLogOffset}
    BY <1>21, <2>2, <1>c DEF InvokeFails
  <2> QED BY <1>21, <2>1, <2>2 DEF InvokeFails
<1>22. CASE ApplyFails
  <2>1. CASE UNCHANGED <<view, position>>
    BY <1>22, <2>1, <1>u DEF ApplyFails
  <2>2. CASE /\ \E x \in WSIDs : bundle[x] # {} /\ view' = [view EXCEPT ![x] = bundle[x]]
             /\ UNCHANGED position
    BY <1>22, <2>2, <1>v DEF ApplyFails
  <2>3. CASE /\ bundle = EmptyBundle /\ bundlePos # 0
             /\ position' = bundlePos /\ UNCHANGED view
    BY <1>22, <2>3, <1>s DEF ApplyFails
  <2> QED BY <1>22, <2>1, <2>2, <2>3 DEF ApplyFails
<1>23. CASE Crash
  <2>1. UNCHANGED <<plog, projected, position>>
    BY <1>23 DEF Crash, projected
  <2>2. announced' = 0
    BY <1>23, <1>i DEF Crash, announced, TypeOK
  <2> QED BY <2>1, <2>2, <1>i DEF Projected!Announce, Projected!Next
<1> QED BY <1>1, <1>2, <1>3, <1>4, <1>5, <1>6, <1>7, <1>8, <1>9, <1>10, <1>11, <1>12,
           <1>13, <1>14, <1>15, <1>16, <1>17, <1>18, <1>19, <1>20, <1>21, <1>22, <1>23
        DEF Next, Read, Project

\* The actualizer implements Projection: whatever fails and restarts, rows only
\* take in the next events of their workspace, and the position only moves on,
\* over events that are projected.
THEOREM Implements == Spec => ImplementsProjection
<1>1. Init => Projected!Init
  <2> SUFFICES ASSUME Init PROVE Projected!Init
    OBVIOUS
  <2>1. projected = [w \in WSIDs |-> {}]
    BY DEF Init, projected
  <2>2. announced = 0
    BY DEF Init, announced, Broker!Init
  <2> QED BY <2>1, <2>2 DEF Init, Projected!Init
<1> QED BY <1>1, NextImplements, Invariance, PTL DEF Spec, ImplementsProjection, Projected!Spec
=============================================================================
