--------------------------- MODULE AsyncActualizer ---------------------------
(***************************************************************************)
(* An async actualizer (pkg/processors/actualizers/async.go): a reader     *)
(* that reads the PLog of its partition and is woken up by the             *)
(* notification broker, and the projector at the end of an async pipeline  *)
(* (pkg/pipeline), which folds events into view rows, bundles the rows and *)
(* flushes them together with its position.  Errors restart the actualizer *)
(* from the saved position; a crash restarts everything.                   *)
(***************************************************************************)
EXTENDS Naturals, Sequences, FiniteSets

CONSTANTS
    WSIDs,          \* the workspaces of the partition
    NoWSID,         \* in the PLog: an event that does not trigger the projector
    Kinds,          \* the projectors looked at, a subset of {"view", "http"}
    BatchSize,      \* plogReadBatchSize
    BundlesLimit,   \* rows that make the bundle ready to be flushed
    MaxEvents,      \* bound on the PLog
    MaxFaults       \* bound on errors and crashes

ASSUME ConstantsAssumption ==
    /\ NoWSID \notin WSIDs
    /\ IsFiniteSet(WSIDs)
    /\ Kinds \subseteq {"view", "http"}
    /\ BatchSize \in Nat \ {0} /\ BundlesLimit \in Nat
    /\ MaxEvents \in Nat /\ MaxFaults \in Nat

VARIABLES
    plog,           \* the workspace of each event
    view,           \* the events folded into the row of a workspace
    called,         \* the events an HTTP projector has called its service for
    position,       \* the row of the projector in sys.projectionOffsets
    offset, subscriptions, delivered,  \* the broker, see Notifications
    kind,           \* "view": buffered, "http": nonBuffered
    pc,             \* where the reader is
    read,           \* asyncActualizer.offset
    batchEnd,       \* the last event of asyncActualizer.plogBatch
    till,           \* tillOffset
    inbox,          \* the event in the stdin of the pipeline, 0: none
    at,             \* where the projector is
    purpose,        \* what its flush is for
    pLogOffset,     \* asyncProjector.pLogOffset
    accepted,       \* asyncProjector.acceptedSinceSave
    bundle,         \* the rows of the bundle; {}: no row of the workspace
    bundlePos,      \* the position in the bundle, 0: none
    armed,          \* the flush timer runs (~timerTicked)
    failed,         \* the operator of the projector has failed (wo.err)
    stdout,         \* the error has come to the end of the pipeline
    cancelled,      \* n10nWatchChannelCtx is cancelled
    faults

storage == <<plog, view, called, position>>
broker == <<offset, subscriptions, delivered>>
reader == <<pc, read, batchEnd, till>>
projector == <<at, purpose, pLogOffset, accepted, bundle, bundlePos, armed>>
errors == <<failed, stdout, cancelled>>
vars == <<storage, broker, kind, reader, inbox, projector, errors, faults>>

Offsets == 0..MaxEvents

\* The broker, as far as the channel of the actualizer goes.
Channel == "actualizer"
PLogUpdates == "sys.plogUpdates"
Broker == INSTANCE Notifications WITH Channels <- {Channel}, Keys <- {PLogUpdates}

announced == offset[PLogUpdates]

TypeOK ==
    /\ plog \in Seq(WSIDs \cup {NoWSID}) /\ Len(plog) <= MaxEvents
    /\ view \in [WSIDs -> SUBSET (1..MaxEvents)]
    /\ called \in SUBSET (1..MaxEvents)
    /\ position \in Offsets
    /\ offset \in [{PLogUpdates} -> Offsets]
    /\ subscriptions \in [{Channel} -> SUBSET {PLogUpdates}]
    /\ delivered \in [{Channel} -> [{PLogUpdates} -> Offsets]]
    /\ kind \in {"view", "http"}
    /\ pc \in {"init", "toEnd", "watch", "toOffset", "closing"}
    /\ read \in Offsets /\ batchEnd \in 0..Len(plog) /\ till \in Offsets
    /\ inbox \in Offsets
    /\ at \in {"idle", "invoke", "flush", "apply", "closed"}
    /\ purpose \in {"event", "read", "timer", "close"}
    /\ pLogOffset \in Offsets
    /\ accepted \in BOOLEAN
    /\ bundle \in [WSIDs -> SUBSET (1..MaxEvents)]
    /\ bundlePos \in Offsets
    /\ armed \in BOOLEAN
    /\ failed \in BOOLEAN /\ stdout \in BOOLEAN /\ cancelled \in BOOLEAN
    /\ faults \in 0..MaxFaults

EmptyBundle == [w \in WSIDs |-> {}]

Init ==
    /\ plog = <<>>
    /\ view = [w \in WSIDs |-> {}] /\ called = {}
    /\ position = 0
    /\ kind \in Kinds
    /\ Broker!Init
    /\ pc = "init" /\ read = 0 /\ batchEnd = 0 /\ till = 0 /\ inbox = 0
    /\ at = "closed" /\ purpose = "event" /\ pLogOffset = 0 /\ accepted = FALSE
    /\ bundle = EmptyBundle /\ bundlePos = 0 /\ armed = FALSE
    /\ failed = FALSE /\ stdout = FALSE /\ cancelled = FALSE
    /\ faults = 0

Fault ==
    /\ faults < MaxFaults
    /\ faults' = faults + 1

-----------------------------------------------------------------------------
(* The command processor.  A command that fails after its event is in the  *)
(* PLog does not announce it.                                              *)

PutPLog ==
    /\ Len(plog) < MaxEvents
    /\ \E w \in WSIDs \cup {NoWSID} : plog' = Append(plog, w)
    /\ UNCHANGED <<view, called, position, broker, kind, reader, inbox, projector, errors, faults>>

Announce ==
    /\ announced < Len(plog)
    /\ offset' = [offset EXCEPT ![PLogUpdates] = Len(plog)]
    /\ Broker!Update(PLogUpdates)
    /\ UNCHANGED <<storage, kind, reader, inbox, projector, errors, faults>>

-----------------------------------------------------------------------------
(* The reader: Run, init, keepReading, finit. *)

Start ==
    /\ pc = "init"
    /\ read' = position /\ batchEnd' = position
    /\ pc' = "toEnd"
    /\ Broker!Subscribe(Channel, PLogUpdates)
    /\ at' = "idle" /\ pLogOffset' = 0 /\ accepted' = FALSE
    /\ bundle' = EmptyBundle /\ bundlePos' = 0 /\ armed' = FALSE
    /\ failed' = FALSE /\ stdout' = FALSE /\ cancelled' = FALSE
    /\ UNCHANGED <<storage, kind, till, inbox, purpose, faults>>

\* The last event a batch may hold.
Limit == IF pc = "toEnd" THEN Len(plog) ELSE till

LastOfBatch == IF read + BatchSize <= Limit THEN read + BatchSize ELSE Limit

\* readPlogToTheEnd ends when nothing is left, readPlogToOffset also when the
\* projector has failed.
ReadBatch ==
    /\ pc \in {"toEnd", "toOffset"}
    /\ read = batchEnd
    /\ IF read < Limit /\ ~(pc = "toOffset" /\ cancelled)
       THEN batchEnd' = LastOfBatch /\ UNCHANGED pc
       ELSE pc' = "watch" /\ UNCHANGED batchEnd
    /\ UNCHANGED <<storage, broker, kind, read, till, inbox, projector, errors, faults>>

\* ReadPLog fails before it has read an event.
ReadFails ==
    /\ Fault
    /\ read = batchEnd
    /\ \/ /\ pc = "toEnd"
          /\ pc' = "closing"
          /\ UNCHANGED cancelled
       \/ /\ pc = "toOffset"
          /\ cancelled' = TRUE
          /\ pc' = "watch"
    /\ UNCHANGED <<storage, broker, kind, read, batchEnd, till, inbox, projector, failed, stdout>>

SendAsync ==
    /\ pc \in {"toEnd", "toOffset"}
    /\ read < batchEnd
    /\ inbox = 0
    /\ inbox' = read + 1
    /\ read' = read + 1
    /\ IF pc = "toOffset" /\ cancelled
       THEN pc' = "watch" /\ batchEnd' = read + 1
       ELSE UNCHANGED <<pc, batchEnd>>
    /\ UNCHANGED <<storage, broker, kind, till, projector, errors, faults>>

\* SendAsync finds the error instead of room for the event.
SendSeesError ==
    /\ pc \in {"toEnd", "toOffset"}
    /\ read < batchEnd
    /\ stdout
    /\ stdout' = FALSE
    /\ batchEnd' = read
    /\ pc' = IF pc = "toEnd" THEN "closing" ELSE "watch"
    /\ cancelled' = (cancelled \/ pc = "toOffset")
    /\ UNCHANGED <<storage, broker, kind, read, till, inbox, projector, failed, faults>>

\* WatchChannel calls back.
Notified ==
    /\ pc = "watch" /\ ~cancelled
    /\ Broker!Deliver(Channel)
    /\ IF read < announced
       THEN pc' = "toOffset" /\ till' = announced
       ELSE UNCHANGED <<pc, till>>
    /\ UNCHANGED <<storage, kind, read, batchEnd, inbox, projector, errors, faults>>

WatchEnds ==
    /\ pc = "watch" /\ cancelled
    /\ pc' = "closing"
    /\ UNCHANGED <<storage, broker, kind, read, batchEnd, till, inbox, projector, errors, faults>>

\* finit, after the pipeline is closed.
CleanupChannel ==
    /\ pc = "closing" /\ at = "closed"
    /\ pc' = "init"
    /\ Broker!Unsubscribe(Channel, PLogUpdates)
    /\ UNCHANGED <<storage, kind, read, batchEnd, till, inbox, projector, errors, faults>>

-----------------------------------------------------------------------------
(* The projector: puller_async with asyncProjector. *)

FailsMutant ==  \* Mutated form: an error is not made known to the reader that watches.
    /\ Fault
    /\ failed' = TRUE /\ stdout' = TRUE /\ UNCHANGED cancelled
    /\ at' = "idle"
    /\ bundle' = EmptyBundle /\ bundlePos' = 0 /\ pLogOffset' = 0

\* The operator fails: it lets every further event go and flushes no more.
\* The error handler cancels the watch.
Fails ==
    /\ Fault
    /\ failed' = TRUE /\ cancelled' = TRUE /\ stdout' = TRUE
    /\ at' = "idle"
    /\ bundle' = EmptyBundle /\ bundlePos' = 0 /\ pLogOffset' = 0

\* doAsync has returned without an error: the timer is set unless it runs.
Done == at' = "idle" /\ armed' = TRUE

TakeEventMutant ==  \* Mutated form: events after a failed one are projected.
    /\ at = "idle" /\ inbox # 0
    /\ inbox' = 0
    /\ pLogOffset' = inbox
    /\ IF plog[inbox] = NoWSID
       THEN Done
       ELSE at' = "invoke" /\ UNCHANGED armed
    /\ UNCHANGED <<purpose, accepted, bundle, bundlePos>>
    /\ UNCHANGED <<storage, broker, kind, reader, errors, faults>>

TakeEvent ==
    /\ at = "idle" /\ inbox # 0
    /\ inbox' = 0
    /\ IF failed
       THEN UNCHANGED projector
       ELSE /\ pLogOffset' = inbox
            /\ IF plog[inbox] = NoWSID
               THEN Done
               ELSE at' = "invoke" /\ UNCHANGED armed
            /\ UNCHANGED <<purpose, accepted, bundle, bundlePos>>
    /\ UNCHANGED <<storage, broker, kind, reader, errors, faults>>

\* A row as the projector reads it: from the bundle, then from the storage.
Row(w) == IF bundle[w] # {} THEN bundle[w] ELSE view[w]

BundleSize(b, pos) == Cardinality({w \in WSIDs : b[w] # {}}) + (IF pos = 0 THEN 0 ELSE 1)

\* flush(): the position goes into the bundle when an event was accepted since
\* it was saved, or when it has not been saved for flushPositionInterval.
FlushStarts(reason) ==
    /\ purpose' = reason
    /\ IF pLogOffset = 0
       THEN /\ at' = (IF reason = "close" THEN "closed" ELSE "idle")
            /\ UNCHANGED <<accepted, bundlePos>>
       ELSE /\ at' = "apply"
            /\ \/ bundlePos' = pLogOffset /\ accepted' = FALSE
               \/ ~accepted /\ UNCHANGED <<accepted, bundlePos>>

RangeReadMutant ==  \* Mutated form: the position is flushed as well.
    /\ at = "invoke" /\ kind = "view"
    /\ bundle # EmptyBundle
    /\ at' = "apply" /\ purpose' = "read"
    /\ bundlePos' = pLogOffset
    /\ UNCHANGED <<storage, broker, kind, reader, inbox, pLogOffset, accepted, bundle,
                   armed, errors, faults>>

\* Reading a range of rows flushes the bundle, without a position.
RangeRead ==
    /\ at = "invoke" /\ kind = "view"
    /\ bundle # EmptyBundle
    /\ at' = "apply" /\ purpose' = "read"
    /\ UNCHANGED <<storage, broker, kind, reader, inbox, pLogOffset, accepted, bundle,
                   bundlePos, armed, errors, faults>>

\* The projector is idempotent: an event folded already changes nothing.
InvokeFolds ==
    LET w == plog[pLogOffset]
    IN  /\ at = "invoke" /\ kind = "view"
        /\ bundle' = [bundle EXCEPT ![w] = Row(w) \cup {pLogOffset}]
        /\ accepted' = TRUE
        /\ IF BundleSize(bundle', bundlePos) >= BundlesLimit
           THEN at' = "flush" /\ UNCHANGED armed
           ELSE Done
        /\ UNCHANGED <<storage, broker, kind, reader, inbox, purpose, pLogOffset,
                       bundlePos, errors, faults>>

InvokeCalls ==
    /\ at = "invoke" /\ kind = "http"
    /\ called' = called \cup {pLogOffset}
    /\ accepted' = TRUE
    /\ at' = "flush"
    /\ UNCHANGED <<plog, view, position, broker, kind, reader, inbox, purpose,
                   pLogOffset, bundle, bundlePos, armed, errors, faults>>

\* The service may have been called before the projector fails.
InvokeFails ==
    /\ at = "invoke"
    /\ Fails
    /\ \/ kind = "http" /\ called' = called \cup {pLogOffset}
       \/ UNCHANGED called
    /\ UNCHANGED <<plog, view, position, broker, kind, reader, inbox, purpose, accepted, armed>>

FlushEvent ==
    /\ at = "flush"
    /\ FlushStarts("event")
    /\ UNCHANGED <<storage, broker, kind, reader, inbox, pLogOffset, bundle, armed, errors, faults>>

TimerFires ==
    /\ at = "idle" /\ armed
    /\ armed' = FALSE
    /\ IF failed
       THEN UNCHANGED <<at, purpose, accepted, bundlePos>>
       ELSE FlushStarts("timer")
    /\ UNCHANGED <<storage, broker, kind, reader, inbox, pLogOffset, bundle, errors, faults>>

\* The pipeline is closed: the events sent are worked off first.
PipelineCloses ==
    /\ pc = "closing" /\ at = "idle" /\ inbox = 0
    /\ IF failed
       THEN at' = "closed" /\ UNCHANGED <<purpose, accepted, bundlePos>>
       ELSE FlushStarts("close")
    /\ UNCHANGED <<storage, broker, kind, reader, inbox, pLogOffset, bundle, armed, errors, faults>>

\* ApplyBatch of sys.View: the batches of the workspaces in any order, the
\* batch of NullWSID last.
ApplyRows(w) ==
    /\ at = "apply" /\ bundle[w] # {}
    /\ view' = [view EXCEPT ![w] = bundle[w]]
    /\ bundle' = [bundle EXCEPT ![w] = {}]
    /\ UNCHANGED <<plog, called, position, broker, kind, reader, inbox, at, purpose,
                   pLogOffset, accepted, bundlePos, armed, errors, faults>>

FlushDone ==
    CASE purpose = "event" -> Done /\ pLogOffset' = 0
      [] purpose = "timer" -> at' = "idle" /\ pLogOffset' = 0 /\ UNCHANGED armed
      [] purpose = "close" -> at' = "closed" /\ pLogOffset' = 0 /\ UNCHANGED armed
      [] purpose = "read"  -> at' = "invoke" /\ UNCHANGED <<pLogOffset, armed>>

ApplyPosition ==
    /\ at = "apply" /\ bundle = EmptyBundle
    /\ position' = IF bundlePos = 0 THEN position ELSE bundlePos
    /\ bundlePos' = 0
    /\ FlushDone
    /\ UNCHANGED <<plog, view, called, broker, kind, reader, inbox, purpose, accepted,
                   bundle, errors, faults>>

\* A batch is not written, or is written although an error is returned.
ApplyFails ==
    /\ at = "apply"
    /\ Fails
    /\ \/ UNCHANGED <<view, position>>
       \/ /\ \E w \in WSIDs : bundle[w] # {} /\ view' = [view EXCEPT ![w] = bundle[w]]
          /\ UNCHANGED position
       \/ /\ bundle = EmptyBundle /\ bundlePos # 0
          /\ position' = bundlePos
          /\ UNCHANGED view
    /\ UNCHANGED <<plog, called, broker, kind, reader, inbox, purpose, accepted, armed>>

-----------------------------------------------------------------------------
\* What is in memory is lost, the broker included.
Crash ==
    /\ Fault
    /\ offset' = [offset EXCEPT ![PLogUpdates] = 0]
    /\ subscriptions' = [subscriptions EXCEPT ![Channel] = {}]
    /\ delivered' = [delivered EXCEPT ![Channel][PLogUpdates] = 0]
    /\ pc' = "init" /\ read' = 0 /\ batchEnd' = 0 /\ till' = 0 /\ inbox' = 0
    /\ at' = "closed" /\ purpose' = "event" /\ pLogOffset' = 0 /\ accepted' = FALSE
    /\ bundle' = EmptyBundle /\ bundlePos' = 0 /\ armed' = FALSE
    /\ failed' = FALSE /\ stdout' = FALSE /\ cancelled' = FALSE
    /\ UNCHANGED <<storage, kind>>

Read == \/ Start \/ ReadBatch \/ SendAsync \/ SendSeesError \/ Notified \/ WatchEnds
        \/ CleanupChannel

Project == \/ TakeEvent \/ RangeRead \/ InvokeFolds \/ InvokeCalls \/ FlushEvent
           \/ PipelineCloses \/ ApplyPosition \/ \E w \in WSIDs : ApplyRows(w)

Next == \/ PutPLog \/ Announce \/ Read \/ Project \/ TimerFires
        \/ ReadFails \/ InvokeFails \/ ApplyFails \/ Crash

\* Goroutines go on, a timer that runs fires.
Fairness == WF_vars(Read) /\ WF_vars(Project) /\ WF_vars(TimerFires)

Spec == Init /\ [][Next]_vars /\ Fairness

-----------------------------------------------------------------------------
(* Properties. *)

\* The events of a workspace up to the n-th event of a log.
EventsIn(log, w, n) == {i \in 1..Len(log) : i <= n /\ log[i] = w}

\* S is what the events of w up to some event fold to.
IsFold(S, log, w) ==
    /\ S \subseteq EventsIn(log, w, Len(log))
    /\ \A n \in S : EventsIn(log, w, n) \subseteq S

\* What has been projected: rows, or calls of a service.
projected ==
    [w \in WSIDs |-> IF kind = "view" THEN view[w] ELSE called \cap EventsIn(plog, w, Len(plog))]

\* Whatever is applied again, in whatever order the batches of a flush are
\* written and wherever the flush stops: a row is the fold of all the events of
\* its workspace up to the last one it has seen.
RowsHaveNoGaps ==
    \A w \in WSIDs : IsFold(projected[w], plog, w)

\* "Actualizer offsets must be updated in the last order": no event up to the
\* saved position is missing, whether it was folded or its service called.
PositionIsCovered ==
    \A w \in WSIDs : EventsIn(plog, w, position) \subseteq projected[w]

\* The projector lags behind the log but never loses an event, and its position
\* never goes back.
Projected == INSTANCE Projection WITH view <- projected
ImplementsProjection == Projected!Spec

\* An event that is announced is projected, and the position saved, with no
\* need of another event: the events announced between the last read of the
\* PLog and the watch, and those that follow an error, included.
AnnouncedIsSaved ==
    \A n \in 1..MaxEvents : (announced >= n /\ plog[n] # NoWSID) ~> (position >= n)
=============================================================================
