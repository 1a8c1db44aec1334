-------------------------- MODULE CommandProcessor --------------------------
(***************************************************************************)
(* The command processor of voedger (pkg/processors/command) together with *)
(* the parts of the event storage it drives (pkg/istructsmem): the         *)
(* partition log PLog, the workspace log WLog and the records.             *)
(*                                                                         *)
(* A node handles one command at a time.  The in-memory state of a         *)
(* partition (next PLog offset, next WLog offset and next record ID of     *)
(* every workspace) is rebuilt from the PLog by recovery whenever the      *)
(* partition is not resident: at start, after a crash, and after any       *)
(* write of the store stage failed.  The last PLog event is applied again  *)
(* by every recovery.                                                      *)
(*                                                                         *)
(* With more than one node the module describes the hand-over window of    *)
(* the leader elections, when two processes work on the same storage.      *)
(*                                                                         *)
(* Abstractions: an event is its workspace, its WLog offset and the sets   *)
(* of record IDs it creates and updates; the content of a record is the    *)
(* set of PLog offsets of the events folded into it; the WLog row of an    *)
(* event is the event's PLog offset.                                       *)
(***************************************************************************)
EXTENDS Integers, FiniteSets

CONSTANTS
    Nodes,          \* processes that run a command processor on the storage
    Partitions,     \* application partitions
    WSIDs,          \* workspaces
    PartitionOf,    \* the partition that handles the commands of a workspace
    TrustLevel,     \* isequencer.SequencesTrustLevel_0, _1 or _2
    NoEvent,        \* content of a PLog row that was never written
    MaxOffset,      \* bound on PLog (hence WLog) offsets
    MaxRecordID,    \* bound on record IDs
    MaxNew,         \* bound on the records one command creates
    MaxUpdates      \* bound on the records one command updates

Offsets == 1..MaxOffset
SingletonID == 0            \* ID of the singleton cdoc.sys.WorkspaceDescriptor
FirstUserRecordID == 1
RecordIDs == SingletonID..MaxRecordID

UpdateSets == {upd \in SUBSET RecordIDs : Cardinality(upd) <= MaxUpdates}

Event == [ws : WSIDs, woff : Offsets,
          creates : SUBSET RecordIDs, updates : SUBSET RecordIDs]

\* What an event means to the clients of its workspace
Entry == [creates : SUBSET RecordIDs, updates : SUBSET RecordIDs]

ASSUME ConstantsAssumption ==
    /\ PartitionOf \in [WSIDs -> Partitions]
    /\ TrustLevel \in 0..2
    /\ NoEvent \notin Event \cup Entry
    /\ MaxOffset \in Nat /\ MaxRecordID \in Nat /\ MaxNew \in Nat
    /\ MaxUpdates \in Nat

VARIABLES
    plog,           \* PLog rows of every partition
    wlog,           \* WLog rows of every workspace, 0 = no row
    records,        \* records of every workspace, {} = no record
    synced,         \* PLog offsets the sync projectors have processed
    announced,      \* PLog offsets sent to the async actualizers
    acked,          \* events a client got a success response for
    resident,       \* partitions in cmdProc.appsPartitions of a node
    nextPLogOffset, \* appPartition.nextPLogOffset
    nextWLogOffset, \* workspace.NextWLogOffset
    nextRecordID,   \* implIIDGenerator.nextRecordID
    pc,             \* stage of the pipeline a node is in
    cmd             \* the workpiece (cmdWorkpiece) of a node

storage == <<plog, wlog, records, synced>>
memory  == <<resident, nextPLogOffset, nextWLogOffset, nextRecordID>>
vars    == <<storage, announced, acked, memory, pc, cmd>>

Stages == {"idle", "readPLog", "exec", "putPLog", "applyRecords", "store",
           "notify", "reply"}
BranchStates == {"todo", "ok", "err"}

Workpiece ==
    [ws : WSIDs, createWS : BOOLEAN, nnew : 0..MaxNew,
     ev : Event \cup {NoEvent}, poff : Offsets \cup {0},
     origin : [RecordIDs -> SUBSET Offsets],
     reapply : BOOLEAN, restart : BOOLEAN, failed : BOOLEAN,
     projector : BranchStates, putWLog : BranchStates]

NoOrigin == [id \in RecordIDs |-> {}]

\* cmd := &cmdWorkpiece{cmdMes: ...}
NewWorkpiece(w, createWS) ==
    [ws |-> w, createWS |-> createWS, nnew |-> 0,
     ev |-> NoEvent, poff |-> 0,
     origin |-> NoOrigin, reapply |-> FALSE, restart |-> FALSE,
     failed |-> FALSE, projector |-> "todo", putWLog |-> "todo"]

Part(n) == PartitionOf[cmd[n].ws]

\* The record IDs an event writes
Touched(e) == e.creates \cup e.updates

-----------------------------------------------------------------------------
Init ==
    /\ plog = [p \in Partitions |-> [k \in Offsets |-> NoEvent]]
    /\ wlog = [w \in WSIDs |-> [o \in Offsets |-> 0]]
    /\ records = [w \in WSIDs |-> [id \in RecordIDs |-> {}]]
    /\ synced = [p \in Partitions |-> {}]
    /\ announced = [p \in Partitions |-> {}]
    /\ acked = [p \in Partitions |-> {}]
    /\ resident = [n \in Nodes |-> {}]
    /\ nextPLogOffset = [n \in Nodes |-> [p \in Partitions |-> 1]]
    /\ nextWLogOffset = [n \in Nodes |-> [w \in WSIDs |-> 1]]
    /\ nextRecordID = [n \in Nodes |-> [w \in WSIDs |-> FirstUserRecordID]]
    /\ pc = [n \in Nodes |-> "idle"]
    /\ cmd \in [Nodes -> {NewWorkpiece(w, FALSE) : w \in WSIDs}]

-----------------------------------------------------------------------------
\* The workpiece of node n becomes c
SetCmd(n, c) == cmd' = [cmd EXCEPT ![n] = c]

\* The handling of a command ends: the reply is an error when `failed`
GoReply(n) == pc' = [pc EXCEPT ![n] = "reply"]

Fail(n) ==
    /\ SetCmd(n, [cmd[n] EXCEPT !.failed = TRUE])
    /\ GoReply(n)

\* Mutated form: the restart of the partition is not scheduled
FailAndRestartForgotten(n) == Fail(n)

\* cmd.appPartitionRestartScheduled = true; return err
FailAndRestart(n) ==
    /\ SetCmd(n, [cmd[n] EXCEPT !.failed = TRUE, !.restart = TRUE])
    /\ GoReply(n)

\* A command reaches the node.  checkWSInitialized reads the workspace
\* descriptor before getAppPartition recovers the partition.
Accept(n, w, createWS) ==
    /\ pc[n] = "idle"
    /\ createWS \/ records[w][SingletonID] # {}
    /\ SetCmd(n, NewWorkpiece(w, createWS))
    /\ pc' = [pc EXCEPT ![n] = IF PartitionOf[w] \in resident[n]
                               THEN "exec" ELSE "readPLog"]
    /\ UNCHANGED <<storage, announced, acked, memory>>

-----------------------------------------------------------------------------
\* Mutated form of UpdateOnSync: nextRecordID = syncID
UpdateOnSyncOffByOne(next, ids, i) ==
    /\ i >= next
    /\ \A id \in ids : id <= i
    /\ i = next \/ i \in ids

\* recovery, the ReadPLog callback: the next stored event, in offset order,
\* advances the offsets and the ID generator of its workspace (UpdateOnSync)
UpdateOnSync(next, ids, i) ==
    /\ i >= next
    /\ \A id \in ids : id < i
    /\ i = next \/ i - 1 \in ids

RecoverEvent(n, k) ==
    LET p == Part(n)
        e == plog[p][k]
    IN  /\ pc[n] = "readPLog"
        /\ k >= nextPLogOffset[n][p]
        /\ e # NoEvent
        /\ \A j \in Offsets : j >= nextPLogOffset[n][p] /\ j < k
                                => plog[p][j] = NoEvent
        /\ nextPLogOffset' = [nextPLogOffset EXCEPT ![n][p] = k + 1]
        /\ nextWLogOffset' = [nextWLogOffset EXCEPT ![n][e.ws] = e.woff + 1]
        /\ \E i \in 1..(MaxRecordID + 1) :
               /\ UpdateOnSync(nextRecordID[n][e.ws], e.creates, i)
               /\ nextRecordID' = [nextRecordID EXCEPT ![n][e.ws] = i]
        /\ SetCmd(n, [cmd[n] EXCEPT !.ev = e, !.poff = k])
        /\ UNCHANGED <<storage, announced, acked, resident, pc>>

\* ReadPLog returns an error: the partition is not put into the map
RecoverReadFails(n) ==
    /\ pc[n] = "readPLog"
    /\ Fail(n)
    /\ UNCHANGED <<storage, announced, acked, memory>>

\* getAppPartition: appPartitions[PartitionID] = appPartition
Recovered(n) ==
    /\ resident' = [resident EXCEPT ![n] = @ \cup {Part(n)}]
    /\ pc' = [pc EXCEPT ![n] = "exec"]

\* Mutated form of RecoverEnd: the last event is not re-applied
RecoverEndNoReapply(n) ==
    /\ pc[n] = "readPLog"
    /\ \A j \in Offsets : j >= nextPLogOffset[n][Part(n)]
                            => plog[Part(n)][j] = NoEvent
    /\ Recovered(n)
    /\ SetCmd(n, NewWorkpiece(cmd[n].ws, cmd[n].createWS))
    /\ UNCHANGED <<storage, announced, acked, nextPLogOffset, nextWLogOffset,
                   nextRecordID>>

\* Mutated form of RecoverEnd: no NextWLogOffset-- before storeOp
RecoverEndNoDecrement(n) ==
    /\ pc[n] = "readPLog"
    /\ \A j \in Offsets : j >= nextPLogOffset[n][Part(n)]
                            => plog[Part(n)][j] = NoEvent
    /\ \/ /\ cmd[n].ev = NoEvent
          /\ Recovered(n)
          /\ UNCHANGED cmd
       \/ /\ cmd[n].ev # NoEvent
          /\ SetCmd(n, [cmd[n] EXCEPT !.reapply = TRUE])
          /\ pc' = [pc EXCEPT ![n] = "applyRecords"]
          /\ UNCHANGED resident
    /\ UNCHANGED <<storage, announced, acked, nextPLogOffset, nextWLogOffset,
                   nextRecordID>>

\* recovery after the last event: nothing to re-apply in an empty log,
\* otherwise storeOp is run for the last event with a reapplier
RecoverEnd(n) ==
    LET p == Part(n)
        e == cmd[n].ev
    IN  /\ pc[n] = "readPLog"
        /\ \A j \in Offsets : j >= nextPLogOffset[n][p] => plog[p][j] = NoEvent
        /\ \/ /\ e = NoEvent
              /\ Recovered(n)
              /\ UNCHANGED <<nextWLogOffset, cmd>>
           \/ /\ e # NoEvent
              /\ nextWLogOffset' = [nextWLogOffset EXCEPT ![n][e.ws] = @ - 1]
              /\ SetCmd(n, [cmd[n] EXCEPT !.reapply = TRUE])
              /\ pc' = [pc EXCEPT ![n] = "applyRecords"]
              /\ UNCHANGED resident
        /\ UNCHANGED <<storage, announced, acked, nextPLogOffset, nextRecordID>>

-----------------------------------------------------------------------------
\* The stages from getICommand to validateCmdResult: any of them may refuse
\* the command ...
ExecFails(n) ==
    /\ pc[n] = "exec"
    /\ Fail(n)
    /\ UNCHANGED <<storage, announced, acked, memory>>

\* ... or the raw event is built (getRawEventBuilder); regenerateIDs gives its
\* new records the next IDs, a singleton has its own ID
NewIDs(n, nnew) ==
    IF cmd[n].createWS THEN {SingletonID}
    ELSE LET next == nextRecordID[n][cmd[n].ws] IN next..(next + nnew - 1)

RawEvent(n, nnew, upd) ==
    [ws |-> cmd[n].ws, woff |-> nextWLogOffset[n][cmd[n].ws],
     creates |-> NewIDs(n, nnew), updates |-> upd]

\* validEvent: a singleton must not exist, an updated record must
ValidEvent(n, nnew, upd) ==
    LET w == cmd[n].ws
    IN  /\ IF cmd[n].createWS
           THEN nnew = 0 /\ upd = {} /\ records[w][SingletonID] = {}
           ELSE nnew > 0 \/ upd # {}
        /\ \A id \in upd : records[w][id] # {}

\* the records that parseCUDs has read for the updates
Origin(n, upd) ==
    [id \in RecordIDs |-> IF id \in upd THEN records[cmd[n].ws][id] ELSE {}]

Exec(n, nnew, upd) ==
    LET w == cmd[n].ws
        p == Part(n)
    IN  /\ pc[n] = "exec"
        /\ nextPLogOffset[n][p] <= MaxOffset
        /\ nextWLogOffset[n][w] <= MaxOffset
        /\ nextRecordID[n][w] + nnew - 1 <= MaxRecordID
        /\ ValidEvent(n, nnew, upd)
        /\ SetCmd(n, [cmd[n] EXCEPT !.nnew = nnew,
                                    !.ev = RawEvent(n, nnew, upd),
                                    !.poff = nextPLogOffset[n][p],
                                    !.origin = Origin(n, upd)])
        /\ pc' = [pc EXCEPT ![n] = "putPLog"]
        /\ UNCHANGED <<storage, announced, acked, memory>>

\* Mutated form of PLogWritable: Put at every trust level
PLogAlwaysWritable(p, k) == TRUE

\* PutPlog: Put at trust level 2, InsertIfNotExists at levels 0 and 1
PLogWritable(p, k) == TrustLevel = 2 \/ plog[p][k] = NoEvent

\* regenerateIDs has taken the new IDs from the generator
TakeIDs(n) ==
    nextRecordID' = [nextRecordID EXCEPT ![n][cmd[n].ws] = @ + cmd[n].nnew]

PutPLog(n) ==
    LET p == Part(n)
        k == cmd[n].poff
    IN  /\ pc[n] = "putPLog"
        /\ PLogWritable(p, k)
        /\ plog' = [plog EXCEPT ![p][k] = cmd[n].ev]
        /\ nextPLogOffset' = [nextPLogOffset EXCEPT ![n][p] = @ + 1]
        /\ TakeIDs(n)
        /\ pc' = [pc EXCEPT ![n] = "applyRecords"]
        /\ UNCHANGED <<wlog, records, synced, announced, acked, resident,
                       nextWLogOffset, cmd>>

\* Mutated form of PutPLogFails: the offset is taken, there is no restart
PutPLogFailsOffsetTaken(n) ==
    /\ pc[n] = "putPLog"
    /\ UNCHANGED plog
    /\ nextPLogOffset' = [nextPLogOffset EXCEPT ![n][Part(n)] = @ + 1]
    /\ TakeIDs(n)
    /\ Fail(n)
    /\ UNCHANGED <<wlog, records, synced, announced, acked, resident,
                   nextWLogOffset>>

\* Mutated form of PutPLogFails: the error of PutPlog is not looked at
PutPLogErrorIgnored(n) ==
    /\ pc[n] = "putPLog"
    /\ TakeIDs(n)
    /\ pc' = [pc EXCEPT ![n] = "applyRecords"]
    /\ UNCHANGED <<storage, announced, acked, resident, nextPLogOffset,
                   nextWLogOffset, cmd>>

\* PutPlog fails: ErrSequencesViolation, or a storage error after which the
\* row may or may not be there
PutPLogFails(n) ==
    LET p == Part(n)
        k == cmd[n].poff
    IN  /\ pc[n] = "putPLog"
        /\ \/ UNCHANGED plog
           \/ PLogWritable(p, k) /\ plog' = [plog EXCEPT ![p][k] = cmd[n].ev]
        /\ TakeIDs(n)
        /\ FailAndRestart(n)
        /\ UNCHANGED <<wlog, records, synced, announced, acked, resident,
                       nextPLogOffset, nextWLogOffset>>

-----------------------------------------------------------------------------
\* Mutated form of RecordValue: a re-applied update is not built on the
\* stored record
RecordValueNotReloaded(n, id) ==
    LET c == cmd[n]
    IN  (IF id \in c.ev.creates THEN {} ELSE c.origin[id]) \cup {c.poff}

\* apply2 writes the records of the event.  A re-applied update is built on
\* the stored record, a first-time update on the record parseCUDs has read.
RecordValue(n, id) ==
    LET c == cmd[n]
        base == CASE id \in c.ev.creates -> {}
                  [] id \notin c.ev.creates /\ c.reapply -> records[c.ev.ws][id]
                  [] OTHER -> c.origin[id]
    IN  base \cup {c.poff}

WriteRecords(n, ids) ==
    records' = [records EXCEPT ![cmd[n].ev.ws] =
        [id \in RecordIDs |-> IF id \in ids THEN RecordValue(n, id) ELSE @[id]]]

\* putRecordsBatch: new records are inserted at level 0 unless re-applied
InsertOnly(n) == TrustLevel = 0 /\ ~cmd[n].reapply
Insertable(n, ids) ==
    InsertOnly(n) => \A id \in ids \cap cmd[n].ev.creates :
                         records[cmd[n].ev.ws][id] = {}

ApplyRecords(n) ==
    /\ pc[n] = "applyRecords"
    /\ Insertable(n, Touched(cmd[n].ev))
    /\ WriteRecords(n, Touched(cmd[n].ev))
    /\ SetCmd(n, [cmd[n] EXCEPT !.projector = "todo", !.putWLog = "todo"])
    /\ pc' = [pc EXCEPT ![n] = "store"]
    /\ UNCHANGED <<plog, wlog, synced, announced, acked, memory>>

\* The batch fails, some of the records may have been written
ApplyRecordsFails(n, ids) ==
    /\ pc[n] = "applyRecords"
    /\ ids \subseteq Touched(cmd[n].ev)
    /\ Insertable(n, ids)
    /\ WriteRecords(n, ids)
    /\ FailAndRestart(n)
    /\ UNCHANGED <<plog, wlog, synced, announced, acked, memory>>

\* ForkOperator, first branch: DoSyncActualizer
SyncProjectors(n) ==
    /\ pc[n] = "store" /\ cmd[n].projector = "todo"
    /\ \/ /\ synced' = [synced EXCEPT ![Part(n)] = @ \cup {cmd[n].poff}]
          /\ SetCmd(n, [cmd[n] EXCEPT !.projector = "ok"])
       \/ /\ SetCmd(n, [cmd[n] EXCEPT !.projector = "err", !.restart = TRUE])
          /\ UNCHANGED synced
    /\ UNCHANGED <<plog, wlog, records, announced, acked, memory, pc>>

\* ForkOperator, second branch: PutWlog, or reapplier.PutWLog, a plain Put
WLogWritable(n, w, o) ==
    cmd[n].reapply \/ TrustLevel = 2 \/ wlog[w][o] = 0

PutWLog(n) ==
    LET e == cmd[n].ev
    IN  /\ pc[n] = "store" /\ cmd[n].putWLog = "todo"
        /\ WLogWritable(n, e.ws, e.woff)
        /\ wlog' = [wlog EXCEPT ![e.ws][e.woff] = cmd[n].poff]
        /\ nextWLogOffset' = [nextWLogOffset EXCEPT ![n][e.ws] = @ + 1]
        /\ SetCmd(n, [cmd[n] EXCEPT !.putWLog = "ok"])
        /\ UNCHANGED <<plog, records, synced, announced, acked, resident,
                       nextPLogOffset, nextRecordID, pc>>

PutWLogFails(n) ==
    LET e == cmd[n].ev
    IN  /\ pc[n] = "store" /\ cmd[n].putWLog = "todo"
        /\ \/ UNCHANGED wlog
           \/ /\ WLogWritable(n, e.ws, e.woff)
              /\ wlog' = [wlog EXCEPT ![e.ws][e.woff] = cmd[n].poff]
        /\ SetCmd(n, [cmd[n] EXCEPT !.putWLog = "err", !.restart = TRUE])
        /\ UNCHANGED <<plog, records, synced, announced, acked, memory, pc>>

\* Mutated form of StoreDone: only the projector branch is waited for
StoreDoneOneBranch(n) ==
    /\ pc[n] = "store" /\ cmd[n].projector # "todo"
    /\ \/ /\ cmd[n].projector = "err"
          /\ Fail(n)
          /\ UNCHANGED resident
       \/ /\ cmd[n].projector = "ok"
          /\ IF cmd[n].reapply THEN Recovered(n)
             ELSE pc' = [pc EXCEPT ![n] = "notify"] /\ UNCHANGED resident
          /\ UNCHANGED cmd
    /\ UNCHANGED <<storage, announced, acked, nextPLogOffset, nextWLogOffset,
                   nextRecordID>>

\* Mutated form of StoreDone: a failed branch does not end the fork
StoreDoneNoError(n) ==
    /\ pc[n] = "store"
    /\ {cmd[n].projector, cmd[n].putWLog} = {"ok"}
    /\ IF cmd[n].reapply THEN Recovered(n)
       ELSE pc' = [pc EXCEPT ![n] = "notify"] /\ UNCHANGED resident
    /\ UNCHANGED <<storage, announced, acked, nextPLogOffset, nextWLogOffset,
                   nextRecordID, cmd>>

\* ForkOperator waits for both branches; storeOp ends.  After a recovery the
\* partition becomes resident and the command goes on with it.
StoreDone(n) ==
    LET c == cmd[n]
    IN  /\ pc[n] = "store"
        /\ c.projector # "todo" /\ c.putWLog # "todo"
        /\ \/ /\ "err" \in {c.projector, c.putWLog}
              /\ Fail(n)
              /\ UNCHANGED resident
           \/ /\ {c.projector, c.putWLog} = {"ok"}
              /\ c.reapply
              /\ Recovered(n)
              /\ SetCmd(n, NewWorkpiece(c.ws, c.createWS))
           \/ /\ {c.projector, c.putWLog} = {"ok"}
              /\ ~c.reapply
              /\ pc' = [pc EXCEPT ![n] = "notify"]
              /\ UNCHANGED <<resident, cmd>>
        /\ UNCHANGED <<storage, announced, acked, nextPLogOffset,
                       nextWLogOffset, nextRecordID>>

NotifyAsyncActualizers(n) ==
    /\ pc[n] = "notify"
    /\ announced' = [announced EXCEPT ![Part(n)] = @ \cup {cmd[n].poff}]
    /\ GoReply(n)
    /\ UNCHANGED <<storage, acked, memory, cmd>>

-----------------------------------------------------------------------------
\* The in-memory state of every partition outside `keep` is gone
Forget(n, keep) ==
    /\ resident' = [resident EXCEPT ![n] = keep]
    /\ nextPLogOffset' = [nextPLogOffset EXCEPT ![n] =
           [p \in Partitions |-> IF p \in keep THEN @[p] ELSE 1]]
    /\ nextWLogOffset' = [nextWLogOffset EXCEPT ![n] =
           [w \in WSIDs |-> IF PartitionOf[w] \in keep THEN @[w] ELSE 1]]
    /\ nextRecordID' = [nextRecordID EXCEPT ![n] =
           [w \in WSIDs |-> IF PartitionOf[w] \in keep THEN @[w]
                            ELSE FirstUserRecordID]]

\* sendResponse, then delete(appsPartitions, AppQName) if a restart is
\* scheduled.  A partition whose recovery failed was never stored.
Reply(n) ==
    LET c == cmd[n]
    IN  /\ pc[n] = "reply"
        /\ acked' = IF c.failed THEN acked
                    ELSE [acked EXCEPT ![Part(n)] = @ \cup
                            {[poff |-> c.poff, ev |-> c.ev]}]
        /\ Forget(n, IF c.restart THEN {} ELSE resident[n])
        /\ SetCmd(n, NewWorkpiece(c.ws, FALSE))
        /\ pc' = [pc EXCEPT ![n] = "idle"]
        /\ UNCHANGED <<storage, announced>>

\* The process dies, or its services are stopped, and starts again
Crash(n) ==
    /\ Forget(n, {})
    /\ SetCmd(n, NewWorkpiece(cmd[n].ws, FALSE))
    /\ pc' = [pc EXCEPT ![n] = "idle"]
    /\ UNCHANGED <<storage, announced, acked>>

-----------------------------------------------------------------------------
Recovery(n) ==
    \/ \E k \in Offsets : RecoverEvent(n, k)
    \/ RecoverReadFails(n)
    \/ RecoverEnd(n)

Execution(n) ==
    \/ ExecFails(n)
    \/ \E nnew \in 0..MaxNew, upd \in UpdateSets : Exec(n, nnew, upd)
    \/ PutPLog(n)
    \/ PutPLogFails(n)

Store(n) ==
    \/ ApplyRecords(n)
    \/ \E ids \in SUBSET RecordIDs : ApplyRecordsFails(n, ids)
    \/ SyncProjectors(n)
    \/ PutWLog(n)
    \/ PutWLogFails(n)
    \/ StoreDone(n)

Step(n) ==
    \/ Recovery(n)
    \/ Execution(n)
    \/ Store(n)
    \/ NotifyAsyncActualizers(n)
    \/ Reply(n)

Next ==
    \E n \in Nodes :
        \/ \E w \in WSIDs, createWS \in BOOLEAN : Accept(n, w, createWS)
        \/ Step(n)
        \/ Crash(n)

Spec == Init /\ [][Next]_vars

\* The service goroutine of a node is scheduled for ever
FairSpec == Spec /\ \A n \in Nodes : WF_vars(Step(n))

-----------------------------------------------------------------------------
TypeOK ==
    /\ plog \in [Partitions -> [Offsets -> Event \cup {NoEvent}]]
    /\ wlog \in [WSIDs -> [Offsets -> Offsets \cup {0}]]
    /\ records \in [WSIDs -> [RecordIDs -> SUBSET Offsets]]
    /\ synced \in [Partitions -> SUBSET Offsets]
    /\ announced \in [Partitions -> SUBSET Offsets]
    /\ acked \in [Partitions -> SUBSET [poff : Offsets, ev : Event]]
    /\ resident \in [Nodes -> SUBSET Partitions]
    /\ nextPLogOffset \in [Nodes -> [Partitions -> 1..(MaxOffset + 1)]]
    /\ nextWLogOffset \in [Nodes -> [WSIDs -> 1..(MaxOffset + 1)]]
    /\ nextRecordID \in
           [Nodes -> [WSIDs -> FirstUserRecordID..(MaxRecordID + 1)]]
    /\ pc \in [Nodes -> Stages]
    /\ cmd \in [Nodes -> Workpiece]

Stored(p, k) == plog[p][k] # NoEvent

\* Events j and k of partition p belong to one workspace
SameWS(p, j, k) == Stored(p, j) /\ Stored(p, k) /\ plog[p][j].ws = plog[p][k].ws

\* The PLog of a partition has no holes: ReadPLog stops at the first log
\* part without rows, a hole would hide the events behind it from recovery.
PLogIsDense ==
    \A p \in Partitions : \A j, k \in Offsets :
        j < k /\ Stored(p, k) => Stored(p, j)

\* The events of a workspace have the WLog offsets 1, 2, 3... in the order
\* of the PLog, whatever writes failed and however often the partition was
\* recovered: NextWLogOffset is never reused, never skipped.
WLogOffsetsAreSequential ==
    \A p \in Partitions : \A k \in Offsets :
        /\ \A j \in Offsets : SameWS(p, j, k) /\ j < k
                                => plog[p][j].woff < plog[p][k].woff
        /\ Stored(p, k) =>
             \A o \in 1..(plog[p][k].woff - 1) :
                 \E j \in Offsets : /\ j < k /\ SameWS(p, j, k)
                                    /\ plog[p][j].woff = o

\* No record ID of a workspace is given to two records: neither after a
\* failed PutPlog that did write the row, nor by a second process.  It also
\* says that a singleton (the workspace descriptor) is created at most once.
RecordIDsAreUnique ==
    \A p \in Partitions : \A j, k \in Offsets :
        SameWS(p, j, k) /\ j # k =>
            plog[p][j].creates \cap plog[p][k].creates = {}

\* A row of the WLog is an event of the PLog, under the event's own offset
WLogRowsAreEvents ==
    \A w \in WSIDs, o \in Offsets :
        wlog[w][o] # 0 =>
            /\ Stored(PartitionOf[w], wlog[w][o])
            /\ plog[PartitionOf[w]][wlog[w][o]].ws = w
            /\ plog[PartitionOf[w]][wlog[w][o]].woff = o

\* What a client was told to be done stays in both logs
AckedIsDurable ==
    \A p \in Partitions : \A a \in acked[p] :
        /\ plog[p][a.poff] = a.ev
        /\ wlog[a.ev.ws][a.ev.woff] = a.poff
        /\ a.poff \in synced[p]

\* A stored PLog row is never replaced by another event
PLogIsAppendOnly ==
    [][\A p \in Partitions : \A k \in Offsets :
          Stored(p, k) => plog'[p][k] = plog[p][k]]_vars

-----------------------------------------------------------------------------
\* The command side as its clients see it
WorkspaceEntry(w, o) ==
    LET p == PartitionOf[w]
        at == {k \in Offsets : /\ Stored(p, k) /\ plog[p][k].ws = w
                               /\ plog[p][k].woff = o}
    IN  IF at = {} THEN NoEvent
        ELSE LET e == plog[p][CHOOSE k \in at : TRUE]
             IN  [creates |-> e.creates, updates |-> e.updates]

WorkspaceLogs == [w \in WSIDs |-> [o \in Offsets |-> WorkspaceEntry(w, o)]]

AckedOffsets ==
    [w \in WSIDs |->
        {a.ev.woff : a \in {b \in acked[PartitionOf[w]] : b.ev.ws = w}}]

Promise == INSTANCE WorkspaceLog WITH
    NoEntry <- NoEvent, log <- WorkspaceLogs, done <- AckedOffsets

\* The processors implement the per-workspace log promised to clients: an
\* event appears at the end of the log of its workspace with fresh IDs, even
\* when two processes write and any of their writes fails.
ImplementsWorkspaceLog == Promise!Spec

-----------------------------------------------------------------------------
\* Properties of a single process

\* The event at k has gone through the whole store stage
Applied(p, k) ==
    LET e == plog[p][k]
    IN  /\ k \in synced[p]
        /\ wlog[e.ws][e.woff] = k
        /\ \A id \in Touched(e) : k \in records[e.ws][id]

IsLast(p, k) == Stored(p, k) /\ \A j \in Offsets : j > k => ~Stored(p, j)

\* Recovery re-applies only the last event: every earlier event must have
\* been applied completely before its successor was written.
EarlierEventsAreApplied ==
    \A p \in Partitions : \A k \in Offsets :
        Stored(p, k) /\ ~IsLast(p, k) => Applied(p, k)

\* A command is executed on a state that holds the effects of every stored
\* event: what Exec reads from the records is not stale.
ExecSeesAllEvents ==
    \A n \in Nodes : pc[n] = "exec" =>
        \A k \in Offsets : Stored(Part(n), k) => Applied(Part(n), k)

\* No update is lost or invented: a record holds the events of the PLog that
\* touch it, save that the last event may still be on its way.
RecordsFollowPLog ==
    \A w \in WSIDs, id \in RecordIDs :
        LET p == PartitionOf[w]
            all == {k \in Offsets : Stored(p, k) /\ plog[p][k].ws = w
                                    /\ id \in Touched(plog[p][k])}
            last == {k \in Offsets : IsLast(p, k)}
        IN  all \ last \subseteq records[w][id] /\ records[w][id] \subseteq all

\* Async actualizers are told about an event only when its records, views
\* and WLog row are there for them to read.
AnnouncedIsApplied ==
    \A p \in Partitions : \A k \in announced[p] : Stored(p, k) /\ Applied(p, k)

-----------------------------------------------------------------------------
\* Every command that a node has taken gets its reply, unless the node dies:
\* no failing stage leaves the service goroutine waiting.
EveryCommandIsAnswered == \A n \in Nodes : []<>(pc[n] = "idle")
=============================================================================
