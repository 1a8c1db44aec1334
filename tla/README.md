# A verification development for voedger

TLA+ models of the parts of voedger whose correctness depends on the order of
concurrent steps, on crashes and on failing writes; the TLC runs that check them
on small instances; and theorems, proved with TLAPS, that hold for every value
of the constants. All paths are relative to the repository (`src/` is its root;
`pkg/` stands for `src/pkg/`).

`PROJECT.json` is the index: which lines every definition models (`map`), what
every run checks (`runs`), a plausible bug that each property catches
(`mutants`), where model and documentation disagree (`findings`), what is hard
to test in this code (`hazards`), and what is proved (`theorems`).

Contents:
1. The system and its parts
2. Modules and their correspondence with the code
3. The runs: what they show, bounds, fairness
4. What is proved
5. Findings and observations
6. What is not modelled
7. Plan

## 1. The system and its parts

voedger is an event-sourced application server. A VVM (a process) owns one of
`numVVM` indexes of a cluster by leader election and then runs its services:
routers, command, query, BLOB and notification processors, projectors
("actualizers") and job schedulers. Commands of an application partition are
executed one at a time; each becomes an event of the partition's log (PLog) and
of its workspace's log (WLog), from which records and views are derived.

    client -> router -> bus -> command processor --PutPLog--> PLog
                                    |  \--records, sync projectors, WLog
                                    |--notify--> n10n broker -> async actualizers -> views, mail, calls
                                    |                                                  |
                                    |<-- commands of sagas: workspaces, invites, logins +
                                    `--(planned by the authors) sequencer: numbers and offsets
    elections (record with TTL) <- VVM orchestration -> bootstrap, starts and stops the above
    all of them -> storage cache -> storage driver (memory, bbolt, Cassandra, DynamoDB)

| Part | State | Operations | Talks to | What is hard | What makes it correct |
|---|---|---|---|---|---|
| Command processor (`pkg/processors/command`) | per process and partition: next PLog offset, next WLog offset and record ID of every workspace | a pipeline of stages per command; recovery of a partition | event storage, sync projectors, broker | crash or failed write between any two stages; the last event is applied again by recovery; a second process during a change of the leader | logs without holes, offsets and IDs used once, no lost or half applied event, an answer to every command |
| Event storage (`pkg/istructsmem`) | PLog, WLog, records, ID generator | PutPlog, PutWlog, Apply, ReadPLog, by sequences trust level | storage drivers | partial batches, a write whose outcome is unknown | rows are never replaced below trust level 2 |
| Sequencer (`pkg/isequencer`, `appparts/internal/seqstorage`) | numbers and next offset: persisted, to be flushed, in process, cached | Start, Next, Flush, Actualize, cleanup; goroutines flusher and actualizer | PLog, sequence storage | three goroutines over one map, retried two-step writes, overflow thresholds, restart | numbers continue the log, persisted offset covered by persisted numbers, everything ends |
| Leader elections (`pkg/ielections`) | a record with TTL per index; leadership context | AcquireLeadership, renewal with retries, ReleaseLeadership, cleanup | conditional storage operations | expiry against retries, concurrent release | a live context implies the record |
| VVM orchestration (`pkg/vvm/impl_orch.go`) | contexts and wait groups of Launch/Shutdown | acquire an index, monitor, kill, shut down | elections, all services, host | services that hang, loss during shutdown | services end before the record expires; shutdown ends |
| Bootstrap (`pkg/btstrp`, `pkg/cluster`) | application workspaces, deployment record | initialise workspaces, deploy applications | event storage directly | a stop between two writes | a process that runs is deployed; a restart works |
| Async actualizers (`pkg/processors/actualizers`) | offset, pipeline, bundles of intents, saved position | read PLog, invoke projector, flush, restart after error | broker, PLog, views, other storages | error in one goroutine while another reads on; position against effects | at least once, no event skipped, no event left waiting |
| Notification broker (`pkg/in10nmem`), n10n processor (`pkg/processors/n10n`) | channels, subscriptions, projections, quotas | NewChannel, Subscribe, Unsubscribe, Update, WatchChannel, notifier goroutine | actualizers, clients | dropped tokens, two locks, bounded queue, cleanup | no lost wake-up, counters return to zero |
| Storage cache (`pkg/istoragecache`) | cache entries next to rows | Put, Get, conditional operations | drivers | cache and storage written in two steps | a stored row is visible |
| bbolt driver (`pkg/istorage/bbolt`) | data bucket, bucket of expirations | conditional operations in two transactions, background cleaner | bbolt | renewal against cleaning | an expiring row is indexed; a renewed row stays |
| BLOB processor and storage (`pkg/processors/blobber`, `pkg/iblobstoragestg`) | state row, chunk rows, document | upload, download | storage, command processor | a failure or a stop between chunks and state | what is answered is readable, what is read is whole |
| Workspaces (`pkg/sys/workspace`) | documents in three workspaces, number generator | create, initialise, deactivate: commands and projectors | command processor, actualizers | calls that fail with effect, replays | an owner gets a complete workspace; an inactive one is cut off |
| Invites (`pkg/sys/invite`) | invite, subject, joined workspace | commands, one projector | as above | commands that arrive while an event is applied | membership follows the state |
| Registry (`pkg/registry`) | logins, alias index | create, deactivate, set alias | as above | three workspaces, no common lock | an identifier leads to one login |
| Query processors (`pkg/processors/query`, `query2`), bus (`pkg/bus`), asynchronous pipeline (`pkg/pipeline`), replies of the router (`pkg/router`) | one request: channels of one item between a goroutine per operator, the sender, the router; error channel; contexts | prepare, run the query, send a row, flush, close; write to the socket | clients, host state | a slow, absent or departing client; errors from four goroutines; bounded channels | a response that ends well is whole; the processor is freed |
| App partitions (`pkg/appparts`), schedulers, rates, control loop | pools of engines; timers; buckets; heap | | all processors | see section 6 | |
| State, auth, schemas, tools | no shared mutable state of their own, or I/O | | | see section 6 | |

The documents used with the code: `uspecs/specs/prod/apps/arch-vvm-orch.md`,
`arch-sequences.md`, `arch2-sequences.md`, `arch-processing.md`,
`uspecs/specs/prod/auth/*.md`, `pkg/isequencer/design.md` and the tests of each
package.

## 2. Modules and their correspondence with the code

| Module | What it is |
|---|---|
| `CommandProcessor` | command processor and event storage, 1..n processes |
| `WorkspaceLog` | what the command side promises: an append-only log per workspace |
| `Sequencer` | the sequencer of one partition with its goroutines and its storage |
| `SequenceLog` | what the sequencer promises: a log in which every number continues its sequence |
| `Elections` | leader election on a TTL storage |
| `VVMOrch` | VVM orchestration; extends `Elections`, whose actions it runs |
| `N10nBroker` | notification broker with the sessions of the n10n processor and their clients |
| `Notifications` | what the broker promises: a subscriber is told the latest offset in the end |
| `QueryRequest` | one request for rows: router, bus, query processor v1 or v2, its rows processor |
| `AsyncActualizer` | reader, asynchronous pipeline and projector with bundles and positions |
| `Projection` | what an actualizer promises: folds of prefixes, a position that is covered |
| `StorageCache` | the cache in front of a storage |
| `BboltStorage` | the bbolt driver with TTL and cleaner |
| `BlobStorage` | upload and download of one BLOB |
| `Invites`, `LoginAlias`, `Workspaces` | three sagas of commands and projectors |
| `Bootstrap` | start of a VVM and deployment of an application |
| `MC...` | constants for TLC, and modules side by side: `MCProcessors` has `CommandProcessor`, `N10nBroker` and `QueryRequest`, `MCLogs` `Sequencer` and a `CommandProcessor` with two processes, `MCBackground` `AsyncActualizer` and `Sequencer`, `MCParts` the small modules |
| `CommandProcessorProofs`, `CommandLogProofs` | theorems about `CommandProcessor`; the second rests on the first |
| `SequencerProofs`, `ActualizerProofs` | theorems about `Sequencer` and `AsyncActualizer` |
| `VVMOrchProofs` | theorems about `Elections` and `VVMOrch` |
| `DeliveryProofs` | theorems about `N10nBroker` and `QueryRequest` |
| `StorageProofs` | theorems about `StorageCache`, `BboltStorage` and `BlobStorage` |
| `SagaProofs` | theorems about `Bootstrap`, `Workspaces`, `Invites` and `LoginAlias` |

Composition: `VVMOrch` runs the actions of `Elections`. `AsyncActualizer`
contains an instance of `Notifications` with one channel in the place of the
broker, so what it assumes of the broker is what `N10nBroker` is shown to
implement. `WorkspaceLog`, `SequenceLog`, `Notifications` and `Projection` are
abstract specifications that the detailed modules implement under a refinement
mapping. The sagas use commands as atomic steps, which is what
`CommandProcessor` shows of a partition.

Some definitions come with a neighbour whose comment says "Mutated form": the
definition with one plausible bug. They take no part in any specification; a
property is worth its run when replacing the definition by its mutated form
violates it, and `PROJECT.json` says which one does for every property.

### CommandProcessor
One node is one process running command processors; the commands of a partition
are handled one after the other (one goroutine per command processor, several
partitions per processor), so a node has one program counter `pc` and one
workpiece `cmd` (`cmdWorkpiece`). A stage of the pipeline is an action:

| Action | Code |
|---|---|
| `Accept` | a request arrives; `getWSDesc`/`checkWSInitialized` read the descriptor *before* `getAppPartition` |
| `RecoverEvent`, `RecoverEnd`, `RecoverReadFails` | `recovery`: `ReadPLog` callback (`UpdateOnSync`), re-application of the last event, read error |
| `Exec`, `ExecFails` | everything between: IDs are taken, updated records are read, the event is built |
| `PutPLog`, `PutPLogFails` | `putPLog`; the failure may or may not have stored the row |
| `ApplyRecords`, `ApplyRecordsFails` | `applyRecords`/`apply2`; a failed batch may be partly written |
| `SyncProjectors`, `PutWLog`, `PutWLogFails`, `StoreDone` | the two branches of the fork operator, in any order, and the wait for both |
| `NotifyAsyncActualizers`, `Reply` | announce, answer; `Reply` drops all partitions when a restart is scheduled |
| `Crash` | the process dies anywhere and starts again with empty memory |

An event is its workspace, WLog offset and the sets of record IDs it creates and
updates; the content of a record is the set of PLog offsets folded into it, so a
lost, doubled or misplaced update is visible as a wrong set. A workspace's
descriptor is record 0, the singleton whose creation initialises the workspace.
`TrustLevel` selects `Put` or `InsertIfNotExists` as in `istructsmem`.

### Sequencer
The client (command processor), the flusher, the actualizer, `cleanup()` and the
environment (crash, storage that breaks and recovers) interleave. Every lock
section of `impl.go` is one action, and so is each of the two writes of
`WriteValuesAndNextPLogOffset`. Maps are total functions with 0 for "absent".
The cache evicts any entry when it is full, which covers the LRU order. Facts a
reader may want:
- an untouched storage answers offset 0 (`seqstorage/impl.go:68-75`), and the
  flusher treats offset 0 as "nothing to flush" (`impl.go:136`). All runs begin at
  offset 0. The numbers of the first transaction flushed there are persisted only
  with the next one: no harm to the log, since the offset stays 0 too and the next
  start scans the event, but `FlushedNumbersArePersisted` has to except it
  (`nextOffset # 0`);
- what the batcher has put into `toBeFlushed` below the threshold waits for the
  next `Flush` (nobody signals it), which is why `FlushedNumbersArePersisted`
  speaks of flushed transactions;
- with `MaxNumUnflushedValues = 0` the batcher could never go on; the constant
  is assumed positive, as in the configuration the code builds;
- persisted *numbers* may go back for a while when a scan is repeated; only the
  offset is monotone;
- a storage that is broken for good keeps the flusher retrying and `cleanup()`
  waiting for it (`impl.go:461`); the batcher is a goroutine of its own only
  while an actualization scans the PLog.

### Elections and VVMOrch
Time is discrete; a tick is the second between two renewal attempts. A quarter
of the leadership duration has `Quarter` ticks, timers count down, and a tick
passes only when nothing is due: the models assume that goroutines are scheduled
and storage calls answer within a tick. Without that assumption no lease
protocol is safe, and the code has no other. A storage operation that returns an
error may have taken effect. `holder` and `ttl` are the storage's records,
`li[v][k]` is a `leaderInfo` with its goroutine (`at`), its context (`ctx`), its
ticker and its deadline, `caller[v]` is a call of `ReleaseLeadership` or
`cleanup`.

`VVMOrch` extends `Elections` and conjoins its actions with the orchestration:
`Launch`, the acquisition loop (`TryAcquires`, `TryNextIndex`,
`AcquisitionTimeout`), `Ignite` (the service pipeline starts), `MonitorSeesLoss`
and `Kill` (leadershipMonitor, killerRoutine), `Shutdown`, `ServicesStop`,
`ElectionsCleanup`, `ShutdownDone` (shutdowner) and `Crash`. `handedOver` is a
history variable: the VVM's own goroutine has deleted its record.

### N10nBroker
Every lock section of `in10nmem/impl.go` is an action: `SubscribeLocked` and
`UnsubscribeLocked` under the broker's lock, then `Mark` under the projection's,
then `Send` into the bounded queue `events`; `Update` and its `Send`;
`NotifierTakes` (merge `toSubscribe`) and `NotifierSignals` for each channel, a
token that is dropped when one is pending. A session is the goroutine of one
"subscribe and watch" request (`SessionNext`): `NewChannel`, one `Subscribe` per
key with the roll-back on an error, `WatchTakes` and `WatchDelivers`, and the
cleanup (`CleanupTerminates`, `CleanupUnsubscribes`, `CleanupEnds`). A client
may have one more request about the channel under way, once it knows its ID.
A subscription whose offset went down is not told again: offsets are compared.

### QueryRequest
Six goroutines of one request. The goroutine of the HTTP request (`caller`) sends
the request, waits for the first response, takes rows from the response's channel
and writes them to the socket. The query processor (`qp`) prepares the query, runs
it (`SendAsync` per row), closes the rows processor and ends the response. The
rows processor is an asynchronous pipeline with a goroutine (`puller_async`) per
operator, each with a channel of one item in front of it (`stdin`) and the items
it has still to put into the next (`out`): an operator that works on each row and
may fail, one that keeps the rows back when they are to be ordered, the sender,
which writes to the response's channel (`hand` is what it works on), and the
releaser. An operator with an error drops what it gets (`Releases`); an error of an
operator passes `OnError` of the ones after it (`ForwardsError`,
`SenderReports`). The APIs differ where the code does: the context of the
pipeline is the request's in v1 and the VVM's in v2, `OnError` of the sender drops
a second error in v1 and waits in v2, the v2 reply writes before the first row.
A write of the sender times out (`WriteFails`) only while the router is busy with
the socket, as the comment of `sendResponseTimeout` has it. A query function is
assumed to return the error of its callback.

### AsyncActualizer
The reader (`pc`) and the projector (`at`) are two goroutines connected by the
pipeline's channel of one place (`inbox`). The reader initialises, reads the
PLog in batches to the end, then waits for the broker and reads to the announced
offset. The projector takes an event, reads its row, folds the event into it or
calls a service, bundles the row and flushes when the bundle is full, on the
timer, before a read of a range, or when the pipeline closes. A flush writes the
rows in one batch per workspace and the position last (`ApplyRows`,
`ApplyPosition`); it may be cut anywhere by an error or a crash. An error puts
the operator into its error state, cancels the watch through the error handler,
and the reader meets it at its next `SendAsync` or at the end of the watch. A
row's content is the set of events folded into it.

### StorageCache
A batch is written row by row to the storage (`StoreRow`) and then row by row to
the cache (`CacheRows`); a read that misses asks the storage (`ReadStorage`) and
fills the cache later (`FillCache`), "no such row" only if the row is not cached
meanwhile (`Fill`). `spoilt` is a history variable: rows that were deleted,
whose write failed, or whose entry was evicted under a reader. For those the
cache promises nothing: a filled "no such row" may hide them.

### BboltStorage
Each conditional operation is a reading and a writing transaction. Times are
relative and count down; the TTL bucket is a set of pairs of a time and a key.
`BackgroundCleaner` removes every due entry and the row under its key.

### BlobStorage
`Upload` walks through register, state row, chunks (with the quota), final state,
completion of the document and answer; any call may fail with or without effect.
A chunk is what one `reader.Read` returns, `ChunkSize` bytes or fewer. The reader
may return an error together with bytes; `writeBLOB` overwrites it by the results of
the limiter and the inserter (`impl.go:60-72`). In the model such a body is `cut`:
it has no bytes for the next `Read`, which answers end of file (`EndOfBody`) or the
error once more (`BodyFails`).
`Download` checks the state, takes the rows of one bucket after another
(`ReadBucket`), writes them to the client one by one in the callback of the read
(`WriteRow`) and compares sizes at the end. A row knows by `from` which bytes of
the body it holds; a history field, the code stores only the bytes. The rows of a
bucket are read in the order of their clustering columns, which are the eight bytes
of the chunk's number, the lowest first: two numbers differ first in the lowest of
the `PlaceValues` at which they differ, and that byte decides (`SortsBefore`). `Base`,
the number of values of a byte, is a constant, so that small instances have numbers
of several bytes.

### Invites, LoginAlias, Workspaces
Documents in several workspaces, the accepted events in order, and for every
projector the event it is at and the calls it has still to make. A command is
one step; so is a call of a projector, which may fail with or without effect.
After an error or a crash a projector takes its event again, or the events since
its saved place. `Invites` has the commands of one invite and
`ApplyInviteEvents`; `LoginAlias` the commands on logins, `ApplySetLoginAlias`
and the two index commands; `Workspaces` the way from an owner's document over
`WorkspaceID` and the descriptor to the initialised workspace and the news to the
owner, and the deactivation back.

### Bootstrap
`StartVVM`, the three writes of `InitAppWS` for each application workspace
(`PutPlog`, `ApplyDescriptor`, `PutWlog`), `DeployApp` and `RecordApp`, with a
stop between any two of them.

## 3. The runs

TLC runs with two workers; no run takes more than four minutes. `CHECK_DEADLOCK
FALSE` is used where the system may stop: bounds that are used up, elections
after `cleanup`, a saga that is over.

| Run | Instance | Shows |
|---|---|---|
| `processors` | three parts, one after another (`part`). Commands: 1 process, 2 workspaces in 1 partition, 3 offsets, updates of up to 2 records, level 0. Broker: 2 channels of one login, 1 projection, 1 client with a request of its own, queue of 1. Query: API v1 and v2, ordered or not, up to 3 rows | commands: crashes and failing writes never leave an event but the last half applied, commands run on complete state, records hold exactly their events, announcements follow application, every command is answered. Broker: a pending notification is on its way, quotas come back, it implements `Notifications`, liveness included, cleanup returns. Query: a response that ends well has every row unless the sender itself failed; the processor is freed whatever the client does |
| `logs` | two parts. Commands: 2 processes, 1 partition, 3 offsets, level 0, creations only. Sequencer: 1 workspace, 2 sequences with up to 2 numbers each, cache of 1, threshold 3, crashes | commands: the logs, offsets, record IDs and acknowledged events survive two writers; both together implement `WorkspaceLog`. Sequencer: the persisted offset is covered by persisted numbers; implements `SequenceLog` |
| `background` | two parts. Actualizer: a buffered or a calling projector, 2 workspaces, 3 events, batches and bundles of 2, 1 fault. Sequencer: 3 workspaces, 1 sequence, threshold 1, an untouched storage that breaks once and recovers | actualizer: the position is covered; implements `Projection`; what is announced is projected and saved. Sequencer: actualization and cleanup end; flushed numbers are persisted |
| `parts` | the nine small parts, each from its own initial state (`part` names the one that moves) | the safety and liveness of elections and orchestration; `StoredRowIsVisible`; `ExpiringRowsAreIndexed`; `DownloadIsWhole`, `RepliedIsReadable`; `MembershipFollowsState`; `IdentifiersAreUnambiguous`; `DeactivatedIsCutOff`, `OwnerGetsACompleteWorkspace`; `RunningIsDeployed` |
| `seq_batcher`, `blob_order`, `blob_body`, `invites_cancel`, `alias_settled`, `bbolt_renewal`, `bootstrap_restart`, `query_errors` | the smallest instance each | findings, section 5 |

The runs with several parts are one run each because their parts have nothing in
common: the state space is the sum of theirs, each property speaks of one part's
variables, and the variables of the others stay as they begin. Alone, a part's
specification is `ElectionsSpec`, `Spec` (of `VVMOrch`), `CacheSpec`, `BboltSpec`,
`BlobSpec`, `InvitesSpec`, `LoginAliasSpec`, `WorkspacesSpec` and `BootstrapSpec` in
`parts`; `FairSpec` (of `CommandProcessor`), `BrokerSpec` and `QuerySpec` in
`processors`; `SequencerSpec` and `Spec` (of `CommandProcessor`) in `logs`; `Spec` (of
`AsyncActualizer`) and `SequencerFairSpec` in `background`. `background` takes the
sequencer by `INSTANCE ... WITH` and asks its liveness properties, under the same
names, of the behaviours in which the sequencer moves (`Moves`).

**Why the bounds are enough.** Three offsets give the shapes recovery tells
apart: an event before the last, the last, a new one; two record IDs give a
creation and an update of an older record in one event. Two processes are what a
change of the leader produces, since a third needs the second to lose the index
first and has its view of the log from the same rows. In the split-brain run
record contents are out of scope: `arch2-sequences.md:168` says that updates are
not protected, and indeed `RecordsFollowPLog` fails there. Thresholds and cache
sizes of the sequencer are chosen below, at and above the number of keys.
`Quarter = 2` is the smallest renewal interval with a retry in it; one index and
two VVMs give every conflict about an index, and with `AcquisitionDuration = 1` a
VVM that does not get it gives up after one round and is started again. The
theorems of section 4 cover all other values. Two channels, one key and a queue
of one fill the broker's queue and let a cleanup, a subscription and an update
meet; a second request of the client adds nothing that the second channel does
not. Three events, two of them in one workspace, make a full batch, a full
bundle and one more. The cache has one value per row: the property tells rows
that exist from rows that do not. A BLOB of six bytes in chunks of one or two makes
up to five stored chunks, over two buckets of four bytes; with a byte of three values the
numbers 3 and 4 have two bytes, so a bucket is read out of order; the quota of
five cuts the longest BLOB. Two owners of one name and one error are a replay that meets
a successor. Two logins and three identifiers give a login, its alias and a
rival; three rows fill the channels from the query function to a writing router up
to the point where a row times out behind another, and are what a failing row, an
ordered rest and its failing flush need; identifiers are interchangeable until one is used, so the first login is
`jsmith` (`FirstLoginIsJSmith`), and the first event with a workspace is `w1`'s
(`FirstWorkspaceIsW1`).

**Fairness.** A stage of the command processor, a goroutine of the sequencer, of
the elections, of the orchestration, of the broker, of a session and of an
actualizer is scheduled again and again (weak fairness per goroutine): the code
runs them without locks held over a wait. Time passes in the orchestration
(`SF(OrchTick)`: strong, because a tick is disabled while something is due). No
fairness is put on clients, hosts, updates, crashes or errors, except that
`background` lets the sequencer's storage recover eventually (`WF(StorageRecovers)`): the
sequencer retries for ever, and without recovery `cleanup()` does hang.
Actualizers have a bounded number of faults; `AnnouncedIsSaved` needs no more
than that they end. Services may hang in their shutdown for ever;
`ShutdownCompletes` has `ServicesStopInTime` as its premise, `LostLeaderStops`
has none. In `QueryRequest` the processor, every operator and the goroutine of the
HTTP request go on, timers fire, but a write to the socket may take for ever: the
default write timeout is 0 (`router/consts.go:31`). In the runs with several parts
each fairness condition is about its part only. Where a property says that a call
returns (`EveryCommandIsAnswered`, `CallsReturn`, `ProcessorIsFreed`, and
`CleanupReturns` of the broker) it is written `[]<>` "no such call", per caller,
which says the same as a leads-to from the call to its end.

## 4. What is proved

For every value of the constants that satisfies the modules' assumptions:

- `CommandProcessorProofs!TypeCorrectness`: `Spec => []TypeOK`. The bounds are
  guards, so this says also that offsets and IDs in memory never leave them. It
  needs the ranges a workpiece carries from stage to stage (an event with an
  offset in `putPLog` and after, IDs taken within the bound), `TypeInv`.
- `VVMOrchProofs!ElectionsTypeCorrect`: `ElectionsSpec => []ElectionsTypeOK`.
- `VVMOrchProofs!LeadershipIsSafe`: `ElectionsSpec => []LeaderHoldsTheRecord`,
  for any number of VVMs and keys and any renewal interval. The property is not
  inductive: it says nothing of *how long* the record will live. The inductive
  invariant `ElectionsInv` adds a budget of time to every place of the
  goroutine: while it waits for the ticker, `ttl >= 3 * Quarter + ticker`; while
  it renews or retries, `ttl >= 2 * Quarter + deadline`. Renewal resets the
  record to four quarters, the ticker takes one, the deadline one, so two are
  left when the goroutine gives up, one of which `killerRoutine` uses. A tick
  takes one from both sides because nothing may be due. A context whose entry is
  gone from the map is live only while its own caller or goroutine is on the way
  to cancel it (`Abandoned`).
- `VVMOrchProofs!CleanupEndsRenewals`: `ElectionsSpec => []CleanupStopsRenewals`. The
  danger is a goroutine that `cleanup()` no longer finds in the map and that goes on
  renewing. `AttendedInv` rules it out for each VVM and key: a goroutine whose entry
  is gone is on its way out (deleting, cancelling, ended), or the one caller that
  removed the entry has yet to cancel it and to wait for it; and when the cleanup is
  done, no entry is left.
- `CommandLogProofs`: the invariants of the logs, `PLogIsDense`,
  `WLogOffsetsAreSequential`, `RecordIDsAreUnique`, `WLogRowsAreEvents` and
  `AckedIsDurable`, and the action property `PLogIsAppendOnly` (which no run
  checks on its own: the refinement of `WorkspaceLog` does not allow a replaced row
  either). Each theorem has
  the premise `SafeStorage`: either the storage rejects a row that exists (trust
  levels 0 and 1), then for any number of processes on one partition, or there
  is one process, then at level 2 too. The premise is needed: two processes at
  level 2 overwrite each other's events.
  `SafeInv` says what a process may know. Its counters describe a prefix of each
  PLog, its *view*: every event of the view is stored, has a WLog offset and
  record IDs below the counters, and every WLog offset below the counter is taken
  in the view (`ViewInv`). Other processes only add rows, so a view stays true
  (`OthersKeepNode`). A new event goes to the row after the view. If that row was
  free, the PLog ended there, because it has no holes; so the view was the whole
  PLog and the offsets and IDs of the event are right for all of it (`RowIsNext`,
  `AppendKeepsLog`). At level 2 the row is free because a process that works
  alone has seen the whole PLog (`UpToDate`). A singleton is refused when its
  record exists, so the records of the view's events must exist (`CreatedInv`,
  `AllCreated`): all but those of the last event, which recovery re-applies before
  the next command. After an error in the store stage the counters are ahead of
  what was done and none of this holds; such a process has no step left but the
  reply that drops all its partitions (`Doomed`).
- `CommandLogProofs!ProcessorsImplementWorkspaceLog`:
  `Spec => ImplementsWorkspaceLog` under the same premise. `PutPLog` is the
  append, `Reply` the acknowledgement, everything else is invisible. The append
  asks in addition that an updated record has a creator in the log (`UpdatesInv`):
  an update is executed on a stored record, and a record is stored by an event.
- `CommandLogProofs`, one process on a partition: `EarlierEventsNeedNoRecovery`,
  `NoCommandRunsOnAStaleState`, `NoUpdateIsLostOrInvented` and
  `AnnouncedEventsCanBeRead` state the invariants `EarlierEventsAreApplied`,
  `ExecSeesAllEvents`, `RecordsFollowPLog` and `AnnouncedIsApplied` for any number of
  partitions, workspaces, crashes and failing writes, at every trust level. Their
  premise is `OneWriter`, the condition under which the runs check them too: a second
  process appends before it has seen that the first one's event is not applied, so
  none of the four holds of two. `SoleInv` adds to `SafeInv` that what is stored is
  applied: every event of a PLog, save the last one as long as the process is storing it,
  is about to drop the partition (`Doomed`), or has not recovered it yet (`LagInv`,
  `LastInv`). The step
  that needs it is the append: it makes the last event an earlier one, so that event
  must be applied by then. It is, because a process accepts a command only after
  recovery has re-applied the last event, and after any error it starts with recovery
  again. What is applied stays applied only if no write replaces a record by an older
  one: the record that `parseCUDs` read is still the stored one when it is written back
  (`OriginInv`), and a re-applied creation cannot undo an update, because updates of a
  record follow its creation and the last event is the only one re-applied
  (`CreatedFirst`).
- `VVMOrchProofs!OrchestrationImplementsElections`: `Spec => ElectionsSpec`.
  Each action of `VVMOrch` is an action of `Elections` on the index at hand, or
  leaves its variables alone; only the type of `vvmIdx` is needed. Hence the
  theorems of `Elections` hold for VVMs, in particular `LeaderHoldsTheRecord`.
- `VVMOrchProofs!OrchTypeCorrect`: `Spec => []TypeOK`.
- `VVMOrchProofs!ServicesEndInTime`: `Spec => []RecordOutlivesServices`, and
  `LostLeadersAreDoomed`: `Spec => []LostLeaderIsDoomed`, for any number of VVMs
  and indexes and any renewal interval. `OrchInv` continues the budget of
  `ElectionsInv` behind the end of the leadership: a goroutine that gives up
  leaves two quarters; they are still there when the monitor sees the loss,
  because neither the goroutine nor the monitor lets a tick pass; then
  `ttl >= Quarter + killer`. The other half of the invariant (`Guarded`) says
  that nobody but that goroutine touches the leadership while services rely on
  it: the elections are cleaned up after the services and the monitor have
  stopped. With the order of `arch-vvm-orch.md:108-117`, which stops the monitor
  first, that half fails.
- `ActualizerProofs!TypeCorrect`, `RowsAreFolds`, `PositionCovered` and
  `Implements`: `Spec => []TypeOK`, `[]RowsHaveNoGaps`, `[]PositionIsCovered` and
  `ImplementsProjection`, for any workspaces, sizes of batches and bundles and
  numbers of events and faults. The invariant `IInv` adds to them: where the
  reader and the projector may be at the same time (`StageInv`: a projector in its
  error state does nothing, the offset it flushes for is the last event it took),
  that rows in the bundle and in the storage are folds and the bundle is never
  behind the storage (`RowInv`), and `KnownInv`: what the projector would read of
  a workspace, bundle before storage, holds every event it has dealt with. `Taken`
  is the last event it was given, `Folded` the last one it has dealt with. A flush
  with a position writes all rows before it, so what was known is projected
  (`FlushedIsProjected`); an error or a crash empties the bundle and the reader
  starts at the saved position, which is covered, so what it knows then is the
  storage. The refinement follows: a written row takes in the next events of its
  workspace only, because the bundle's row is a fold (`NextImplements`).
- `DeliveryProofs!NoWakeUpIsLost`: `BrokerSpec => []WakeUpIsOnItsWay`, for any
  channels, keys, clients, quotas and any size of the queue. The premise
  `OneClientPerChannel` is needed: see the observation about `Subscribe` and
  `Unsubscribe` in section 5. `WakeInv` adds to the property what the notifier knows
  (`Prepared`): while a channel is prepared or watched, every subscription of it is
  in the notifier's list, merged or not (`Merged`), or its `Subscribe` is about to
  mark it; and no `Unsubscribe` is about to mark a key that is subscribed. The two
  locks are written in one order because a channel that is watched has one caller at
  a time: its session calls only before the client knows the channel, and after the
  watch (`CallsFit`, `NobodyElseCalls`). Then an `Update` finds the channel in the
  list and leaves an event behind, and the notifier merges the list before it reads
  it, so that the last event for the key cannot pass the channel by
  (`NotifierWakes`).
- `DeliveryProofs!QuotasNeverLeak`: `BrokerSpec => []QuotasAreReturned`, without that
  premise. A subscription is counted in the lock section that changes it
  (`LockedCounts`), so what is to be shown is that nothing is left when a channel is
  deleted: `cleanupChannel` terminates the channel and copies its subscriptions in
  one lock section, after which no request can add one (`StageFits`).
- `DeliveryProofs!BrokerImplementsNotifications`:
  `BrokerSpec => Delivery!Init /\ [][Delivery!Next]_(Delivery!vars)`, the safety part of
  `ImplementsNotifications`, for any constants and without a premise: an `Update` is one
  of `Notifications`, the lock section of `Subscribe` or `Unsubscribe` that changes the
  channel is the abstract one, the end of a collection of offsets is the delivery, and
  every other step of every thread is invisible. That the deliveries happen is fairness
  and left to TLC.
- `DeliveryProofs!CleanEndsAreComplete`: `QuerySpec => []CleanEndIsComplete`, for any
  number of rows. `QueryInv` follows a row and an error through the eight places between
  the query function and the client. As long as the client listens and the sender has
  not failed: every row that was produced is received or in one of the places
  (`RowsArrive`), and an error of an operator is in one of the places, in the channel of
  one error or in the result of the response (`ErrorArrives`). An operator closes its
  output only when nothing is behind it (`ClosingInv`), and the response is closed only
  after the last operator has closed (`StageInv`), so at a clean end all places are
  empty. The sender's own failure is excepted in the property because the code loses
  exactly that error (`query_errors`).
- `StorageProofs!StoredRowsAreVisible`: `CacheSpec => []StoredRowIsVisible`,
  for any rows, values and goroutines. `CacheInv` consists of what goroutines hold
  (`OpsOK`) and, per row, `RowIsSafe`: a stored row that is not spoilt has a writer
  about to cache it, or a value in the cache, or no entry and no reader that holds
  "no such row" for it. The last clause is the point: such a reader can only exist
  while a writer is about to cache the row or has done so, and then `Fill` leaves
  the entry alone.
- `StorageProofs!NoRowEscapesTheCleaner`: `BboltSpec => []ExpiringRowsAreIndexed`, for any
  keys, contents, times to live and users. Given the types, the property is inductive:
  every call writes a row and its entry in one transaction, and the cleaner deletes an
  entry in one transaction with the row of its key. The converse, that an entry
  belongs to the expiration of its row, is false: see `bbolt_renewal`.
- `StorageProofs!DownloadsAreWhole` and `RepliesAreReadable`:
  `BlobSpec => []DownloadIsWhole` and `BlobSpec => []RepliedIsReadable`, for any sizes of
  chunks, buckets and BLOBs, any number of values of a byte and so chunk numbers of any
  length, any quota, short reads, bodies that are cut off, failing calls, expiring rows
  and a death anywhere. The order in which rows are read cannot be relied on
  (`blob_order`), so the argument is one of counting. All rows known to anybody, in the
  storage, in a snapshot of a bucket or written to the client, are disjoint intervals of
  the bytes 0 to `sent - 1`, and equal when their numbers are (`KnownInv`), also while the
  upload runs on, fails, or loses rows to their expiration; a download writes no row
  twice (`DownloadInv`). So the bytes it has written are as many as `bytesRead`, and when
  this is the size in the state row, which is `sent` once the upload has ended
  (`UploadInv`), they are all of them: a subset of a finite set with as many elements is
  the set. While all numbers have one byte, rows are read in the order of their numbers,
  which is that of their bytes. For a persistent BLOB, of which nothing expires, the
  chunks have no gap, bucket numbers grow by one at most, and a download holds every
  row of the buckets it has read (`PersistentInv`): it finds every bucket and ends with
  the right size.
- `SequencerProofs!PersistedOffsetIsAlwaysCovered` and `SequencerImplementsSequenceLog`:
  `SequencerSpec /\ [][~BatcherWaits]_sequencerVars => []PersistedOffsetIsCovered` and
  `=> ImplementsSequenceLog`, for any sequences, partitions, workspaces, crashes, failing
  writes and restarts of the actualizer. The premise excludes the one step after which
  the property fails, the wait of the batcher between the offset and its numbers
  (`seq_batcher`, section 5). `FewSequencesAreSafe` gives a condition on the
  constants that implies it: fewer sequences than unflushed values allowed, then both
  hold of `SequencerSpec` as it is; the runs that check the two properties are of that kind.
  `SequencerInv` says, for each place in which numbers are kept, up to which offset they
  cover the log: the stored numbers up to the stored offset; with the unflushed values,
  up to `toBeFlushedOffset` (`StorageInv`); the copy of the flusher up to the offset it is
  going to write, and it drops only what is stored and has not grown (`FlusherInv`);
  what the scan has collected, up to the event it is at (`ScanInv`). Outside an
  actualization the client stands at the end of the log (`ClientInv`), the numbers of its
  transaction continue the log (`InprocInv`) and the cache holds the last number of a
  sequence or nothing (`CacheInv`). The actualizer may reset all that because nobody
  else runs: the client is idle and the flusher is stopped before (`ActualizerInv`).
- `SagaProofs!BootedAppIsDeployed`: `BootstrapSpec => []RunningIsDeployed`. `BootInv`: all
  workspaces before the one the loop is at have their descriptors, a descriptor has its
  event, and a layout is recorded only when all its workspaces are initialized.
- `SagaProofs!InactiveIsCutOff` and `GivenWorkspaceIsComplete`:
  `WorkspacesSpec => []DeactivatedIsCutOff` and `[]OwnerGetsACompleteWorkspace`.
  `WorkspacesInv` relates the place of each projector to what its earlier calls have
  done (`Reached`), the events it has yet to handle to what existed when they were
  written (`EntryOK`), and says that only the latest WorkspaceID of a name may be active:
  that is why a replayed deactivation, which goes by name, does no harm to the property.
  The documents only move on (`DocsGrow`), so what a call has done stays done when the
  projector starts again.
- `SagaProofs!MembershipFollowsInvite`: `InvitesSpec => []MembershipFollowsState`. The
  invariant knows every list of calls the projector may have left, and for each what the
  earlier calls have achieved (`CallsLeft`); that the invite is still in the state
  that the projector has read, or the last call will be skipped (`Fits`); and what is
  left of the membership when an event that changes it is about to be handled
  (`JoinedBefore`).
- `SagaProofs!OneLoginPerIdentifier`:
  `LoginAliasSpec => []IdentifiersAreUnambiguous`, for any identifiers, logins,
  changes and faults. `AliasInv`: the names of active logins are unique, and no
  active login has the name of an active alias; both are checked in the workspace
  the identifier hashes to, which runs one command at a time, and an alias row
  names one login. Nothing about the phases of the projector is needed, which is
  why its failures cannot harm.

TLC agrees on small instances with the largest of these inductive invariants: `SoleInv` on
258,696 states at each trust level with one process, `InvitesInv` on 24,899 states,
`QueryInv` on 86,401 states with three rows, `BlobInv` on 48,577 states in the instance of
`parts`.

Only model-checked:

- Liveness: `ActualizationEnds`, `CleanupReturns` of the sequencer and of the broker,
  `FlushedNumbersArePersisted`, `AnnouncedIsSaved`, `LostLeaderStops`, `ShutdownCompletes`,
  `CallsReturn`, `EveryCommandIsAnswered`, `ProcessorIsFreed`, and the fairness in
  `ImplementsNotifications`. Fairness and ENABLED are outside the prover's reach.
- The properties of the runs that end in a violation.

## 5. Findings and observations

Runs that end in a violation state what a document, a comment or a test says and
the code does not do; details and quotations are in `PROJECT.json`.

- `seq_batcher` (`PersistedOffsetIsCovered`): the batcher publishes the offset
  before it has added the numbers of that offset; a flush in between persists an
  offset ahead of the numbers, and a crash then makes a number come twice.
- `invites_cancel` (`CancelConverges`): a cancel that arrives while the join is
  applied is dropped by the projector; the invitee stays a member.
- `alias_settled` (`SettledAliasIsActive`): the old alias is deactivated, the
  answer is an error, and asking for that alias again reports success and repairs
  nothing.
- `bbolt_renewal` (`RenewedRowsStay`): the cleaner deletes a row that was renewed,
  by the entry of its earlier expiration.
- `query_errors` (`FirstErrorIsReported`): a row that times out in the sender while
  the router writes to a slow client is dropped, its error reaches neither the
  error channel nor, once the query function has sent its last row, anybody else:
  the client gets a response that ends like a complete one.
- `blob_order` (`DownloadKeepsOrder`): the number of a chunk is a little-endian
  clustering column (`iblobstoragestg/impl.go:109`) and the drivers sort bytes, so a
  bucket with numbers on both sides of 256 is downloaded in another order than it was
  written, with the right size and without an error. 256 full chunks are 26 MB and the
  default limit is 20 MB, but a chunk is what one `reader.Read` of the request's body
  returns (`:60`), often less than the 102,400 bytes it asks for, so fewer bytes may make
  256 chunks. The run has a byte of three values.
- `blob_body` (`CompletedIsTheBody`): an error that the reader returns together with
  its last bytes is overwritten (`iblobstoragestg/impl.go:64`, `:72`), and if the next
  `Read` answers end of file the truncated BLOB is `Completed` and the client is told so.
  What the upload did get stays readable all the same (`RepliedIsReadable`).
- `bootstrap_restart` (`RestartSucceeds`): a process that stops between `PutPlog`
  and `Apply` of an application workspace cannot be started again.

Observations that no property states, because no document promises the contrary
or because the model's premises exclude them:

- A VVM that cannot renew deletes its record before its services end
  (`ielections/impl.go:133`), so a successor may start next to it for up to a
  quarter of the leadership duration. This window is why the command processor is
  modelled with two processes.
- `cleanup()` of the sequencer waits for a flusher that retries on a broken
  storage for ever (`isequencer/impl.go:461`).
- `FlushBundles` applies storages in map order
  (`impl_bundled_host_state.go:137`): the batch with the position may be written
  before a mail is sent, and an error then loses the mail. A projector with two
  buffered storages would be needed in the model.
- A command that fails after its event reached the PLog does not announce it, and
  recovery announces nothing (`command/impl.go:934`): projectors see the event with
  the next one. `AnnouncedIsSaved` promises only what is announced.
- `Subscribe` and `Unsubscribe` of one key of one channel at once may reach the
  broker's lock in one order and the projection's in the other
  (`in10nmem/impl.go:121`, `:182`): the channel counts as subscribed and is never
  notified. The model's client waits for an answer before its next request.
- An `Update` after the broker's end fills the queue and blocks
  (`in10nmem/impl.go:366`); the VVM stops its processors first.
- A reader of the cache may put an older value over a newer one
  (`istoragecache/impl.go:331`): the entry is stale until the next write.
- Two goroutines that insert one key into bbolt may both be told ok
  (`istorage/bbolt/impl.go:123-160`: check and write are two transactions);
  `CompareAndDelete` and `PutBatch` do not apply `safeKey` (`:214`, `:350`).
- A start that stops between `Apply` and `PutWlog` of an application workspace leaves
  the workspace without the WLog row of its first event (`wlogs` in `Bootstrap`): the
  next start finds the descriptor and skips the workspace
  (`cluster/impl_deployapp.go:167-175`).
- The workspace descriptor is read before the partition is recovered
  (`command/impl.go:409`): a workspace whose creation is the last, unapplied event of a
  PLog is refused as not initialized until some command gets as far as the recovery.
- A replayed deactivation goes by the workspace's name and deactivates the
  `WorkspaceID` of a successor (`sys/workspace/impl_deactivate.go:260`); an owner
  is never told when `InitializeWorkspace` fails to update the descriptor
  (`impl.go:391`, `:409`, `:434`); a replay of it builds the workspace again.
- A deactivated login stops the alias projector of its application workspace,
  which retries (`registry/impl_setloginalias.go:99`).
- `appparts/impl.go:63`, the retry policy of `WaitForBorrow`, tests the named result
  `err`, which is nil there, and not `opErr`: it retries until the context ends also
  for a partition that does not exist, where `appparts/interface.go:66` says "If
  partition not exist, returns error".
- The sender of API v2 waits for room to report a second error
  (`query2/types.go:379`), and the channel of one error is read only after the rows
  processor is closed: a row that fails and an order that fails after it, at the
  close, keep the query processor for ever, however patient the client.
  `ProcessorIsFreed` excludes exactly this state (`SecondErrorWaits`); without the
  exclusion TLC reaches it. API v1 drops the second error.
- A handler that panics after its first response is out, or after the client has
  left, blocks on the unbuffered `handlerPanic` (`bus/impl.go:68`), whose only
  reader has gone.

## 6. What is not modelled

- **Content**: codecs, validation, schemas, authorization, formatting. They are
  functions; a test reaches them. The models keep what a step reads and writes.
  This is most of the repository's code: the parser and the application
  definitions, what the operators of a query compute, the routes, the value and key builders of
  `state` and `sys/storages`, `istructsmem`'s row types, and the command line
  tools have no state two actors could share.
- **Of a request**: several requests at once (they share the processors' queue and
  nothing else), single objects as results, queries without a result, limits and
  filters, a handler that panics, the end of the VVM while a request runs, the
  limiter of queries per workspace, `StreamEvents`.
- **App partitions, schedulers**: pools of engines in channels under one mutex; one
  goroutine per job. Each is small; what remains of them after the locks is close
  to what Go's channels promise.
- **Rates, control loop**: token buckets under one mutex are sequential; the
  control loop is used by the unfinished `cmd/edger` only.
- **Errors after the PLog write in `logEventAndCUDs`**: the callbacks it gets
  cannot fail.
- **Two processes with one IP**: the record's value is the IP; the deployment
  runs one VVM per host, so every VVM has its own value in the model.
- **A second caller of the elections of one VVM**: the VVM calls them from one
  goroutine at a time. `AcquireLeadership` tests `isFinalized` before it stores the
  leadership (`ielections/impl.go:23`); a cleanup between the two needs such a
  caller.
- **Heartbeats and expiry of notification channels**: a heartbeat is an `Update` of
  a fixed key; expiry ends a watch earlier.
- **TTL in the storage cache; Cassandra and DynamoDB drivers**: the drivers
  translate calls for databases outside the repository.
- **Passwords, emails, verification codes, templates, subjects of a deactivated
  workspace**: single commands or data.

## 7. Plan

Done: the command processor, its logs, the sequencer, elections and
orchestration; the broker with its clients, the actualizer, the storage cache, the
bbolt driver, BLOBs, the three sagas, the bootstrap and a request for rows, with the proofs of
section 4. What would add most next, in this order:

1. A projector with two buffered storages in `AsyncActualizer`.
2. `AppParts`: pools of engines and the redeployment of actualizers and
   schedulers while engines are borrowed; several requests over `QueryRequest` with
   the limiter of the router.
3. TTL in `StorageCache`, over `BboltStorage` in place of the plain storage.
