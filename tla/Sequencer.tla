----------------------------- MODULE Sequencer -----------------------------
(***************************************************************************)
(* The sequencer of one application partition: pkg/isequencer on top of    *)
(* pkg/appparts/internal/seqstorage.                                       *)
(*                                                                         *)
(* Its client (the command processor, by the contract of interface.go:     *)
(* Start, Next..., Flush or Actualize) runs in one goroutine.  Next to it  *)
(* run the flusher, which persists numbers in the background, and the      *)
(* actualizer, which catches up with the partition's log after a start or  *)
(* a failed transaction.  cleanup() stops both.  The process may die at    *)
(* any moment; only the log, the persisted numbers and the persisted       *)
(* offset survive.                                                         *)
(*                                                                         *)
(* Maps from NumberKey to Number are total functions in which 0 stands for *)
(* an absent key: no number is ever 0.                                     *)
(***************************************************************************)
EXTENDS Integers, FiniteSets, TLC

CONSTANTS
    SeqWSIDs, SeqIDs,
    NoWS,                   \* no transaction is in progress: currentWSID = 0
    MaxNumUnflushedValues,  \* Params.MaxNumUnflushedValues
    LRUCacheSize,           \* Params.LRUCacheSize
    InitialValue,           \* Params.SeqTypes: the first number of a sequence
    FirstOffset,            \* the offset an untouched storage answers with
    LastOffset, MaxNumber    \* bounds of the model

ASSUME SequencerConstants ==
    /\ NoWS \notin SeqWSIDs
    /\ MaxNumUnflushedValues \in Nat \ {0} /\ LRUCacheSize \in Nat \ {0}
    /\ FirstOffset \in Nat /\ LastOffset \in Nat
    /\ InitialValue \in Nat \ {0} /\ MaxNumber \in Nat

Keys    == SeqWSIDs \X SeqIDs
LogOffsets == FirstOffset .. LastOffset
Numbers == InitialValue .. MaxNumber
Empty   == [k \in Keys |-> 0]

VARIABLES
    \* durable
    eventLog,           \* [Offsets -> SUBSET (Keys \X Numbers)], {} = no event
    numbers,            \* the persisted number of each key
    persistedOffset,    \* the persisted next PLog offset
    seqStorage,         \* "ok", "broken", "recovered": the sequence storage
    \* fields of the sequencer
    nextOffset, cache, inproc, toBeFlushed, toBeFlushedOffset,
    flusherSig,         \* the buffered channel of size 1 holds a signal
    \* goroutines
    client,             \* [pc, ws, event]
    flusher,            \* [pc, values, offset]
    flusherCancelled,   \* flusherCtx
    actualizer,         \* "off" or where the actualizer is
    actualizerCancelled,\* actualizerCtx
    cleanup             \* "none" or where cleanup() is

durable    == <<eventLog, numbers, persistedOffset>>
unflushed  == <<toBeFlushed, toBeFlushedOffset>>
flusherVars == <<flusher, flusherCancelled>>
actualizerVars == <<actualizer, actualizerCancelled>>
sequencerVars ==
    <<eventLog, numbers, persistedOffset, seqStorage, nextOffset, cache, inproc,
      toBeFlushed, toBeFlushedOffset, flusherSig, client, flusher,
      flusherCancelled, actualizer, actualizerCancelled, cleanup>>

NoTransaction == [pc |-> "idle", ws |-> NoWS, event |-> {}]
NoFlusher     == [pc |-> "off", values |-> Empty, offset |-> 0]

\* maps.Copy(f, g): the keys present in g replace those of f.
Overwrite(f, g) == [k \in Keys |-> IF g[k] # 0 THEN g[k] ELSE f[k]]
Present(f) == {k \in Keys : f[k] # 0}

actualizerInProgress == actualizer # "off"
StorageWorks == seqStorage # "broken"

(***************************************************************************)
(* New(): everything in memory is fresh and Actualize() has just been      *)
(* called, so the first actualizer is about to stop a flusher that was     *)
(* never started.                                                          *)
(***************************************************************************)
InitMemory ==
    /\ nextOffset = 0
    /\ cache = Empty /\ inproc = Empty
    /\ toBeFlushed = Empty /\ toBeFlushedOffset = 0
    /\ flusherSig = FALSE
    /\ client = NoTransaction
    /\ flusher = NoFlusher /\ flusherCancelled = FALSE
    /\ actualizer = "stopFlusher" /\ actualizerCancelled = FALSE
    /\ cleanup = "none"

SequencerInit ==
    /\ eventLog = [o \in LogOffsets |-> {}]
    /\ numbers = Empty /\ persistedOffset = FirstOffset
    /\ seqStorage = "ok"
    /\ InitMemory

-----------------------------------------------------------------------------
(***************************************************************************)
(* The client: sequencing transactions.                                    *)
(***************************************************************************)

TooManyUnflushed == Cardinality(Present(toBeFlushed)) > MaxNumUnflushedValues

\* Start() of a workspace succeeds and answers nextOffset.
Start(w) ==
    /\ client.pc = "idle" /\ cleanup = "none"
    /\ ~actualizerInProgress /\ ~TooManyUnflushed
    /\ nextOffset <= LastOffset
    /\ client' = [pc |-> "tx", ws |-> w, event |-> {}]
    /\ UNCHANGED <<durable, seqStorage, nextOffset, cache, inproc, unflushed,
                   flusherSig, flusherVars, actualizerVars, cleanup>>

\* Start() answers (0, false): the flusher lags behind and is woken up.
StartRefused ==
    /\ client.pc = "idle" /\ cleanup = "none"
    /\ ~actualizerInProgress /\ TooManyUnflushed
    /\ flusherSig' = TRUE
    /\ UNCHANGED <<durable, seqStorage, nextOffset, cache, inproc, unflushed,
                   client, flusherVars, actualizerVars, cleanup>>

\* The last number of the sequence: cache, inproc, toBeFlushed, storage.
LastNumber(k) ==
    IF cache[k] # 0            THEN cache[k]
    ELSE IF inproc[k] # 0      THEN inproc[k]
    ELSE IF toBeFlushed[k] # 0 THEN toBeFlushed[k]
    ELSE IF numbers[k] # 0     THEN numbers[k]
    ELSE InitialValue - 1

\* The cache after Add(k, n): a full cache evicts an entry, here any of them.
CacheAfterAdd(k, n) ==
    LET added == [cache EXCEPT ![k] = n]
    IN  IF Cardinality(Present(added)) <= LRUCacheSize THEN {added}
        ELSE {[added EXCEPT ![j] = 0] : j \in Present(added) \ {k}}

NeedsStorage(k) == cache[k] = 0 /\ inproc[k] = 0 /\ toBeFlushed[k] = 0

\* Next(): issues the next number of one of the workspace's sequences.  Reading
\* toBeFlushed and the storage is one step: a key missing from toBeFlushed can
\* only come back through the client's own Flush().
NextNumber(k) ==
    /\ client.pc = "tx" /\ cleanup = "none" /\ k[1] = client.ws
    /\ NeedsStorage(k) => StorageWorks
    /\ LET n == LastNumber(k) + 1
       IN  /\ n <= MaxNumber
           /\ cache' \in CacheAfterAdd(k, n)
           /\ inproc' = [inproc EXCEPT ![k] = n]
           /\ client' = [client EXCEPT !.event = @ \union {<<k, n>>}]
    /\ UNCHANGED <<durable, seqStorage, nextOffset, unflushed, flusherSig,
                   flusherVars, actualizerVars, cleanup>>

\* The client writes the event of the transaction into the log ...
PutEvent ==
    /\ client.pc = "tx" /\ client.event # {} /\ cleanup = "none"
    /\ eventLog' = [eventLog EXCEPT ![nextOffset] = client.event]
    /\ client' = [client EXCEPT !.pc = "written"]
    /\ UNCHANGED <<numbers, persistedOffset, seqStorage, nextOffset, cache, inproc,
                   unflushed, flusherSig, flusherVars, actualizerVars, cleanup>>

\* ... or gets an error, although the event may have been stored.
PutEventFails ==
    /\ client.pc = "tx" /\ client.event # {} /\ cleanup = "none"
    /\ \/ eventLog' = eventLog
       \/ eventLog' = [eventLog EXCEPT ![nextOffset] = client.event]
    /\ client' = [client EXCEPT !.pc = "failed"]
    /\ UNCHANGED <<numbers, persistedOffset, seqStorage, nextOffset, cache, inproc,
                   unflushed, flusherSig, flusherVars, actualizerVars, cleanup>>

\* Mutated form of Flush: the flusher is not woken up.
FlushNoSignal ==
    /\ client.pc = "written" /\ cleanup = "none"
    /\ toBeFlushed' = Overwrite(toBeFlushed, inproc)
    /\ toBeFlushedOffset' = nextOffset
    /\ inproc' = Empty
    /\ nextOffset' = nextOffset + 1
    /\ client' = NoTransaction
    /\ UNCHANGED <<durable, seqStorage, cache, flusherSig, flusherVars,
                   actualizerVars, cleanup>>

\* Flush(): hands the numbers over to the flusher and closes the transaction.
Flush ==
    /\ client.pc = "written" /\ cleanup = "none"
    /\ toBeFlushed' = Overwrite(toBeFlushed, inproc)
    /\ toBeFlushedOffset' = nextOffset
    /\ inproc' = Empty
    /\ nextOffset' = nextOffset + 1
    /\ flusherSig' = TRUE
    /\ client' = NoTransaction
    /\ UNCHANGED <<durable, seqStorage, cache, flusherVars, actualizerVars, cleanup>>

\* Mutated form of Actualize: the cache is not purged.
ActualizeNoPurge ==
    /\ client.pc \in {"tx", "failed"} /\ cleanup = "none"
    /\ ~actualizerInProgress
    /\ inproc' = Empty
    /\ client' = NoTransaction
    /\ actualizer' = "stopFlusher" /\ actualizerCancelled' = FALSE
    /\ UNCHANGED <<durable, seqStorage, nextOffset, cache, unflushed, flusherSig,
                   flusherVars, cleanup>>

\* Actualize(): abandons the transaction and starts the actualizer, which first
\* cancels the flusher.  toBeFlushed is kept until the flusher is gone.
Actualize ==
    /\ client.pc \in {"tx", "failed"} /\ cleanup = "none"
    /\ ~actualizerInProgress
    /\ inproc' = Empty /\ cache' = Empty
    /\ client' = NoTransaction
    /\ actualizer' = "stopFlusher" /\ actualizerCancelled' = FALSE
    /\ UNCHANGED <<durable, seqStorage, nextOffset, unflushed, flusherSig,
                   flusherVars, cleanup>>

-----------------------------------------------------------------------------
(***************************************************************************)
(* The flusher goroutine.  It is parked in `wait', holds a signal in       *)
(* `copy', and writes what it copied in `numbers' and `offset' (the two    *)
(* steps of WriteValuesAndNextPLogOffset), then drops what it wrote.  Its  *)
(* retries run under cleanupCtx, which cleanup() cancels only when the     *)
(* flusher is gone, so nothing interrupts them.                            *)
(***************************************************************************)
FlusherStops ==
    /\ flusher.pc = "wait" /\ flusherCancelled
    /\ flusher' = NoFlusher
    /\ UNCHANGED <<durable, seqStorage, nextOffset, cache, inproc, unflushed,
                   flusherSig, client, flusherCancelled, actualizerVars, cleanup>>

FlusherGetsSignal ==
    /\ flusher.pc = "wait" /\ flusherSig
    /\ flusherSig' = FALSE
    /\ flusher' = [flusher EXCEPT !.pc = "copy"]
    /\ UNCHANGED <<durable, seqStorage, nextOffset, cache, inproc, unflushed,
                   client, flusherCancelled, actualizerVars, cleanup>>

\* The values and the offset are copied under one lock; offset 0 means there is
\* nothing to flush yet.
FlusherCopies ==
    /\ flusher.pc = "copy"
    /\ flusher' = IF toBeFlushedOffset = 0
                  THEN [flusher EXCEPT !.pc = "wait"]
                  ELSE [pc |-> "numbers", values |-> toBeFlushed,
                        offset |-> toBeFlushedOffset]
    /\ UNCHANGED <<durable, seqStorage, nextOffset, cache, inproc, unflushed,
                   flusherSig, client, flusherCancelled, actualizerVars, cleanup>>

FlusherPutsNumbers ==
    /\ flusher.pc = "numbers" /\ StorageWorks
    /\ numbers' = Overwrite(numbers, flusher.values)
    /\ flusher' = [flusher EXCEPT !.pc = "offset"]
    /\ UNCHANGED <<eventLog, persistedOffset, seqStorage, nextOffset, cache, inproc,
                   unflushed, flusherSig, client, flusherCancelled,
                   actualizerVars, cleanup>>

FlusherPutsOffset ==
    /\ flusher.pc = "offset" /\ StorageWorks
    /\ persistedOffset' = flusher.offset
    /\ flusher' = [flusher EXCEPT !.pc = "remove"]
    /\ UNCHANGED <<eventLog, numbers, seqStorage, nextOffset, cache, inproc, unflushed,
                   flusherSig, client, flusherCancelled, actualizerVars, cleanup>>

\* PutPLogOffset failed: the retry starts again with the numbers.
FlusherRetries ==
    /\ flusher.pc = "offset" /\ ~StorageWorks
    /\ flusher' = [flusher EXCEPT !.pc = "numbers"]
    /\ UNCHANGED <<durable, seqStorage, nextOffset, cache, inproc, unflushed,
                   flusherSig, client, flusherCancelled, actualizerVars, cleanup>>

\* Only what has not changed since it was copied is dropped.
FlusherRemoves ==
    /\ flusher.pc = "remove"
    /\ toBeFlushed' = [k \in Keys |-> IF toBeFlushed[k] = flusher.values[k]
                                      THEN 0 ELSE toBeFlushed[k]]
    /\ flusher' = [NoFlusher EXCEPT !.pc = "wait"]
    /\ UNCHANGED <<durable, seqStorage, nextOffset, cache, inproc, toBeFlushedOffset,
                   flusherSig, client, flusherCancelled, actualizerVars, cleanup>>

FlusherStep ==
    \/ FlusherStops \/ FlusherGetsSignal \/ FlusherCopies \/ FlusherPutsNumbers
    \/ FlusherPutsOffset \/ FlusherRetries \/ FlusherRemoves

-----------------------------------------------------------------------------
(***************************************************************************)
(* The actualizer goroutine.  A failed read of the storage or of the log   *)
(* is retried from where it was: nextOffset is the position of the scan.   *)
(***************************************************************************)
\* stopFlusher() cancels the flusher's context ...
ActualizerCancelsFlusher ==
    /\ actualizer = "stopFlusher"
    /\ flusherCancelled' = TRUE
    /\ actualizer' = "waitFlusher"
    /\ UNCHANGED <<durable, seqStorage, nextOffset, cache, inproc, unflushed,
                   flusherSig, client, flusher, actualizerCancelled, cleanup>>

\* Mutated form of ActualizerRestartsFlusher: a stale signal survives.
ActualizerRestartsFlusherNoDrain ==
    /\ actualizer = "waitFlusher" /\ flusher.pc = "off"
    /\ toBeFlushed' = Empty /\ toBeFlushedOffset' = 0
    /\ flusher' = [NoFlusher EXCEPT !.pc = "wait"] /\ flusherCancelled' = FALSE
    /\ actualizer' = "readOffset"
    /\ UNCHANGED <<durable, seqStorage, nextOffset, cache, inproc, flusherSig,
                   client, actualizerCancelled, cleanup>>

\* ... and waits for it, drains the signal, forgets what was to be flushed and
\* starts a new flusher.
ActualizerRestartsFlusher ==
    /\ actualizer = "waitFlusher" /\ flusher.pc = "off"
    /\ flusherSig' = FALSE
    /\ toBeFlushed' = Empty /\ toBeFlushedOffset' = 0
    /\ flusher' = [NoFlusher EXCEPT !.pc = "wait"] /\ flusherCancelled' = FALSE
    /\ actualizer' = "readOffset"
    /\ UNCHANGED <<durable, seqStorage, nextOffset, cache, inproc, client,
                   actualizerCancelled, cleanup>>

\* The scan begins at the persisted offset.
ActualizerReadsOffset ==
    /\ actualizer = "readOffset" /\ ~actualizerCancelled /\ StorageWorks
    /\ nextOffset' = persistedOffset
    /\ actualizer' = "scan"
    /\ UNCHANGED <<durable, seqStorage, cache, inproc, unflushed, flusherSig, client,
                   flusherVars, actualizerCancelled, cleanup>>

ReadEvent(o) == IF o \in LogOffsets THEN eventLog[o] ELSE {}

\* The highest number the event carries for each key, 0 for keys it does not use.
MaxValues(event) ==
    [k \in Keys |->
        IF \E n \in Numbers : <<k, n>> \in event
        THEN CHOOSE n \in Numbers : /\ <<k, n>> \in event
                                    /\ \A m \in Numbers : <<k, m>> \in event => m <= n
        ELSE 0]

BatcherOverflow == Cardinality(Present(toBeFlushed)) >= MaxNumUnflushedValues

\* Mutated form of BatcherWaits: the flusher is not woken up.
BatcherWaitsNoSignal ==
    /\ actualizer = "scan" /\ ReadEvent(nextOffset) # {} /\ BatcherOverflow
    /\ UNCHANGED sequencerVars

\* batcher(): too many unflushed values, wake the flusher up and sleep.
BatcherWaits ==
    /\ actualizer = "scan" /\ ReadEvent(nextOffset) # {} /\ BatcherOverflow
    /\ flusherSig' = TRUE
    /\ UNCHANGED <<durable, seqStorage, nextOffset, cache, inproc, unflushed, client,
                   flusherVars, actualizerVars, cleanup>>

\* batcher(): first nextOffset and toBeFlushedOffset move past the event ...
BatcherMovesOffset ==
    /\ actualizer = "scan" /\ ReadEvent(nextOffset) # {} /\ ~BatcherOverflow
    /\ nextOffset' = nextOffset + 1
    /\ toBeFlushedOffset' = nextOffset + 1
    /\ actualizer' = "values"
    /\ UNCHANGED <<durable, seqStorage, cache, inproc, toBeFlushed, flusherSig, client,
                   flusherVars, actualizerCancelled, cleanup>>

\* ... and then, under the lock again, its values are added.
BatcherAddsValues ==
    /\ actualizer = "values"
    /\ toBeFlushed' = Overwrite(toBeFlushed, MaxValues(ReadEvent(nextOffset - 1)))
    /\ actualizer' = "scan"
    /\ UNCHANGED <<durable, seqStorage, nextOffset, cache, inproc, toBeFlushedOffset,
                   flusherSig, client, flusherVars, actualizerCancelled, cleanup>>

\* The end of the log is reached.
ActualizerEnds ==
    /\ actualizer = "scan" /\ ReadEvent(nextOffset) = {}
    /\ actualizer' = "off"
    /\ UNCHANGED <<durable, seqStorage, nextOffset, cache, inproc, unflushed,
                   flusherSig, client, flusherVars, actualizerCancelled, cleanup>>

\* actualizerCtx is cancelled: noticed by the retries and by a waiting batcher.
ActualizerStops ==
    /\ actualizer \in {"readOffset", "scan"} /\ actualizerCancelled
    /\ actualizer' = "off"
    /\ UNCHANGED <<durable, seqStorage, nextOffset, cache, inproc, unflushed,
                   flusherSig, client, flusherVars, actualizerCancelled, cleanup>>

ActualizerStep ==
    \/ ActualizerCancelsFlusher \/ ActualizerRestartsFlusher
    \/ ActualizerReadsOffset \/ BatcherWaits \/ BatcherMovesOffset
    \/ BatcherAddsValues \/ ActualizerEnds \/ ActualizerStops

-----------------------------------------------------------------------------
(***************************************************************************)
(* cleanup(), called when the client is between two calls.                 *)
(***************************************************************************)
CleanupBegins ==
    /\ cleanup = "none"
    /\ IF actualizerInProgress
       THEN actualizerCancelled' = TRUE /\ cleanup' = "waitActualizer"
       ELSE UNCHANGED actualizerCancelled /\ cleanup' = "stopFlusher"
    /\ UNCHANGED <<durable, seqStorage, nextOffset, cache, inproc, unflushed,
                   flusherSig, client, flusherVars, actualizer>>

CleanupAwaitsActualizer ==
    /\ cleanup = "waitActualizer" /\ ~actualizerInProgress
    /\ cleanup' = "stopFlusher"
    /\ UNCHANGED <<durable, seqStorage, nextOffset, cache, inproc, unflushed,
                   flusherSig, client, flusherVars, actualizerVars>>

\* Mutated form of CleanupCancelsFlusher: the flusher is not cancelled.
CleanupForgetsFlusher ==
    /\ cleanup = "stopFlusher"
    /\ cleanup' = "waitFlusher"
    /\ UNCHANGED <<durable, seqStorage, nextOffset, cache, inproc, unflushed,
                   flusherSig, client, flusherVars, actualizerVars>>

CleanupCancelsFlusher ==
    /\ cleanup = "stopFlusher"
    /\ flusherCancelled' = TRUE
    /\ cleanup' = "waitFlusher"
    /\ UNCHANGED <<durable, seqStorage, nextOffset, cache, inproc, unflushed,
                   flusherSig, client, flusher, actualizerVars>>

\* The flusher is gone: drain its signal, cancel cleanupCtx, close the transaction.
CleanupEnds ==
    /\ cleanup = "waitFlusher" /\ flusher.pc = "off"
    /\ flusherSig' = FALSE
    /\ client' = [client EXCEPT !.pc = "idle", !.ws = NoWS]
    /\ cleanup' = "done"
    /\ UNCHANGED <<durable, seqStorage, nextOffset, cache, inproc, unflushed,
                   flusherVars, actualizerVars>>

CleanupStep ==
    CleanupAwaitsActualizer \/ CleanupCancelsFlusher \/ CleanupEnds

-----------------------------------------------------------------------------
\* The process dies, or has cleaned up, and New() makes another sequencer.
Restart ==
    /\ nextOffset' = 0
    /\ cache' = Empty /\ inproc' = Empty
    /\ toBeFlushed' = Empty /\ toBeFlushedOffset' = 0
    /\ flusherSig' = FALSE
    /\ client' = NoTransaction
    /\ flusher' = NoFlusher /\ flusherCancelled' = FALSE
    /\ actualizer' = "stopFlusher" /\ actualizerCancelled' = FALSE
    /\ cleanup' = "none"
    /\ UNCHANGED <<durable, seqStorage>>

StorageBreaks ==
    /\ seqStorage = "ok" /\ seqStorage' = "broken"
    /\ UNCHANGED <<durable, nextOffset, cache, inproc, unflushed, flusherSig,
                   client, flusherVars, actualizerVars, cleanup>>

StorageRecovers ==
    /\ seqStorage = "broken" /\ seqStorage' = "recovered"
    /\ UNCHANGED <<durable, nextOffset, cache, inproc, unflushed, flusherSig,
                   client, flusherVars, actualizerVars, cleanup>>

\* A step of a process that is not killed.
SequencerStep ==
    \/ \E w \in SeqWSIDs : Start(w)
    \/ StartRefused
    \/ \E k \in Keys : NextNumber(k)
    \/ PutEvent \/ PutEventFails \/ Flush \/ Actualize
    \/ FlusherStep \/ ActualizerStep
    \/ CleanupBegins \/ CleanupStep
    \/ StorageBreaks \/ StorageRecovers

SequencerNext == SequencerStep \/ Restart

SequencerSpec == SequencerInit /\ [][SequencerNext]_sequencerVars

(***************************************************************************)
(* Fairness: goroutines run, a client that got its answer from the log     *)
(* closes its transaction.  Nothing obliges a client to begin one.         *)
(***************************************************************************)
SequencerFairness ==
    /\ WF_sequencerVars(FlusherStep) /\ WF_sequencerVars(ActualizerStep)
    /\ WF_sequencerVars(CleanupStep)
    /\ WF_sequencerVars(Flush) /\ WF_sequencerVars(client.pc = "failed" /\ Actualize)

\* The storage always recovers.
SequencerFairSpec ==
    /\ SequencerInit /\ [][SequencerStep]_sequencerVars
    /\ SequencerFairness /\ WF_sequencerVars(StorageRecovers)

-----------------------------------------------------------------------------
\* The numbers a key has in the log below an offset.
NumbersBelow(k, o) ==
    {n \in Numbers : \E p \in LogOffsets : p < o /\ <<k, n>> \in eventLog[p]}

\* The persistent state that the next start relies on: whoever has not been
\* scanned again (an event below the persisted offset) has its numbers
\* persisted.  WriteValuesAndNextPLogOffset writes the values before the offset
\* for this reason, Actualize() keeps toBeFlushed for this reason.
PersistedOffsetIsCovered ==
    \A k \in Keys : \A n \in NumbersBelow(k, persistedOffset) : n <= numbers[k]

\* Refinement: the log is the log of SequenceLog.
Log == INSTANCE SequenceLog
ImplementsSequenceLog == Log!Spec

\* Every actualization ends, also when the batcher has to wait for the flusher.
ActualizationEnds == actualizerInProgress ~> ~actualizerInProgress

\* cleanup() returns.
CleanupReturns == (cleanup # "none") ~> (cleanup = "done")

\* The numbers of a transaction that is flushed, and all that waits for the flusher
\* then, reach the storage without another call: no signal is lost.  Offset 0 is
\* "nothing to flush" to the flusher, so what is flushed at offset 0, the first
\* event of an untouched storage, waits for the next Flush.
FlushedNumbersArePersisted ==
    \A k \in Keys, n \in Numbers :
        (/\ client.pc = "written" /\ nextOffset # 0
         /\ <<k, n>> \in client.event \/ toBeFlushed[k] = n)
            ~> (numbers[k] >= n \/ actualizerInProgress \/ cleanup # "none")
=============================================================================
