-------------------------- MODULE SequencerProofs --------------------------
(***************************************************************************)
(* The log of a partition continues its sequences and the persisted        *)
(* offset is covered by the persisted numbers, for any workspaces,         *)
(* sequences, limits and sizes of the cache, over any crashes, failed      *)
(* transactions and storage errors, as long as the batcher need not wait   *)
(* for the flusher.                                                        *)
(***************************************************************************)
EXTENDS Sequencer, FiniteSetTheorems, TLAPS

-----------------------------------------------------------------------------
(* Types. *)

NumberMaps == [Keys -> Numbers \cup {0}]
Events == SUBSET (Keys \X Numbers)

SequencerTypeOK ==
    /\ eventLog \in [LogOffsets -> Events]
    /\ numbers \in NumberMaps /\ cache \in NumberMaps
    /\ inproc \in NumberMaps /\ toBeFlushed \in NumberMaps
    /\ persistedOffset \in Nat /\ nextOffset \in Nat /\ toBeFlushedOffset \in Nat
    /\ seqStorage \in {"ok", "broken", "recovered"}
    /\ flusherSig \in BOOLEAN /\ flusherCancelled \in BOOLEAN
    /\ actualizerCancelled \in BOOLEAN
    /\ client \in [pc : {"idle", "tx", "written", "failed"},
                   ws : SeqWSIDs \cup {NoWS}, event : Events]
    /\ flusher \in [pc : {"off", "wait", "copy", "numbers", "offset", "remove"},
                    values : NumberMaps, offset : Nat]
    /\ actualizer \in {"off", "stopFlusher", "waitFlusher", "readOffset", "scan", "values"}
    /\ cleanup \in {"none", "waitActualizer", "stopFlusher", "waitFlusher", "done"}

-----------------------------------------------------------------------------
(***************************************************************************)
(* The log, as a value: l is a map from offsets to events.                 *)
(***************************************************************************)

\* No event below the offset is missing.
Full(l, o) == \A p \in LogOffsets : p < o => l[p] # {}

\* The numbers of a sequence below an offset: NumbersBelow of a given log.
Below(l, k, o) == {n \in Numbers : \E p \in LogOffsets : p < o /\ <<k, n>> \in l[p]}

\* A number that no event of the sequence below the offset exceeds.
Covers(l, k, n, o) == \A m \in Below(l, k, o) : m <= n

UsedNumbers(l, k) == {n \in Numbers : \E p \in LogOffsets : <<k, n>> \in l[p]}

\* A sequence's greatest number in an event.
Greatest(k, n, e) ==
    n \in Numbers /\ <<k, n>> \in e /\ \A m \in Numbers : <<k, m>> \in e => m <= n

HasGreatest(e) ==
    \A k \in Keys, m \in Numbers : <<k, m>> \in e => \E n \in Numbers : Greatest(k, n, e)

\* A log without holes, whose numbers grow with the offset and skip none.
Orderly(l) ==
    /\ \A o \in LogOffsets : HasGreatest(l[o])
    /\ \A o \in LogOffsets : l[o] # {} => Full(l, o)
    /\ \A k \in Keys, o \in LogOffsets, n \in Numbers :
          <<k, n>> \in l[o] => \A m \in Below(l, k, o) : m < n
    /\ \A k \in Keys : \A n \in UsedNumbers(l, k), m \in Numbers :
          m < n => m \in UsedNumbers(l, k)

\* An event continues the sequences of the log below an offset.
ContinuesAt(l, o, e) ==
    \A k \in Keys, n \in Numbers : <<k, n>> \in e =>
        /\ \A m \in Below(l, k, o) : m < n
        /\ \A m \in Numbers : m < n => <<k, m>> \in e \/ m \in Below(l, k, o)

-----------------------------------------------------------------------------
(* The invariant. *)

\* The number the storage will have: what waits to be flushed replaces it.
Effective(waiting, persisted) == IF waiting # 0 THEN waiting ELSE persisted

\* The storage and what is on its way there.
StorageInv ==
    /\ Full(eventLog, persistedOffset) /\ FirstOffset <= persistedOffset
    /\ Full(eventLog, toBeFlushedOffset) /\ toBeFlushedOffset <= nextOffset
    /\ toBeFlushedOffset # 0 => persistedOffset <= toBeFlushedOffset
    /\ \A k \in Keys :
          /\ Covers(eventLog, k, numbers[k], persistedOffset)
          /\ numbers[k] \in UsedNumbers(eventLog, k) \cup {0}
          /\ toBeFlushed[k] \in UsedNumbers(eventLog, k) \cup {0}
          /\ actualizer # "values" =>
                Covers(eventLog, k, Effective(toBeFlushed[k], numbers[k]), toBeFlushedOffset)

\* The flusher's copy covers its offset, and what it has not dropped yet is
\* still there or has grown.
FlusherInv ==
    flusher.pc \in {"numbers", "offset", "remove"} =>
        /\ persistedOffset <= flusher.offset /\ flusher.offset <= toBeFlushedOffset
        /\ \A k \in Keys :
              /\ flusher.values[k] \in UsedNumbers(eventLog, k) \cup {0}
              /\ flusher.values[k] <= toBeFlushed[k]
              /\ Covers(eventLog, k, Effective(flusher.values[k], numbers[k]), flusher.offset)
              /\ flusher.pc # "numbers" /\ flusher.values[k] # 0 =>
                    numbers[k] = flusher.values[k]

\* The actualizer works alone: the client is idle, and from the restart of the
\* flusher on nobody wakes the flusher up.
ActualizerInv ==
    /\ actualizerInProgress =>
          client = NoTransaction /\ cache = Empty /\ inproc = Empty
    /\ actualizerInProgress => cleanup \in {"none", "waitActualizer"}
    /\ actualizerCancelled => cleanup # "none"
    /\ actualizer \in {"readOffset", "scan", "values"} =>
          flusher.pc = "wait" /\ ~flusherSig /\ ~flusherCancelled
    /\ actualizer = "readOffset" => toBeFlushed = Empty /\ toBeFlushedOffset = 0

\* The scan has collected the numbers of the events it has passed.
ScanInv ==
    /\ actualizer = "scan" =>
          /\ Full(eventLog, nextOffset) /\ persistedOffset <= nextOffset
          /\ \A k \in Keys :
                Covers(eventLog, k, Effective(toBeFlushed[k], numbers[k]), nextOffset)
    /\ actualizer = "values" =>
          /\ Full(eventLog, nextOffset) /\ persistedOffset <= nextOffset - 1
          /\ nextOffset - 1 \in LogOffsets
          /\ \A k \in Keys :
                Covers(eventLog, k, Effective(toBeFlushed[k], numbers[k]), nextOffset - 1)

\* Between two actualizations the client knows the end of the log ...
ClientKnows == cleanup = "none" /\ ~actualizerInProgress

ClientInv ==
    ClientKnows =>
        /\ Full(eventLog, nextOffset) /\ persistedOffset <= nextOffset
        /\ \A p \in LogOffsets : nextOffset < p => eventLog[p] = {}
        /\ client.pc = "idle" => client = NoTransaction
        /\ client.pc # "idle" => nextOffset \in LogOffsets
        /\ client.pc \in {"idle", "tx"} /\ nextOffset \in LogOffsets => eventLog[nextOffset] = {}
        /\ client.pc \in {"written", "failed"} => client.event # {}
        /\ client.pc = "written" => eventLog[nextOffset] = client.event
        /\ client.pc = "failed" => eventLog[nextOffset] \in {{}, client.event}
        /\ \A k \in Keys : Covers(eventLog, k, Effective(toBeFlushed[k], numbers[k]), nextOffset)

\* ... the numbers of its transaction continue the log, inproc holds the last of
\* each sequence, and the cache knows the last number of a sequence, if any.
InprocInv ==
    ClientKnows =>
        /\ ContinuesAt(eventLog, nextOffset, client.event)
        /\ \A k \in Keys :
              IF inproc[k] = 0 THEN \A n \in Numbers : <<k, n>> \notin client.event
                               ELSE Greatest(k, inproc[k], client.event)

CacheInv ==
    ClientKnows => \A k \in Keys : cache[k] # 0 =>
        IF inproc[k] # 0 THEN cache[k] = inproc[k]
        ELSE cache[k] \in Below(eventLog, k, nextOffset) /\ Covers(eventLog, k, cache[k], nextOffset)

SequencerInv ==
    /\ SequencerTypeOK /\ Orderly(eventLog) /\ StorageInv /\ FlusherInv
    /\ ActualizerInv /\ ScanInv /\ ClientInv /\ InprocInv /\ CacheInv

-----------------------------------------------------------------------------
(* Facts about the bounds and the operators. *)

LEMMA Bounds ==
    /\ \A o \in LogOffsets : o \in Nat /\ FirstOffset <= o /\ o <= LastOffset
    /\ \A o \in Nat : FirstOffset <= o /\ o <= LastOffset => o \in LogOffsets
    /\ FirstOffset \in Nat /\ LastOffset \in Nat
BY SequencerConstants DEF SequencerConstants, LogOffsets

LEMMA NumberBounds ==
    /\ \A n \in Numbers : n \in Nat /\ n # 0 /\ InitialValue <= n /\ n <= MaxNumber
    /\ \A n \in Nat : InitialValue <= n /\ n <= MaxNumber => n \in Numbers
    /\ InitialValue \in Nat /\ InitialValue # 0
BY SequencerConstants DEF SequencerConstants, Numbers

LEMMA EmptyFacts == Empty \in NumberMaps /\ \A k \in Keys : Empty[k] = 0
BY DEF Empty, NumberMaps

LEMMA OverwriteFacts ==
    ASSUME NEW f \in NumberMaps, NEW g \in NumberMaps
    PROVE  /\ Overwrite(f, g) \in NumberMaps
           /\ \A k \in Keys : Overwrite(f, g)[k] = IF g[k] # 0 THEN g[k] ELSE f[k]
BY DEF Overwrite, NumberMaps

\* MaxValues finds the greatest number of each sequence.
LEMMA MaxValuesFacts ==
    ASSUME NEW e \in Events, HasGreatest(e)
    PROVE  /\ MaxValues(e) \in NumberMaps
           /\ \A k \in Keys :
                 IF MaxValues(e)[k] = 0 THEN \A m \in Numbers : <<k, m>> \notin e
                                        ELSE Greatest(k, MaxValues(e)[k], e)
<1> DEFINE max(k) == CHOOSE n \in Numbers : /\ <<k, n>> \in e
                                            /\ \A m \in Numbers : <<k, m>> \in e => m <= n
           v(k) == IF \E n \in Numbers : <<k, n>> \in e THEN max(k) ELSE 0
<1>1. ASSUME NEW k \in Keys
      PROVE  /\ v(k) \in Numbers \cup {0}
             /\ IF v(k) = 0 THEN \A m \in Numbers : <<k, m>> \notin e
                            ELSE Greatest(k, v(k), e)
  <2>1. CASE \E n \in Numbers : <<k, n>> \in e
    <3>1. \E n \in Numbers : <<k, n>> \in e /\ \A m \in Numbers : <<k, m>> \in e => m <= n
      BY <2>1 DEF HasGreatest, Greatest
    <3>2. /\ max(k) \in Numbers /\ <<k, max(k)>> \in e
          /\ \A m \in Numbers : <<k, m>> \in e => m <= max(k)
      BY <3>1
    <3>3. v(k) = max(k) /\ max(k) # 0  BY <2>1, <3>2, NumberBounds
    <3> HIDE DEF v, max
    <3> QED  BY <3>2, <3>3 DEF Greatest
  <2>2. CASE ~\E n \in Numbers : <<k, n>> \in e  BY <2>2
  <2> QED  BY <2>1, <2>2
<1>2. MaxValues(e) = [k \in Keys |-> v(k)]  BY DEF MaxValues
<1> HIDE DEF v
<1> QED  BY <1>1, <1>2 DEF NumberMaps

\* What is below an offset.
LEMMA BelowFacts ==
    ASSUME NEW l, NEW k \in Keys, NEW o \in Nat
    PROVE  /\ Below(l, k, o) \subseteq Numbers
           /\ Below(l, k, o) \subseteq UsedNumbers(l, k)
           /\ Below(l, k, 0) = {}
BY Bounds DEF Below, UsedNumbers

LEMMA Monotone ==
    ASSUME NEW l, NEW o \in Nat, NEW p \in Nat, p <= o
    PROVE  /\ \A k \in Keys : Below(l, k, p) \subseteq Below(l, k, o)
           /\ Full(l, o) => Full(l, p)
           /\ Full(l, 0)
BY Bounds DEF Below, Full

\* One more event.
LEMMA BelowNext ==
    ASSUME NEW l, NEW o \in LogOffsets
    PROVE  /\ \A k \in Keys : Below(l, k, o + 1) =
                  Below(l, k, o) \cup {n \in Numbers : <<k, n>> \in l[o]}
           /\ Full(l, o + 1) <=> Full(l, o) /\ l[o] # {}
<1>1. o \in Nat /\ \A p \in LogOffsets : p \in Nat /\ (p < o + 1 <=> p < o \/ p = o)
  BY Bounds
<1>2. Full(l, o + 1) <=> Full(l, o) /\ l[o] # {}  BY <1>1 DEF Full
<1>3. ASSUME NEW k \in Keys
      PROVE  Below(l, k, o + 1) = Below(l, k, o) \cup {n \in Numbers : <<k, n>> \in l[o]}
  BY <1>1 DEF Below
<1> QED  BY <1>2, <1>3

\* A used number is below the end of the log.
LEMMA UsedIsBelow ==
    ASSUME NEW l, NEW o \in Nat, \A p \in LogOffsets : o <= p => l[p] = {}
    PROVE  \A k \in Keys : UsedNumbers(l, k) = Below(l, k, o)
BY Bounds DEF UsedNumbers, Below

LEMMA CoversFacts ==
    ASSUME NEW l, NEW k \in Keys, NEW n \in Nat, NEW o \in Nat, Covers(l, k, n, o)
    PROVE  /\ \A p \in Nat : p <= o => Covers(l, k, n, p)
           /\ \A m \in Nat : n <= m => Covers(l, k, m, o)
<1>1. Below(l, k, o) \subseteq Nat  BY BelowFacts, NumberBounds
<1>2. ASSUME NEW p \in Nat, p <= o  PROVE Covers(l, k, n, p)
  <2>1. Below(l, k, p) \subseteq Below(l, k, o)  BY <1>2, Monotone
  <2> QED  BY <2>1 DEF Covers
<1>3. ASSUME NEW m \in Nat, n <= m  PROVE Covers(l, k, m, o)  BY <1>1, <1>3 DEF Covers
<1> QED  BY <1>2, <1>3

-----------------------------------------------------------------------------
(* An event is appended to the log. *)

\* l2 is l with the event e at o, and the same as l below o.
Appended(l, o, e, l2) ==
    /\ l2 \in [LogOffsets -> Events] /\ l2[o] = e
    /\ \A p \in LogOffsets : p # o => l2[p] = l[p]
    /\ \A p \in Nat : p <= o => (Full(l2, p) <=> Full(l, p))
    /\ \A k \in Keys, p \in Nat : p <= o => Below(l2, k, p) = Below(l, k, p)
    /\ \A k \in Keys, n, p \in Nat : p <= o => (Covers(l2, k, n, p) <=> Covers(l, k, n, p))
    /\ \A k \in Keys : UsedNumbers(l2, k) =
           UsedNumbers(l, k) \cup {n \in Numbers : <<k, n>> \in e}

LEMMA AppendFrame ==
    ASSUME NEW l \in [LogOffsets -> Events], NEW o \in LogOffsets, NEW e \in Events, l[o] = {}
    PROVE  Appended(l, o, e, [l EXCEPT ![o] = e])
<1> PICK l2 : l2 = [l EXCEPT ![o] = e]  OBVIOUS
<1>1. l2 \in [LogOffsets -> Events] /\ l2[o] = e /\ \A p \in LogOffsets : p # o => l2[p] = l[p]
  OBVIOUS
<1>2. \A p \in Nat, q \in LogOffsets : p <= o /\ q < p => l2[q] = l[q]
  BY <1>1, Bounds
<1>3. \A p \in Nat : p <= o => (Full(l2, p) <=> Full(l, p))  BY <1>2 DEF Full
<1>4. \A k \in Keys, p \in Nat : p <= o => Below(l2, k, p) = Below(l, k, p)
  BY <1>2 DEF Below
<1>5. ASSUME NEW k \in Keys
      PROVE  UsedNumbers(l2, k) = UsedNumbers(l, k) \cup {n \in Numbers : <<k, n>> \in e}
  BY <1>1 DEF UsedNumbers
<1>6. Appended(l, o, e, l2)  BY <1>1, <1>3, <1>4, <1>5 DEF Covers, Appended
<1> QED  BY <1>6

LEMMA AppendKeepsOrderly ==
    ASSUME NEW l \in [LogOffsets -> Events], NEW o \in LogOffsets, l[o] = {}, NEW e \in Events,
           Orderly(l), Full(l, o), \A p \in LogOffsets : o < p => l[p] = {},
           HasGreatest(e), ContinuesAt(l, o, e)
    PROVE  Orderly([l EXCEPT ![o] = e])
<1> PICK l2 : l2 = [l EXCEPT ![o] = e]  OBVIOUS
<1>0. Appended(l, o, e, l2)  BY AppendFrame
<1> USE DEF Appended
<1>1. \A p \in LogOffsets : HasGreatest(l2[p])  BY <1>0 DEF Orderly
<1>2. \A p \in LogOffsets : l2[p] # {} => p <= o  BY <1>0, Bounds
<1>3. ASSUME NEW p \in LogOffsets, l2[p] # {}  PROVE Full(l2, p)
  <2>1. p \in Nat /\ p <= o /\ (Full(l2, p) <=> Full(l, p))  BY <1>0, <1>2, <1>3, Bounds
  <2>2. CASE p = o  BY <2>1, <2>2
  <2>3. CASE p # o  BY <1>0, <1>3, <2>1, <2>3 DEF Orderly
  <2> QED  BY <2>2, <2>3
<1>4. ASSUME NEW k \in Keys, NEW p \in LogOffsets, NEW n \in Numbers, <<k, n>> \in l2[p]
      PROVE  \A m \in Below(l2, k, p) : m < n
  <2>1. p \in Nat /\ p <= o /\ Below(l2, k, p) = Below(l, k, p)  BY <1>0, <1>2, <1>4, Bounds
  <2>2. CASE p = o  BY <1>0, <1>4, <2>1, <2>2 DEF ContinuesAt
  <2>3. CASE p # o  BY <1>0, <1>4, <2>1, <2>3 DEF Orderly
  <2> QED  BY <2>2, <2>3
<1>5. ASSUME NEW k \in Keys, NEW n \in UsedNumbers(l2, k), NEW m \in Numbers, m < n
      PROVE  m \in UsedNumbers(l2, k)
  <2>1. CASE n \in UsedNumbers(l, k)  BY <1>0, <1>5, <2>1 DEF Orderly
  <2>2. CASE n \in Numbers /\ <<k, n>> \in e
    <3>1. <<k, m>> \in e \/ m \in Below(l, k, o)  BY <1>5, <2>2 DEF ContinuesAt
    <3>2. Below(l, k, o) \subseteq UsedNumbers(l, k)  BY BelowFacts, Bounds
    <3> QED  BY <1>0, <3>1, <3>2
  <2> QED  BY <1>0, <2>1, <2>2
<1>6. Orderly(l2)  BY <1>1, <1>3, <1>4, <1>5 DEF Orderly
<1> QED  BY <1>6

-----------------------------------------------------------------------------
(* The steps.  First what the client does. *)

LEMMA EmptyIsUsedByNone ==
    /\ Empty \in NumberMaps /\ {} \in Events
    /\ \A k \in Keys : Empty[k] = 0
    /\ \A l, o : ContinuesAt(l, o, {})
BY EmptyFacts DEF Events, ContinuesAt

LEMMA InitInv == SequencerInit => SequencerInv
<1> SUFFICES ASSUME SequencerInit  PROVE SequencerInv
  OBVIOUS
<1> USE DEF SequencerInit, InitMemory
<1>1. SequencerTypeOK
  BY EmptyIsUsedByNone, SequencerConstants
     DEF SequencerTypeOK, SequencerConstants, NoTransaction, NoFlusher
<1>2. eventLog = [o \in LogOffsets |-> {}] /\ \A o \in LogOffsets : eventLog[o] = {}  OBVIOUS
<1>3. Orderly(eventLog)  BY <1>2 DEF Orderly, HasGreatest, UsedNumbers
<1>4. \A k \in Keys : UsedNumbers(eventLog, k) = {} /\ \A o, n : Covers(eventLog, k, n, o)
  BY <1>2 DEF UsedNumbers, Covers, Below
<1>5. \A o \in Nat : o <= FirstOffset => Full(eventLog, o)  BY Bounds DEF Full
<1>6. StorageInv
  <2>1. /\ persistedOffset = FirstOffset /\ toBeFlushedOffset = 0 /\ nextOffset = 0
        /\ numbers = Empty /\ toBeFlushed = Empty
    OBVIOUS
  <2>2. Full(eventLog, FirstOffset) /\ Full(eventLog, 0) /\ FirstOffset \in Nat  BY <1>5, Bounds
  <2>3. \A k \in Keys : numbers[k] = 0 /\ toBeFlushed[k] = 0  BY <2>1, EmptyFacts
  <2> HIDE DEF SequencerInit, InitMemory
  <2> QED  BY <1>4, <2>1, <2>2, <2>3 DEF StorageInv
<1>7. FlusherInv /\ ActualizerInv /\ ScanInv
  BY DEF FlusherInv, ActualizerInv, ScanInv, NoFlusher
<1>8. ClientInv /\ InprocInv /\ CacheInv
  BY DEF ClientInv, InprocInv, CacheInv, ClientKnows, actualizerInProgress
<1> QED  BY <1>1, <1>3, <1>6, <1>7, <1>8 DEF SequencerInv

LEMMA StartStep ==
    SequencerInv /\ (StartRefused \/ \E w \in SeqWSIDs : Start(w)) => SequencerInv'
<1> USE DEF SequencerInv, durable, unflushed, flusherVars, actualizerVars
<1>1. ASSUME SequencerInv, NEW w \in SeqWSIDs, Start(w)  PROVE SequencerInv'
  <2> USE <1>1 DEF Start
  <2>1. client = NoTransaction /\ cleanup = "none" /\ ~actualizerInProgress
    BY DEF ClientInv, ClientKnows
  <2>2. client'.pc = "tx" /\ client'.event = {}  OBVIOUS
  <2>3. SequencerTypeOK'  BY EmptyIsUsedByNone DEF SequencerTypeOK
  <2>4. StorageInv' /\ FlusherInv'  BY DEF StorageInv, FlusherInv
  <2>5. ActualizerInv' /\ ScanInv'
    BY <2>1 DEF ActualizerInv, ScanInv, actualizerInProgress
  <2>6. nextOffset \in LogOffsets
    BY <2>1, Bounds DEF SequencerTypeOK, StorageInv, ClientInv, ClientKnows
  <2>7. ClientInv'  BY <2>1, <2>6 DEF ClientInv, ClientKnows, actualizerInProgress
  <2>8. InprocInv' /\ CacheInv'
    BY <2>1, <2>2 DEF InprocInv, CacheInv, ClientKnows, actualizerInProgress, NoTransaction
  <2> QED  BY <2>3, <2>4, <2>5, <2>7, <2>8
<1>2. ASSUME SequencerInv, StartRefused  PROVE SequencerInv'
  <2> USE <1>2 DEF StartRefused
  <2>1. SequencerTypeOK'  BY DEF SequencerTypeOK
  <2>2. StorageInv' /\ FlusherInv'  BY DEF StorageInv, FlusherInv
  <2>3. ActualizerInv' /\ ScanInv'
    BY DEF ActualizerInv, ScanInv, actualizerInProgress
  <2>4. ClientInv' /\ InprocInv' /\ CacheInv'
    BY DEF ClientInv, InprocInv, CacheInv, ClientKnows, actualizerInProgress
  <2> QED  BY <2>1, <2>2, <2>3, <2>4
<1> QED  BY <1>1, <1>2

\* The last number of a sequence, for the client in a transaction.
LEMMA LastNumberFacts ==
    ASSUME SequencerInv, ClientKnows, client.pc = "tx", NEW k \in Keys
    PROVE  /\ LastNumber(k) \in Nat /\ InitialValue <= LastNumber(k) + 1
           /\ IF inproc[k] # 0 THEN LastNumber(k) = inproc[k]
              ELSE /\ Covers(eventLog, k, LastNumber(k), nextOffset)
                   /\ \A m \in Numbers : m <= LastNumber(k) => m \in Below(eventLog, k, nextOffset)
<1> PICK n : n = LastNumber(k)  OBVIOUS
<1>0. n = IF cache[k] # 0 THEN cache[k] ELSE IF inproc[k] # 0 THEN inproc[k]
          ELSE IF toBeFlushed[k] # 0 THEN toBeFlushed[k]
          ELSE IF numbers[k] # 0 THEN numbers[k] ELSE InitialValue - 1
  BY DEF LastNumber
<1> USE DEF SequencerInv
<1>1. /\ cache[k] \in Numbers \cup {0} /\ inproc[k] \in Numbers \cup {0}
      /\ toBeFlushed[k] \in Numbers \cup {0} /\ numbers[k] \in Numbers \cup {0}
      /\ nextOffset \in Nat
  BY DEF SequencerTypeOK, NumberMaps
<1>2. UsedNumbers(eventLog, k) = Below(eventLog, k, nextOffset)
  <2>1. \A p \in LogOffsets : nextOffset <= p => eventLog[p] = {}
    BY <1>1, Bounds DEF ClientInv
  <2> QED  BY <2>1, <1>1, UsedIsBelow
<1>3. ASSUME n \in Below(eventLog, k, nextOffset)
      PROVE  \A m \in Numbers : m <= n => m \in Below(eventLog, k, nextOffset)
  <2>1. n \in Numbers  BY <1>3 DEF Below
  <2>2. ASSUME NEW m \in Numbers, m <= n  PROVE m \in Below(eventLog, k, nextOffset)
    <3>1. m = n \/ m < n  BY <2>1, <2>2, NumberBounds
    <3> QED  BY <1>2, <1>3, <3>1 DEF Orderly
  <2> QED  BY <2>2
<1>4. Covers(eventLog, k, Effective(toBeFlushed[k], numbers[k]), nextOffset)
  BY DEF ClientInv
<1>5. CASE inproc[k] # 0
  <2>1. n = inproc[k]  BY <1>0, <1>5 DEF CacheInv
  <2> QED  BY <1>1, <1>5, <2>1, NumberBounds
<1>6. CASE inproc[k] = 0 /\ cache[k] # 0
  <2>1. n = cache[k]  BY <1>0, <1>6
  <2>2. n \in Below(eventLog, k, nextOffset) /\ Covers(eventLog, k, n, nextOffset)
    BY <1>6, <2>1 DEF CacheInv
  <2> QED  BY <1>1, <1>3, <1>6, <2>1, <2>2, NumberBounds
<1>7. CASE inproc[k] = 0 /\ cache[k] = 0 /\ (toBeFlushed[k] # 0 \/ numbers[k] # 0)
  <2>1. n = Effective(toBeFlushed[k], numbers[k]) /\ n # 0
    BY <1>0, <1>7 DEF Effective
  <2>2. n \in UsedNumbers(eventLog, k)  BY <1>7, <2>1 DEF StorageInv, Effective
  <2>3. n \in Numbers  BY <2>2 DEF UsedNumbers
  <2> QED  BY <1>2, <1>3, <1>4, <1>7, <2>1, <2>2, <2>3, NumberBounds
<1>8. CASE inproc[k] = 0 /\ cache[k] = 0 /\ toBeFlushed[k] = 0 /\ numbers[k] = 0
  <2>1. n = InitialValue - 1  BY <1>0, <1>8
  <2>2. Covers(eventLog, k, 0, nextOffset)  BY <1>4, <1>8 DEF Effective
  <2>3. Below(eventLog, k, nextOffset) \subseteq Numbers  BY <1>1, BelowFacts
  <2>4. Below(eventLog, k, nextOffset) = {}  BY <2>2, <2>3, NumberBounds DEF Covers
  <2> QED  BY <1>8, <2>1, <2>4, NumberBounds DEF Covers
<1> QED  BY <1>5, <1>6, <1>7, <1>8

LEMMA CacheAfterAddFacts ==
    ASSUME cache \in NumberMaps, NEW k \in Keys, NEW n \in Numbers, NEW c \in CacheAfterAdd(k, n)
    PROVE  /\ c \in NumberMaps
           /\ \A j \in Keys : c[j] # 0 => c[j] = IF j = k THEN n ELSE cache[j]
BY Bounds DEF CacheAfterAdd, NumberMaps, Present

LEMMA NextNumberStep ==
    ASSUME SequencerInv, NEW k \in Keys, NextNumber(k)
    PROVE  SequencerInv'
<1> USE DEF durable, unflushed, flusherVars, actualizerVars
<1>1. /\ client.pc = "tx" /\ cleanup = "none" /\ ClientKnows
      /\ SequencerTypeOK /\ ActualizerInv /\ ClientInv /\ InprocInv /\ CacheInv
  BY DEF NextNumber, SequencerInv, ActualizerInv, ClientKnows, NoTransaction
<1> PICK n : n = LastNumber(k) + 1  OBVIOUS
<1>2. /\ n <= MaxNumber /\ cache' \in CacheAfterAdd(k, n)
      /\ inproc' = [inproc EXCEPT ![k] = n]
      /\ client' = [client EXCEPT !.event = client.event \union {<<k, n>>}]
      /\ UNCHANGED <<eventLog, numbers, persistedOffset, seqStorage, nextOffset, toBeFlushed,
                     toBeFlushedOffset, flusherSig, flusher, flusherCancelled,
                     actualizer, actualizerCancelled, cleanup>>
  BY DEF NextNumber
<1>3. /\ LastNumber(k) \in Nat /\ InitialValue <= LastNumber(k) + 1
      /\ IF inproc[k] # 0 THEN LastNumber(k) = inproc[k]
         ELSE /\ Covers(eventLog, k, LastNumber(k), nextOffset)
              /\ \A m \in Numbers : m <= LastNumber(k) => m \in Below(eventLog, k, nextOffset)
  BY <1>1, LastNumberFacts
<1>4. n \in Numbers /\ n \in Nat /\ n # 0 /\ Numbers \subseteq Nat  BY <1>2, <1>3, NumberBounds
<1>5. /\ inproc \in NumberMaps /\ cache \in NumberMaps /\ inproc' \in NumberMaps
      /\ inproc'[k] = n /\ \A j \in Keys \ {k} : inproc'[j] = inproc[j]
  BY <1>1, <1>2, <1>4 DEF SequencerTypeOK, NumberMaps
<1>6. /\ cache' \in NumberMaps
      /\ \A j \in Keys : cache'[j] # 0 => cache'[j] = IF j = k THEN n ELSE cache[j]
  BY <1>2, <1>4, <1>5, CacheAfterAddFacts
<1>7. /\ client'.pc = "tx" /\ client'.event = client.event \cup {<<k, n>>}
      /\ client'.event \in Events
      /\ client' \in [pc : {"idle", "tx", "written", "failed"},
                      ws : SeqWSIDs \cup {NoWS}, event : Events]
  BY <1>1, <1>2, <1>4 DEF SequencerTypeOK, Events
<1>8. SequencerTypeOK'  BY <1>1, <1>2, <1>5, <1>6, <1>7 DEF SequencerTypeOK
<1>9. Orderly(eventLog)' /\ StorageInv' /\ FlusherInv'
  BY <1>2 DEF SequencerInv, StorageInv, FlusherInv
<1>10. ActualizerInv' /\ ScanInv'
  BY <1>1, <1>2 DEF SequencerInv, ActualizerInv, ScanInv, ClientKnows, actualizerInProgress
<1>11. ClientInv'
  BY <1>1, <1>2, <1>7 DEF ClientInv, ClientKnows, actualizerInProgress
<1>12. /\ \A m \in Numbers : <<k, m>> \in client.event => m <= LastNumber(k)
       /\ \A m \in Below(eventLog, k, nextOffset) : m < n
       /\ \A m \in Numbers : m < n =>
              <<k, m>> \in client.event \/ m \in Below(eventLog, k, nextOffset)
  <2>0. Below(eventLog, k, nextOffset) \subseteq Nat  BY <1>4 DEF Below
  <2>1. CASE inproc[k] # 0
    <3>1. Greatest(k, LastNumber(k), client.event)  BY <1>1, <1>3, <2>1 DEF InprocInv
    <3>2. \A m \in Below(eventLog, k, nextOffset) : m < LastNumber(k)
      BY <1>1, <3>1 DEF Greatest, InprocInv, ContinuesAt
    <3>3. \A m \in Numbers : m < LastNumber(k) =>
              <<k, m>> \in client.event \/ m \in Below(eventLog, k, nextOffset)
      BY <1>1, <3>1 DEF Greatest, InprocInv, ContinuesAt
    <3>4. \A m \in Nat : m < n <=> m < LastNumber(k) \/ m = LastNumber(k)  BY <1>3
    <3> QED  BY <1>4, <2>0, <3>1, <3>2, <3>3, <3>4 DEF Greatest
  <2>2. CASE inproc[k] = 0
    <3>1. \A m \in Numbers : <<k, m>> \notin client.event  BY <1>1, <2>2 DEF InprocInv
    <3>2. \A m \in Nat : m < n <=> m <= LastNumber(k)  BY <1>3
    <3> QED  BY <1>3, <1>4, <2>0, <2>2, <3>1, <3>2 DEF Covers
  <2> QED  BY <2>1, <2>2
<1>13. ContinuesAt(eventLog, nextOffset, client'.event)
  <2> SUFFICES ASSUME NEW j \in Keys, NEW i \in Numbers, <<j, i>> \in client'.event
               PROVE  /\ \A m \in Below(eventLog, j, nextOffset) : m < i
                      /\ \A m \in Numbers : m < i =>
                            <<j, m>> \in client'.event \/ m \in Below(eventLog, j, nextOffset)
    BY DEF ContinuesAt
  <2>1. CASE <<j, i>> \in client.event  BY <1>1, <1>7, <2>1 DEF InprocInv, ContinuesAt
  <2>2. CASE j = k /\ i = n  BY <1>7, <1>12, <2>2
  <2> QED  BY <1>7, <2>1, <2>2
<1>14. ASSUME NEW j \in Keys
       PROVE  IF inproc'[j] = 0 THEN \A m \in Numbers : <<j, m>> \notin client'.event
                                ELSE Greatest(j, inproc'[j], client'.event)
  <2>1. CASE j = k
    <3>1. \A m \in Numbers : <<k, m>> \in client'.event => m <= n
      BY <1>3, <1>4, <1>7, <1>12
    <3> QED  BY <1>4, <1>5, <1>7, <2>1, <3>1 DEF Greatest
  <2>2. CASE j # k
    <3>1. \A m : <<j, m>> \in client'.event <=> <<j, m>> \in client.event  BY <1>7, <2>2
    <3> QED  BY <1>1, <1>5, <2>2, <3>1 DEF InprocInv, Greatest
  <2> QED  BY <2>1, <2>2
<1>15. InprocInv'
  BY <1>2, <1>13, <1>14 DEF InprocInv
<1>16. CacheInv'
  BY <1>1, <1>2, <1>4, <1>5, <1>6 DEF CacheInv, ClientKnows, actualizerInProgress
<1> QED  BY <1>8, <1>9, <1>10, <1>11, <1>15, <1>16 DEF SequencerInv

\* The event of a transaction has a greatest number of each of its sequences.
LEMMA EventHasGreatest ==
    SequencerInv /\ ClientKnows => HasGreatest(client.event)
BY DEF SequencerInv, InprocInv, HasGreatest, Greatest

\* The transaction's event gets into the log, whatever the client is told.
LEMMA AppendStep ==
    ASSUME SequencerInv, client.pc = "tx", cleanup = "none", client.event # {},
           eventLog' = [eventLog EXCEPT ![nextOffset] = client.event],
           NEW pc \in {"written", "failed"}, client' = [client EXCEPT !.pc = pc],
           UNCHANGED <<numbers, persistedOffset, seqStorage, nextOffset, cache, inproc,
                       toBeFlushed, toBeFlushedOffset, flusherSig, flusher,
                       flusherCancelled, actualizer, actualizerCancelled, cleanup>>
    PROVE  SequencerInv'
<1>1. /\ SequencerTypeOK /\ StorageInv /\ FlusherInv /\ ActualizerInv /\ ClientInv
      /\ InprocInv /\ CacheInv /\ Orderly(eventLog)
  BY DEF SequencerInv
<1>2. ClientKnows  BY <1>1 DEF ActualizerInv, ClientKnows, NoTransaction
<1>3. /\ nextOffset \in LogOffsets /\ eventLog[nextOffset] = {} /\ Full(eventLog, nextOffset)
      /\ \A p \in LogOffsets : nextOffset < p => eventLog[p] = {}
      /\ eventLog \in [LogOffsets -> Events] /\ client.event \in Events
  BY <1>1, <1>2 DEF ClientInv, SequencerTypeOK
<1>4. Appended(eventLog, nextOffset, client.event, eventLog')  BY <1>3, AppendFrame
<1>5. Orderly(eventLog)'
  <2>1. HasGreatest(client.event) /\ ContinuesAt(eventLog, nextOffset, client.event)
    BY <1>1, <1>2, EventHasGreatest DEF SequencerInv, InprocInv
  <2> QED  BY <1>1, <1>3, <2>1, AppendKeepsOrderly
<1>6. /\ client'.pc = pc /\ client'.event = client.event
      /\ client' \in [pc : {"idle", "tx", "written", "failed"},
                      ws : SeqWSIDs \cup {NoWS}, event : Events]
  BY <1>1 DEF SequencerTypeOK
<1>7. SequencerTypeOK'  BY <1>1, <1>4, <1>6 DEF SequencerTypeOK, Appended
<1>8. /\ persistedOffset \in Nat /\ persistedOffset <= nextOffset
      /\ toBeFlushedOffset \in Nat /\ toBeFlushedOffset <= nextOffset /\ nextOffset \in Nat
      /\ nextOffset <= nextOffset
      /\ \A k \in Keys : /\ numbers[k] \in Nat
                          /\ Effective(toBeFlushed[k], numbers[k]) \in Nat
                          /\ Effective(flusher.values[k], numbers[k]) \in Nat
  BY <1>1, <1>2, Bounds, NumberBounds
     DEF SequencerTypeOK, ClientInv, StorageInv, Effective, NumberMaps
<1>9. StorageInv'  BY <1>1, <1>4, <1>8 DEF StorageInv, Appended
<1>10. FlusherInv'
  <2>1. flusher.pc \in {"numbers", "offset", "remove"} =>
           flusher.offset \in Nat /\ flusher.offset <= nextOffset
    BY <1>1, <1>8 DEF FlusherInv, SequencerTypeOK
  <2> QED  BY <1>1, <1>4, <1>8, <2>1 DEF FlusherInv, Appended
<1>11. ActualizerInv' /\ ScanInv'
  BY <1>1, <1>2 DEF ActualizerInv, ScanInv, ClientKnows, actualizerInProgress
<1>12. ClientInv'
  <2>1. eventLog'[nextOffset] = client.event /\ \A p \in LogOffsets : nextOffset < p => eventLog'[p] = {}
    BY <1>3, <1>4, Bounds DEF Appended
  <2>2. Full(eventLog', nextOffset)  BY <1>3, <1>4, <1>8 DEF Appended
  <2>3. \A k \in Keys : Covers(eventLog', k, Effective(toBeFlushed[k], numbers[k]), nextOffset)
    BY <1>1, <1>2, <1>4, <1>8 DEF ClientInv, Appended
  <2> QED  BY <1>3, <1>6, <1>8, <2>1, <2>2, <2>3 DEF ClientInv
<1>13. \A k \in Keys : Below(eventLog', k, nextOffset) = Below(eventLog, k, nextOffset)
  BY <1>4, <1>8 DEF Appended
<1>14. InprocInv' /\ CacheInv'
  BY <1>1, <1>2, <1>6, <1>13
     DEF InprocInv, CacheInv, ContinuesAt, Covers, ClientKnows, actualizerInProgress
<1> QED  BY <1>5, <1>7, <1>9, <1>10, <1>11, <1>12, <1>14 DEF SequencerInv

LEMMA PutEventStep == SequencerInv /\ (PutEvent \/ PutEventFails) => SequencerInv'
<1> SUFFICES ASSUME SequencerInv, PutEvent \/ PutEventFails  PROVE SequencerInv'
  OBVIOUS
<1> USE DEF durable, unflushed, flusherVars, actualizerVars
<1>1. CASE PutEvent \/ (PutEventFails /\ eventLog' # eventLog)
  BY <1>1, AppendStep DEF PutEvent, PutEventFails
<1>2. CASE PutEventFails /\ eventLog' = eventLog
  <2> USE <1>2 DEF PutEventFails
  <2>1. ClientKnows /\ client' = [client EXCEPT !.pc = "failed"]
        /\ client'.pc = "failed" /\ client'.event = client.event
    BY DEF SequencerInv, SequencerTypeOK, ActualizerInv, ClientKnows, NoTransaction
  <2>2. SequencerTypeOK'  BY DEF SequencerInv, SequencerTypeOK
  <2>3. Orderly(eventLog)' /\ StorageInv' /\ FlusherInv'
    BY DEF SequencerInv, StorageInv, FlusherInv
  <2>4. ActualizerInv' /\ ScanInv'
    BY <2>1 DEF SequencerInv, ActualizerInv, ScanInv, ClientKnows, actualizerInProgress
  <2>5. ClientInv'
    BY <2>1 DEF SequencerInv, ClientInv, ClientKnows, actualizerInProgress
  <2>6. InprocInv' /\ CacheInv'
    BY <2>1 DEF SequencerInv, InprocInv, CacheInv, ClientKnows, actualizerInProgress
  <2> QED  BY <2>2, <2>3, <2>4, <2>5, <2>6 DEF SequencerInv
<1> QED  BY <1>1, <1>2 DEF PutEventFails

LEMMA FlushStep == SequencerInv /\ Flush => SequencerInv'
<1> SUFFICES ASSUME SequencerInv, Flush  PROVE SequencerInv'
  OBVIOUS
<1> USE DEF durable, unflushed, flusherVars, actualizerVars
<1>1. /\ SequencerTypeOK /\ StorageInv /\ FlusherInv /\ ActualizerInv /\ ClientInv
      /\ InprocInv /\ CacheInv /\ Orderly(eventLog)
      /\ client.pc = "written" /\ cleanup = "none" /\ ClientKnows
  BY DEF SequencerInv, Flush, ActualizerInv, ClientKnows, NoTransaction
<1>2. /\ toBeFlushed' = Overwrite(toBeFlushed, inproc) /\ toBeFlushedOffset' = nextOffset
      /\ inproc' = Empty /\ nextOffset' = nextOffset + 1 /\ flusherSig' = TRUE
      /\ client' = NoTransaction
      /\ UNCHANGED <<eventLog, numbers, persistedOffset, seqStorage, cache, flusher,
                     flusherCancelled, actualizer, actualizerCancelled, cleanup>>
  BY DEF Flush
<1>3. /\ nextOffset \in LogOffsets /\ nextOffset \in Nat /\ eventLog[nextOffset] = client.event
      /\ Full(eventLog, nextOffset) /\ persistedOffset <= nextOffset
      /\ toBeFlushedOffset <= nextOffset /\ toBeFlushedOffset \in Nat
      /\ persistedOffset \in Nat
      /\ \A p \in LogOffsets : nextOffset < p => eventLog[p] = {}
      /\ \A k \in Keys : Covers(eventLog, k, Effective(toBeFlushed[k], numbers[k]), nextOffset)
      /\ \A k \in Keys : numbers[k] \in Nat /\ toBeFlushed[k] \in Nat
  BY <1>1, Bounds, NumberBounds DEF ClientInv, StorageInv, SequencerTypeOK, NumberMaps
<1>4. /\ toBeFlushed' \in NumberMaps
      /\ \A k \in Keys : toBeFlushed'[k] = IF inproc[k] # 0 THEN inproc[k] ELSE toBeFlushed[k]
  BY <1>1, <1>2, OverwriteFacts DEF SequencerTypeOK
<1>5. SequencerTypeOK'  BY <1>1, <1>2, <1>3, <1>4, EmptyIsUsedByNone DEF SequencerTypeOK, NoTransaction
<1>6. \A k \in Keys : Below(eventLog, k, nextOffset + 1) =
          Below(eventLog, k, nextOffset) \cup {n \in Numbers : <<k, n>> \in client.event}
  BY <1>3, BelowNext
<1>7. ASSUME NEW k \in Keys
      PROVE  Covers(eventLog, k, Effective(toBeFlushed'[k], numbers[k]), nextOffset + 1)
  <2>1. CASE inproc[k] # 0
    <3>1. Greatest(k, inproc[k], client.event)  BY <1>1, <2>1 DEF InprocInv
    <3>2. \A m \in Below(eventLog, k, nextOffset) : m < inproc[k]
      BY <1>1, <3>1 DEF InprocInv, ContinuesAt, Greatest
    <3>3. Below(eventLog, k, nextOffset) \subseteq Nat /\ inproc[k] \in Nat
      BY <3>1, NumberBounds DEF Below, Greatest
    <3>4. \A m \in Below(eventLog, k, nextOffset + 1) : m <= inproc[k]
      <4>1. \A m \in Numbers : <<k, m>> \in client.event => m <= inproc[k]
        BY <3>1 DEF Greatest
      <4>2. \A m \in Below(eventLog, k, nextOffset) : m <= inproc[k]  BY <3>2, <3>3
      <4> QED  BY <1>6, <4>1, <4>2
    <3> QED  BY <1>4, <2>1, <3>4 DEF Effective, Covers
  <2>2. CASE inproc[k] = 0
    <3>1. Below(eventLog, k, nextOffset + 1) = Below(eventLog, k, nextOffset)
      BY <1>1, <1>6, <2>2 DEF InprocInv
    <3> QED  BY <1>3, <1>4, <2>2, <3>1 DEF Covers
  <2> QED  BY <2>1, <2>2
<1>8. ASSUME NEW k \in Keys, inproc[k] # 0
      PROVE  /\ inproc[k] \in UsedNumbers(eventLog, k)
             /\ \A m \in UsedNumbers(eventLog, k) : m <= inproc[k]
  <2>1. Greatest(k, inproc[k], client.event)  BY <1>1, <1>8 DEF InprocInv
  <2>2. nextOffset + 1 \in Nat /\ \A p \in LogOffsets : nextOffset + 1 <= p => eventLog[p] = {}
    BY <1>3, Bounds
  <2>3. UsedNumbers(eventLog, k) = Below(eventLog, k, nextOffset + 1)  BY <2>2, UsedIsBelow
  <2> QED  BY <1>4, <1>6, <1>7, <1>8, <2>1, <2>3 DEF Covers, Effective, Greatest
<1>9. Full(eventLog, nextOffset + 1)
  BY <1>1, <1>3, BelowNext DEF ClientInv
<1>16. \A k \in Keys : Covers(eventLog, k, Effective(toBeFlushed'[k], numbers[k]), nextOffset)
  BY <1>6, <1>7 DEF Covers
<1>10. StorageInv'
  BY <1>1, <1>2, <1>3, <1>4, <1>8, <1>16 DEF StorageInv
<1>11. FlusherInv'
  <2> SUFFICES ASSUME flusher.pc \in {"numbers", "offset", "remove"}  PROVE FlusherInv'
    BY <1>2 DEF FlusherInv
  <2>1. flusher.offset \in Nat /\ flusher.offset <= nextOffset
    BY <1>1, <1>3 DEF FlusherInv, SequencerTypeOK
  <2>2. ASSUME NEW k \in Keys  PROVE flusher.values[k] <= toBeFlushed'[k]
    <3>1. CASE inproc[k] # 0
      <4>1. inproc[k] \in Nat /\ flusher.values[k] \in UsedNumbers(eventLog, k) \cup {0}
        BY <1>1, <1>8, <3>1, NumberBounds DEF FlusherInv, UsedNumbers
      <4> QED  BY <1>4, <1>8, <3>1, <4>1
    <3>2. CASE inproc[k] = 0  BY <1>1, <1>4, <3>2 DEF FlusherInv
    <3> QED  BY <3>1, <3>2
  <2> QED  BY <1>1, <1>2, <2>1, <2>2 DEF FlusherInv
<1>12. ActualizerInv' /\ ScanInv'
  BY <1>1, <1>2 DEF ActualizerInv, ScanInv, ClientKnows, actualizerInProgress
<1>13. ClientInv'
  BY <1>1, <1>2, <1>3, <1>7, <1>9, Bounds DEF ClientInv, NoTransaction
<1>14. InprocInv'
  BY <1>2, EmptyIsUsedByNone DEF InprocInv, NoTransaction
<1>15. CacheInv'
  <2> SUFFICES ASSUME NEW k \in Keys, cache[k] # 0
               PROVE  cache[k] \in Below(eventLog, k, nextOffset + 1)
                      /\ Covers(eventLog, k, cache[k], nextOffset + 1)
    BY <1>2, EmptyFacts DEF CacheInv
  <2>1. CASE inproc[k] # 0
    <3>1. cache[k] = inproc[k]  BY <1>1, <2>1 DEF CacheInv
    <3>2. Greatest(k, inproc[k], client.event)  BY <1>1, <2>1 DEF InprocInv
    <3>3. inproc[k] \in Below(eventLog, k, nextOffset + 1)  BY <1>6, <3>2 DEF Greatest
    <3> QED  BY <1>4, <1>7, <2>1, <3>1, <3>3 DEF Effective
  <2>2. CASE inproc[k] = 0
    <3>1. Below(eventLog, k, nextOffset + 1) = Below(eventLog, k, nextOffset)
      BY <1>1, <1>6, <2>2 DEF InprocInv
    <3> QED  BY <1>1, <2>2, <3>1 DEF CacheInv, Covers
  <2> QED  BY <2>1, <2>2
<1> QED  BY <1>5, <1>10, <1>11, <1>12, <1>13, <1>14, <1>15, <1>1, <1>2 DEF SequencerInv

LEMMA ActualizeStep == SequencerInv /\ Actualize => SequencerInv'
<1> SUFFICES ASSUME SequencerInv, Actualize  PROVE SequencerInv'
  OBVIOUS
<1> USE DEF Actualize, durable, unflushed, flusherVars, actualizerVars
<1>1. SequencerTypeOK'
  BY EmptyIsUsedByNone DEF SequencerInv, SequencerTypeOK, NoTransaction
<1>2. Orderly(eventLog)' /\ FlusherInv'  BY DEF SequencerInv, FlusherInv
<1>3. StorageInv'  BY DEF SequencerInv, StorageInv, actualizerInProgress
<1>4. ActualizerInv' /\ ScanInv'
  BY DEF SequencerInv, ActualizerInv, ScanInv, actualizerInProgress
<1>5. ClientInv' /\ InprocInv' /\ CacheInv'
  BY DEF ClientInv, InprocInv, CacheInv, ClientKnows, actualizerInProgress
<1> QED  BY <1>1, <1>2, <1>3, <1>4, <1>5 DEF SequencerInv

-----------------------------------------------------------------------------
(* The flusher. *)

\* The flusher waits, or it has a client or an actualizer that has not reached it.
LEMMA FlusherAlone ==
    SequencerInv /\ flusher.pc # "wait" => actualizer \in {"off", "stopFlusher", "waitFlusher"}
BY DEF SequencerInv, SequencerTypeOK, ActualizerInv

\* Everybody but the flusher sees only its effect on the storage and on what waits.
LEMMA FlusherFrame ==
    ASSUME SequencerInv, SequencerTypeOK', StorageInv', FlusherInv',
           actualizer \in {"off", "stopFlusher", "waitFlusher"},
           \A k \in Keys : Effective(toBeFlushed[k], numbers[k])' =
                           Effective(toBeFlushed[k], numbers[k]),
           persistedOffset' <= nextOffset,
           UNCHANGED <<eventLog, seqStorage, nextOffset, cache, inproc, toBeFlushedOffset,
                       client, flusherCancelled, actualizer, actualizerCancelled, cleanup>>
    PROVE  SequencerInv'
<1>1. Orderly(eventLog)'  BY DEF SequencerInv
<1>2. ActualizerInv' /\ ScanInv'
  BY DEF SequencerInv, ActualizerInv, ScanInv, actualizerInProgress
<1>3. ClientInv'
  BY DEF SequencerInv, ClientInv, ClientKnows, actualizerInProgress, Effective
<1>4. InprocInv' /\ CacheInv'
  BY DEF SequencerInv, InprocInv, CacheInv, ClientKnows, actualizerInProgress
<1> QED  BY <1>1, <1>2, <1>3, <1>4 DEF SequencerInv

LEMMA FlusherStopsStep == SequencerInv /\ FlusherStops => SequencerInv'
<1> SUFFICES ASSUME SequencerInv, FlusherStops  PROVE SequencerInv'
  OBVIOUS
<1> USE DEF FlusherStops, durable, unflushed, flusherVars, actualizerVars
<1>1. SequencerTypeOK'
  BY EmptyFacts DEF SequencerInv, SequencerTypeOK, NoFlusher
<1>2. StorageInv' /\ FlusherInv'
  BY DEF SequencerInv, StorageInv, FlusherInv, NoFlusher
<1>3. Orderly(eventLog)' /\ ActualizerInv' /\ ScanInv'
  BY DEF SequencerInv, SequencerTypeOK, ActualizerInv, ScanInv, actualizerInProgress
<1>4. ClientInv' /\ InprocInv' /\ CacheInv'
  BY DEF SequencerInv, ClientInv, InprocInv, CacheInv, ClientKnows, actualizerInProgress
<1> QED  BY <1>1, <1>2, <1>3, <1>4 DEF SequencerInv

LEMMA FlusherGetsSignalStep == SequencerInv /\ FlusherGetsSignal => SequencerInv'
<1> SUFFICES ASSUME SequencerInv, FlusherGetsSignal  PROVE SequencerInv'
  OBVIOUS
<1>1. SequencerTypeOK' /\ flusher'.pc = "copy"
  <2>1. /\ flusher'.pc = "copy"
        /\ flusher' \in [pc : {"off", "wait", "copy", "numbers", "offset", "remove"},
                        values : NumberMaps, offset : Nat]
    BY DEF SequencerInv, SequencerTypeOK, FlusherGetsSignal
  <2>2. /\ flusherSig' = FALSE /\ eventLog' = eventLog /\ numbers' = numbers
        /\ persistedOffset' = persistedOffset /\ seqStorage' = seqStorage
        /\ nextOffset' = nextOffset /\ cache' = cache /\ inproc' = inproc
        /\ toBeFlushed' = toBeFlushed /\ toBeFlushedOffset' = toBeFlushedOffset
        /\ client' = client /\ flusherCancelled' = flusherCancelled
        /\ actualizer' = actualizer /\ actualizerCancelled' = actualizerCancelled
        /\ cleanup' = cleanup
    BY DEF FlusherGetsSignal, durable, unflushed, actualizerVars
  <2>3. SequencerTypeOK
    BY DEF SequencerInv
  <2>4. /\ eventLog' \in [LogOffsets -> Events]
        /\ numbers' \in NumberMaps /\ cache' \in NumberMaps
        /\ inproc' \in NumberMaps /\ toBeFlushed' \in NumberMaps
        /\ persistedOffset' \in Nat /\ nextOffset' \in Nat /\ toBeFlushedOffset' \in Nat
    BY <2>2, <2>3 DEF SequencerTypeOK
  <2>5. client' \in [pc : {"idle", "tx", "written", "failed"},
                     ws : SeqWSIDs \cup {NoWS}, event : Events]
    BY <2>2, <2>3 DEF SequencerTypeOK
  <2>6. /\ seqStorage' \in {"ok", "broken", "recovered"}
        /\ flusherSig' \in BOOLEAN /\ flusherCancelled' \in BOOLEAN
        /\ actualizerCancelled' \in BOOLEAN
        /\ actualizer' \in {"off", "stopFlusher", "waitFlusher", "readOffset", "scan", "values"}
        /\ cleanup' \in {"none", "waitActualizer", "stopFlusher", "waitFlusher", "done"}
    BY <2>2, <2>3 DEF SequencerTypeOK
  <2> QED  BY <2>1, <2>4, <2>5, <2>6 DEF SequencerTypeOK
<1> USE DEF FlusherGetsSignal, durable, unflushed, flusherVars, actualizerVars
<1>2. StorageInv' /\ FlusherInv'
  BY <1>1 DEF SequencerInv, StorageInv, FlusherInv
<1>3. Orderly(eventLog)' /\ ActualizerInv' /\ ScanInv'
  BY DEF SequencerInv, SequencerTypeOK, ActualizerInv, ScanInv, actualizerInProgress
<1>4. ClientInv' /\ InprocInv' /\ CacheInv'
  BY DEF SequencerInv, ClientInv, InprocInv, CacheInv, ClientKnows, actualizerInProgress
<1> QED  BY <1>1, <1>2, <1>3, <1>4 DEF SequencerInv

\* What is persisted is no further than what waits, and both than the next offset.
LEMMA OffsetsOrder ==
    SequencerInv /\ (toBeFlushedOffset # 0 \/ flusher.pc \in {"numbers", "offset", "remove"})
        => persistedOffset <= nextOffset /\ flusher.offset \in Nat
BY DEF SequencerInv, SequencerTypeOK, StorageInv, FlusherInv

LEMMA FlusherCopiesStep == SequencerInv /\ FlusherCopies => SequencerInv'
<1> SUFFICES ASSUME SequencerInv, FlusherCopies  PROVE SequencerInv'
  OBVIOUS
<1> USE DEF FlusherCopies, durable, unflushed, flusherVars, actualizerVars
<1>0. actualizer \in {"off", "stopFlusher", "waitFlusher"}  BY FlusherAlone
<1>1. SequencerTypeOK'  BY DEF SequencerInv, SequencerTypeOK
<1>2. StorageInv'  BY DEF SequencerInv, StorageInv
<1>3. FlusherInv'
  <2>1. CASE toBeFlushedOffset = 0
    BY <2>1 DEF SequencerInv, SequencerTypeOK, FlusherInv
  <2>2. CASE toBeFlushedOffset # 0
    <3>1. flusher' = [pc |-> "numbers", values |-> toBeFlushed, offset |-> toBeFlushedOffset]
      BY <2>2
    <3>2. persistedOffset <= toBeFlushedOffset /\ toBeFlushedOffset \in Nat
          /\ \A k \in Keys : toBeFlushed[k] \in Nat
      BY <2>2, NumberBounds DEF SequencerInv, SequencerTypeOK, StorageInv, NumberMaps
    <3> QED  BY <1>0, <3>1, <3>2 DEF SequencerInv, StorageInv, FlusherInv
  <2> QED  BY <2>1, <2>2
<1>4. ActualizerInv' /\ ScanInv' /\ Orderly(eventLog)'
  BY <1>0 DEF SequencerInv, ActualizerInv, ScanInv, actualizerInProgress
<1>5. ClientInv' /\ InprocInv' /\ CacheInv'
  BY DEF SequencerInv, ClientInv, InprocInv, CacheInv, ClientKnows, actualizerInProgress
<1> QED  BY <1>1, <1>2, <1>3, <1>4, <1>5 DEF SequencerInv

LEMMA FlusherTypes ==
    SequencerInv => /\ \A k \in Keys : /\ numbers[k] \in Nat /\ toBeFlushed[k] \in Nat
                                        /\ flusher.values[k] \in Nat
                    /\ persistedOffset \in Nat /\ toBeFlushedOffset \in Nat
                    /\ nextOffset \in Nat /\ flusher.offset \in Nat
                    /\ numbers \in NumberMaps /\ toBeFlushed \in NumberMaps
                    /\ flusher.values \in NumberMaps
BY NumberBounds DEF SequencerInv, SequencerTypeOK, NumberMaps

\* A key whose copy is not dropped yet still waits.
LEMMA FlusherPutsNumbersStep == SequencerInv /\ FlusherPutsNumbers => SequencerInv'
<1> SUFFICES ASSUME SequencerInv, FlusherPutsNumbers  PROVE SequencerInv'
  OBVIOUS
<1> USE DEF FlusherPutsNumbers, durable, unflushed, flusherVars, actualizerVars
<1>0. actualizer \in {"off", "stopFlusher", "waitFlusher"}  BY FlusherAlone
<1>1. /\ numbers' \in NumberMaps
      /\ \A k \in Keys : numbers'[k] = Effective(flusher.values[k], numbers[k])
  BY FlusherTypes, OverwriteFacts DEF Effective
<1>2. flusher'.pc = "offset" /\ flusher'.values = flusher.values /\ flusher'.offset = flusher.offset
  BY DEF SequencerInv, SequencerTypeOK
<1>3. SequencerTypeOK'  BY <1>1 DEF SequencerInv, SequencerTypeOK
<1>4. \A k \in Keys : Effective(toBeFlushed[k], numbers'[k]) = Effective(toBeFlushed[k], numbers[k])
  BY <1>1, FlusherTypes DEF SequencerInv, FlusherInv, Effective
<1>5. \A k \in Keys : Covers(eventLog, k, numbers'[k], flusher.offset)
  BY <1>1 DEF SequencerInv, FlusherInv
<1>6. \A k \in Keys : /\ Covers(eventLog, k, numbers'[k], persistedOffset)
                      /\ numbers'[k] \in UsedNumbers(eventLog, k) \cup {0}
  <2> TAKE k \in Keys
  <2>1. numbers'[k] \in Nat /\ persistedOffset <= flusher.offset
    BY <1>1, FlusherTypes DEF SequencerInv, FlusherInv, Effective
  <2>2. Covers(eventLog, k, numbers'[k], persistedOffset)
    BY <1>5, <2>1, FlusherTypes, CoversFacts
  <2>3. numbers'[k] \in UsedNumbers(eventLog, k) \cup {0}
    BY <1>1 DEF SequencerInv, FlusherInv, StorageInv, Effective
  <2> QED  BY <2>2, <2>3
<1>7. StorageInv'  BY <1>4, <1>6 DEF SequencerInv, StorageInv
<1>8. FlusherInv'
  BY <1>1, <1>2, <1>5 DEF SequencerInv, FlusherInv, Effective
<1>9. persistedOffset <= nextOffset  BY FlusherTypes DEF SequencerInv, FlusherInv, StorageInv
<1> QED  BY <1>0, <1>3, <1>4, <1>7, <1>8, <1>9, FlusherFrame

LEMMA FlusherPutsOffsetStep ==
    SequencerInv /\ (FlusherPutsOffset \/ FlusherRetries) => SequencerInv'
<1> SUFFICES ASSUME SequencerInv, FlusherPutsOffset \/ FlusherRetries  PROVE SequencerInv'
  OBVIOUS
<1> USE DEF FlusherPutsOffset, FlusherRetries, durable, unflushed, flusherVars, actualizerVars
<1>0. flusher.pc = "offset" /\ actualizer \in {"off", "stopFlusher", "waitFlusher"}
  BY FlusherAlone
<1>1. /\ persistedOffset' \in {persistedOffset, flusher.offset} /\ persistedOffset' <= flusher.offset
      /\ flusher'.pc \in {"numbers", "remove"} /\ flusher'.values = flusher.values
      /\ flusher'.offset = flusher.offset
      /\ UNCHANGED <<eventLog, numbers, seqStorage, nextOffset, cache, inproc, toBeFlushed,
                     toBeFlushedOffset, flusherSig, client, flusherCancelled, actualizer,
                     actualizerCancelled, cleanup>>
  BY <1>0, FlusherTypes DEF SequencerInv, SequencerTypeOK, FlusherInv
<1>2. SequencerTypeOK'  BY FlusherTypes DEF SequencerInv, SequencerTypeOK
<1>3. \A k \in Keys : Covers(eventLog, k, numbers[k], flusher.offset)
  BY <1>0, FlusherTypes DEF SequencerInv, FlusherInv, Effective
<1>4. /\ Full(eventLog, flusher.offset) /\ FirstOffset <= flusher.offset
      /\ flusher.offset <= toBeFlushedOffset /\ flusher.offset <= nextOffset
      /\ persistedOffset <= flusher.offset
  BY <1>0, FlusherTypes, Monotone, Bounds DEF SequencerInv, FlusherInv, StorageInv
<1>5. StorageInv'  BY <1>1, <1>3, <1>4, FlusherTypes DEF SequencerInv, StorageInv
<1>6. FlusherInv'  BY <1>0, <1>1, FlusherTypes DEF SequencerInv, FlusherInv
<1>7. persistedOffset' <= nextOffset  BY <1>1, <1>4, FlusherTypes
<1> QED  BY <1>0, <1>1, <1>2, <1>5, <1>6, <1>7, FlusherFrame

\* What has been persisted need not wait any longer.
LEMMA FlusherRemovesStep == SequencerInv /\ FlusherRemoves => SequencerInv'
<1> SUFFICES ASSUME SequencerInv, FlusherRemoves  PROVE SequencerInv'
  OBVIOUS
<1> USE DEF FlusherRemoves, durable, unflushed, flusherVars, actualizerVars
<1>0. actualizer \in {"off", "stopFlusher", "waitFlusher"}  BY FlusherAlone
<1>1. /\ toBeFlushed' \in NumberMaps
      /\ \A k \in Keys : toBeFlushed'[k] = IF toBeFlushed[k] = flusher.values[k] THEN 0
                                            ELSE toBeFlushed[k]
  BY FlusherTypes DEF NumberMaps
<1>2. flusher' \in [pc : {"off", "wait", "copy", "numbers", "offset", "remove"},
                   values : NumberMaps, offset : Nat] /\ flusher'.pc = "wait"
  BY EmptyFacts DEF NoFlusher
<1>3. SequencerTypeOK'  BY <1>1, <1>2 DEF SequencerInv, SequencerTypeOK
<1>4. \A k \in Keys : Effective(toBeFlushed'[k], numbers[k]) = Effective(toBeFlushed[k], numbers[k])
  BY <1>1 DEF SequencerInv, FlusherInv, Effective
<1>5. StorageInv'  BY <1>1, <1>4 DEF SequencerInv, StorageInv
<1>6. FlusherInv'  BY <1>2 DEF FlusherInv
<1>7. persistedOffset' <= nextOffset  BY FlusherTypes DEF SequencerInv, FlusherInv, StorageInv
<1> QED  BY <1>0, <1>3, <1>4, <1>5, <1>6, <1>7, FlusherFrame

-----------------------------------------------------------------------------
(* The actualizer. *)

\* While the actualizer works the client knows nothing.
LEMMA ClientIdle ==
    cleanup' # "none" \/ actualizer' # "off" => ClientInv' /\ InprocInv' /\ CacheInv'
BY DEF ClientInv, InprocInv, CacheInv, ClientKnows, actualizerInProgress

LEMMA ActualizerCancelsFlusherStep ==
    SequencerInv /\ ActualizerCancelsFlusher => SequencerInv'
<1> SUFFICES ASSUME SequencerInv, ActualizerCancelsFlusher  PROVE SequencerInv'
  OBVIOUS
<1> USE DEF ActualizerCancelsFlusher, durable, unflushed, flusherVars, actualizerVars
<1>1. SequencerTypeOK'  BY DEF SequencerInv, SequencerTypeOK
<1>2. Orderly(eventLog)' /\ StorageInv' /\ FlusherInv'
  BY DEF SequencerInv, StorageInv, FlusherInv
<1>3. ActualizerInv' /\ ScanInv'
  BY DEF SequencerInv, ActualizerInv, ScanInv, actualizerInProgress
<1> QED  BY <1>1, <1>2, <1>3, ClientIdle DEF SequencerInv

LEMMA ActualizerRestartsFlusherStep ==
    SequencerInv /\ ActualizerRestartsFlusher => SequencerInv'
<1> SUFFICES ASSUME SequencerInv, ActualizerRestartsFlusher  PROVE SequencerInv'
  OBVIOUS
<1> USE DEF ActualizerRestartsFlusher, durable, unflushed, flusherVars, actualizerVars
<1>0. flusher' = [NoFlusher EXCEPT !.pc = "wait"] /\ flusher'.pc = "wait"  BY DEF NoFlusher
<1>1. SequencerTypeOK'
  BY EmptyFacts DEF SequencerInv, SequencerTypeOK, NoFlusher
<1>2. \A k \in Keys : \A n : Covers(eventLog, k, n, 0)
  BY BelowFacts DEF Covers
<1>3. StorageInv'
  BY <1>2, EmptyFacts, FlusherTypes, Monotone DEF SequencerInv, StorageInv
<1>4. FlusherInv' /\ Orderly(eventLog)'  BY <1>0 DEF SequencerInv, FlusherInv
<1>5. ActualizerInv' /\ ScanInv'
  BY <1>0 DEF SequencerInv, ActualizerInv, ScanInv, actualizerInProgress
<1> QED  BY <1>1, <1>3, <1>4, <1>5, ClientIdle DEF SequencerInv

\* The scan starts where the persisted numbers cover the log.
LEMMA ActualizerReadsOffsetStep == SequencerInv /\ ActualizerReadsOffset => SequencerInv'
<1> SUFFICES ASSUME SequencerInv, ActualizerReadsOffset  PROVE SequencerInv'
  OBVIOUS
<1> USE DEF ActualizerReadsOffset, durable, unflushed, flusherVars, actualizerVars
<1>1. SequencerTypeOK'  BY DEF SequencerInv, SequencerTypeOK
<1>2. toBeFlushed = Empty /\ toBeFlushedOffset = 0 /\ flusher.pc = "wait"
  BY DEF SequencerInv, ActualizerInv
<1>3. \A k \in Keys : Effective(toBeFlushed[k], numbers[k]) = numbers[k]
  BY <1>2, EmptyFacts DEF Effective
<1>4. StorageInv'  BY <1>2, FlusherTypes DEF SequencerInv, StorageInv
<1>5. FlusherInv' /\ Orderly(eventLog)'  BY <1>2 DEF SequencerInv, FlusherInv
<1>6. ActualizerInv'
  BY <1>2 DEF SequencerInv, ActualizerInv, actualizerInProgress
<1>7. ScanInv'  BY <1>3, FlusherTypes DEF SequencerInv, ScanInv, StorageInv
<1> QED  BY <1>1, <1>4, <1>5, <1>6, <1>7, ClientIdle DEF SequencerInv

\* The scan passes an event: first the offsets ...
LEMMA BatcherMovesOffsetStep == SequencerInv /\ BatcherMovesOffset => SequencerInv'
<1> SUFFICES ASSUME SequencerInv, BatcherMovesOffset  PROVE SequencerInv'
  OBVIOUS
<1> USE DEF BatcherMovesOffset, durable, unflushed, flusherVars, actualizerVars
<1>0. nextOffset \in LogOffsets /\ eventLog[nextOffset] # {} /\ nextOffset \in Nat
      /\ flusher.pc = "wait"
  BY FlusherTypes DEF ReadEvent, SequencerInv, ActualizerInv
<1>1. SequencerTypeOK'  BY <1>0 DEF SequencerInv, SequencerTypeOK
<1>2. Full(eventLog, nextOffset) /\ persistedOffset <= nextOffset /\ persistedOffset \in Nat
      /\ \A k \in Keys : Covers(eventLog, k, Effective(toBeFlushed[k], numbers[k]), nextOffset)
  BY FlusherTypes DEF SequencerInv, ScanInv
<1>3. Full(eventLog, nextOffset + 1)  BY <1>0, <1>2, BelowNext
<1>4. StorageInv'  BY <1>0, <1>2, <1>3 DEF SequencerInv, StorageInv
<1>5. FlusherInv' /\ Orderly(eventLog)'  BY <1>0 DEF SequencerInv, FlusherInv
<1>6. ActualizerInv'
  BY DEF SequencerInv, ActualizerInv, actualizerInProgress
<1>7. ScanInv'
  <2>1. nextOffset' - 1 = nextOffset  BY <1>0
  <2> QED  BY <1>0, <1>2, <1>3, <2>1 DEF ScanInv
<1> QED  BY <1>1, <1>4, <1>5, <1>6, <1>7, ClientIdle DEF SequencerInv

\* ... and then the numbers, which are the greatest so far.
LEMMA BatcherAddsValuesStep == SequencerInv /\ BatcherAddsValues => SequencerInv'
<1> SUFFICES ASSUME SequencerInv, BatcherAddsValues  PROVE SequencerInv'
  OBVIOUS
<1> USE DEF BatcherAddsValues, durable, unflushed, flusherVars, actualizerVars
<1> PICK o \in LogOffsets : o = nextOffset - 1  BY DEF SequencerInv, ScanInv
<1>0. /\ o + 1 = nextOffset /\ eventLog[o] \in Events /\ o \in Nat /\ flusher.pc = "wait"
      /\ Full(eventLog, nextOffset) /\ persistedOffset <= o /\ persistedOffset \in Nat
      /\ \A k \in Keys : Covers(eventLog, k, Effective(toBeFlushed[k], numbers[k]), o)
  BY FlusherTypes, Bounds DEF SequencerInv, SequencerTypeOK, ScanInv, ActualizerInv
<1> PICK v : v = MaxValues(eventLog[o])  OBVIOUS
<1>1. /\ v \in NumberMaps
      /\ \A k \in Keys : IF v[k] = 0 THEN \A m \in Numbers : <<k, m>> \notin eventLog[o]
                                      ELSE Greatest(k, v[k], eventLog[o])
  BY <1>0, MaxValuesFacts DEF SequencerInv, Orderly
<1>2. toBeFlushed' = Overwrite(toBeFlushed, v)  BY DEF ReadEvent
<1>3. /\ toBeFlushed' \in NumberMaps
      /\ \A k \in Keys : toBeFlushed'[k] = IF v[k] # 0 THEN v[k] ELSE toBeFlushed[k]
  BY <1>1, <1>2, FlusherTypes, OverwriteFacts
<1>4. SequencerTypeOK'  BY <1>3 DEF SequencerInv, SequencerTypeOK
<1>5. \A k \in Keys : Below(eventLog, k, nextOffset) =
          Below(eventLog, k, o) \cup {n \in Numbers : <<k, n>> \in eventLog[o]}
  BY <1>0, BelowNext
<1>6. ASSUME NEW k \in Keys
      PROVE  Covers(eventLog, k, Effective(toBeFlushed'[k], numbers[k]), nextOffset)
  <2>1. CASE v[k] # 0
    <3>1. v[k] \in Numbers /\ <<k, v[k]>> \in eventLog[o]
          /\ \A m \in Numbers : <<k, m>> \in eventLog[o] => m <= v[k]
      BY <1>1, <2>1 DEF Greatest
    <3>2. \A m \in Below(eventLog, k, o) : m < v[k]  BY <3>1 DEF SequencerInv, Orderly
    <3>3. Below(eventLog, k, o) \subseteq Numbers  BY DEF Below
    <3>4. \A m \in Below(eventLog, k, o) : m <= v[k]  BY <3>1, <3>2, <3>3, NumberBounds
    <3>5. \A m \in Below(eventLog, k, nextOffset) : m <= v[k]  BY <1>5, <3>1, <3>4
    <3> QED  BY <1>3, <2>1, <3>5 DEF Effective, Covers
  <2>2. CASE v[k] = 0
    <3>1. Below(eventLog, k, nextOffset) = Below(eventLog, k, o)  BY <1>1, <1>5, <2>2
    <3> QED  BY <1>0, <1>3, <2>2, <3>1 DEF Covers
  <2> QED  BY <2>1, <2>2
<1>7. ASSUME NEW k \in Keys
      PROVE  /\ toBeFlushed'[k] \in UsedNumbers(eventLog, k) \cup {0}
             /\ Covers(eventLog, k, Effective(toBeFlushed'[k], numbers[k]), toBeFlushedOffset)
  <2>1. v[k] # 0 => v[k] \in UsedNumbers(eventLog, k)  BY <1>1 DEF Greatest, UsedNumbers
  <2>2. toBeFlushed'[k] \in UsedNumbers(eventLog, k) \cup {0}
    BY <1>3, <2>1 DEF SequencerInv, StorageInv
  <2>3. Effective(toBeFlushed'[k], numbers[k]) \in Nat
    BY <1>3, <1>4, FlusherTypes, NumberBounds DEF Effective, NumberMaps
  <2>4. toBeFlushedOffset <= nextOffset  BY DEF SequencerInv, StorageInv
  <2> QED  BY <1>6, <2>2, <2>3, <2>4, FlusherTypes, CoversFacts
<1>8. StorageInv'  BY <1>7 DEF SequencerInv, StorageInv
<1>9. FlusherInv' /\ Orderly(eventLog)'  BY <1>0 DEF SequencerInv, FlusherInv
<1>10. ActualizerInv'
  BY DEF SequencerInv, ActualizerInv, actualizerInProgress
<1>11. ScanInv'  BY <1>0, <1>6, FlusherTypes DEF ScanInv
<1> QED  BY <1>4, <1>8, <1>9, <1>10, <1>11, ClientIdle DEF SequencerInv

\* The scan has reached the end of the log, which has no holes.
LEMMA ActualizerEndsStep == SequencerInv /\ ActualizerEnds => SequencerInv'
<1> SUFFICES ASSUME SequencerInv, ActualizerEnds  PROVE SequencerInv'
  OBVIOUS
<1> USE DEF ActualizerEnds, durable, unflushed, flusherVars, actualizerVars
<1>1. SequencerTypeOK'  BY DEF SequencerInv, SequencerTypeOK
<1>2. Orderly(eventLog)' /\ StorageInv' /\ FlusherInv'
  BY DEF SequencerInv, StorageInv, FlusherInv
<1>3. ActualizerInv' /\ ScanInv'
  BY DEF SequencerInv, ActualizerInv, ScanInv, actualizerInProgress
<1>4. client = NoTransaction /\ cache = Empty /\ inproc = Empty
  BY DEF SequencerInv, ActualizerInv, actualizerInProgress
<1>5. /\ Full(eventLog, nextOffset) /\ persistedOffset <= nextOffset /\ nextOffset \in Nat
      /\ FirstOffset <= persistedOffset /\ persistedOffset \in Nat
      /\ \A k \in Keys : Covers(eventLog, k, Effective(toBeFlushed[k], numbers[k]), nextOffset)
  BY FlusherTypes DEF SequencerInv, ScanInv, StorageInv
<1>6. nextOffset \in LogOffsets => eventLog[nextOffset] = {}  BY DEF ReadEvent
<1>7. ASSUME NEW p \in LogOffsets, nextOffset < p  PROVE eventLog[p] = {}
  <2>1. nextOffset \in LogOffsets  BY <1>5, <1>7, Bounds
  <2> QED  BY <1>6, <1>7, <2>1 DEF SequencerInv, Orderly, Full
<1>8. ClientInv'  BY <1>4, <1>5, <1>6, <1>7 DEF ClientInv, NoTransaction
<1>9. InprocInv' /\ CacheInv'
  BY <1>4, EmptyIsUsedByNone DEF InprocInv, CacheInv, NoTransaction
<1> QED  BY <1>1, <1>2, <1>3, <1>8, <1>9 DEF SequencerInv

\* A cancelled actualizer leaves the client to a cleanup.
LEMMA ActualizerStopsStep == SequencerInv /\ ActualizerStops => SequencerInv'
<1> SUFFICES ASSUME SequencerInv, ActualizerStops  PROVE SequencerInv'
  OBVIOUS
<1> USE DEF ActualizerStops, durable, unflushed, flusherVars, actualizerVars
<1>1. SequencerTypeOK'  BY DEF SequencerInv, SequencerTypeOK
<1>2. Orderly(eventLog)' /\ StorageInv' /\ FlusherInv'
  BY DEF SequencerInv, StorageInv, FlusherInv
<1>3. ActualizerInv' /\ ScanInv' /\ cleanup' # "none"
  BY DEF SequencerInv, ActualizerInv, ScanInv, actualizerInProgress
<1> QED  BY <1>1, <1>2, <1>3, ClientIdle DEF SequencerInv

LEMMA ActualizerStepKeepsInv ==
    SequencerInv /\ ActualizerStep /\ ~BatcherWaits => SequencerInv'
BY ActualizerCancelsFlusherStep, ActualizerRestartsFlusherStep, ActualizerReadsOffsetStep,
   BatcherMovesOffsetStep, BatcherAddsValuesStep, ActualizerEndsStep, ActualizerStopsStep
   DEF ActualizerStep

-----------------------------------------------------------------------------
(* Cleanup, restart and the storage. *)

LEMMA CleanupKeepsInv == SequencerInv /\ (CleanupBegins \/ CleanupStep) => SequencerInv'
<1> SUFFICES ASSUME SequencerInv, CleanupBegins \/ CleanupStep  PROVE SequencerInv'
  OBVIOUS
<1>1. SequencerTypeOK'
  <2> USE DEF CleanupBegins, CleanupAwaitsActualizer, CleanupCancelsFlusher, CleanupEnds,
              durable, unflushed, flusherVars, actualizerVars
  <2>0. SequencerTypeOK  BY DEF SequencerInv
  <2>1. /\ eventLog' = eventLog /\ numbers' = numbers /\ persistedOffset' = persistedOffset
        /\ seqStorage' = seqStorage /\ nextOffset' = nextOffset /\ cache' = cache
        /\ inproc' = inproc /\ toBeFlushed' = toBeFlushed
        /\ toBeFlushedOffset' = toBeFlushedOffset
        /\ flusher' = flusher /\ actualizer' = actualizer
    BY DEF CleanupStep
  <2>2. /\ flusherSig' \in BOOLEAN /\ flusherCancelled' \in BOOLEAN
        /\ actualizerCancelled' \in BOOLEAN
        /\ cleanup' \in {"none", "waitActualizer", "stopFlusher", "waitFlusher", "done"}
    <3>1. /\ flusherSig \in BOOLEAN /\ flusherCancelled \in BOOLEAN
          /\ actualizerCancelled \in BOOLEAN
      BY <2>0 DEF SequencerTypeOK
    <3> QED  BY <3>1 DEF CleanupStep
  <2>3. client' \in [pc : {"idle", "tx", "written", "failed"},
                     ws : SeqWSIDs \cup {NoWS}, event : Events]
    <3>1. client \in [pc : {"idle", "tx", "written", "failed"},
                      ws : SeqWSIDs \cup {NoWS}, event : Events]
      BY <2>0 DEF SequencerTypeOK
    <3> QED  BY <3>1 DEF CleanupStep
  <2> HIDE DEF CleanupBegins, CleanupAwaitsActualizer, CleanupCancelsFlusher, CleanupEnds
  <2>4. /\ eventLog' \in [LogOffsets -> Events]
        /\ numbers' \in NumberMaps /\ cache' \in NumberMaps
        /\ inproc' \in NumberMaps /\ toBeFlushed' \in NumberMaps
        /\ persistedOffset' \in Nat /\ nextOffset' \in Nat /\ toBeFlushedOffset' \in Nat
    BY <2>0, <2>1 DEF SequencerTypeOK
  <2>5. /\ seqStorage' \in {"ok", "broken", "recovered"}
        /\ flusher' \in [pc : {"off", "wait", "copy", "numbers", "offset", "remove"},
                         values : NumberMaps, offset : Nat]
        /\ actualizer' \in {"off", "stopFlusher", "waitFlusher", "readOffset", "scan", "values"}
    BY <2>0, <2>1 DEF SequencerTypeOK
  <2> QED  BY <2>2, <2>3, <2>4, <2>5 DEF SequencerTypeOK
<1> USE DEF CleanupBegins, CleanupStep, CleanupAwaitsActualizer, CleanupCancelsFlusher,
            CleanupEnds, durable, unflushed, flusherVars, actualizerVars
<1>2. Orderly(eventLog)' /\ StorageInv' /\ FlusherInv'
  BY DEF SequencerInv, StorageInv, FlusherInv
<1>3. ActualizerInv' /\ ScanInv' /\ cleanup' # "none"
  BY DEF SequencerInv, SequencerTypeOK, ActualizerInv, ScanInv, actualizerInProgress
<1> QED  BY <1>1, <1>2, <1>3, ClientIdle DEF SequencerInv

LEMMA RestartStep == SequencerInv /\ Restart => SequencerInv'
<1> SUFFICES ASSUME SequencerInv, Restart  PROVE SequencerInv'
  OBVIOUS
<1> USE DEF Restart, durable
<1>1. SequencerTypeOK'
  BY EmptyIsUsedByNone DEF SequencerInv, SequencerTypeOK, NoTransaction, NoFlusher
<1>2. \A k \in Keys : \A n : Covers(eventLog, k, n, 0)
  BY BelowFacts DEF Covers
<1>3. StorageInv'
  BY <1>2, EmptyFacts, FlusherTypes, Monotone DEF SequencerInv, StorageInv
<1>4. FlusherInv' /\ Orderly(eventLog)'  BY DEF SequencerInv, FlusherInv, NoFlusher
<1>5. ActualizerInv' /\ ScanInv'
  BY DEF SequencerInv, ActualizerInv, ScanInv, actualizerInProgress
<1> QED  BY <1>1, <1>3, <1>4, <1>5, ClientIdle DEF SequencerInv

LEMMA StutterStep ==
    SequencerInv /\ (StorageBreaks \/ StorageRecovers \/ UNCHANGED sequencerVars) => SequencerInv'
<1> SUFFICES ASSUME SequencerInv, StorageBreaks \/ StorageRecovers \/ UNCHANGED sequencerVars
             PROVE  SequencerInv'
  OBVIOUS
<1> USE DEF StorageBreaks, StorageRecovers, sequencerVars, durable, unflushed, flusherVars,
            actualizerVars
<1>1. SequencerTypeOK'  BY DEF SequencerInv, SequencerTypeOK
<1>2. Orderly(eventLog)' /\ StorageInv' /\ FlusherInv'
  BY DEF SequencerInv, StorageInv, FlusherInv
<1>3. ActualizerInv' /\ ScanInv'
  BY DEF SequencerInv, ActualizerInv, ScanInv, actualizerInProgress
<1>4. ClientInv' /\ InprocInv' /\ CacheInv'
  BY DEF SequencerInv, ClientInv, InprocInv, CacheInv, ClientKnows, actualizerInProgress
<1> QED  BY <1>1, <1>2, <1>3, <1>4 DEF SequencerInv

LEMMA SequencerInvInductive ==
    SequencerInv /\ [SequencerNext]_sequencerVars /\ [~BatcherWaits]_sequencerVars => SequencerInv'
<1> SUFFICES ASSUME SequencerInv, [SequencerNext]_sequencerVars, [~BatcherWaits]_sequencerVars
             PROVE  SequencerInv'
  OBVIOUS
<1>1. CASE UNCHANGED sequencerVars  BY <1>1, StutterStep
<1>2. ASSUME SequencerNext, ~BatcherWaits  PROVE SequencerInv'
  <2>1. ASSUME NEW w \in SeqWSIDs, Start(w)  PROVE SequencerInv'  BY <2>1, StartStep
  <2>2. ASSUME NEW k \in Keys, NextNumber(k)  PROVE SequencerInv'  BY <2>2, NextNumberStep
  <2>3. CASE FlusherStep
    BY <2>3, FlusherStopsStep, FlusherGetsSignalStep, FlusherCopiesStep,
       FlusherPutsNumbersStep, FlusherPutsOffsetStep, FlusherRemovesStep DEF FlusherStep
  <2>4. CASE ActualizerStep  BY <1>2, <2>4, ActualizerStepKeepsInv
  <2>5. CASE StartRefused \/ PutEvent \/ PutEventFails \/ Flush \/ Actualize
    BY <2>5, StartStep, PutEventStep, FlushStep, ActualizeStep
  <2>6. CASE CleanupBegins \/ CleanupStep \/ StorageBreaks \/ StorageRecovers \/ Restart
    BY <2>6, CleanupKeepsInv, StutterStep, RestartStep
  <2> QED  BY <1>2, <2>1, <2>2, <2>3, <2>4, <2>5, <2>6 DEF SequencerNext, SequencerStep
<1> QED  BY <1>1, <1>2

-----------------------------------------------------------------------------
(***************************************************************************)
(* The premise of the theorems, [][~BatcherWaits]_sequencerVars, says that *)
(* the scan never finds MaxNumUnflushedValues numbers waiting.  Without it *)
(* they are false: the flusher that the batcher wakes up may persist an    *)
(* offset whose numbers are added only afterwards.                         *)
(***************************************************************************)
LEMMA SequencerInvariant == SequencerSpec /\ [][~BatcherWaits]_sequencerVars => []SequencerInv
BY InitInv, SequencerInvInductive, PTL DEF SequencerSpec

LEMMA InvImpliesCovered == SequencerInv => PersistedOffsetIsCovered
<1>1. \A k \in Keys : NumbersBelow(k, persistedOffset) = Below(eventLog, k, persistedOffset)
  BY DEF NumbersBelow, Below
<1> QED  BY <1>1 DEF SequencerInv, StorageInv, Covers, PersistedOffsetIsCovered

\* The persisted numbers cover the log below the persisted offset: the values are
\* written before the offset, and Actualize() keeps what the flusher is writing.
THEOREM PersistedOffsetIsAlwaysCovered ==
    SequencerSpec /\ [][~BatcherWaits]_sequencerVars => []PersistedOffsetIsCovered
BY SequencerInvariant, InvImpliesCovered, PTL

\* Every step appends an event that continues the sequences, or leaves the log alone.
LEMMA StepRefines == SequencerInv /\ [SequencerNext]_sequencerVars => [Log!Next]_eventLog
<1> SUFFICES ASSUME SequencerInv, SequencerNext, eventLog' # eventLog  PROVE Log!Next
  BY DEF sequencerVars
<1> USE DEF durable, unflushed, flusherVars, actualizerVars
<1>1. PutEvent \/ PutEventFails
  BY DEF SequencerNext, SequencerStep, Start, StartRefused, NextNumber, Flush, Actualize,
         FlusherStep, FlusherStops, FlusherGetsSignal, FlusherCopies, FlusherPutsNumbers, FlusherPutsOffset, FlusherRetries,
         FlusherRemoves, ActualizerStep, ActualizerCancelsFlusher, ActualizerRestartsFlusher,
         ActualizerReadsOffset, BatcherWaits, BatcherMovesOffset, BatcherAddsValues,
         ActualizerEnds, ActualizerStops, CleanupBegins, CleanupStep, CleanupAwaitsActualizer,
         CleanupCancelsFlusher, CleanupEnds, Restart, StorageBreaks, StorageRecovers
<1>2. /\ client.pc = "tx" /\ cleanup = "none" /\ client.event # {}
      /\ eventLog' = [eventLog EXCEPT ![nextOffset] = client.event]
  BY <1>1 DEF PutEvent, PutEventFails
<1>3. ClientKnows /\ ClientInv /\ InprocInv
  BY <1>2 DEF SequencerInv, ActualizerInv, ClientKnows, NoTransaction
<1>4. /\ nextOffset \in LogOffsets /\ nextOffset \in Nat /\ eventLog[nextOffset] = {}
      /\ Full(eventLog, nextOffset) /\ client.event \in Events
      /\ \A p \in LogOffsets : nextOffset <= p => eventLog[p] = {}
  BY <1>2, <1>3, Bounds DEF ClientInv, SequencerInv, SequencerTypeOK
<1>5. \A k \in Keys : UsedNumbers(eventLog, k) = Below(eventLog, k, nextOffset)
  BY <1>4, UsedIsBelow
<1>6. ASSUME NEW k \in Keys, NEW n \in Numbers, <<k, n>> \in client.event
      PROVE  /\ n \notin UsedNumbers(eventLog, k)
             /\ \A m \in Numbers : m < n => <<k, m>> \in client.event
                                           \/ m \in UsedNumbers(eventLog, k)
  <2>1. ~(n < n)  BY NumberBounds
  <2> QED  BY <1>3, <1>5, <1>6, <2>1 DEF InprocInv, ContinuesAt
<1>7. Log!LogOffsets = LogOffsets /\ Log!Numbers = Numbers /\ Log!Events = Events
      /\ \A k \in Keys : Log!Used(k) = UsedNumbers(eventLog, k)
  BY DEF Log!LogOffsets, Log!Numbers, Log!Events, Log!Used, LogOffsets, Numbers, Events, UsedNumbers
<1>8. Log!Continues(client.event)  BY <1>6, <1>7 DEF Log!Continues
<1>9. eventLog \in [LogOffsets -> Events]  BY DEF SequencerInv, SequencerTypeOK
<1>10. eventLog'[nextOffset] = client.event  BY <1>2, <1>4, <1>9
<1>11. \A p \in LogOffsets : p < nextOffset => eventLog[p] # {}  BY <1>4 DEF Full
<1>12. eventLog' = [eventLog EXCEPT ![nextOffset] = eventLog'[nextOffset]]  BY ONLY <1>2, <1>10
<1>13. Log!Append(nextOffset)
  <2>1. eventLog'[nextOffset] \in Log!Events /\ eventLog'[nextOffset] # {}
    BY <1>2, <1>4, <1>7, <1>10
  <2>2. Log!Continues(eventLog'[nextOffset])  BY <1>8, <1>10
  <2> QED  BY <1>4, <1>7, <1>11, <1>12, <2>1, <2>2, Zenon DEF Log!Append
<1> QED  BY <1>4, <1>7, <1>13 DEF Log!Next

LEMMA InitRefines == SequencerInit => Log!Init
BY DEF SequencerInit, Log!Init, LogOffsets, Log!LogOffsets

\* The sequencer keeps the promise of SequenceLog over its caches, its goroutines,
\* failed transactions and restarts: no number twice, none skipped, no event lost.
THEOREM SequencerImplementsSequenceLog ==
    SequencerSpec /\ [][~BatcherWaits]_sequencerVars => ImplementsSequenceLog
BY SequencerInvariant, InitRefines, StepRefines, PTL
   DEF SequencerSpec, ImplementsSequenceLog, Log!Spec

\* The premise holds where there are fewer sequences than unflushed values allowed.
LEMMA FewKeysNeverOverflow ==
    ASSUME IsFiniteSet(Keys), Cardinality(Keys) < MaxNumUnflushedValues
    PROVE  ~BatcherWaits
<1>1. Present(toBeFlushed) \subseteq Keys  BY DEF Present
<1>2. Cardinality(Present(toBeFlushed)) \in Nat /\ Cardinality(Keys) \in Nat
      /\ Cardinality(Present(toBeFlushed)) <= Cardinality(Keys)
  BY <1>1, FS_Subset, FS_CardinalityType
<1>3. MaxNumUnflushedValues \in Nat  BY SequencerConstants DEF SequencerConstants
<1> QED  BY <1>2, <1>3 DEF BatcherWaits, BatcherOverflow

\* A partition with fewer sequences than the flusher may lag behind issues no number
\* twice and skips none, and its persisted offset is covered, without any premise.
THEOREM FewSequencesAreSafe ==
    ASSUME IsFiniteSet(Keys), Cardinality(Keys) < MaxNumUnflushedValues
    PROVE  SequencerSpec => ImplementsSequenceLog /\ []PersistedOffsetIsCovered
<1>1. ~BatcherWaits  BY FewKeysNeverOverflow
<1> QED  BY <1>1, SequencerImplementsSequenceLog, PersistedOffsetIsAlwaysCovered, PTL
=============================================================================
