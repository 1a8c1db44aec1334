-------------------------- MODULE CommandLogProofs --------------------------
(***************************************************************************)
(* The structure of the logs and the record IDs, proved for any number of  *)
(* processes, partitions and workspaces and any bounds, when the storage   *)
(* rejects a row that exists (trust levels 0 and 1) or when there is one   *)
(* process only; and what a single process knows of the effects of its     *)
(* events.                                                                 *)
(***************************************************************************)
EXTENDS CommandProcessorProofs

USE DEF ConstantsAssumption, FirstUserRecordID, SingletonID

OneWriter == \A m, n \in Nodes : m = n

\* What keeps a process from overwriting the event of another one.
SafeStorage == TrustLevel # 2 \/ OneWriter

-----------------------------------------------------------------------------
(***************************************************************************)
(* The inductive invariant: what a process knows.  Its counters describe a *)
(* prefix of each PLog, the view, unless they are about to be dropped.     *)
(***************************************************************************)
\* The process is about to forget all its partitions.
Doomed(n) == pc[n] = "reply" /\ cmd[n].restart

\* The next WLog offset of w, with the event that is being stored.
Seen(n, w) ==
    IF Pending(n) /\ cmd[n].ev.ws = w THEN nextWLogOffset[n][w] + 1
                                      ELSE nextWLogOffset[n][w]

\* The counters of a process follow from the events of its view.
ViewInv(n) ==
    /\ \A p \in Partitions, k \in Offsets : k < nextPLogOffset[n][p] => Stored(p, k)
    /\ \A w \in WSIDs, k \in Offsets :
          LET e == plog[PartitionOf[w]][k]
          IN  k < nextPLogOffset[n][PartitionOf[w]] /\ e.ws = w =>
                  /\ e.woff < Seen(n, w)
                  /\ \A id \in e.creates : id < nextRecordID[n][w]
    /\ \A w \in WSIDs, o \in Offsets :
          o < Seen(n, w) =>
              \E k \in Offsets : /\ k < nextPLogOffset[n][PartitionOf[w]]
                                 /\ plog[PartitionOf[w]][k].ws = w
                                 /\ plog[PartitionOf[w]][k].woff = o

\* The records an event creates are there.
Created(p, k) ==
    \A id \in plog[p][k].creates : records[plog[p][k].ws][id] # {}

\* The last event of the view has yet to be applied, again or at first.
LastUnapplied(n, p) ==
    /\ p = Part(n)
    /\ \/ pc[n] \in {"readPLog", "applyRecords"}
       \/ pc[n] = "reply" /\ p \notin resident[n]

CreatedInv(n) ==
    \A p \in Partitions, k \in Offsets :
        /\ k < nextPLogOffset[n][p]
        /\ LastUnapplied(n, p) => k + 1 < nextPLogOffset[n][p]
        => Created(p, k)

\* A process that works alone on a partition has seen all of its PLog.
Current(n, p) ==
    \/ p \in resident[n]
    \/ p = Part(n) /\ pc[n] \in {"exec", "putPLog", "applyRecords", "store", "notify"}

UpToDate(n) ==
    \A p \in Partitions, k \in Offsets :
        Current(n, p) /\ k >= nextPLogOffset[n][p] => ~Stored(p, k)

\* Recovery reads a PLog from its beginning.
FreshInv(n) ==
    /\ pc[n] = "idle" => \A p \in Partitions \ resident[n] : nextPLogOffset[n][p] = 1
    /\ pc[n] = "readPLog" =>
          /\ Part(n) \notin resident[n]
          /\ cmd[n].ev = NoEvent => nextPLogOffset[n][Part(n)] = 1

\* The event of the workpiece is in the PLog.
HasRow(n) ==
    \/ pc[n] = "readPLog" /\ cmd[n].ev # NoEvent
    \/ pc[n] \in {"applyRecords", "store", "notify"}
    \/ pc[n] = "reply" /\ ~cmd[n].failed

RowInv(n) ==
    HasRow(n) =>
        /\ plog[Part(n)][cmd[n].poff] = cmd[n].ev
        /\ pc[n] \in {"readPLog", "applyRecords"} =>
               nextPLogOffset[n][Part(n)] = cmd[n].poff + 1

\* The records of an event that is going to be stored are new in the view.
PutInv(n) ==
    pc[n] = "putPLog" =>
        /\ \A id \in cmd[n].ev.creates : id < nextRecordID[n][cmd[n].ws] + cmd[n].nnew
        /\ \A k \in Offsets :
              k < cmd[n].poff /\ plog[Part(n)][k].ws = cmd[n].ws =>
                  plog[Part(n)][k].creates \cap cmd[n].ev.creates = {}

\* What the branches of the store stage have done.
BranchInv(n) ==
    LET c == cmd[n]
        finished == pc[n] = "notify" \/ (pc[n] = "reply" /\ ~c.failed)
    IN  /\ pc[n] = "store" /\ "err" \in {c.projector, c.putWLog} => c.restart
        /\ finished \/ (pc[n] = "store" /\ c.putWLog = "ok") =>
               wlog[c.ev.ws][c.ev.woff] = c.poff
        /\ finished \/ (pc[n] = "store" /\ c.projector = "ok") =>
               c.poff \in synced[Part(n)]

NodeInv(n) ==
    /\ ~Doomed(n) => ViewInv(n) /\ CreatedInv(n) /\ (OneWriter => UpToDate(n))
    /\ FreshInv(n) /\ RowInv(n) /\ PutInv(n) /\ BranchInv(n)

\* When an event is stored the records of its predecessors exist.
AllCreated ==
    \A p \in Partitions, j, k \in Offsets : j < k /\ Stored(p, k) => Created(p, j)

LogInv ==
    /\ PLogIsDense /\ WLogOffsetsAreSequential /\ RecordIDsAreUnique
    /\ WLogRowsAreEvents /\ AckedIsDurable /\ AllCreated

SafeInv == TypeInv /\ LogInv /\ \A n \in Nodes : NodeInv(n)

-----------------------------------------------------------------------------
\* Nothing that is stored is replaced or removed.
StorageGrows ==
    /\ \A p \in Partitions, k \in Offsets : Stored(p, k) => plog'[p][k] = plog[p][k]
    /\ \A w \in WSIDs, id \in RecordIDs : records[w][id] # {} => records'[w][id] # {}
    /\ \A w \in WSIDs, o \in Offsets : wlog[w][o] # 0 => wlog'[w][o] = wlog[w][o]
    /\ \A p \in Partitions : synced[p] \subseteq synced'[p]

LEMMA RowType ==
    ASSUME TypeInv, NEW p \in Partitions, NEW k \in Offsets, Stored(p, k)
    PROVE  /\ plog[p][k] \in Event
           /\ plog[p][k].ws \in WSIDs /\ PartitionOf[plog[p][k].ws] = p
           /\ plog[p][k].woff \in Offsets
           /\ plog[p][k].creates \in SUBSET RecordIDs
<1>1. plog[p][k] \in Event  BY DEF TypeInv, TypeOK, Stored
<1>2. PartitionOf[plog[p][k].ws] = p  BY DEF TypeInv, PLogIsRouted
<1> QED  BY <1>1, <1>2 DEF Event

\* The records of a stored event stay when the storage grows.
LEMMA CreatedStays ==
    ASSUME TypeInv, StorageGrows, NEW p \in Partitions, NEW k \in Offsets,
           Stored(p, k), Created(p, k)
    PROVE  Created(p, k)'
<1>1. /\ plog'[p][k] = plog[p][k] /\ plog[p][k].ws \in WSIDs
      /\ plog[p][k].creates \in SUBSET RecordIDs
  BY RowType DEF StorageGrows
<1> QED  BY <1>1 DEF StorageGrows, Created

\* What a process knows does not depend on what other processes add.
LEMMA OthersKeepNode ==
    ASSUME SafeInv, NEW n \in Nodes, OthersUnchanged(n), StorageGrows,
           NEW m \in Nodes \ {n}
    PROVE  NodeInv(m)'
<1>0. TypeInv /\ TypeOK /\ NodeInv(m) /\ WorkpieceInv(m) /\ MaxOffset \in Nat
  BY ConstantsAssumption DEF SafeInv, TypeInv
<1>1. /\ pc'[m] = pc[m] /\ cmd'[m] = cmd[m] /\ resident'[m] = resident[m]
      /\ nextPLogOffset'[m] = nextPLogOffset[m]
      /\ nextWLogOffset'[m] = nextWLogOffset[m]
      /\ nextRecordID'[m] = nextRecordID[m]
  BY DEF OthersUnchanged
<1>2. Part(m)' = Part(m) /\ Part(m) \in Partitions  BY <1>0, <1>1, CmdType DEF Part
<1>3. ~OneWriter  BY DEF OneWriter
<1>4. ASSUME ViewInv(m)  PROVE ViewInv(m)'
  <2>1. \A p \in Partitions, k \in Offsets :
            k < nextPLogOffset[m][p] => plog'[p][k] = plog[p][k] /\ Stored(p, k)
    BY <1>4 DEF ViewInv, StorageGrows
  <2>2. \A w \in WSIDs : PartitionOf[w] \in Partitions  BY ConstantsAssumption
  <2>3. \A w \in WSIDs : Seen(m, w)' = Seen(m, w)  BY <1>1 DEF Seen, Pending
  <2> QED  BY <1>1, <1>4, <2>1, <2>2, <2>3 DEF ViewInv, Stored
<1>5. ASSUME ViewInv(m), CreatedInv(m)  PROVE CreatedInv(m)'
  <2>1. \A p \in Partitions : LastUnapplied(m, p)' = LastUnapplied(m, p)
    BY <1>1, <1>2 DEF LastUnapplied
  <2> QED  BY <1>0, <1>1, <1>5, <2>1, CreatedStays DEF CreatedInv, ViewInv
<1>6. FreshInv(m)'  BY <1>0, <1>1, <1>2 DEF NodeInv, FreshInv
<1>7. RowInv(m)'
  <2>1. HasRow(m)' = HasRow(m)  BY <1>1 DEF HasRow
  <2>2. HasRow(m) => HasEvent(m)  BY <1>0 DEF HasRow, WorkpieceInv
  <2>3. HasRow(m) => plog'[Part(m)][cmd[m].poff] = plog[Part(m)][cmd[m].poff]
    BY <1>0, <1>2, <2>2, ConstantsAssumption
       DEF NodeInv, RowInv, HasEvent, StorageGrows, Stored
  <2> QED  BY <1>0, <1>1, <1>2, <2>1, <2>3 DEF NodeInv, RowInv
<1>8. PutInv(m)'
  <2> SUFFICES ASSUME pc[m] = "putPLog"  PROVE PutInv(m)'
    BY <1>1 DEF PutInv
  <2>1. ViewInv(m) /\ nextPLogOffset[m][Part(m)] = cmd[m].poff
    BY <1>0 DEF NodeInv, Doomed, WorkpieceInv
  <2>2. \A k \in Offsets : k < cmd[m].poff => plog'[Part(m)][k] = plog[Part(m)][k]
    BY <1>2, <2>1 DEF ViewInv, StorageGrows
  <2> QED  BY <1>0, <1>1, <1>2, <2>2 DEF NodeInv, PutInv
<1>9. BranchInv(m)'
  <2> DEFINE c == cmd[m]
             finished == pc[m] = "notify" \/ (pc[m] = "reply" /\ ~c.failed)
  <2>1. finished \/ pc[m] = "store" => HasEvent(m)
    BY <1>0 DEF WorkpieceInv
  <2>2. HasEvent(m) => /\ c.ev.ws \in WSIDs /\ c.ev.woff \in Offsets
                       /\ c.poff \in Offsets /\ c.poff # 0
    BY <1>0 DEF HasEvent, Event, Offsets
  <2>3. HasEvent(m) /\ wlog[c.ev.ws][c.ev.woff] = c.poff =>
            wlog'[c.ev.ws][c.ev.woff] = c.poff
    BY <2>2 DEF StorageGrows
  <2>4. c.poff \in synced[Part(m)] => c.poff \in synced'[Part(m)]
    BY <1>2 DEF StorageGrows
  <2> QED  BY <1>0, <1>1, <1>2, <2>1, <2>3, <2>4 DEF NodeInv, BranchInv
<1>10. Doomed(m)' = Doomed(m)  BY <1>1 DEF Doomed
<1> QED  BY <1>0, <1>3, <1>4, <1>5, <1>6, <1>7, <1>8, <1>9, <1>10 DEF NodeInv, OneWriter

-----------------------------------------------------------------------------
(* Appending to a PLog. *)

\* A row that PutPlog writes is the next one of a PLog the process has seen.
LEMMA RowIsNext ==
    ASSUME SafeInv, SafeStorage, NEW n \in Nodes, pc[n] = "putPLog",
           PLogWritable(Part(n), cmd[n].poff)
    PROVE  /\ Part(n) \in Partitions /\ cmd[n].poff \in Offsets /\ cmd[n].ev \in Event
           /\ \A j \in Offsets : Stored(Part(n), j) <=> j < cmd[n].poff
<1> DEFINE p == Part(n)
           k == cmd[n].poff
<1>1. /\ p \in Partitions /\ k \in Offsets /\ cmd[n].ev \in Event
      /\ nextPLogOffset[n][p] = k
  BY CmdType DEF SafeInv, TypeInv, WorkpieceInv, HasEvent
<1>2. ViewInv(n) /\ (OneWriter => UpToDate(n))
  BY DEF SafeInv, NodeInv, Doomed
<1>3. ~Stored(p, k)
  <2>1. CASE TrustLevel # 2  BY <2>1 DEF PLogWritable, Stored
  <2>2. CASE OneWriter
    <3>1. UpToDate(n) /\ Current(n, p)  BY <1>2, <2>2 DEF Current
    <3> QED  BY <1>1, <3>1, ConstantsAssumption DEF UpToDate, Offsets
  <2> QED  BY <2>1, <2>2 DEF SafeStorage
<1>4. \A j \in Offsets : j < k => Stored(p, j)  BY <1>1, <1>2 DEF ViewInv
<1>5. \A j \in Offsets : j > k => ~Stored(p, j)
  BY <1>1, <1>3 DEF SafeInv, LogInv, PLogIsDense
<1> QED  BY <1>1, <1>3, <1>4, <1>5, ConstantsAssumption DEF Offsets

\* The event of the workpiece extends the log of its workspace with new IDs.
LEMMA AppendKeepsLog ==
    ASSUME SafeInv, SafeStorage, NEW n \in Nodes, pc[n] = "putPLog",
           PLogWritable(Part(n), cmd[n].poff),
           plog' = [plog EXCEPT ![Part(n)][cmd[n].poff] = cmd[n].ev],
           UNCHANGED <<wlog, records, synced, acked>>
    PROVE  LogInv' /\ StorageGrows
<1> DEFINE p == Part(n)
           k == cmd[n].poff
           e == cmd[n].ev
<1>0. TypeInv /\ TypeOK /\ LogInv /\ NodeInv(n) /\ WorkpieceInv(n) /\ MaxOffset \in Nat
  BY ConstantsAssumption DEF SafeInv, TypeInv
<1>1. /\ p \in Partitions /\ k \in Offsets /\ e \in Event
      /\ \A j \in Offsets : Stored(p, j) <=> j < k
  BY RowIsNext
<1>2. /\ ViewInv(n) /\ CreatedInv(n) /\ PutInv(n)
      /\ nextPLogOffset[n][p] = k /\ nextWLogOffset[n][e.ws] = e.woff
      /\ e.ws = cmd[n].ws /\ PartitionOf[e.ws] = p
  BY <1>0 DEF NodeInv, Doomed, WorkpieceInv, HasEvent
<1>3. e.ws \in WSIDs /\ e.woff \in Offsets /\ e.creates \in SUBSET RecordIDs
  BY <1>1 DEF Event
<1>4. Seen(n, e.ws) = e.woff  BY <1>2 DEF Seen, Pending
<1>5. \A q \in Partitions, j \in Offsets :
          plog'[q][j] = IF q = p /\ j = k THEN e ELSE plog[q][j]
  BY <1>0, <1>1 DEF TypeOK
<1>6. \A q \in Partitions, j \in Offsets :
          Stored(q, j)' <=> Stored(q, j) \/ (q = p /\ j = k)
  BY <1>1, <1>5, ConstantsAssumption DEF Stored
<1>7. Offsets \subseteq Int  BY DEF Offsets
<1> HIDE DEF p, k, e
<1>8. StorageGrows
  BY <1>1, <1>5, <1>7 DEF StorageGrows
<1>9. PLogIsDense'
  BY <1>0, <1>1, <1>6, <1>7 DEF LogInv, PLogIsDense
<1>10. WLogOffsetsAreSequential'
  <2> SUFFICES ASSUME NEW q \in Partitions, NEW i \in Offsets
               PROVE  /\ \A j \in Offsets : SameWS(q, j, i)' /\ j < i
                                => plog'[q][j].woff < plog'[q][i].woff
                      /\ Stored(q, i)' =>
                           \A o \in 1..(plog'[q][i].woff - 1) :
                               \E j \in Offsets : /\ j < i /\ SameWS(q, j, i)'
                                                  /\ plog'[q][j].woff = o
    BY DEF WLogOffsetsAreSequential
  <2>1. CASE q = p /\ i = k
    <3>1. \A j \in Offsets : j < k => plog'[p][j] = plog[p][j] /\ Stored(p, j)
      BY <1>1, <1>5, <1>7
    <3>2. plog'[p][k] = e  BY <1>1, <1>5
    <3>3. \A j \in Offsets : j < k /\ plog[p][j].ws = e.ws => plog[p][j].woff < e.woff
      BY <1>2, <1>3, <1>4 DEF ViewInv
    <3>4. \A o \in Offsets : o < e.woff =>
              \E j \in Offsets : j < k /\ plog[p][j].ws = e.ws /\ plog[p][j].woff = o
      BY <1>2, <1>3, <1>4 DEF ViewInv
    <3>5. \A o \in 1..(e.woff - 1) : o \in Offsets /\ o < e.woff
      BY <1>0, <1>3 DEF Offsets
    <3>6. \A j \in Offsets : j < i => (SameWS(q, j, i)' <=> plog[p][j].ws = e.ws)
      BY <1>1, <1>6, <2>1, <3>1, <3>2 DEF SameWS
    <3>7. \A o \in 1..(e.woff - 1) :
              \E j \in Offsets : j < i /\ SameWS(q, j, i)' /\ plog'[q][j].woff = o
      BY <2>1, <3>1, <3>4, <3>5, <3>6
    <3> QED  BY <2>1, <3>1, <3>2, <3>3, <3>6, <3>7
  <2>2. CASE ~(q = p /\ i = k)
    <3>1. plog'[q][i] = plog[q][i] /\ (Stored(q, i)' <=> Stored(q, i))
      BY <1>5, <1>6, <2>2
    <3>2. \A j \in Offsets : j < i /\ Stored(q, i) =>
              plog'[q][j] = plog[q][j] /\ (Stored(q, j)' <=> Stored(q, j))
      BY <1>1, <1>5, <1>6, <1>7
    <3>3. \A j \in Offsets : j < i => (SameWS(q, j, i)' <=> SameWS(q, j, i))
      BY <3>1, <3>2 DEF SameWS
    <3>4. /\ \A j \in Offsets : SameWS(q, j, i) /\ j < i
                                => plog[q][j].woff < plog[q][i].woff
          /\ Stored(q, i) =>
               \A o \in 1..(plog[q][i].woff - 1) :
                   \E j \in Offsets : j < i /\ SameWS(q, j, i) /\ plog[q][j].woff = o
      BY <1>0 DEF LogInv, WLogOffsetsAreSequential
    <3>5. \A j \in Offsets : SameWS(q, j, i)' /\ j < i
                                => plog'[q][j].woff < plog'[q][i].woff
      BY <3>1, <3>2, <3>3, <3>4 DEF SameWS
    <3>6. ASSUME Stored(q, i)', NEW o \in 1..(plog'[q][i].woff - 1)
          PROVE  \E j \in Offsets : j < i /\ SameWS(q, j, i)' /\ plog'[q][j].woff = o
      <4>1. PICK j \in Offsets : j < i /\ SameWS(q, j, i) /\ plog[q][j].woff = o
        BY <3>1, <3>4, <3>6
      <4> QED  BY <3>1, <3>2, <3>3, <3>6, <4>1
    <3> QED  BY <3>5, <3>6
  <2> QED  BY <2>1, <2>2
<1>11. RecordIDsAreUnique'
  <2> SUFFICES ASSUME NEW q \in Partitions, NEW i \in Offsets, NEW j \in Offsets,
                      SameWS(q, j, i)', j < i
               PROVE  plog'[q][j].creates \cap plog'[q][i].creates = {}
    BY <1>7 DEF RecordIDsAreUnique, SameWS
  <2>1. CASE q = p /\ i = k
    <3>1. plog'[p][j] = plog[p][j] /\ plog'[p][k] = e  BY <1>1, <1>5, <1>7, <2>1
    <3>2. plog[p][j].ws = cmd[n].ws  BY <1>2, <2>1, <3>1 DEF SameWS
    <3> QED  BY <1>0, <1>2, <2>1, <3>1, <3>2 DEF PutInv, p, k, e
  <2>2. CASE ~(q = p /\ i = k)
    <3>1. Stored(q, i) /\ plog'[q][i] = plog[q][i]  BY <1>5, <1>6, <2>2 DEF SameWS
    <3>2. Stored(q, j) /\ plog'[q][j] = plog[q][j]
      BY <1>1, <1>5, <1>6, <1>7, <3>1 DEF SameWS
    <3>3. SameWS(q, j, i)  BY <3>1, <3>2 DEF SameWS
    <3> QED  BY <1>0, <1>7, <3>1, <3>2, <3>3 DEF LogInv, RecordIDsAreUnique
  <2> QED  BY <2>1, <2>2
<1>12. WLogRowsAreEvents'
  <2> SUFFICES ASSUME NEW w \in WSIDs, NEW o \in Offsets, wlog'[w][o] # 0
               PROVE  /\ Stored(PartitionOf[w], wlog[w][o])'
                      /\ plog'[PartitionOf[w]][wlog[w][o]].ws = w
                      /\ plog'[PartitionOf[w]][wlog[w][o]].woff = o
    BY DEF WLogRowsAreEvents
  <2>1. wlog[w][o] \in Offsets /\ PartitionOf[w] \in Partitions
    BY <1>0, ConstantsAssumption DEF TypeOK
  <2>2. /\ Stored(PartitionOf[w], wlog[w][o])
        /\ plog[PartitionOf[w]][wlog[w][o]].ws = w
        /\ plog[PartitionOf[w]][wlog[w][o]].woff = o
    BY <1>0 DEF LogInv, WLogRowsAreEvents
  <2> QED  BY <1>6, <1>8, <2>1, <2>2 DEF StorageGrows
<1>13. AckedIsDurable'
  <2> SUFFICES ASSUME NEW q \in Partitions, NEW a \in acked[q]
               PROVE  plog'[q][a.poff] = a.ev
    BY <1>0 DEF LogInv, AckedIsDurable
  <2>1. a.poff \in Offsets /\ a.ev \in Event /\ plog[q][a.poff] = a.ev
    BY <1>0 DEF TypeOK, LogInv, AckedIsDurable
  <2> QED  BY <1>8, <2>1, ConstantsAssumption DEF StorageGrows, Stored
<1>14. AllCreated'
  <2> SUFFICES ASSUME NEW q \in Partitions, NEW j \in Offsets, NEW i \in Offsets,
                      j < i, Stored(q, i)'
               PROVE  Created(q, j)'
    BY DEF AllCreated
  <2>1. Stored(q, j) /\ Created(q, j)
    <3>1. CASE q = p /\ i = k
      <4>1. ~LastUnapplied(n, p)  BY DEF LastUnapplied
      <4> QED  BY <1>1, <1>2, <3>1, <4>1 DEF CreatedInv
    <3>2. CASE ~(q = p /\ i = k)
      BY <1>0, <1>6, <3>2 DEF LogInv, AllCreated, PLogIsDense
    <3> QED  BY <3>1, <3>2
  <2> QED  BY <1>0, <1>8, <2>1, CreatedStays
<1>20. LogInv'  BY <1>9, <1>10, <1>11, <1>12, <1>13, <1>14 DEF LogInv
<1> QED  BY <1>8, <1>20

-----------------------------------------------------------------------------
(* Steps that write no PLog row. *)

\* A WLog row k at (w, o) is the event with this workspace and offset.
RowOf(w, o, k) ==
    /\ k \in Offsets /\ Stored(PartitionOf[w], k)
    /\ plog[PartitionOf[w]][k].ws = w /\ plog[PartitionOf[w]][k].woff = o

\* An event with an acknowledgement in partition p has all its traces.
Durable(p, a) ==
    /\ plog[p][a.poff] = a.ev
    /\ wlog[a.ev.ws][a.ev.woff] = a.poff
    /\ a.poff \in synced[p]

\* At most one event has a given workspace and offset.
LEMMA RowIsUnique ==
    ASSUME TypeInv, LogInv, NEW w \in WSIDs, NEW o \in Offsets,
           NEW j \in Offsets, NEW k \in Offsets, RowOf(w, o, j), RowOf(w, o, k)
    PROVE  j = k
<1> DEFINE p == PartitionOf[w]
<1>1. p \in Partitions /\ Offsets \subseteq Int
  BY ConstantsAssumption DEF Offsets
<1>2. SameWS(p, j, k) /\ SameWS(p, k, j)  BY DEF RowOf, SameWS
<1>3. plog[p][j].woff = o /\ plog[p][k].woff = o /\ o \in Int
  BY <1>1 DEF RowOf
<1> HIDE DEF p
<1>4. ~(j < k) /\ ~(k < j)
  BY <1>1, <1>2, <1>3 DEF LogInv, WLogOffsetsAreSequential
<1> QED  BY <1>1, <1>4

LEMMA LogStays ==
    ASSUME TypeInv, LogInv, UNCHANGED plog,
           \A w \in WSIDs, id \in RecordIDs : records[w][id] # {} => records'[w][id] # {},
           \A p \in Partitions : synced[p] \subseteq synced'[p],
           \A w \in WSIDs, o \in Offsets :
               wlog'[w][o] = wlog[w][o] \/ RowOf(w, o, wlog'[w][o]),
           \A p \in Partitions : \A a \in acked'[p] : a \in acked[p] \/ Durable(p, a)'
    PROVE  LogInv' /\ StorageGrows
<1>0. TypeOK /\ MaxOffset \in Nat  BY ConstantsAssumption DEF TypeInv
<1>1. \A w \in WSIDs, o \in Offsets : wlog[w][o] # 0 => RowOf(w, o, wlog[w][o])
  BY <1>0 DEF LogInv, WLogRowsAreEvents, RowOf, TypeOK
<1>2. \A w \in WSIDs, o \in Offsets : wlog[w][o] # 0 => wlog'[w][o] = wlog[w][o]
  <2> TAKE w \in WSIDs, o \in Offsets
  <2> HAVE wlog[w][o] # 0
  <2>1. CASE RowOf(w, o, wlog'[w][o])
    <3>1. RowOf(w, o, wlog[w][o])  BY <1>1
    <3>2. wlog[w][o] \in Offsets /\ wlog'[w][o] \in Offsets  BY <2>1, <3>1 DEF RowOf
    <3> QED  BY <2>1, <3>1, <3>2, RowIsUnique
  <2> QED  BY <2>1
<1>3. StorageGrows  BY <1>2 DEF StorageGrows
<1>4. PLogIsDense' /\ WLogOffsetsAreSequential' /\ RecordIDsAreUnique'
  BY DEF LogInv, PLogIsDense, WLogOffsetsAreSequential, RecordIDsAreUnique, Stored, SameWS
<1>5. WLogRowsAreEvents'
  <2> SUFFICES ASSUME NEW w \in WSIDs, NEW o \in Offsets, wlog'[w][o] # 0
               PROVE  RowOf(w, o, wlog'[w][o])
    BY DEF WLogRowsAreEvents, RowOf, Stored
  <2> QED  BY <1>1
<1>6. AckedIsDurable'
  <2> SUFFICES ASSUME NEW p \in Partitions, NEW a \in acked'[p]  PROVE Durable(p, a)'
    BY DEF AckedIsDurable, Durable
  <2>1. CASE a \in acked[p]
    <3>1. Durable(p, a)  BY <2>1 DEF LogInv, AckedIsDurable, Durable
    <3>2. a.ev \in Event /\ a.poff \in Offsets  BY <1>0, <2>1 DEF TypeOK
    <3>3. /\ a.ev.ws \in WSIDs /\ a.ev.woff \in Offsets /\ a.poff # 0
      BY <3>2 DEF Event, Offsets
    <3> QED  BY <1>2, <3>1, <3>3 DEF Durable
  <2> QED  BY <2>1
<1>7. AllCreated'
  <2> SUFFICES ASSUME NEW p \in Partitions, NEW j \in Offsets, NEW k \in Offsets,
                      j < k, Stored(p, k)'
               PROVE  Created(p, j)'
    BY DEF AllCreated
  <2>1. Stored(p, k)  BY DEF Stored
  <2>2. Stored(p, j) /\ Created(p, j)  BY <2>1 DEF LogInv, AllCreated, PLogIsDense
  <2> QED  BY <1>3, <2>2, CreatedStays
<1> QED  BY <1>3, <1>4, <1>5, <1>6, <1>7 DEF LogInv

-----------------------------------------------------------------------------
(* Steps that leave the view of their process as it is. *)

LEMMA ViewStays ==
    ASSUME TypeInv, NEW n \in Nodes, ViewInv(n), StorageGrows,
           nextPLogOffset'[n] = nextPLogOffset[n], nextRecordID'[n] = nextRecordID[n],
           \A w \in WSIDs : Seen(n, w)' = Seen(n, w)
    PROVE  ViewInv(n)'
<1>1. \A p \in Partitions, k \in Offsets :
          k < nextPLogOffset[n][p] => plog'[p][k] = plog[p][k] /\ Stored(p, k)
  BY DEF ViewInv, StorageGrows
<1>2. \A w \in WSIDs : PartitionOf[w] \in Partitions  BY ConstantsAssumption
<1> QED  BY <1>1, <1>2 DEF ViewInv, Stored

LEMMA CreatedInvStays ==
    ASSUME TypeInv, NEW n \in Nodes, ViewInv(n), CreatedInv(n), StorageGrows,
           nextPLogOffset'[n] = nextPLogOffset[n],
           \A p \in Partitions : LastUnapplied(n, p) => LastUnapplied(n, p)'
    PROVE  CreatedInv(n)'
<1> SUFFICES ASSUME NEW p \in Partitions, NEW k \in Offsets,
                    k < nextPLogOffset[n][p],
                    LastUnapplied(n, p)' => k + 1 < nextPLogOffset[n][p]
             PROVE  Created(p, k)'
  BY DEF CreatedInv
<1>1. Created(p, k) /\ Stored(p, k)  BY DEF CreatedInv, ViewInv
<1> QED  BY <1>1, CreatedStays

LEMMA UpToDateStays ==
    ASSUME NEW n \in Nodes, UpToDate(n), UNCHANGED plog,
           nextPLogOffset'[n] = nextPLogOffset[n],
           \A p \in Partitions : Current(n, p)' => Current(n, p)
    PROVE  UpToDate(n)'
BY DEF UpToDate, Stored

LEMMA QuietStep ==
    ASSUME SafeInv, UNCHANGED <<storage, acked>>
    PROVE  LogInv' /\ StorageGrows
<1>1. /\ UNCHANGED plog /\ records' = records /\ synced' = synced
      /\ wlog' = wlog /\ acked' = acked
  BY DEF storage
<1> QED  BY <1>1, LogStays DEF SafeInv

LEMMA FailFields ==
    ASSUME TypeOK, NEW n \in Nodes, Fail(n)
    PROVE  /\ pc'[n] = "reply" /\ cmd'[n].failed
           /\ cmd'[n].restart = cmd[n].restart /\ Part(n)' = Part(n)
<1>1. cmd[n] \in Workpiece  BY CmdType
<1> DEFINE c == [cmd[n] EXCEPT !.failed = TRUE]
<1>2. /\ c \in Workpiece /\ c.failed /\ c.restart = cmd[n].restart
      /\ c.ws = cmd[n].ws
  BY <1>1, FlagsType DEF Workpiece
<1>3. SetCmd(n, c) /\ pc'[n] = "reply"  BY DEF Fail, GoReply, TypeOK
<1> HIDE DEF c
<1> QED  BY <1>2, <1>3, SetCmdEffect DEF Part

\* A process that is going to restart keeps no view.
LEMMA RestartKeepsNode ==
    ASSUME TypeOK, NEW n \in Nodes, FailAndRestart(n)
    PROVE  NodeInv(n)'
<1>1. cmd[n] \in Workpiece  BY CmdType
<1> DEFINE c == [cmd[n] EXCEPT !.failed = TRUE, !.restart = TRUE]
<1>2. c \in Workpiece /\ c.failed /\ c.restart  BY <1>1, FlagsType DEF Workpiece
<1>3. SetCmd(n, c) /\ pc'[n] = "reply"  BY DEF FailAndRestart, GoReply, TypeOK
<1> HIDE DEF c
<1>4. cmd'[n].failed /\ cmd'[n].restart  BY <1>2, <1>3, SetCmdEffect
<1> QED  BY <1>3, <1>4 DEF NodeInv, Doomed, FreshInv, RowInv, HasRow, PutInv, BranchInv

LEMMA AcceptKeeps ==
    ASSUME SafeInv, NEW n \in Nodes, NEW w \in WSIDs, NEW b \in BOOLEAN, Accept(n, w, b)
    PROVE  LogInv' /\ StorageGrows /\ NodeInv(n)'
<1>0. TypeInv /\ TypeOK /\ NodeInv(n)  BY DEF SafeInv, TypeInv
<1> DEFINE c == NewWorkpiece(w, b)
<1>1. c \in Workpiece /\ c.ev = NoEvent /\ c.ws = w
  BY NewWorkpieceType DEF NewWorkpiece
<1>2. /\ pc[n] = "idle" /\ SetCmd(n, c)
      /\ UNCHANGED <<storage, announced, acked, memory>>
  BY DEF Accept
<1>3. pc'[n] = IF PartitionOf[w] \in resident[n] THEN "exec" ELSE "readPLog"
  BY <1>0 DEF Accept, TypeOK
<1> HIDE DEF c
<1>4. cmd'[n] = c /\ Part(n)' = PartitionOf[w] /\ PartitionOf[w] \in Partitions
  BY <1>0, <1>1, <1>2, SetCmdEffect, ConstantsAssumption DEF Part
<1>5. LogInv' /\ StorageGrows  BY <1>2, QuietStep
<1>6. /\ nextPLogOffset' = nextPLogOffset /\ nextWLogOffset' = nextWLogOffset
      /\ nextRecordID' = nextRecordID /\ resident' = resident /\ plog' = plog
  BY <1>2 DEF memory, storage
<1>7. ViewInv(n) /\ CreatedInv(n) /\ (OneWriter => UpToDate(n)) /\ FreshInv(n)
  BY <1>0, <1>2 DEF NodeInv, Doomed
<1>8. ViewInv(n)'
  <2>1. \A x \in WSIDs : Seen(n, x)' = Seen(n, x)
    BY <1>2, <1>3, <1>6 DEF Seen, Pending
  <2> QED  BY <1>0, <1>5, <1>6, <1>7, <2>1, ViewStays
<1>9. CreatedInv(n)'
  <2>1. \A p \in Partitions : ~LastUnapplied(n, p)  BY <1>2 DEF LastUnapplied
  <2> QED  BY <1>0, <1>5, <1>6, <1>7, <2>1, CreatedInvStays
<1>10. OneWriter => UpToDate(n)'
  <2>1. \A p \in Partitions : Current(n, p)' => Current(n, p)
    BY <1>3, <1>4, <1>6 DEF Current
  <2> QED  BY <1>6, <1>7, <2>1, UpToDateStays
<1>11. FreshInv(n)' /\ RowInv(n)' /\ PutInv(n)' /\ BranchInv(n)'
  BY <1>1, <1>2, <1>3, <1>4, <1>6, <1>7
     DEF FreshInv, RowInv, HasRow, PutInv, BranchInv
<1> QED  BY <1>5, <1>8, <1>9, <1>10, <1>11 DEF NodeInv, OneWriter

LEMMA RefusalKeeps ==
    ASSUME SafeInv, NEW n \in Nodes, RecoverReadFails(n) \/ ExecFails(n)
    PROVE  LogInv' /\ StorageGrows /\ NodeInv(n)'
<1>0. TypeInv /\ TypeOK /\ NodeInv(n)  BY DEF SafeInv, TypeInv
<1>1. /\ pc[n] \in {"readPLog", "exec"} /\ Fail(n)
      /\ UNCHANGED <<storage, announced, acked, memory>>
  BY DEF RecoverReadFails, ExecFails
<1>2. /\ pc'[n] = "reply" /\ cmd'[n].failed
      /\ cmd'[n].restart = cmd[n].restart /\ Part(n)' = Part(n)
  BY <1>0, <1>1, FailFields
<1>3. LogInv' /\ StorageGrows  BY <1>1, QuietStep
<1>4. /\ nextPLogOffset' = nextPLogOffset /\ nextWLogOffset' = nextWLogOffset
      /\ nextRecordID' = nextRecordID /\ resident' = resident /\ plog' = plog
  BY <1>1 DEF memory, storage
<1>5. ViewInv(n) /\ CreatedInv(n) /\ (OneWriter => UpToDate(n)) /\ FreshInv(n)
  BY <1>0, <1>1 DEF NodeInv, Doomed
<1>6. ViewInv(n)'
  <2>1. \A x \in WSIDs : Seen(n, x)' = Seen(n, x)
    BY <1>1, <1>2, <1>4 DEF Seen, Pending
  <2> QED  BY <1>0, <1>3, <1>4, <1>5, <2>1, ViewStays
<1>7. CreatedInv(n)'
  <2>1. \A p \in Partitions : LastUnapplied(n, p) => LastUnapplied(n, p)'
    BY <1>1, <1>2, <1>4, <1>5 DEF LastUnapplied, FreshInv
  <2> QED  BY <1>0, <1>3, <1>4, <1>5, <2>1, CreatedInvStays
<1>8. OneWriter => UpToDate(n)'
  <2>1. \A p \in Partitions : Current(n, p)' => Current(n, p)
    BY <1>2, <1>4 DEF Current
  <2> QED  BY <1>4, <1>5, <2>1, UpToDateStays
<1>9. FreshInv(n)' /\ RowInv(n)' /\ PutInv(n)' /\ BranchInv(n)'
  BY <1>2 DEF FreshInv, RowInv, HasRow, PutInv, BranchInv
<1> QED  BY <1>3, <1>6, <1>7, <1>8, <1>9 DEF NodeInv, OneWriter

-----------------------------------------------------------------------------
(* Recovery. *)

LEMMA RecoverEventKeeps ==
    ASSUME SafeInv, NEW n \in Nodes, NEW k \in Offsets, RecoverEvent(n, k)
    PROVE  LogInv' /\ StorageGrows /\ NodeInv(n)'
<1> DEFINE p == Part(n)
           e == plog[p][k]
           c == [cmd[n] EXCEPT !.ev = e, !.poff = k]
<1>0. TypeInv /\ TypeOK /\ LogInv /\ NodeInv(n) /\ MaxOffset \in Nat
  BY ConstantsAssumption DEF SafeInv, TypeInv
<1>1. /\ pc[n] = "readPLog" /\ SetCmd(n, c) /\ k >= nextPLogOffset[n][p]
      /\ \A j \in Offsets : j >= nextPLogOffset[n][p] /\ j < k => plog[p][j] = NoEvent
      /\ UNCHANGED <<storage, announced, acked, resident, pc>>
  BY DEF RecoverEvent
<1>2. /\ p \in Partitions /\ cmd[n] \in Workpiece /\ cmd[n].ws \in WSIDs
      /\ nextPLogOffset[n][p] \in 1..(MaxOffset + 1)
  BY <1>0, CmdType DEF TypeOK
<1>3. Stored(p, k)  BY DEF RecoverEvent, Stored
<1>4. e \in Event /\ e.ws \in WSIDs /\ e.woff \in Offsets /\ PartitionOf[e.ws] = p
  BY <1>0, <1>2, <1>3, RowType
<1>5. k = nextPLogOffset[n][p]
  <2> SUFFICES ASSUME nextPLogOffset[n][p] < k  PROVE FALSE
    BY <1>0, <1>1, <1>2 DEF Offsets
  <2>1. nextPLogOffset[n][p] \in Offsets  BY <1>0, <1>2 DEF Offsets
  <2>2. Stored(p, nextPLogOffset[n][p])
    BY <1>0, <1>2, <1>3, <2>1 DEF LogInv, PLogIsDense
  <2> QED  BY <1>0, <1>1, <1>2, <2>1, <2>2 DEF Stored, Offsets
<1>6. \A q \in Partitions : nextPLogOffset'[n][q] = IF q = p THEN k + 1
                                                             ELSE nextPLogOffset[n][q]
  BY <1>0, <1>2 DEF RecoverEvent, TypeOK
<1>7. \A w \in WSIDs : nextWLogOffset'[n][w] = IF w = e.ws THEN e.woff + 1
                                                           ELSE nextWLogOffset[n][w]
  BY <1>0, <1>4 DEF RecoverEvent, TypeOK
<1>8. PICK i \in 1..(MaxRecordID + 1) :
          /\ UpdateOnSync(nextRecordID[n][e.ws], e.creates, i)
          /\ \A w \in WSIDs : nextRecordID'[n][w] = IF w = e.ws THEN i
                                                                ELSE nextRecordID[n][w]
  <2>1. PICK i \in 1..(MaxRecordID + 1) :
            /\ UpdateOnSync(nextRecordID[n][e.ws], e.creates, i)
            /\ nextRecordID' = [nextRecordID EXCEPT ![n][e.ws] = i]
    BY DEF RecoverEvent
  <2>2. \A w \in WSIDs : nextRecordID'[n][w] = IF w = e.ws THEN i
                                                           ELSE nextRecordID[n][w]
    BY <1>0, <1>4, <2>1 DEF TypeOK
  <2> QED  BY <2>1, <2>2
<1>9. /\ c \in Workpiece /\ c.ws = cmd[n].ws /\ c.ev = e /\ c.poff = k
  BY <1>2, <1>4 DEF Workpiece
<1> HIDE DEF c
<1>10. cmd'[n] = c /\ Part(n)' = p
  BY <1>0, <1>1, <1>9, SetCmdEffect DEF Part
<1>11. LogInv' /\ StorageGrows  BY <1>1, QuietStep
<1>12. pc' = pc /\ resident' = resident /\ plog' = plog /\ records' = records
  BY <1>1 DEF storage
<1>13. ViewInv(n) /\ CreatedInv(n) /\ (OneWriter => UpToDate(n)) /\ FreshInv(n)
  BY <1>0, <1>1 DEF NodeInv, Doomed
<1>14. \A w \in WSIDs : /\ Seen(n, w) = nextWLogOffset[n][w]
                        /\ Seen(n, w)' = nextWLogOffset'[n][w]
                        /\ PartitionOf[w] \in Partitions
  BY <1>1, <1>12, ConstantsAssumption DEF Seen, Pending
<1>15. Offsets \subseteq Int /\ k + 1 > k  BY DEF Offsets
<1>16. nextRecordID[n][e.ws] \in Int  BY <1>0, <1>4 DEF TypeOK
<1>17. e.creates \subseteq Int /\ i \in Int  BY <1>4 DEF Event, RecordIDs
<1>e. plog[p][k] = e  OBVIOUS
<1> HIDE DEF p, e
<1>18. \A j \in Offsets : j < k /\ plog[p][j].ws = e.ws =>
           SameWS(p, j, k) /\ plog[p][j].woff < e.woff /\ plog[p][j].woff \in Int
                          /\ plog[p][j].creates \subseteq Int
  <2> TAKE j \in Offsets
  <2> HAVE j < k /\ plog[p][j].ws = e.ws
  <2>1. Stored(p, j)  BY <1>2, <1>5, <1>13 DEF ViewInv
  <2>2. SameWS(p, j, k)  BY <1>3, <1>e, <2>1 DEF SameWS
  <2>3. plog[p][j].woff \in Offsets /\ plog[p][j].creates \in SUBSET RecordIDs
    BY <1>0, <1>2, <2>1, RowType
  <2>4. plog[p][j].woff < e.woff
    BY <1>0, <1>2, <1>e, <2>2 DEF LogInv, WLogOffsetsAreSequential
  <2>5. RecordIDs \subseteq Int  BY DEF RecordIDs
  <2> QED  BY <1>15, <2>2, <2>3, <2>4, <2>5
<1>20. ViewInv(n)'
  <2>1. \A q \in Partitions, j \in Offsets : j < nextPLogOffset'[n][q] => Stored(q, j)'
    <3> SUFFICES ASSUME NEW q \in Partitions, NEW j \in Offsets,
                        j < nextPLogOffset'[n][q]
                 PROVE  Stored(q, j)
      BY <1>12 DEF Stored
    <3>1. j < nextPLogOffset[n][q] \/ (q = p /\ j = k)
      BY <1>2, <1>5, <1>6, <1>15
    <3> QED  BY <1>3, <1>13, <3>1 DEF ViewInv
  <2>2. ASSUME NEW w \in WSIDs, NEW j \in Offsets,
               j < nextPLogOffset'[n][PartitionOf[w]], plog[PartitionOf[w]][j].ws = w
        PROVE  /\ plog[PartitionOf[w]][j].woff < nextWLogOffset'[n][w]
               /\ \A id \in plog[PartitionOf[w]][j].creates : id < nextRecordID'[n][w]
    <3>1. CASE w # e.ws
      <4>1. j < nextPLogOffset[n][PartitionOf[w]]
        <5>1. CASE PartitionOf[w] = p
          <6>1. j < k + 1 /\ j # k  BY <1>2, <1>6, <1>e, <2>2, <3>1, <5>1
          <6> QED  BY <1>5, <1>15, <5>1, <6>1
        <5>2. CASE PartitionOf[w] # p  BY <1>6, <1>14, <2>2, <5>2
        <5> QED  BY <5>1, <5>2
      <4> QED  BY <1>7, <1>8, <1>13, <1>14, <2>2, <3>1, <4>1 DEF ViewInv
    <3>2. CASE w = e.ws /\ j = k
      BY <1>4, <1>7, <1>8, <1>15, <1>e, <3>2 DEF UpdateOnSync
    <3>3. CASE w = e.ws /\ j < k
      <4>1. plog[p][j].woff < nextWLogOffset'[n][w]
        <5>1. plog[p][j].woff < e.woff /\ plog[p][j].woff \in Int /\ e.woff \in Int
          BY <1>4, <1>15, <1>18, <2>2, <3>3
        <5> QED  BY <1>4, <1>7, <3>3, <5>1
      <4>2. \A id \in plog[p][j].creates : id < nextRecordID[n][w]
        BY <1>2, <1>4, <1>5, <1>13, <2>2, <3>3 DEF ViewInv
      <4>3. \A id \in plog[p][j].creates : id \in Int
        BY <1>4, <1>18, <2>2, <3>3
      <4>4. nextRecordID[n][w] \in Int /\ i >= nextRecordID[n][w] /\ nextRecordID'[n][w] = i
        BY <1>8, <1>16, <3>3 DEF UpdateOnSync
      <4> QED  BY <1>4, <1>17, <3>3, <4>1, <4>2, <4>3, <4>4
    <3>4. j < k \/ j = k \/ w # e.ws
      BY <1>2, <1>4, <1>6, <1>15, <2>2
    <3> QED  BY <3>1, <3>2, <3>3, <3>4
  <2>3. ASSUME NEW w \in WSIDs, NEW o \in Offsets, o < nextWLogOffset'[n][w]
        PROVE  \E j \in Offsets : /\ j < nextPLogOffset'[n][PartitionOf[w]]
                                  /\ plog[PartitionOf[w]][j].ws = w
                                  /\ plog[PartitionOf[w]][j].woff = o
    <3>1. CASE w # e.ws
      <4>1. PICK j \in Offsets : /\ j < nextPLogOffset[n][PartitionOf[w]]
                                 /\ plog[PartitionOf[w]][j].ws = w
                                 /\ plog[PartitionOf[w]][j].woff = o
        BY <1>7, <1>13, <1>14, <2>3, <3>1 DEF ViewInv
      <4>2. j < nextPLogOffset'[n][PartitionOf[w]]
        <5>1. CASE PartitionOf[w] = p
          <6>1. j < k /\ nextPLogOffset'[n][p] = k + 1  BY <1>2, <1>5, <1>6, <4>1, <5>1
          <6> QED  BY <1>15, <5>1, <6>1
        <5>2. CASE PartitionOf[w] # p  BY <1>6, <1>14, <4>1, <5>2
        <5> QED  BY <5>1, <5>2
      <4> QED  BY <4>1, <4>2
    <3>2. CASE w = e.ws /\ o = e.woff
      BY <1>2, <1>4, <1>6, <1>15, <1>e, <3>2
    <3>3. CASE w = e.ws /\ o # e.woff
      <4>1. o \in 1..(e.woff - 1)
        BY <1>0, <1>4, <1>7, <2>3, <3>3 DEF Offsets
      <4>2. PICK j \in Offsets : j < k /\ SameWS(p, j, k) /\ plog[p][j].woff = o
        BY <1>0, <1>2, <1>3, <1>e, <4>1 DEF LogInv, WLogOffsetsAreSequential
      <4>3. plog[p][j].ws = w /\ j < k + 1
        BY <1>15, <1>e, <3>3, <4>2 DEF SameWS
      <4> QED  BY <1>2, <1>4, <1>6, <3>3, <4>2, <4>3
    <3> QED  BY <3>1, <3>2, <3>3
  <2> QED  BY <1>12, <1>14, <2>1, <2>2, <2>3 DEF ViewInv
<1>21. CreatedInv(n)'
  <2> SUFFICES ASSUME NEW q \in Partitions, NEW j \in Offsets,
                      j < nextPLogOffset'[n][q],
                      LastUnapplied(n, q)' => j + 1 < nextPLogOffset'[n][q]
               PROVE  Created(q, j)
    BY <1>12 DEF CreatedInv, Created
  <2>1. CASE q = p
    <3>1. LastUnapplied(n, q)'  BY <1>1, <1>10, <1>12, <2>1 DEF LastUnapplied
    <3>2. j < k  BY <1>2, <1>6, <1>15, <2>1, <3>1
    <3> QED  BY <1>0, <1>2, <1>3, <2>1, <3>2 DEF LogInv, AllCreated
  <2>2. CASE q # p
    <3>1. ~LastUnapplied(n, q)  BY <2>2 DEF LastUnapplied, p
    <3> QED  BY <1>6, <1>13, <2>2, <3>1 DEF CreatedInv
  <2> QED  BY <2>1, <2>2
<1>22. OneWriter => UpToDate(n)'
  <2> SUFFICES ASSUME OneWriter, NEW q \in Partitions, NEW j \in Offsets,
                      Current(n, q)', j >= nextPLogOffset'[n][q]
               PROVE  ~Stored(q, j)
    BY <1>12 DEF UpToDate, Stored
  <2>1. q \in resident[n] /\ q # p
    BY <1>1, <1>12, <1>13 DEF Current, FreshInv, p
  <2> QED  BY <1>6, <1>13, <2>1 DEF UpToDate, Current
<1>23. FreshInv(n)' /\ RowInv(n)' /\ PutInv(n)' /\ BranchInv(n)'
  <2>1. FreshInv(n)'
    BY <1>1, <1>4, <1>9, <1>10, <1>12, <1>13, ConstantsAssumption DEF FreshInv, p
  <2>2. RowInv(n)'
    BY <1>1, <1>2, <1>6, <1>9, <1>10, <1>12, <1>e DEF RowInv
  <2> QED  BY <1>1, <1>12, <2>1, <2>2 DEF PutInv, BranchInv
<1> QED  BY <1>11, <1>20, <1>21, <1>22, <1>23 DEF NodeInv, OneWriter

LEMMA RecoverEndKeeps ==
    ASSUME SafeInv, NEW n \in Nodes, RecoverEnd(n)
    PROVE  LogInv' /\ StorageGrows /\ NodeInv(n)'
<1> DEFINE p == Part(n)
           e == cmd[n].ev
           c == [cmd[n] EXCEPT !.reapply = TRUE]
<1>0. TypeInv /\ TypeOK /\ NodeInv(n) /\ WorkpieceInv(n) /\ MaxOffset \in Nat
  BY ConstantsAssumption DEF SafeInv, TypeInv
<1>1. /\ pc[n] = "readPLog"
      /\ \A j \in Offsets : j >= nextPLogOffset[n][p] => ~Stored(p, j)
      /\ UNCHANGED <<storage, announced, acked, nextPLogOffset, nextRecordID>>
  BY DEF RecoverEnd, Stored
<1>2. p \in Partitions /\ cmd[n] \in Workpiece  BY <1>0, CmdType
<1>3. LogInv' /\ StorageGrows  BY <1>1, QuietStep
<1>4. plog' = plog /\ records' = records  BY <1>1 DEF storage
<1>5. ViewInv(n) /\ CreatedInv(n) /\ (OneWriter => UpToDate(n)) /\ FreshInv(n) /\ RowInv(n)
  BY <1>0, <1>1 DEF NodeInv, Doomed
<1>6. ASSUME Part(n)' = p, pc'[n] \in {"exec", "applyRecords"},
             resident'[n] \subseteq resident[n] \cup {p}, OneWriter
      PROVE  UpToDate(n)'
  <2> SUFFICES ASSUME NEW q \in Partitions, NEW j \in Offsets,
                      Current(n, q)', j >= nextPLogOffset'[n][q]
               PROVE  ~Stored(q, j)
    BY <1>4 DEF UpToDate, Stored
  <2>1. q \in resident[n] \/ q = p  BY <1>6 DEF Current
  <2> QED  BY <1>1, <1>5, <1>6, <2>1 DEF UpToDate, Current
<1>7. CASE e = NoEvent /\ Recovered(n) /\ UNCHANGED <<nextWLogOffset, cmd>>
  <2>1. /\ pc'[n] = "exec" /\ resident'[n] = resident[n] \cup {p} /\ Part(n)' = p
        /\ cmd' = cmd /\ nextWLogOffset' = nextWLogOffset
    BY <1>0, <1>7 DEF Recovered, TypeOK, Part
  <2>2. ViewInv(n)'
    <3>1. \A x \in WSIDs : Seen(n, x)' = Seen(n, x)
      BY <1>1, <2>1 DEF Seen, Pending
    <3> QED  BY <1>0, <1>1, <1>3, <1>5, <3>1, ViewStays
  <2>3. CreatedInv(n)'
    <3> SUFFICES ASSUME NEW q \in Partitions, NEW j \in Offsets,
                        j < nextPLogOffset[n][q]
                 PROVE  Created(q, j)
      BY <1>1, <1>4 DEF CreatedInv, Created
    <3>1. q # p  BY <1>1, <1>5, <1>7 DEF FreshInv, Offsets
    <3>2. ~LastUnapplied(n, q)  BY <3>1 DEF LastUnapplied
    <3> QED  BY <1>5, <3>2 DEF CreatedInv
  <2>4. FreshInv(n)' /\ RowInv(n)' /\ PutInv(n)' /\ BranchInv(n)'
    BY <2>1 DEF FreshInv, RowInv, HasRow, PutInv, BranchInv
  <2> QED  BY <1>3, <1>6, <2>1, <2>2, <2>3, <2>4 DEF NodeInv, OneWriter
<1>8. CASE /\ e # NoEvent
           /\ nextWLogOffset' = [nextWLogOffset EXCEPT ![n][e.ws] = @ - 1]
           /\ SetCmd(n, c)
           /\ pc' = [pc EXCEPT ![n] = "applyRecords"]
           /\ UNCHANGED resident
  <2>1. c \in Workpiece /\ c.ev = e /\ c.poff = cmd[n].poff /\ c.ws = cmd[n].ws
    BY <1>2, FlagsType DEF Workpiece
  <2>2. SetCmd(n, c)  BY <1>8
  <2> HIDE DEF c
  <2>3. cmd'[n] = c /\ Part(n)' = p  BY <1>0, <2>1, <2>2, SetCmdEffect DEF Part
  <2>4. pc'[n] = "applyRecords" /\ resident' = resident  BY <1>0, <1>8 DEF TypeOK
  <2>5. e.ws \in WSIDs  BY <1>0, <1>1, <1>8 DEF WorkpieceInv, HasEvent, Event
  <2>6. \A w \in WSIDs : /\ nextWLogOffset[n][w] \in Int
                         /\ nextWLogOffset'[n][w] = IF w = e.ws THEN nextWLogOffset[n][w] - 1
                                                    ELSE nextWLogOffset[n][w]
    BY <1>0, <1>8, <2>5 DEF TypeOK
  <2>7. ViewInv(n)'
    <3>1. \A w \in WSIDs : Seen(n, w)' = Seen(n, w)
      <4> TAKE w \in WSIDs
      <4>1. Seen(n, w) = nextWLogOffset[n][w]  BY <1>1 DEF Seen, Pending
      <4>2. Seen(n, w)' = IF w = e.ws THEN nextWLogOffset'[n][w] + 1
                          ELSE nextWLogOffset'[n][w]
        BY <2>1, <2>3, <2>4 DEF Seen, Pending
      <4> QED  BY <2>6, <4>1, <4>2
    <3> QED  BY <1>0, <1>1, <1>3, <1>5, <3>1, ViewStays
  <2>8. CreatedInv(n)'
    <3>1. \A q \in Partitions : LastUnapplied(n, q) => LastUnapplied(n, q)'
      BY <1>1, <2>3, <2>4 DEF LastUnapplied
    <3> QED  BY <1>0, <1>1, <1>3, <1>5, <3>1, CreatedInvStays
  <2>9. RowInv(n)'
    <3>1. HasRow(n)  BY <1>1, <1>8 DEF HasRow
    <3> QED  BY <1>1, <1>4, <1>5, <2>1, <2>3, <3>1 DEF RowInv
  <2>10. FreshInv(n)' /\ PutInv(n)' /\ BranchInv(n)'
    BY <2>4 DEF FreshInv, PutInv, BranchInv
  <2>11. OneWriter => UpToDate(n)'  BY <1>6, <2>3, <2>4
  <2> QED  BY <1>3, <2>7, <2>8, <2>9, <2>10, <2>11 DEF NodeInv, OneWriter
<1> QED  BY <1>7, <1>8 DEF RecoverEnd

-----------------------------------------------------------------------------
(* Execution. *)

LEMMA ExecKeeps ==
    ASSUME SafeInv, NEW n \in Nodes, NEW nnew \in 0..MaxNew,
           NEW upd \in SUBSET RecordIDs, Exec(n, nnew, upd)
    PROVE  LogInv' /\ StorageGrows /\ NodeInv(n)'
<1> DEFINE w == cmd[n].ws
           p == Part(n)
           e == RawEvent(n, nnew, upd)
           org == Origin(n, upd)
           c == [cmd[n] EXCEPT !.nnew = nnew, !.ev = e,
                               !.poff = nextPLogOffset[n][p], !.origin = org]
<1>0. TypeInv /\ TypeOK /\ NodeInv(n) /\ MaxOffset \in Nat
  BY ConstantsAssumption DEF SafeInv, TypeInv
<1>1. /\ pc[n] = "exec" /\ ValidEvent(n, nnew, upd)
      /\ nextPLogOffset[n][p] <= MaxOffset
      /\ nextWLogOffset[n][w] <= MaxOffset
      /\ nextRecordID[n][w] + nnew - 1 <= MaxRecordID
      /\ SetCmd(n, c)
      /\ pc' = [pc EXCEPT ![n] = "putPLog"]
      /\ UNCHANGED <<storage, announced, acked, memory>>
  BY DEF Exec
<1>2. w \in WSIDs /\ p \in Partitions /\ cmd[n] \in Workpiece /\ PartitionOf[w] = p
  BY <1>0, CmdType DEF Part
<1>3. /\ nextPLogOffset[n][p] \in Offsets /\ nextWLogOffset[n][w] \in Offsets
      /\ nextRecordID[n][w] \in 1..(MaxRecordID + 1)
  BY <1>0, <1>1, <1>2, ConstantsAssumption DEF TypeOK, Offsets
<1>4. NewIDs(n, nnew) \in SUBSET RecordIDs
  BY <1>1, <1>3, ConstantsAssumption DEF NewIDs, RecordIDs
<1>5. /\ e \in Event /\ e.ws = w /\ e.woff = nextWLogOffset[n][w]
      /\ e.creates = NewIDs(n, nnew)
  BY <1>2, <1>3, <1>4 DEF RawEvent, Event
<1>6. org \in [RecordIDs -> SUBSET Offsets]  BY <1>0, <1>2 DEF Origin, TypeOK
<1> HIDE DEF e, org
<1>7. /\ c \in Workpiece /\ c.ev = e /\ c.poff = nextPLogOffset[n][p]
      /\ c.ws = w /\ c.nnew = nnew
  BY <1>2, <1>3, <1>5, <1>6 DEF Workpiece
<1> HIDE DEF c
<1>8. cmd'[n] = c /\ Part(n)' = p  BY <1>0, <1>1, <1>7, SetCmdEffect DEF Part
<1>9. LogInv' /\ StorageGrows  BY <1>1, QuietStep
<1>10. /\ nextPLogOffset' = nextPLogOffset /\ nextWLogOffset' = nextWLogOffset
       /\ nextRecordID' = nextRecordID /\ resident' = resident /\ plog' = plog
       /\ pc'[n] = "putPLog"
  BY <1>0, <1>1 DEF memory, storage, TypeOK
<1>11. ViewInv(n) /\ CreatedInv(n) /\ (OneWriter => UpToDate(n))
  BY <1>0, <1>1 DEF NodeInv, Doomed
<1>12. ViewInv(n)'
  <2>1. \A x \in WSIDs : Seen(n, x)' = Seen(n, x)
    BY <1>1, <1>10 DEF Seen, Pending
  <2> QED  BY <1>0, <1>9, <1>10, <1>11, <2>1, ViewStays
<1>13. CreatedInv(n)'
  <2>1. \A q \in Partitions : ~LastUnapplied(n, q)  BY <1>1 DEF LastUnapplied
  <2> QED  BY <1>0, <1>9, <1>10, <1>11, <2>1, CreatedInvStays
<1>14. OneWriter => UpToDate(n)'
  <2>1. \A q \in Partitions : Current(n, q)' => Current(n, q)
    BY <1>1, <1>8, <1>10 DEF Current
  <2> QED  BY <1>10, <1>11, <2>1, UpToDateStays
<1>15. PutInv(n)'
  <2>1. \A id \in e.creates : id < nextRecordID[n][w] + nnew
    BY <1>1, <1>3, <1>5 DEF NewIDs, ValidEvent
  <2>2. ASSUME NEW j \in Offsets, j < nextPLogOffset[n][p], plog[p][j].ws = w
        PROVE  plog[p][j].creates \cap e.creates = {}
    <3>1. \A id \in plog[p][j].creates : id < nextRecordID[n][w]
      BY <1>2, <1>11, <2>2 DEF ViewInv
    <3>2. Created(p, j)
      BY <1>1, <1>2, <1>11, <2>2 DEF CreatedInv, LastUnapplied
    <3>3. CASE cmd[n].createWS
      <4>1. e.creates = {SingletonID} /\ records[w][SingletonID] = {}
        BY <1>1, <1>5, <3>3 DEF NewIDs, ValidEvent
      <4> QED  BY <2>2, <3>2, <4>1 DEF Created
    <3>4. CASE ~cmd[n].createWS
      <4>1. \A id \in e.creates : id >= nextRecordID[n][w] /\ id \in Int
        BY <1>3, <1>5, <3>4 DEF NewIDs
      <4> QED  BY <1>3, <3>1, <4>1
    <3> QED  BY <3>3, <3>4
  <2> QED  BY <1>7, <1>8, <1>10, <2>1, <2>2 DEF PutInv
<1>16. FreshInv(n)' /\ RowInv(n)' /\ BranchInv(n)'
  BY <1>10 DEF FreshInv, RowInv, HasRow, BranchInv
<1> QED  BY <1>9, <1>12, <1>13, <1>14, <1>15, <1>16 DEF NodeInv, OneWriter

LEMMA PutPLogKeeps ==
    ASSUME SafeInv, SafeStorage, NEW n \in Nodes, PutPLog(n)
    PROVE  LogInv' /\ StorageGrows /\ NodeInv(n)'
<1> DEFINE p == Part(n)
           k == cmd[n].poff
           e == cmd[n].ev
<1>0. TypeInv /\ TypeOK /\ NodeInv(n) /\ WorkpieceInv(n) /\ MaxOffset \in Nat
  BY ConstantsAssumption DEF SafeInv, TypeInv
<1>1. /\ pc[n] = "putPLog" /\ PLogWritable(p, k) /\ TakeIDs(n)
      /\ plog' = [plog EXCEPT ![p][k] = e]
      /\ nextPLogOffset' = [nextPLogOffset EXCEPT ![n][p] = @ + 1]
      /\ pc' = [pc EXCEPT ![n] = "applyRecords"]
      /\ UNCHANGED <<wlog, records, synced, announced, acked, resident,
                     nextWLogOffset, cmd>>
  BY DEF PutPLog
<1>2. /\ p \in Partitions /\ k \in Offsets /\ e \in Event
      /\ \A j \in Offsets : Stored(p, j) <=> j < k
  BY <1>1, RowIsNext
<1>3. LogInv' /\ StorageGrows
  BY <1>1, AppendKeepsLog
<1>4. /\ nextPLogOffset[n][p] = k /\ nextWLogOffset[n][e.ws] = e.woff
      /\ e.ws = cmd[n].ws /\ PartitionOf[e.ws] = p
      /\ e.ws \in WSIDs /\ e.woff \in Offsets /\ e.creates \in SUBSET RecordIDs
  BY <1>0, <1>1, <1>2 DEF WorkpieceInv, HasEvent, Event
<1>5. ViewInv(n) /\ CreatedInv(n) /\ (OneWriter => UpToDate(n)) /\ PutInv(n)
  BY <1>0, <1>1 DEF NodeInv, Doomed
<1>6. \A q \in Partitions, j \in Offsets :
          plog'[q][j] = IF q = p /\ j = k THEN e ELSE plog[q][j]
  BY <1>0, <1>1, <1>2 DEF TypeOK
<1>7. \A q \in Partitions, j \in Offsets :
          Stored(q, j)' <=> Stored(q, j) \/ (q = p /\ j = k)
  BY <1>2, <1>6, ConstantsAssumption DEF Stored
<1>8. \A q \in Partitions : nextPLogOffset'[n][q] = IF q = p THEN k + 1
                                                             ELSE nextPLogOffset[n][q]
  BY <1>0, <1>1, <1>2, <1>4 DEF TypeOK
<1>9. \A w \in WSIDs : nextRecordID'[n][w] = IF w = e.ws
                                             THEN nextRecordID[n][w] + cmd[n].nnew
                                             ELSE nextRecordID[n][w]
  BY <1>0, <1>1, <1>4 DEF TakeIDs, TypeOK
<1>10. /\ pc'[n] = "applyRecords" /\ resident' = resident /\ Part(n)' = p
       /\ records' = records /\ cmd' = cmd /\ nextWLogOffset' = nextWLogOffset
  BY <1>0, <1>1 DEF TypeOK, Part
<1>11. \A w \in WSIDs : /\ Seen(n, w) = nextWLogOffset[n][w]
                        /\ Seen(n, w)' = IF w = e.ws THEN e.woff + 1 ELSE Seen(n, w)
                        /\ PartitionOf[w] \in Partitions
  BY <1>1, <1>4, <1>10, ConstantsAssumption DEF Seen, Pending
<1>12. Offsets \subseteq Int /\ k \in Int /\ k + 1 > k  BY <1>2 DEF Offsets
<1>13. nextRecordID[n][e.ws] \in Int /\ cmd[n].nnew \in Nat /\ e.woff \in Int
  BY <1>0, <1>4, <1>12, CmdType, ConstantsAssumption DEF TypeOK
<1> HIDE DEF p, k, e
<1>14. ViewInv(n)'
  <2>1. \A q \in Partitions, j \in Offsets : j < nextPLogOffset'[n][q] => Stored(q, j)'
    <3> SUFFICES ASSUME NEW q \in Partitions, NEW j \in Offsets,
                        j < nextPLogOffset'[n][q]
                 PROVE  Stored(q, j) \/ (q = p /\ j = k)
      BY <1>7
    <3>1. j < nextPLogOffset[n][q] \/ (q = p /\ j = k)
      BY <1>2, <1>4, <1>8, <1>12
    <3> QED  BY <1>5, <3>1 DEF ViewInv
  <2>2. ASSUME NEW w \in WSIDs, NEW j \in Offsets,
               j < nextPLogOffset'[n][PartitionOf[w]], plog'[PartitionOf[w]][j].ws = w
        PROVE  /\ plog'[PartitionOf[w]][j].woff < Seen(n, w)'
               /\ \A id \in plog'[PartitionOf[w]][j].creates : id < nextRecordID'[n][w]
    <3>1. CASE w = e.ws /\ j = k
      <4>1. plog'[PartitionOf[w]][j] = e  BY <1>2, <1>4, <1>6, <3>1
      <4>2. Seen(n, w)' = e.woff + 1  BY <1>4, <1>11, <3>1
      <4>3. nextRecordID'[n][w] = nextRecordID[n][w] + cmd[n].nnew  BY <1>4, <1>9, <3>1
      <4>4. \A id \in e.creates : id < nextRecordID[n][w] + cmd[n].nnew
        BY <1>1, <1>4, <1>5, <3>1 DEF PutInv, e
      <4> QED  BY <1>13, <4>1, <4>2, <4>3, <4>4
    <3>2. CASE ~(w = e.ws /\ j = k)
      <4>1. /\ j < nextPLogOffset[n][PartitionOf[w]]
            /\ plog'[PartitionOf[w]][j] = plog[PartitionOf[w]][j]
        <5>1. CASE PartitionOf[w] = p
          <6>1. ~(j = k)  BY <1>2, <1>4, <1>6, <2>2, <3>2, <5>1
          <6>2. j < k + 1  BY <1>2, <1>8, <2>2, <5>1
          <6> QED  BY <1>2, <1>4, <1>6, <1>12, <5>1, <6>1, <6>2
        <5>2. CASE PartitionOf[w] # p  BY <1>6, <1>8, <1>11, <2>2, <5>2
        <5> QED  BY <5>1, <5>2
      <4>2. /\ plog[PartitionOf[w]][j].woff < Seen(n, w)
            /\ \A id \in plog[PartitionOf[w]][j].creates : id < nextRecordID[n][w]
        BY <1>5, <2>2, <4>1 DEF ViewInv
      <4>3. Stored(PartitionOf[w], j)  BY <1>5, <1>11, <4>1 DEF ViewInv
      <4>4. /\ plog[PartitionOf[w]][j].woff \in Int
            /\ plog[PartitionOf[w]][j].creates \subseteq Int
        <5>1. /\ plog[PartitionOf[w]][j].woff \in Offsets
              /\ plog[PartitionOf[w]][j].creates \in SUBSET RecordIDs
          BY <1>0, <1>11, <4>3, RowType
        <5>2. RecordIDs \subseteq Int  BY DEF RecordIDs
        <5> QED  BY <1>12, <5>1, <5>2
      <4>5. plog[PartitionOf[w]][j].woff < Seen(n, w)'
        BY <1>4, <1>11, <1>13, <4>2, <4>4
      <4>6. \A id \in plog[PartitionOf[w]][j].creates : id < nextRecordID'[n][w]
        <5>1. CASE w = e.ws  BY <1>9, <1>13, <4>2, <4>4, <5>1
        <5>2. CASE w # e.ws  BY <1>9, <4>2, <5>2
        <5> QED  BY <5>1, <5>2
      <4> QED  BY <4>1, <4>5, <4>6
    <3> QED  BY <3>1, <3>2
  <2>3. ASSUME NEW w \in WSIDs, NEW o \in Offsets, o < Seen(n, w)'
        PROVE  \E j \in Offsets : /\ j < nextPLogOffset'[n][PartitionOf[w]]
                                  /\ plog'[PartitionOf[w]][j].ws = w
                                  /\ plog'[PartitionOf[w]][j].woff = o
    <3>1. CASE w = e.ws /\ o = e.woff
      BY <1>2, <1>4, <1>6, <1>8, <1>12, <3>1
    <3>2. CASE ~(w = e.ws /\ o = e.woff)
      <4>1. o < Seen(n, w)  BY <1>4, <1>11, <1>12, <1>13, <2>3, <3>2
      <4>2. PICK j \in Offsets : /\ j < nextPLogOffset[n][PartitionOf[w]]
                                 /\ plog[PartitionOf[w]][j].ws = w
                                 /\ plog[PartitionOf[w]][j].woff = o
        BY <1>5, <4>1 DEF ViewInv
      <4>3. plog'[PartitionOf[w]][j] = plog[PartitionOf[w]][j]
        BY <1>2, <1>4, <1>6, <1>11, <1>12, <4>2
      <4>4. j < nextPLogOffset'[n][PartitionOf[w]]
        <5>1. CASE PartitionOf[w] = p
          <6>1. j < k /\ nextPLogOffset'[n][p] = k + 1  BY <1>2, <1>4, <1>8, <4>2, <5>1
          <6> QED  BY <1>12, <5>1, <6>1
        <5>2. CASE PartitionOf[w] # p  BY <1>8, <1>11, <4>2, <5>2
        <5> QED  BY <5>1, <5>2
      <4> QED  BY <4>2, <4>3, <4>4
    <3> QED  BY <3>1, <3>2
  <2> QED  BY <2>1, <2>2, <2>3 DEF ViewInv
<1>15. CreatedInv(n)'
  <2> SUFFICES ASSUME NEW q \in Partitions, NEW j \in Offsets,
                      j < nextPLogOffset'[n][q],
                      LastUnapplied(n, q)' => j + 1 < nextPLogOffset'[n][q]
               PROVE  Created(q, j)'
    BY DEF CreatedInv
  <2>1. q = p => LastUnapplied(n, q)'  BY <1>10 DEF LastUnapplied
  <2>2. j < nextPLogOffset[n][q]
    <3>1. CASE q = p
      <4>1. j + 1 < k + 1  BY <1>8, <2>1, <3>1
      <4> QED  BY <1>4, <1>12, <3>1, <4>1
    <3>2. CASE q # p  BY <1>8, <3>2
    <3> QED  BY <3>1, <3>2
  <2>3. ~LastUnapplied(n, q)  BY <1>1 DEF LastUnapplied
  <2>4. Stored(q, j) /\ Created(q, j)  BY <1>5, <2>2, <2>3 DEF CreatedInv, ViewInv
  <2> QED  BY <1>0, <1>3, <2>4, CreatedStays
<1>16. OneWriter => UpToDate(n)'
  <2> SUFFICES ASSUME OneWriter, NEW q \in Partitions, NEW j \in Offsets,
                      Current(n, q)', j >= nextPLogOffset'[n][q]
               PROVE  ~Stored(q, j)'
    BY DEF UpToDate
  <2>1. CASE q = p
    <3>1. j >= k + 1  BY <1>2, <1>8, <2>1
    <3> QED  BY <1>2, <1>7, <1>12, <2>1, <3>1
  <2>2. CASE q # p
    <3>1. Current(n, q)  BY <1>10, <2>2 DEF Current
    <3> QED  BY <1>5, <1>7, <1>8, <2>2, <3>1 DEF UpToDate
  <2> QED  BY <2>1, <2>2
<1>17. RowInv(n)'
  BY <1>2, <1>6, <1>8, <1>10 DEF RowInv, k, e
<1>18. FreshInv(n)' /\ PutInv(n)' /\ BranchInv(n)'
  BY <1>10 DEF FreshInv, PutInv, BranchInv
<1> QED  BY <1>3, <1>14, <1>15, <1>16, <1>17, <1>18 DEF NodeInv, OneWriter

LEMMA PutPLogFailsKeeps ==
    ASSUME SafeInv, SafeStorage, NEW n \in Nodes, PutPLogFails(n)
    PROVE  LogInv' /\ StorageGrows /\ NodeInv(n)'
<1>1. /\ pc[n] = "putPLog" /\ FailAndRestart(n)
      /\ UNCHANGED <<wlog, records, synced, acked>>
      /\ \/ UNCHANGED plog
         \/ /\ PLogWritable(Part(n), cmd[n].poff)
            /\ plog' = [plog EXCEPT ![Part(n)][cmd[n].poff] = cmd[n].ev]
  BY DEF PutPLogFails
<1>2. NodeInv(n)'  BY <1>1, RestartKeepsNode DEF SafeInv, TypeInv
<1>3. CASE UNCHANGED plog
  <2>1. UNCHANGED <<storage, acked>>  BY <1>1, <1>3 DEF storage
  <2> QED  BY <1>2, <2>1, QuietStep
<1>4. CASE /\ PLogWritable(Part(n), cmd[n].poff)
           /\ plog' = [plog EXCEPT ![Part(n)][cmd[n].poff] = cmd[n].ev]
  BY <1>1, <1>2, <1>4, AppendKeepsLog
<1> QED  BY <1>1, <1>3, <1>4

-----------------------------------------------------------------------------
(* The store stage. *)

LEMMA WriteRecordsGrows ==
    ASSUME TypeInv, NEW n \in Nodes, NEW ids, HasEvent(n), WriteRecords(n, ids)
    PROVE  /\ \A w \in WSIDs, id \in RecordIDs : records[w][id] # {} => records'[w][id] # {}
           /\ \A id \in RecordIDs : id \in ids => records'[cmd[n].ev.ws][id] # {}
<1> DEFINE w0 == cmd[n].ev.ws
           row == [id \in RecordIDs |-> IF id \in ids THEN RecordValue(n, id)
                                        ELSE records[w0][id]]
<1>1. w0 \in WSIDs  BY DEF HasEvent, Event
<1>2. \A id : RecordValue(n, id) # {}  BY DEF RecordValue
<1>3. records \in [WSIDs -> [RecordIDs -> SUBSET Offsets]]  BY DEF TypeInv, TypeOK
<1>4. records' = [records EXCEPT ![w0] = row]  BY DEF WriteRecords
<1>5. \A id \in RecordIDs : row[id] = IF id \in ids THEN RecordValue(n, id)
                                      ELSE records[w0][id]
  OBVIOUS
<1> HIDE DEF w0, row
<1>6. records'[w0] = row /\ \A w \in WSIDs : w # w0 => records'[w] = records[w]
  BY <1>1, <1>3, <1>4
<1> QED  BY <1>2, <1>5, <1>6 DEF w0

LEMMA ApplyRecordsKeeps ==
    ASSUME SafeInv, NEW n \in Nodes, ApplyRecords(n)
    PROVE  LogInv' /\ StorageGrows /\ NodeInv(n)'
<1> DEFINE p == Part(n)
           e == cmd[n].ev
           c == [cmd[n] EXCEPT !.projector = "todo", !.putWLog = "todo"]
<1>0. TypeInv /\ TypeOK /\ LogInv /\ NodeInv(n) /\ WorkpieceInv(n) /\ MaxOffset \in Nat
  BY ConstantsAssumption DEF SafeInv, TypeInv
<1>1. /\ pc[n] = "applyRecords" /\ WriteRecords(n, Touched(e)) /\ SetCmd(n, c)
      /\ pc' = [pc EXCEPT ![n] = "store"]
      /\ UNCHANGED <<plog, wlog, synced, announced, acked, memory>>
  BY DEF ApplyRecords
<1>2. p \in Partitions /\ cmd[n] \in Workpiece /\ HasEvent(n)
  BY <1>0, <1>1, CmdType DEF WorkpieceInv
<1>3. /\ c \in Workpiece /\ c.ev = e /\ c.poff = cmd[n].poff /\ c.ws = cmd[n].ws
      /\ c.projector = "todo" /\ c.putWLog = "todo"
  BY <1>2, FlagsType DEF Workpiece
<1> HIDE DEF c
<1>4. cmd'[n] = c /\ Part(n)' = p  BY <1>0, <1>1, <1>3, SetCmdEffect DEF Part
<1>5. pc'[n] = "store"  BY <1>0, <1>1 DEF TypeOK
<1>6. /\ nextPLogOffset' = nextPLogOffset /\ nextWLogOffset' = nextWLogOffset
      /\ nextRecordID' = nextRecordID /\ resident' = resident /\ plog' = plog
  BY <1>1 DEF memory
<1>7. /\ \A w \in WSIDs, id \in RecordIDs : records[w][id] # {} => records'[w][id] # {}
      /\ \A id \in RecordIDs : id \in Touched(e) => records'[e.ws][id] # {}
  BY <1>0, <1>1, <1>2, WriteRecordsGrows
<1>8. LogInv' /\ StorageGrows  BY <1>0, <1>1, <1>7, LogStays
<1>9. /\ ViewInv(n) /\ CreatedInv(n) /\ (OneWriter => UpToDate(n)) /\ RowInv(n)
  BY <1>0, <1>1 DEF NodeInv, Doomed
<1>10. ViewInv(n)'
  <2>1. \A w \in WSIDs : Seen(n, w)' = Seen(n, w)
    BY <1>1, <1>3, <1>4, <1>5, <1>6 DEF Seen, Pending
  <2> QED  BY <1>0, <1>6, <1>8, <1>9, <2>1, ViewStays
<1>11. plog[p][cmd[n].poff] = e /\ nextPLogOffset[n][p] = cmd[n].poff + 1
  BY <1>1, <1>9 DEF RowInv, HasRow
<1>12. CreatedInv(n)'
  <2> SUFFICES ASSUME NEW q \in Partitions, NEW j \in Offsets, j < nextPLogOffset[n][q]
               PROVE  Created(q, j)'
    BY <1>6 DEF CreatedInv
  <2>1. CASE q = p /\ j + 1 >= nextPLogOffset[n][q]
    <3>1. j = cmd[n].poff  BY <1>2, <1>11, <2>1 DEF Offsets, HasEvent
    <3>2. e.creates \in SUBSET RecordIDs  BY <1>2 DEF HasEvent, Event
    <3>3. \A id \in e.creates : records'[e.ws][id] # {}  BY <1>7, <3>2 DEF Touched
    <3>4. plog'[q][j] = e  BY <1>6, <1>11, <2>1, <3>1
    <3> QED  BY <3>3, <3>4 DEF Created
  <2>2. CASE ~(q = p /\ j + 1 >= nextPLogOffset[n][q])
    <3>1. LastUnapplied(n, q) => j + 1 < nextPLogOffset[n][q]
      BY <1>0, <2>2 DEF LastUnapplied, TypeOK, Offsets
    <3>2. Stored(q, j) /\ Created(q, j)  BY <1>9, <3>1 DEF CreatedInv, ViewInv
    <3> QED  BY <1>0, <1>8, <3>2, CreatedStays
  <2> QED  BY <2>1, <2>2
<1>13. OneWriter => UpToDate(n)'
  <2>1. \A q \in Partitions : Current(n, q)' => Current(n, q)
    BY <1>1, <1>4, <1>6 DEF Current
  <2> QED  BY <1>6, <1>9, <2>1, UpToDateStays
<1>14. RowInv(n)'  BY <1>3, <1>4, <1>5, <1>6, <1>11 DEF RowInv
<1>15. FreshInv(n)' /\ PutInv(n)' /\ BranchInv(n)'
  BY <1>3, <1>4, <1>5 DEF FreshInv, PutInv, BranchInv
<1> QED  BY <1>8, <1>10, <1>12, <1>13, <1>14, <1>15 DEF NodeInv, OneWriter

LEMMA ApplyRecordsFailsKeeps ==
    ASSUME SafeInv, NEW n \in Nodes, NEW ids \in SUBSET RecordIDs, ApplyRecordsFails(n, ids)
    PROVE  LogInv' /\ StorageGrows /\ NodeInv(n)'
<1>1. /\ pc[n] = "applyRecords" /\ WriteRecords(n, ids) /\ FailAndRestart(n)
      /\ UNCHANGED <<plog, wlog, synced, announced, acked, memory>>
  BY DEF ApplyRecordsFails
<1>2. TypeInv /\ TypeOK /\ LogInv /\ HasEvent(n)
  BY <1>1 DEF SafeInv, TypeInv, WorkpieceInv
<1>3. \A w \in WSIDs, id \in RecordIDs : records[w][id] # {} => records'[w][id] # {}
  BY <1>1, <1>2, WriteRecordsGrows
<1>4. LogInv' /\ StorageGrows  BY <1>1, <1>2, <1>3, LogStays
<1> QED  BY <1>1, <1>2, <1>4, RestartKeepsNode

\* A branch of the store stage changes the flags of the workpiece.
LEMMA BranchKeepsNode ==
    ASSUME SafeInv, NEW n \in Nodes, pc[n] = "store", NEW c \in Workpiece, SetCmd(n, c),
           c.ev = cmd[n].ev, c.poff = cmd[n].poff, c.ws = cmd[n].ws,
           UNCHANGED <<plog, resident, nextPLogOffset, nextRecordID, pc>>,
           StorageGrows, \A w \in WSIDs : Seen(n, w)' = Seen(n, w), BranchInv(n)'
    PROVE  NodeInv(n)'
<1>0. TypeInv /\ TypeOK /\ NodeInv(n)  BY DEF SafeInv, TypeInv
<1>1. cmd'[n] = c /\ Part(n)' = Part(n)  BY <1>0, SetCmdEffect DEF Part
<1>2. /\ ViewInv(n) /\ CreatedInv(n) /\ (OneWriter => UpToDate(n)) /\ RowInv(n)
  BY <1>0 DEF NodeInv, Doomed
<1>3. ViewInv(n)'  BY <1>0, <1>2, ViewStays
<1>4. CreatedInv(n)'
  <2>1. \A q \in Partitions : ~LastUnapplied(n, q)  BY DEF LastUnapplied
  <2> QED  BY <1>0, <1>2, <2>1, CreatedInvStays
<1>5. OneWriter => UpToDate(n)'
  <2>1. \A q \in Partitions : Current(n, q)' => Current(n, q)  BY <1>1 DEF Current
  <2> QED  BY <1>2, <2>1, UpToDateStays
<1>6. RowInv(n)'  BY <1>1, <1>2 DEF RowInv, HasRow
<1>7. FreshInv(n)' /\ PutInv(n)'  BY DEF FreshInv, PutInv
<1> QED  BY <1>3, <1>4, <1>5, <1>6, <1>7 DEF NodeInv, OneWriter

LEMMA SyncProjectorsKeeps ==
    ASSUME SafeInv, NEW n \in Nodes, SyncProjectors(n)
    PROVE  LogInv' /\ StorageGrows /\ NodeInv(n)'
<1>0. TypeInv /\ TypeOK /\ LogInv /\ NodeInv(n)  BY DEF SafeInv, TypeInv
<1>1. /\ pc[n] = "store"
      /\ UNCHANGED <<plog, wlog, records, announced, acked, memory, pc>>
  BY DEF SyncProjectors
<1>2. /\ resident' = resident /\ nextPLogOffset' = nextPLogOffset
      /\ nextWLogOffset' = nextWLogOffset /\ nextRecordID' = nextRecordID
  BY <1>1 DEF memory
<1>3. Part(n) \in Partitions /\ cmd[n] \in Workpiece  BY <1>0, CmdType
<1>4. BranchInv(n)  BY <1>0 DEF NodeInv
<1>5. CASE /\ synced' = [synced EXCEPT ![Part(n)] = @ \cup {cmd[n].poff}]
           /\ SetCmd(n, [cmd[n] EXCEPT !.projector = "ok"])
  <2> DEFINE c == [cmd[n] EXCEPT !.projector = "ok"]
  <2>1. /\ c \in Workpiece /\ c.ev = cmd[n].ev /\ c.poff = cmd[n].poff
        /\ c.ws = cmd[n].ws /\ c.putWLog = cmd[n].putWLog
        /\ c.projector = "ok" /\ c.restart = cmd[n].restart
    BY <1>3, FlagsType DEF Workpiece
  <2>2. SetCmd(n, c)  BY <1>5
  <2> HIDE DEF c
  <2>3. cmd'[n] = c /\ Part(n)' = Part(n)
    BY <1>0, <2>1, <2>2, SetCmdEffect DEF Part
  <2>4. /\ \A q \in Partitions : synced[q] \subseteq synced'[q]
        /\ cmd[n].poff \in synced'[Part(n)]
    BY <1>0, <1>3, <1>5 DEF TypeOK
  <2>5. LogInv' /\ StorageGrows  BY <1>0, <1>1, <2>4, LogStays
  <2>6. BranchInv(n)'  BY <1>1, <1>4, <2>1, <2>3, <2>4 DEF BranchInv
  <2>7. \A w \in WSIDs : Seen(n, w)' = Seen(n, w)
    BY <1>1, <1>2, <2>1, <2>3 DEF Seen, Pending
  <2> QED  BY <1>1, <1>2, <2>1, <2>2, <2>5, <2>6, <2>7, BranchKeepsNode
<1>6. CASE /\ SetCmd(n, [cmd[n] EXCEPT !.projector = "err", !.restart = TRUE])
           /\ UNCHANGED synced
  <2> DEFINE c == [cmd[n] EXCEPT !.projector = "err", !.restart = TRUE]
  <2>1. /\ c \in Workpiece /\ c.ev = cmd[n].ev /\ c.poff = cmd[n].poff
        /\ c.ws = cmd[n].ws /\ c.putWLog = cmd[n].putWLog
        /\ c.projector = "err" /\ c.restart
    BY <1>3, FlagsType DEF Workpiece
  <2>2. SetCmd(n, c)  BY <1>6
  <2> HIDE DEF c
  <2>3. cmd'[n] = c /\ Part(n)' = Part(n)
    BY <1>0, <2>1, <2>2, SetCmdEffect DEF Part
  <2>5. LogInv' /\ StorageGrows  BY <1>0, <1>1, <1>6, LogStays
  <2>6. BranchInv(n)'  BY <1>1, <1>4, <2>1, <2>3 DEF BranchInv
  <2>7. \A w \in WSIDs : Seen(n, w)' = Seen(n, w)
    BY <1>1, <1>2, <2>1, <2>3 DEF Seen, Pending
  <2> QED  BY <1>1, <1>2, <2>1, <2>2, <2>5, <2>6, <2>7, BranchKeepsNode
<1> QED  BY <1>5, <1>6 DEF SyncProjectors

\* A WLog row that the second branch writes is a row of its event.
LEMMA WLogGrows ==
    ASSUME SafeInv, NEW n \in Nodes, pc[n] = "store",
           wlog' = [wlog EXCEPT ![cmd[n].ev.ws][cmd[n].ev.woff] = cmd[n].poff],
           UNCHANGED <<plog, records, synced, acked>>
    PROVE  LogInv' /\ StorageGrows /\ wlog'[cmd[n].ev.ws][cmd[n].ev.woff] = cmd[n].poff
<1> DEFINE e == cmd[n].ev
           k == cmd[n].poff
<1>0. TypeInv /\ TypeOK /\ LogInv /\ RowInv(n) /\ HasEvent(n)
  BY DEF SafeInv, TypeInv, NodeInv, WorkpieceInv
<1>1. /\ e \in Event /\ e.ws \in WSIDs /\ e.woff \in Offsets /\ k \in Offsets
      /\ PartitionOf[e.ws] = Part(n)
  BY <1>0 DEF HasEvent, Event
<1>2. plog[Part(n)][k] = e  BY <1>0 DEF RowInv, HasRow
<1>3. RowOf(e.ws, e.woff, k)  BY <1>1, <1>2, ConstantsAssumption DEF RowOf, Stored
<1> HIDE DEF e, k
<1>4. \A w \in WSIDs, o \in Offsets :
          wlog'[w][o] = IF w = e.ws /\ o = e.woff THEN k ELSE wlog[w][o]
  BY <1>0, <1>1 DEF TypeOK, e, k
<1>5. \A w \in WSIDs, o \in Offsets : wlog'[w][o] = wlog[w][o] \/ RowOf(w, o, wlog'[w][o])
  BY <1>3, <1>4
<1>6. LogInv' /\ StorageGrows  BY <1>0, <1>5, LogStays
<1> QED  BY <1>1, <1>4, <1>6 DEF e, k

LEMMA PutWLogKeeps ==
    ASSUME SafeInv, NEW n \in Nodes, PutWLog(n)
    PROVE  LogInv' /\ StorageGrows /\ NodeInv(n)'
<1> DEFINE e == cmd[n].ev
           c == [cmd[n] EXCEPT !.putWLog = "ok"]
<1>0. TypeInv /\ TypeOK /\ NodeInv(n) /\ WorkpieceInv(n)  BY DEF SafeInv, TypeInv
<1>1. /\ pc[n] = "store" /\ cmd[n].putWLog = "todo" /\ SetCmd(n, c)
      /\ wlog' = [wlog EXCEPT ![e.ws][e.woff] = cmd[n].poff]
      /\ nextWLogOffset' = [nextWLogOffset EXCEPT ![n][e.ws] = @ + 1]
      /\ UNCHANGED <<plog, records, synced, announced, acked, resident,
                     nextPLogOffset, nextRecordID, pc>>
  BY DEF PutWLog
<1>2. cmd[n] \in Workpiece /\ BranchInv(n) /\ e.ws \in WSIDs
  BY <1>0, <1>1, CmdType DEF NodeInv, WorkpieceInv, HasEvent, Event
<1>3. /\ c \in Workpiece /\ c.ev = e /\ c.poff = cmd[n].poff /\ c.ws = cmd[n].ws
      /\ c.putWLog = "ok" /\ c.projector = cmd[n].projector /\ c.restart = cmd[n].restart
  BY <1>2, FlagsType DEF Workpiece
<1> HIDE DEF c
<1>4. cmd'[n] = c /\ Part(n)' = Part(n)
  BY <1>0, <1>1, <1>3, SetCmdEffect DEF Part
<1>5. LogInv' /\ StorageGrows /\ wlog'[e.ws][e.woff] = cmd[n].poff
  BY <1>1, WLogGrows
<1>6. BranchInv(n)'  BY <1>1, <1>2, <1>3, <1>4, <1>5 DEF BranchInv
<1>7. \A w \in WSIDs : Seen(n, w)' = Seen(n, w)
  <2> TAKE w \in WSIDs
  <2>1. Seen(n, w) = IF w = e.ws THEN nextWLogOffset[n][w] + 1 ELSE nextWLogOffset[n][w]
    BY <1>1 DEF Seen, Pending
  <2>2. Seen(n, w)' = nextWLogOffset'[n][w]
    BY <1>1, <1>3, <1>4 DEF Seen, Pending
  <2>3. nextWLogOffset'[n][w] = IF w = e.ws THEN nextWLogOffset[n][w] + 1
                                ELSE nextWLogOffset[n][w]
    BY <1>0, <1>1, <1>2 DEF TypeOK
  <2> QED  BY <2>1, <2>2, <2>3
<1> QED  BY <1>1, <1>3, <1>5, <1>6, <1>7, BranchKeepsNode

LEMMA PutWLogFailsKeeps ==
    ASSUME SafeInv, NEW n \in Nodes, PutWLogFails(n)
    PROVE  LogInv' /\ StorageGrows /\ NodeInv(n)'
<1> DEFINE c == [cmd[n] EXCEPT !.putWLog = "err", !.restart = TRUE]
<1>0. TypeInv /\ TypeOK /\ NodeInv(n)  BY DEF SafeInv, TypeInv
<1>1. /\ pc[n] = "store" /\ cmd[n].putWLog = "todo" /\ SetCmd(n, c)
      /\ \/ UNCHANGED wlog
         \/ wlog' = [wlog EXCEPT ![cmd[n].ev.ws][cmd[n].ev.woff] = cmd[n].poff]
      /\ UNCHANGED <<plog, records, synced, announced, acked, memory, pc>>
  BY DEF PutWLogFails
<1>2. cmd[n] \in Workpiece /\ BranchInv(n)  BY <1>0, CmdType DEF NodeInv
<1>3. /\ c \in Workpiece /\ c.ev = cmd[n].ev /\ c.poff = cmd[n].poff
      /\ c.ws = cmd[n].ws /\ c.putWLog = "err" /\ c.restart
      /\ c.projector = cmd[n].projector
  BY <1>2, FlagsType DEF Workpiece
<1> HIDE DEF c
<1>4. cmd'[n] = c /\ Part(n)' = Part(n)
  BY <1>0, <1>1, <1>3, SetCmdEffect DEF Part
<1>5. LogInv' /\ StorageGrows
  <2>1. CASE UNCHANGED wlog
    <3>1. UNCHANGED <<storage, acked>>  BY <1>1, <2>1 DEF storage
    <3> QED  BY <3>1, QuietStep
  <2>2. CASE wlog' = [wlog EXCEPT ![cmd[n].ev.ws][cmd[n].ev.woff] = cmd[n].poff]
    BY <1>1, <2>2, WLogGrows
  <2> QED  BY <1>1, <2>1, <2>2
<1>6. BranchInv(n)'  BY <1>1, <1>2, <1>3, <1>4 DEF BranchInv
<1>7. /\ resident' = resident /\ nextPLogOffset' = nextPLogOffset
      /\ nextWLogOffset' = nextWLogOffset /\ nextRecordID' = nextRecordID
  BY <1>1 DEF memory
<1>8. \A w \in WSIDs : Seen(n, w)' = Seen(n, w)
  BY <1>1, <1>3, <1>4, <1>7 DEF Seen, Pending
<1> QED  BY <1>1, <1>3, <1>5, <1>6, <1>7, <1>8, BranchKeepsNode

LEMMA StoreDoneKeeps ==
    ASSUME SafeInv, NEW n \in Nodes, StoreDone(n)
    PROVE  LogInv' /\ StorageGrows /\ NodeInv(n)'
<1> DEFINE p == Part(n)
<1>0. TypeInv /\ TypeOK /\ NodeInv(n)  BY DEF SafeInv, TypeInv
<1>1. /\ pc[n] = "store"
      /\ UNCHANGED <<storage, announced, acked, nextPLogOffset,
                     nextWLogOffset, nextRecordID>>
  BY DEF StoreDone
<1>2. LogInv' /\ StorageGrows  BY <1>1, QuietStep
<1>3. /\ ViewInv(n) /\ CreatedInv(n) /\ (OneWriter => UpToDate(n))
      /\ RowInv(n) /\ BranchInv(n)
  BY <1>0, <1>1 DEF NodeInv, Doomed
<1>4. plog' = plog /\ wlog' = wlog /\ synced' = synced  BY <1>1 DEF storage
<1>5. ASSUME cmd[n].putWLog = "ok", pc'[n] \in {"exec", "notify"}, Part(n)' = p,
             resident'[n] \subseteq resident[n] \cup {p}
      PROVE  ViewInv(n)' /\ CreatedInv(n)' /\ (OneWriter => UpToDate(n)')
  <2>1. \A w \in WSIDs : Seen(n, w)' = Seen(n, w)
    BY <1>1, <1>5 DEF Seen, Pending
  <2>2. \A q \in Partitions : ~LastUnapplied(n, q)  BY <1>1 DEF LastUnapplied
  <2>3. \A q \in Partitions : Current(n, q)' => Current(n, q)
    BY <1>1, <1>5 DEF Current
  <2>4. ViewInv(n)'  BY <1>0, <1>1, <1>2, <1>3, <2>1, ViewStays
  <2>5. CreatedInv(n)'  BY <1>0, <1>1, <1>2, <1>3, <2>2, CreatedInvStays
  <2>6. OneWriter => UpToDate(n)'  BY <1>1, <1>3, <1>4, <2>3, UpToDateStays
  <2> QED  BY <2>4, <2>5, <2>6
<1>6. CASE "err" \in {cmd[n].projector, cmd[n].putWLog} /\ Fail(n)
  <2>1. /\ pc'[n] = "reply" /\ cmd'[n].failed
        /\ cmd'[n].restart = cmd[n].restart /\ Part(n)' = Part(n)
    BY <1>0, <1>6, FailFields
  <2>2. cmd'[n].restart  BY <1>1, <1>3, <1>6, <2>1 DEF BranchInv
  <2> QED  BY <1>2, <2>1, <2>2 DEF NodeInv, Doomed, FreshInv, RowInv, HasRow,
                                   PutInv, BranchInv
<1>7. CASE /\ {cmd[n].projector, cmd[n].putWLog} = {"ok"} /\ Recovered(n)
           /\ SetCmd(n, NewWorkpiece(cmd[n].ws, cmd[n].createWS))
  <2> DEFINE c == NewWorkpiece(cmd[n].ws, cmd[n].createWS)
  <2>1. c \in Workpiece /\ c.ws = cmd[n].ws
    BY <1>0, CmdType, NewWorkpieceType DEF NewWorkpiece
  <2>2. SetCmd(n, c)  BY <1>7
  <2> HIDE DEF c
  <2>3. Part(n)' = p  BY <1>0, <2>1, <2>2, SetCmdEffect DEF Part
  <2>4. pc'[n] = "exec" /\ resident'[n] = resident[n] \cup {p}
    BY <1>0, <1>7 DEF Recovered, TypeOK
  <2>5. cmd[n].putWLog = "ok"  BY <1>7
  <2>6. ViewInv(n)' /\ CreatedInv(n)' /\ (OneWriter => UpToDate(n)')
    BY <1>5, <2>3, <2>4, <2>5
  <2>7. FreshInv(n)' /\ RowInv(n)' /\ PutInv(n)' /\ BranchInv(n)'
    BY <2>4 DEF FreshInv, RowInv, HasRow, PutInv, BranchInv
  <2> QED  BY <1>2, <2>6, <2>7 DEF NodeInv, OneWriter
<1>8. CASE /\ {cmd[n].projector, cmd[n].putWLog} = {"ok"}
           /\ pc' = [pc EXCEPT ![n] = "notify"] /\ UNCHANGED <<resident, cmd>>
  <2>1. pc'[n] = "notify" /\ Part(n)' = p /\ cmd' = cmd /\ resident' = resident
    BY <1>0, <1>8 DEF TypeOK, Part
  <2>2. cmd[n].putWLog = "ok" /\ cmd[n].projector = "ok"  BY <1>8
  <2>3. ViewInv(n)' /\ CreatedInv(n)' /\ (OneWriter => UpToDate(n)')
    BY <1>5, <2>1, <2>2
  <2>4. RowInv(n)'  BY <1>1, <1>3, <1>4, <2>1 DEF RowInv, HasRow
  <2>5. BranchInv(n)'  BY <1>1, <1>3, <1>4, <2>1, <2>2 DEF BranchInv
  <2>6. FreshInv(n)' /\ PutInv(n)'  BY <2>1 DEF FreshInv, PutInv
  <2> QED  BY <1>2, <2>3, <2>4, <2>5, <2>6 DEF NodeInv, OneWriter
<1> QED  BY <1>6, <1>7, <1>8 DEF StoreDone

LEMMA NotifyKeeps ==
    ASSUME SafeInv, NEW n \in Nodes, NotifyAsyncActualizers(n)
    PROVE  LogInv' /\ StorageGrows /\ NodeInv(n)'
<1>0. TypeInv /\ TypeOK /\ NodeInv(n)  BY DEF SafeInv, TypeInv
<1>1. /\ pc[n] = "notify" /\ pc' = [pc EXCEPT ![n] = "reply"]
      /\ UNCHANGED <<storage, acked, memory, cmd>>
  BY DEF NotifyAsyncActualizers, GoReply
<1>2. LogInv' /\ StorageGrows  BY <1>1, QuietStep
<1>3. /\ nextPLogOffset' = nextPLogOffset /\ nextWLogOffset' = nextWLogOffset
      /\ nextRecordID' = nextRecordID /\ resident' = resident /\ plog' = plog
      /\ wlog' = wlog /\ synced' = synced /\ cmd' = cmd /\ pc'[n] = "reply"
      /\ Part(n)' = Part(n)
  BY <1>0, <1>1 DEF memory, storage, TypeOK, Part
<1>4. /\ ViewInv(n) /\ CreatedInv(n) /\ (OneWriter => UpToDate(n))
      /\ RowInv(n) /\ BranchInv(n)
  BY <1>0, <1>1 DEF NodeInv, Doomed
<1>5. ViewInv(n)'
  <2>1. \A w \in WSIDs : Seen(n, w)' = Seen(n, w)  BY <1>1, <1>3 DEF Seen, Pending
  <2> QED  BY <1>0, <1>2, <1>3, <1>4, <2>1, ViewStays
<1>6. CreatedInv(n)'
  <2>1. \A q \in Partitions : ~LastUnapplied(n, q)  BY <1>1 DEF LastUnapplied
  <2> QED  BY <1>0, <1>2, <1>3, <1>4, <2>1, CreatedInvStays
<1>7. OneWriter => UpToDate(n)'
  <2>1. \A q \in Partitions : Current(n, q)' => Current(n, q)  BY <1>3 DEF Current
  <2> QED  BY <1>3, <1>4, <2>1, UpToDateStays
<1>8. RowInv(n)'  BY <1>1, <1>3, <1>4 DEF RowInv, HasRow
<1>9. BranchInv(n)'  BY <1>1, <1>3, <1>4 DEF BranchInv
<1>10. FreshInv(n)' /\ PutInv(n)'  BY <1>3 DEF FreshInv, PutInv
<1> QED  BY <1>2, <1>5, <1>6, <1>7, <1>8, <1>9, <1>10 DEF NodeInv, OneWriter

-----------------------------------------------------------------------------
(* The end of a command. *)

\* What is left of a view when some of its partitions are forgotten.
LEMMA ForgetKeepsNode ==
    ASSUME SafeInv, NEW n \in Nodes, NEW keep \in SUBSET Partitions,
           keep \subseteq resident[n],
           keep = {} \/ (pc[n] = "reply" /\ ~cmd[n].restart),
           Forget(n, keep), UNCHANGED storage, pc'[n] = "idle"
    PROVE  NodeInv(n)'
<1>0. TypeInv /\ TypeOK /\ NodeInv(n)  BY DEF SafeInv, TypeInv
<1>1. /\ resident'[n] = keep
      /\ \A q \in Partitions : nextPLogOffset'[n][q] = IF q \in keep
                                   THEN nextPLogOffset[n][q] ELSE 1
      /\ \A w \in WSIDs : nextWLogOffset'[n][w] = IF PartitionOf[w] \in keep
                                   THEN nextWLogOffset[n][w] ELSE 1
      /\ \A w \in WSIDs : nextRecordID'[n][w] = IF PartitionOf[w] \in keep
                                   THEN nextRecordID[n][w] ELSE 1
  BY <1>0 DEF Forget, TypeOK
<1>2. plog' = plog /\ records' = records  BY DEF storage
<1>3. \A w \in WSIDs : /\ Seen(n, w)' = nextWLogOffset'[n][w]
                       /\ PartitionOf[w] \in Partitions
  BY ConstantsAssumption DEF Seen, Pending
<1>4. \A k \in Offsets : ~(k < 1)  BY DEF Offsets
<1>5. ASSUME NEW q \in keep
      PROVE  /\ ViewInv(n) /\ CreatedInv(n) /\ (OneWriter => UpToDate(n))
             /\ ~LastUnapplied(n, q) /\ Current(n, q)
             /\ \A w \in WSIDs : Seen(n, w) = nextWLogOffset[n][w]
  BY <1>0, <1>5 DEF NodeInv, Doomed, LastUnapplied, Current, Seen, Pending
<1>6. ViewInv(n)'
  <2>1. \A q \in Partitions, k \in Offsets : k < nextPLogOffset'[n][q] => Stored(q, k)'
    BY <1>1, <1>2, <1>4, <1>5 DEF ViewInv, Stored
  <2>2. ASSUME NEW w \in WSIDs, NEW k \in Offsets,
               k < nextPLogOffset'[n][PartitionOf[w]], plog[PartitionOf[w]][k].ws = w
        PROVE  /\ plog[PartitionOf[w]][k].woff < nextWLogOffset'[n][w]
               /\ \A id \in plog[PartitionOf[w]][k].creates : id < nextRecordID'[n][w]
    <3>1. PartitionOf[w] \in keep  BY <1>1, <1>3, <1>4, <2>2
    <3> QED  BY <1>1, <1>3, <1>5, <2>2, <3>1 DEF ViewInv
  <2>3. ASSUME NEW w \in WSIDs, NEW o \in Offsets, o < nextWLogOffset'[n][w]
        PROVE  \E k \in Offsets : /\ k < nextPLogOffset'[n][PartitionOf[w]]
                                  /\ plog[PartitionOf[w]][k].ws = w
                                  /\ plog[PartitionOf[w]][k].woff = o
    <3>1. PartitionOf[w] \in keep  BY <1>1, <1>4, <2>3
    <3> QED  BY <1>1, <1>3, <1>5, <2>3, <3>1 DEF ViewInv
  <2> QED  BY <1>2, <1>3, <2>1, <2>2, <2>3 DEF ViewInv
<1>7. CreatedInv(n)'
  BY <1>1, <1>2, <1>4, <1>5 DEF CreatedInv, Created
<1>8. OneWriter => UpToDate(n)'
  <2>1. \A q \in Partitions : Current(n, q)' => q \in keep  BY <1>1 DEF Current
  <2> QED  BY <1>1, <1>2, <1>5, <2>1 DEF UpToDate, Stored
<1>9. FreshInv(n)' /\ RowInv(n)' /\ PutInv(n)' /\ BranchInv(n)'
  BY <1>1 DEF FreshInv, RowInv, HasRow, PutInv, BranchInv
<1> QED  BY <1>6, <1>7, <1>8, <1>9 DEF NodeInv, OneWriter

LEMMA ReplyKeeps ==
    ASSUME SafeInv, NEW n \in Nodes, Reply(n)
    PROVE  LogInv' /\ StorageGrows /\ NodeInv(n)'
<1> DEFINE p == Part(n)
           ack == [poff |-> cmd[n].poff, ev |-> cmd[n].ev]
           keep == IF cmd[n].restart THEN {} ELSE resident[n]
<1>0. TypeInv /\ TypeOK /\ LogInv /\ NodeInv(n)  BY DEF SafeInv, TypeInv
<1>1. /\ pc[n] = "reply"
      /\ acked' = IF cmd[n].failed THEN acked ELSE [acked EXCEPT ![p] = @ \cup {ack}]
      /\ Forget(n, keep) /\ pc' = [pc EXCEPT ![n] = "idle"]
      /\ UNCHANGED <<storage, announced>>
  BY DEF Reply
<1>2. UNCHANGED storage /\ pc'[n] = "idle"  BY <1>0, <1>1 DEF TypeOK
<1>3. NodeInv(n)'
  <2>1. keep \in SUBSET Partitions /\ keep \subseteq resident[n]  BY <1>0 DEF TypeOK
  <2>2. keep = {} \/ ~cmd[n].restart  OBVIOUS
  <2> HIDE DEF keep
  <2> QED  BY <1>1, <1>2, <2>1, <2>2, ForgetKeepsNode
<1>4. plog' = plog /\ wlog' = wlog /\ records' = records /\ synced' = synced
  BY <1>2 DEF storage
<1>5. \A q \in Partitions : \A a \in acked'[q] : a \in acked[q] \/ Durable(q, a)'
  <2>1. CASE cmd[n].failed  BY <1>1, <2>1
  <2>2. CASE ~cmd[n].failed
    <3>1. Durable(p, ack)
      BY <1>0, <1>1, <2>2 DEF NodeInv, RowInv, HasRow, BranchInv, Durable
    <3>2. \A q \in Partitions : \A a \in acked'[q] :
              a \in acked[q] \/ (q = p /\ a = ack)
      BY <1>0, <1>1, <2>2 DEF TypeOK
    <3> HIDE DEF p, ack
    <3>3. \A q \in Partitions : \A a \in acked'[q] : a \in acked[q] \/ Durable(q, a)
      BY <3>1, <3>2
    <3> QED  BY <1>4, <3>3 DEF Durable
  <2> QED  BY <2>1, <2>2
<1> QED  BY <1>0, <1>3, <1>4, <1>5, LogStays

LEMMA CrashKeeps ==
    ASSUME SafeInv, NEW n \in Nodes, Crash(n)
    PROVE  LogInv' /\ StorageGrows /\ NodeInv(n)'
<1>1. /\ Forget(n, {}) /\ UNCHANGED storage /\ UNCHANGED <<storage, acked>>
      /\ pc'[n] = "idle"
  BY DEF Crash, SafeInv, TypeInv, TypeOK
<1>2. NodeInv(n)'  BY <1>1, ForgetKeepsNode
<1> QED  BY <1>1, <1>2, QuietStep

-----------------------------------------------------------------------------
LEMMA SafeInvInit == Init => SafeInv
<1> SUFFICES ASSUME Init  PROVE SafeInv
  OBVIOUS
<1>1. TypeInv  BY InitType
<1>2. /\ \A p \in Partitions, k \in Offsets : ~Stored(p, k)
      /\ \A w \in WSIDs, o \in Offsets : wlog[w][o] = 0
      /\ \A p \in Partitions : acked[p] = {}
  BY DEF Init, Stored
<1>3. LogInv
  BY <1>2 DEF LogInv, PLogIsDense, WLogOffsetsAreSequential, RecordIDsAreUnique,
              SameWS, WLogRowsAreEvents, AckedIsDurable, AllCreated
<1>4. ASSUME NEW n \in Nodes  PROVE NodeInv(n)
  <2>1. /\ pc[n] = "idle" /\ resident[n] = {}
        /\ \A p \in Partitions : nextPLogOffset[n][p] = 1
        /\ \A w \in WSIDs : nextWLogOffset[n][w] = 1 /\ PartitionOf[w] \in Partitions
    BY ConstantsAssumption DEF Init
  <2>2. \A k \in Offsets : ~(k < 1)  BY DEF Offsets
  <2>3. ViewInv(n) /\ CreatedInv(n) /\ UpToDate(n)
    BY <1>2, <2>1, <2>2 DEF ViewInv, CreatedInv, UpToDate, Seen, Pending
  <2>4. FreshInv(n) /\ RowInv(n) /\ PutInv(n) /\ BranchInv(n)
    BY <2>1 DEF FreshInv, RowInv, HasRow, PutInv, BranchInv
  <2> QED  BY <2>3, <2>4 DEF NodeInv
<1> QED  BY <1>1, <1>3, <1>4 DEF SafeInv

\* Every step of a process keeps the logs, adds to the storage, keeps what the
\* process knows and leaves the memory of the others alone.
NodeStep(n) ==
    \/ \E w \in WSIDs, b \in BOOLEAN : Accept(n, w, b)
    \/ Step(n)
    \/ Crash(n)

LEMMA NodeStepKeeps ==
    ASSUME SafeStorage, SafeInv, NEW n \in Nodes, NodeStep(n)
    PROVE  LogInv' /\ StorageGrows /\ NodeInv(n)' /\ OthersUnchanged(n)
<1>0. TypeInv  BY DEF SafeInv
<1>1. CASE \E w \in WSIDs, b \in BOOLEAN : Accept(n, w, b)
  BY <1>0, <1>1, AcceptKeeps, AcceptType
<1>2. CASE Recovery(n)
  BY <1>0, <1>2, RecoverEventKeeps, RecoverEventType, RefusalKeeps,
     RecoverReadFailsType, RecoverEndKeeps, RecoverEndType DEF Recovery
<1>3. CASE Execution(n)
  BY <1>0, <1>3, RefusalKeeps, ExecFailsType, ExecKeeps, ExecType, PutPLogKeeps,
     PutPLogType, PutPLogFailsKeeps, PutPLogFailsType DEF Execution, UpdateSets
<1>4. CASE Store(n)
  BY <1>0, <1>4, ApplyRecordsKeeps, ApplyRecordsType, ApplyRecordsFailsKeeps,
     ApplyRecordsFailsType, SyncProjectorsKeeps, SyncProjectorsType, PutWLogKeeps,
     PutWLogType, PutWLogFailsKeeps, PutWLogFailsType, StoreDoneKeeps,
     StoreDoneType DEF Store
<1>5. CASE NotifyAsyncActualizers(n)  BY <1>0, <1>5, NotifyKeeps, NotifyType
<1>6. CASE Reply(n)  BY <1>0, <1>6, ReplyKeeps, ReplyType
<1>7. CASE Crash(n)  BY <1>0, <1>7, CrashKeeps, CrashType
<1> QED  BY <1>1, <1>2, <1>3, <1>4, <1>5, <1>6, <1>7 DEF NodeStep, Step

LEMMA SafeInvNext ==
    ASSUME SafeStorage, SafeInv, [Next]_vars
    PROVE  SafeInv' /\ (UNCHANGED vars \/ StorageGrows)
<1>1. TypeInv'  BY NextType DEF SafeInv
<1>2. CASE Next
  <2>1. PICK n \in Nodes : NodeStep(n)  BY <1>2 DEF Next, NodeStep
  <2>2. LogInv' /\ StorageGrows /\ NodeInv(n)' /\ OthersUnchanged(n)
    BY <2>1, NodeStepKeeps
  <2>3. \A m \in Nodes \ {n} : NodeInv(m)'  BY <2>2, OthersKeepNode
  <2> QED  BY <1>1, <2>2, <2>3 DEF SafeInv
<1>3. CASE UNCHANGED vars
  <2>1. UNCHANGED <<plog, wlog, records, synced, acked, resident, nextPLogOffset,
                    nextWLogOffset, nextRecordID, pc, cmd>>
    BY <1>3 DEF vars, storage, memory
  <2>2. LogInv'
    BY <2>1 DEF SafeInv, LogInv, PLogIsDense, WLogOffsetsAreSequential,
                RecordIDsAreUnique, SameWS, Stored, WLogRowsAreEvents,
                AckedIsDurable, AllCreated, Created
  <2>3. ASSUME NEW n \in Nodes  PROVE NodeInv(n)'
    <3>1. NodeInv(n)  BY DEF SafeInv
    <3>2. Part(n)' = Part(n) /\ \A w \in WSIDs : Seen(n, w)' = Seen(n, w)
      BY <2>1 DEF Part, Seen, Pending
    <3>3. ViewInv(n) => ViewInv(n)'  BY <2>1, <3>2 DEF ViewInv, Stored
    <3>4. CreatedInv(n) => CreatedInv(n)'
      BY <2>1, <3>2 DEF CreatedInv, LastUnapplied, Created
    <3>5. UpToDate(n) => UpToDate(n)'  BY <2>1, <3>2 DEF UpToDate, Current, Stored
    <3>6. FreshInv(n)' /\ RowInv(n)' /\ PutInv(n)' /\ BranchInv(n)'
      BY <2>1, <3>1, <3>2
         DEF NodeInv, FreshInv, RowInv, HasRow, PutInv, BranchInv
    <3>7. Doomed(n)' = Doomed(n)  BY <2>1 DEF Doomed
    <3> QED  BY <3>1, <3>3, <3>4, <3>5, <3>6, <3>7 DEF NodeInv, OneWriter
  <2> QED  BY <1>1, <1>3, <2>2, <2>3 DEF SafeInv
<1> QED  BY <1>2, <1>3

-----------------------------------------------------------------------------
LEMMA LogInvariance ==
    ASSUME SafeStorage
    PROVE  Spec => []LogInv
<1>1. SafeInv /\ [Next]_vars => SafeInv'  BY SafeInvNext
<1>2. SafeInv => LogInv  BY DEF SafeInv
<1> QED  BY <1>1, <1>2, SafeInvInit, PTL DEF Spec

\* The theorems hold under every interleaving of any number of command
\* processors, with crashes and with failing writes that may or may not have
\* reached the storage.

\* A PLog has no holes, so the recovery that stops at the first missing row
\* has read all events.
THEOREM PLogHasNoHoles ==
    ASSUME SafeStorage
    PROVE  Spec => []PLogIsDense
<1>1. LogInv => PLogIsDense  BY DEF LogInv
<1> QED  BY <1>1, LogInvariance, PTL

\* The events of a workspace have the WLog offsets 1, 2, 3..., although
\* recovery takes NextWLogOffset back for the event it applies again.
THEOREM WLogOffsetsContinue ==
    ASSUME SafeStorage
    PROVE  Spec => []WLogOffsetsAreSequential
<1>1. LogInv => WLogOffsetsAreSequential  BY DEF LogInv
<1> QED  BY <1>1, LogInvariance, PTL

\* No record ID of a workspace is given twice: recovery moves the generator
\* behind every stored event, and a process whose generator is behind writes
\* to a row that exists already.
THEOREM RecordIDsAreGivenOnce ==
    ASSUME SafeStorage
    PROVE  Spec => []RecordIDsAreUnique
<1>1. LogInv => RecordIDsAreUnique  BY DEF LogInv
<1> QED  BY <1>1, LogInvariance, PTL

\* A WLog row is written for an event of the PLog only, under its own offset.
THEOREM WLogFollowsPLog ==
    ASSUME SafeStorage
    PROVE  Spec => []WLogRowsAreEvents
<1>1. LogInv => WLogRowsAreEvents  BY DEF LogInv
<1> QED  BY <1>1, LogInvariance, PTL

\* An event that sendResponse has reported stays in both logs, and the sync
\* projectors have processed it.
THEOREM AckedEventsStay ==
    ASSUME SafeStorage
    PROVE  Spec => []AckedIsDurable
<1>1. LogInv => AckedIsDurable  BY DEF LogInv
<1> QED  BY <1>1, LogInvariance, PTL

\* A stored PLog row is never replaced: PutPlog is the only writer, and the
\* process that writes a row knows, or the storage checks, that it is free.
THEOREM PLogRowsStay ==
    ASSUME SafeStorage
    PROVE  Spec => PLogIsAppendOnly
<1> DEFINE Kept == \A p \in Partitions : \A k \in Offsets :
                       Stored(p, k) => plog'[p][k] = plog[p][k]
<1>1. SafeInv /\ [Next]_vars => SafeInv'  BY SafeInvNext
<1>2. SafeInv /\ [Next]_vars => [Kept]_vars
  BY SafeInvNext DEF StorageGrows
<1>3. Spec => [][Kept]_vars  BY <1>1, <1>2, SafeInvInit, PTL DEF Spec
<1> QED  BY <1>3 DEF PLogIsAppendOnly
-----------------------------------------------------------------------------
(***************************************************************************)
(* The command processors implement the log per workspace that is promised *)
(* to clients, for any number of processes, partitions and workspaces.     *)
(***************************************************************************)
(* The logs as functions of the PLog. *)

\* What row k of the PLog says of a workspace with this partition.
EntryAt(p, k) == [creates |-> plog[p][k].creates, updates |-> plog[p][k].updates]

LEMMA EntryExists ==
    ASSUME TypeInv, LogInv, NEW w \in WSIDs, NEW o \in Offsets, NEW k \in Offsets,
           RowOf(w, o, k)
    PROVE  /\ WorkspaceEntry(w, o) = EntryAt(PartitionOf[w], k)
           /\ EntryAt(PartitionOf[w], k) \in Entry
           /\ WorkspaceEntry(w, o) # NoEvent
<1> DEFINE p == PartitionOf[w]
           at == {j \in Offsets : Stored(p, j) /\ plog[p][j].ws = w
                                  /\ plog[p][j].woff = o}
<1>1. at = {k}  BY RowIsUnique DEF RowOf
<1>2. WorkspaceEntry(w, o) =
          IF at = {} THEN NoEvent
          ELSE LET e == plog[p][CHOOSE j \in at : TRUE]
               IN  [creates |-> e.creates, updates |-> e.updates]
  BY DEF WorkspaceEntry
<1> HIDE DEF at
<1>3. (CHOOSE j \in at : TRUE) = k  BY <1>1
<1>4. WorkspaceEntry(w, o) = EntryAt(p, k)  BY <1>1, <1>2, <1>3 DEF EntryAt
<1>5. plog[p][k] \in Event  BY ConstantsAssumption, RowType DEF RowOf
<1>6. EntryAt(p, k) \in Entry  BY <1>5 DEF EntryAt, Event, Entry
<1> QED  BY <1>4, <1>6, ConstantsAssumption

LEMMA EntryIsRow ==
    ASSUME NEW w \in WSIDs, NEW o \in Offsets, WorkspaceEntry(w, o) # NoEvent
    PROVE  \E k \in Offsets : RowOf(w, o, k)
<1> DEFINE p == PartitionOf[w]
           at == {j \in Offsets : Stored(p, j) /\ plog[p][j].ws = w
                                  /\ plog[p][j].woff = o}
<1>1. at # {}  BY DEF WorkspaceEntry
<1> QED  BY <1>1 DEF RowOf

\* An entry stays as long as no row is added for it.
LEMMA EntryStays ==
    ASSUME NEW w \in WSIDs, NEW o \in Offsets,
           \A k \in Offsets : RowOf(w, o, k)' <=> RowOf(w, o, k),
           \A k \in Offsets : RowOf(w, o, k) =>
               plog'[PartitionOf[w]][k] = plog[PartitionOf[w]][k]
    PROVE  WorkspaceEntry(w, o)' = WorkspaceEntry(w, o)
<1> DEFINE p == PartitionOf[w]
           at == {j \in Offsets : Stored(p, j) /\ plog[p][j].ws = w
                                  /\ plog[p][j].woff = o}
           row(j) == [creates |-> plog[p][j].creates, updates |-> plog[p][j].updates]
<1>1. \A j : j \in at <=> j \in Offsets /\ RowOf(w, o, j)  BY DEF RowOf
<1>2. \A j : j \in at' <=> j \in Offsets /\ RowOf(w, o, j)'  BY DEF RowOf
<1>3. at' = at  BY <1>1, <1>2
<1>4. at # {} => row(CHOOSE j \in at : TRUE)' = row(CHOOSE j \in at : TRUE)
  BY <1>1, <1>3
<1>5. WorkspaceEntry(w, o) = IF at = {} THEN NoEvent ELSE row(CHOOSE j \in at : TRUE)
  BY DEF WorkspaceEntry
<1>6. WorkspaceEntry(w, o)' = IF at' = {} THEN NoEvent
                              ELSE row(CHOOSE j \in at : TRUE)'
  BY DEF WorkspaceEntry
<1> QED  BY <1>3, <1>4, <1>5, <1>6

-----------------------------------------------------------------------------
(* Updated records have been created. *)

HasCreator(w, id) ==
    \E k \in Offsets : /\ Stored(PartitionOf[w], k) /\ plog[PartitionOf[w]][k].ws = w
                       /\ id \in plog[PartitionOf[w]][k].creates

HasCreators(e) == \A id \in e.updates : HasCreator(e.ws, id)

\* An update is executed on a record that is stored; a record is stored for an
\* event of the PLog that creates it, or that updates it after it was created.
UpdatesInv ==
    /\ \A w \in WSIDs, id \in RecordIDs : records[w][id] # {} => HasCreator(w, id)
    /\ \A p \in Partitions, k \in Offsets : Stored(p, k) => HasCreators(plog[p][k])
    /\ \A n \in Nodes : pc[n] = "putPLog" => HasCreators(cmd[n].ev)

LEMMA CreatorStays ==
    ASSUME StorageGrows, NEW w \in WSIDs, NEW id, HasCreator(w, id)
    PROVE  HasCreator(w, id)'
<1>1. PartitionOf[w] \in Partitions  BY ConstantsAssumption
<1>2. PICK k \in Offsets :
          /\ Stored(PartitionOf[w], k) /\ plog[PartitionOf[w]][k].ws = w
          /\ id \in plog[PartitionOf[w]][k].creates
  BY DEF HasCreator
<1>3. plog'[PartitionOf[w]][k] = plog[PartitionOf[w]][k]
  BY <1>1, <1>2 DEF StorageGrows
<1> QED  BY <1>2, <1>3 DEF HasCreator, Stored

LEMMA CreatorsStay ==
    ASSUME StorageGrows, NEW e \in Event, HasCreators(e)
    PROVE  HasCreators(e)'
<1>1. e.ws \in WSIDs  BY DEF Event
<1> QED  BY <1>1, CreatorStays DEF HasCreators

\* What other processes know of their updates stays, and so do the rows and
\* the records; the new ones are left to show.
LEMMA UpdatesStay ==
    ASSUME TypeInv, UpdatesInv, NEW n \in Nodes, OthersUnchanged(n), StorageGrows,
           \A w \in WSIDs, id \in RecordIDs :
               records'[w][id] # {} /\ records[w][id] = {} => HasCreator(w, id)',
           \A p \in Partitions, k \in Offsets :
               plog'[p][k] # plog[p][k] => plog'[p][k] = cmd[n].ev /\ pc[n] = "putPLog",
           pc'[n] = "putPLog" => cmd'[n].ev \in Event /\ HasCreators(cmd'[n].ev)
    PROVE  UpdatesInv'
<1>1. \A w \in WSIDs, id \in RecordIDs : records'[w][id] # {} => HasCreator(w, id)'
  BY CreatorStays DEF UpdatesInv
<1>2. \A m \in Nodes : pc[m] = "putPLog" =>
          cmd[m].ev \in Event /\ HasCreators(cmd[m].ev)
  BY DEF TypeInv, WorkpieceInv, HasEvent, UpdatesInv
<1>3. ASSUME NEW p \in Partitions, NEW k \in Offsets, Stored(p, k)'
      PROVE  HasCreators(plog[p][k])'
  <2>1. plog'[p][k] \in Event /\ HasCreators(plog'[p][k])
    <3>1. CASE plog'[p][k] = plog[p][k]
      BY <1>3, <3>1, RowType DEF UpdatesInv, Stored
    <3>2. CASE plog'[p][k] # plog[p][k]
      BY <1>2, <3>2
    <3> QED  BY <3>1, <3>2
  <2> DEFINE e == plog'[p][k]
  <2>2. \A x \in Event : HasCreators(x) => HasCreators(x)'  BY CreatorsStay
  <2> QED  BY <2>1, <2>2 DEF HasCreators, HasCreator
<1>4. ASSUME NEW m \in Nodes, pc'[m] = "putPLog"
      PROVE  HasCreators(cmd[m].ev)'
  <2>1. cmd'[m].ev \in Event /\ HasCreators(cmd'[m].ev)
    BY <1>2, <1>4 DEF OthersUnchanged
  <2>2. \A x \in Event : HasCreators(x) => HasCreators(x)'  BY CreatorsStay
  <2> QED  BY <2>1, <2>2 DEF HasCreators, HasCreator
<1> QED  BY <1>1, <1>3, <1>4 DEF UpdatesInv

LEMMA ExecUpdates ==
    ASSUME SafeInv, UpdatesInv, NEW n \in Nodes, NEW nnew \in 0..MaxNew,
           NEW upd \in SUBSET RecordIDs, Exec(n, nnew, upd), OthersUnchanged(n), StorageGrows
    PROVE  UpdatesInv'
<1> DEFINE e == RawEvent(n, nnew, upd)
           c == [cmd[n] EXCEPT !.nnew = nnew, !.ev = e,
                               !.poff = nextPLogOffset[n][Part(n)],
                               !.origin = Origin(n, upd)]
<1>0. TypeInv /\ TypeOK /\ TypeInv'  BY ExecType DEF SafeInv, TypeInv
<1>1. /\ ValidEvent(n, nnew, upd) /\ cmd' = [cmd EXCEPT ![n] = c]
      /\ pc' = [pc EXCEPT ![n] = "putPLog"] /\ UNCHANGED storage
  BY DEF Exec, SetCmd
<1>2. plog' = plog /\ records' = records  BY <1>1 DEF storage
<1>3. cmd[n] \in Workpiece /\ cmd[n].ws \in WSIDs  BY <1>0, CmdType
<1>4. e.ws = cmd[n].ws /\ e.updates = upd  BY DEF RawEvent
<1>5. c.ev = e  BY <1>3 DEF Workpiece
<1> HIDE DEF e, c
<1>6. cmd'[n].ev = e  BY <1>0, <1>1, <1>5 DEF TypeOK
<1>7. pc'[n] = "putPLog"  BY <1>0, <1>1 DEF TypeOK
<1>8. e \in Event  BY <1>0, <1>6, <1>7 DEF TypeInv, WorkpieceInv, HasEvent
<1>9. HasCreators(e)
  BY <1>1, <1>3, <1>4 DEF HasCreators, ValidEvent, UpdatesInv
<1> QED  BY <1>0, <1>2, <1>6, <1>8, <1>9, UpdatesStay

LEMMA PutPLogUpdates ==
    ASSUME SafeInv, UpdatesInv, NEW n \in Nodes, PutPLog(n) \/ PutPLogFails(n),
           OthersUnchanged(n), StorageGrows
    PROVE  UpdatesInv'
<1>0. TypeInv /\ TypeOK  BY DEF SafeInv, TypeInv
<1>1. /\ pc[n] = "putPLog" /\ records' = records
      /\ plog' = plog \/ plog' = [plog EXCEPT ![Part(n)][cmd[n].poff] = cmd[n].ev]
  BY DEF PutPLog, PutPLogFails
<1>2. Part(n) \in Partitions /\ cmd[n].poff \in Offsets
  BY <1>0, <1>1, CmdType DEF TypeInv, WorkpieceInv, HasEvent
<1>3. \A p \in Partitions, k \in Offsets :
          plog'[p][k] # plog[p][k] => plog'[p][k] = cmd[n].ev
  <2>1. CASE plog' = plog  BY <2>1
  <2>2. CASE plog' = [plog EXCEPT ![Part(n)][cmd[n].poff] = cmd[n].ev]
    BY <1>0, <1>2, <2>2 DEF TypeOK
  <2> QED  BY <1>1, <2>1, <2>2
<1>4. pc'[n] # "putPLog"
  BY <1>0 DEF PutPLog, PutPLogFails, FailAndRestart, GoReply, TypeOK
<1> QED  BY <1>0, <1>1, <1>3, <1>4, UpdatesStay

LEMMA ApplyRecordsUpdates ==
    ASSUME SafeInv, UpdatesInv, NEW n \in Nodes, NEW ids \in SUBSET RecordIDs,
           ids \subseteq Touched(cmd[n].ev), pc[n] = "applyRecords",
           WriteRecords(n, ids), plog' = plog, pc'[n] # "putPLog",
           OthersUnchanged(n), StorageGrows
    PROVE  UpdatesInv'
<1> DEFINE e == cmd[n].ev
<1>0. TypeInv /\ TypeOK /\ HasEvent(n) /\ RowInv(n)
  BY DEF SafeInv, TypeInv, WorkpieceInv, NodeInv
<1>1. /\ e \in Event /\ e.ws \in WSIDs /\ cmd[n].poff \in Offsets
      /\ Part(n) \in Partitions /\ PartitionOf[e.ws] = Part(n)
      /\ plog[Part(n)][cmd[n].poff] = e
  BY <1>0, CmdType DEF HasEvent, Event, RowInv, HasRow
<1>2. Stored(Part(n), cmd[n].poff)  BY <1>1, ConstantsAssumption DEF Stored
<1>3. \A id \in Touched(e) : HasCreator(e.ws, id)
  BY <1>1, <1>2 DEF Touched, HasCreator, UpdatesInv, HasCreators
<1>4. \A w \in WSIDs, id \in RecordIDs :
          records'[w][id] # records[w][id] => w = e.ws /\ id \in ids
  BY <1>0, <1>1 DEF WriteRecords, TypeOK
<1>5. \A w \in WSIDs, id \in RecordIDs :
          records'[w][id] # {} /\ records[w][id] = {} => HasCreator(w, id)'
  BY <1>1, <1>3, <1>4, CreatorStays
<1> QED  BY <1>0, <1>5, UpdatesStay

LEMMA UpdatesInit == Init => UpdatesInv
<1> SUFFICES ASSUME Init  PROVE UpdatesInv
  OBVIOUS
<1> QED  BY DEF Init, UpdatesInv, Stored

-----------------------------------------------------------------------------
(* Every step is a step of the promised log, or leaves it alone. *)

LEMMA LogsInit ==
    ASSUME Init
    PROVE  Promise!Init
<1>1. \A p \in Partitions, k \in Offsets : ~Stored(p, k)  BY DEF Init, Stored
<1>2. \A w \in WSIDs : PartitionOf[w] \in Partitions  BY ConstantsAssumption
<1>3. \A w \in WSIDs, o \in Offsets : WorkspaceEntry(w, o) = NoEvent
  BY <1>1, <1>2, EntryIsRow DEF RowOf
<1>4. WorkspaceLogs = [w \in WSIDs |-> [o \in Offsets |-> NoEvent]]
  BY <1>3 DEF WorkspaceLogs
<1>5. AckedOffsets = [w \in WSIDs |-> {}]  BY <1>2 DEF Init, AckedOffsets
<1> QED  BY <1>4, <1>5 DEF Promise!Init

LEMMA LogsUntouched ==
    ASSUME UNCHANGED <<plog, acked>>
    PROVE  UNCHANGED <<WorkspaceLogs, AckedOffsets>>
<1>1. \A w \in WSIDs, o \in Offsets : WorkspaceEntry(w, o)' = WorkspaceEntry(w, o)
  BY EntryStays DEF RowOf, Stored
<1> QED  BY <1>1 DEF WorkspaceLogs, AckedOffsets

EntriesAreRows ==
    \A w \in WSIDs, o \in Offsets, k \in Offsets :
        RowOf(w, o, k) => /\ WorkspaceEntry(w, o) = EntryAt(PartitionOf[w], k)
                          /\ EntryAt(PartitionOf[w], k) \in Entry

LEMMA EntriesExist == TypeInv /\ LogInv => EntriesAreRows
BY EntryExists DEF EntriesAreRows

LEMMA NextEntriesExist == TypeInv' /\ LogInv' => EntriesAreRows'
BY EntriesExist, PTL

\* PutPlog appends the event of the workpiece to the log of its workspace.
LEMMA PutPLogAppends ==
    ASSUME SafeInv, SafeInv', SafeStorage, UpdatesInv, NEW n \in Nodes, pc[n] = "putPLog",
           PLogWritable(Part(n), cmd[n].poff),
           plog' = [plog EXCEPT ![Part(n)][cmd[n].poff] = cmd[n].ev],
           acked' = acked
    PROVE  \E w \in WSIDs, o \in Offsets : Promise!Append(w, o)
<1>0. TypeInv /\ TypeOK /\ LogInv /\ NodeInv(n) /\ TypeInv' /\ LogInv' /\ MaxOffset \in Nat
  BY ConstantsAssumption DEF SafeInv, TypeInv
<1>1. PICK p \in Partitions, k \in Offsets, e \in Event, w \in WSIDs, o \in Offsets :
          /\ p = Part(n) /\ k = cmd[n].poff /\ e = cmd[n].ev
          /\ w = e.ws /\ o = e.woff /\ PartitionOf[w] = p /\ w = cmd[n].ws
          /\ \A j \in Offsets : Stored(p, j) <=> j < k
          /\ nextPLogOffset[n][p] = k /\ nextWLogOffset[n][w] = o
  <2>1. /\ Part(n) \in Partitions /\ cmd[n].poff \in Offsets /\ cmd[n].ev \in Event
        /\ \A j \in Offsets : Stored(Part(n), j) <=> j < cmd[n].poff
    BY RowIsNext
  <2>2. /\ nextPLogOffset[n][Part(n)] = cmd[n].poff
        /\ nextWLogOffset[n][cmd[n].ev.ws] = cmd[n].ev.woff
        /\ cmd[n].ev.ws = cmd[n].ws /\ PartitionOf[cmd[n].ev.ws] = Part(n)
    BY <1>0 DEF TypeInv, WorkpieceInv, HasEvent
  <2>3. cmd[n].ev.ws \in WSIDs /\ cmd[n].ev.woff \in Offsets  BY <2>1 DEF Event
  <2> QED  BY <2>1, <2>2, <2>3
<1>2. ViewInv(n) /\ PutInv(n) /\ HasCreators(e)
  BY <1>0, <1>1 DEF NodeInv, Doomed, UpdatesInv
<1>3. Seen(n, w) = o  BY <1>1 DEF Seen, Pending
<1>4. \A q \in Partitions, j \in Offsets :
          plog'[q][j] = IF q = p /\ j = k THEN e ELSE plog[q][j]
  BY <1>0, <1>1 DEF TypeOK
<1>5. \A j \in Offsets : j < k /\ plog[p][j].ws = w =>
          plog[p][j].creates \cap e.creates = {}
  BY <1>1, <1>2 DEF PutInv
<1>6. \A j \in Offsets : j < k /\ plog[p][j].ws = w => plog[p][j].woff < o
  BY <1>1, <1>2, <1>3 DEF ViewInv
<1>7. \A j \in Offsets : j < o =>
          \E i \in Offsets : i < k /\ plog[p][i].ws = w /\ plog[p][i].woff = j
  BY <1>1, <1>2, <1>3 DEF ViewInv
<1>8. \A j \in Offsets : RowOf(w, j, k)' <=> j = o
  <2>1. plog'[PartitionOf[w]][k] = e /\ e # NoEvent
    BY <1>1, <1>4, ConstantsAssumption
  <2> QED  BY <1>1, <2>1 DEF RowOf, Stored
<1>9. \A x \in WSIDs, y \in Offsets, j \in Offsets :
          PartitionOf[x] # p \/ j # k =>
              /\ RowOf(x, y, j)' <=> RowOf(x, y, j)
              /\ plog'[PartitionOf[x]][j] = plog[PartitionOf[x]][j]
  BY <1>4, ConstantsAssumption DEF RowOf, Stored
<1>10. \A j \in Offsets : WorkspaceLogs[w][j] # NoEvent <=> j < o
  <2> TAKE j \in Offsets
  <2>0. WorkspaceLogs[w][j] = WorkspaceEntry(w, j)  BY DEF WorkspaceLogs
  <2>1. ASSUME WorkspaceEntry(w, j) # NoEvent  PROVE j < o
    <3>1. PICK i \in Offsets : RowOf(w, j, i)  BY <2>1, EntryIsRow
    <3> QED  BY <1>1, <1>6, <3>1 DEF RowOf
  <2>2. ASSUME j < o  PROVE WorkspaceEntry(w, j) # NoEvent
    <3>1. PICK i \in Offsets : i < k /\ plog[p][i].ws = w /\ plog[p][i].woff = j
      BY <1>7, <2>2
    <3>2. RowOf(w, j, i)  BY <1>1, <3>1 DEF RowOf
    <3> QED  BY <1>0, <3>2, EntryExists
  <2> QED  BY <2>0, <2>1, <2>2
<1>11. /\ WorkspaceLogs'[w][o] = [creates |-> e.creates, updates |-> e.updates]
       /\ WorkspaceLogs'[w][o] \in Entry
  <2>1. RowOf(w, o, k)'  BY <1>8
  <2>2. /\ WorkspaceEntry(w, o)' = EntryAt(PartitionOf[w], k)'
        /\ EntryAt(PartitionOf[w], k)' \in Entry
    BY <1>0, <2>1, NextEntriesExist DEF EntriesAreRows
  <2>3. EntryAt(PartitionOf[w], k)' = [creates |-> e.creates, updates |-> e.updates]
    BY <1>1, <1>4 DEF EntryAt
  <2> QED  BY <2>2, <2>3 DEF WorkspaceLogs
<1>12. \A x \in WSIDs, y \in Offsets : x # w \/ y # o =>
           WorkspaceEntry(x, y)' = WorkspaceEntry(x, y)
  <2> TAKE x \in WSIDs, y \in Offsets
  <2> HAVE x # w \/ y # o
  <2>1. ~RowOf(x, y, k) \/ PartitionOf[x] # p  BY <1>1, ConstantsAssumption DEF RowOf, Offsets
  <2>2. ~RowOf(x, y, k)' \/ PartitionOf[x] # p
    <3>1. CASE PartitionOf[x] # p  BY <3>1
    <3>2. CASE PartitionOf[x] = p
      <4>1. plog'[PartitionOf[x]][k] = e  BY <1>1, <1>4, <3>2
      <4>2. RowOf(x, y, k)' => e.ws = x /\ e.woff = y  BY <4>1 DEF RowOf
      <4> QED  BY <1>1, <4>2
    <3> QED  BY <3>1, <3>2
  <2>3. \A j \in Offsets : RowOf(x, y, j)' <=> RowOf(x, y, j)
    BY <1>9, <2>1, <2>2
  <2>4. \A j \in Offsets : RowOf(x, y, j) =>
            plog'[PartitionOf[x]][j] = plog[PartitionOf[x]][j]
    BY <1>9, <2>1
  <2> QED  BY <2>3, <2>4, EntryStays
<1>13. WorkspaceLogs' = [WorkspaceLogs EXCEPT ![w][o] = WorkspaceLogs'[w][o]]
  <2>1. WorkspaceLogs' = [x \in WSIDs |-> [y \in Offsets |-> WorkspaceEntry(x, y)']]
    BY DEF WorkspaceLogs
  <2>2. \A x \in WSIDs, y \in Offsets : WorkspaceEntry(x, y)' =
            IF x = w /\ y = o THEN WorkspaceLogs'[w][o] ELSE WorkspaceEntry(x, y)
    BY <1>12, <2>1
  <2> DEFINE new == WorkspaceLogs'[w][o]
  <2> HIDE DEF new
  <2>3. \A x \in WSIDs, y \in Offsets : WorkspaceEntry(x, y)' =
            IF x = w /\ y = o THEN new ELSE WorkspaceEntry(x, y)
    BY <2>2 DEF new
  <2>4. [WorkspaceLogs EXCEPT ![w][o] = new] =
            [x \in WSIDs |-> [y \in Offsets |->
                IF x = w /\ y = o THEN new ELSE WorkspaceEntry(x, y)]]
    BY DEF WorkspaceLogs
  <2> QED  BY <2>1, <2>3, <2>4 DEF new
<1>14. AckedOffsets' = AckedOffsets  BY DEF AckedOffsets
\* The records that the log has created are those of the rows below k.
<1>15. \A j \in Offsets : WorkspaceLogs[w][j] # NoEvent =>
           \E i \in Offsets : /\ i < k /\ RowOf(w, j, i)
                              /\ WorkspaceLogs[w][j].creates = plog[p][i].creates
  <2> TAKE j \in Offsets
  <2> HAVE WorkspaceLogs[w][j] # NoEvent
  <2>0. WorkspaceLogs[w][j] = WorkspaceEntry(w, j)  BY DEF WorkspaceLogs
  <2>1. PICK i \in Offsets : RowOf(w, j, i)  BY <2>0, EntryIsRow
  <2>2. i < k  BY <1>1, <2>1 DEF RowOf
  <2>3. WorkspaceEntry(w, j) = EntryAt(p, i)  BY <1>0, <1>1, <2>1, EntryExists
  <2> QED  BY <2>0, <2>1, <2>2, <2>3 DEF EntryAt
<1>16. e.creates \cap Promise!Created(w) = {}
  BY <1>1, <1>5, <1>15 DEF Promise!Created, Promise!Written, RowOf
<1>17. e.updates \subseteq Promise!Created(w)
  <2> SUFFICES ASSUME NEW id \in e.updates  PROVE id \in Promise!Created(w)
    OBVIOUS
  <2>1. PICK i \in Offsets : /\ Stored(p, i) /\ plog[p][i].ws = w
                             /\ id \in plog[p][i].creates
    BY <1>1, <1>2 DEF HasCreators, HasCreator
  <2>2. plog[p][i].woff \in Offsets  BY <1>0, <2>1, RowType
  <2>3. RowOf(w, plog[p][i].woff, i)  BY <1>1, <2>1 DEF RowOf
  <2>4. /\ WorkspaceEntry(w, plog[p][i].woff) = EntryAt(p, i)
        /\ WorkspaceEntry(w, plog[p][i].woff) # NoEvent
    BY <1>0, <1>1, <2>2, <2>3, EntryExists
  <2>5. /\ WorkspaceLogs[w][plog[p][i].woff] # NoEvent
        /\ id \in WorkspaceLogs[w][plog[p][i].woff].creates
    BY <2>1, <2>2, <2>4 DEF WorkspaceLogs, EntryAt
  <2> QED  BY <2>2, <2>5 DEF Promise!Created, Promise!Written
<1>18. Promise!Append(w, o)
  <2> DEFINE new == WorkspaceLogs'[w][o]
  <2>1. new \in Promise!Entry  BY <1>11 DEF Promise!Entry, Entry
  <2>2. new.creates = e.creates /\ new.updates = e.updates  BY <1>11
  <2> QED  BY <1>10, <1>13, <1>14, <1>16, <1>17, <2>1, <2>2 DEF Promise!Append
<1> QED  BY <1>18

\* The response acknowledges the entry of the event.
LEMMA ReplyAcknowledges ==
    ASSUME SafeInv, NEW n \in Nodes, Reply(n)
    PROVE  \/ UNCHANGED <<WorkspaceLogs, AckedOffsets>>
           \/ \E w \in WSIDs, o \in Offsets : Promise!Acknowledge(w, o)
<1>0. TypeInv /\ TypeOK /\ LogInv /\ NodeInv(n)  BY DEF SafeInv, TypeInv
<1>1. /\ pc[n] = "reply" /\ plog' = plog
      /\ acked' = IF cmd[n].failed THEN acked
                  ELSE [acked EXCEPT ![Part(n)] = @ \cup
                          {[poff |-> cmd[n].poff, ev |-> cmd[n].ev]}]
  BY DEF Reply, storage
<1>2. WorkspaceLogs' = WorkspaceLogs
  <2>1. \A w \in WSIDs, o \in Offsets : WorkspaceEntry(w, o)' = WorkspaceEntry(w, o)
    BY <1>1, EntryStays DEF RowOf, Stored
  <2> QED  BY <2>1 DEF WorkspaceLogs
<1>3. CASE cmd[n].failed
  BY <1>1, <1>3, LogsUntouched
<1>4. CASE ~cmd[n].failed
  <2>1. PICK p \in Partitions, k \in Offsets, e \in Event, w \in WSIDs, o \in Offsets :
            /\ p = Part(n) /\ k = cmd[n].poff /\ e = cmd[n].ev
            /\ w = e.ws /\ o = e.woff /\ PartitionOf[w] = p /\ plog[p][k] = e
    <3>1. HasEvent(n)  BY <1>0, <1>1, <1>4 DEF TypeInv, WorkpieceInv
    <3>2. plog[Part(n)][cmd[n].poff] = cmd[n].ev
      BY <1>0, <1>1, <1>4 DEF NodeInv, RowInv, HasRow
    <3>3. Part(n) \in Partitions  BY <1>0, CmdType
    <3> QED  BY <3>1, <3>2, <3>3 DEF HasEvent, Event
  <2>2. RowOf(w, o, k)  BY <2>1, ConstantsAssumption DEF RowOf, Stored
  <2>3. WorkspaceLogs[w][o] # NoEvent
    BY <1>0, <2>2, EntryExists DEF WorkspaceLogs
  <2>4. \A q \in Partitions : acked'[q] = IF q = p THEN acked[q] \cup {[poff |-> k, ev |-> e]}
                                                   ELSE acked[q]
    BY <1>0, <1>1, <1>4, <2>1 DEF TypeOK
  <2>5. \A x \in WSIDs : AckedOffsets'[x] = IF x = w THEN AckedOffsets[x] \cup {o}
                                                     ELSE AckedOffsets[x]
    <3> TAKE x \in WSIDs
    <3> DEFINE Mine(S) == {b \in S : b.ev.ws = x}
               Offs(S) == {a.ev.woff : a \in Mine(S)}
    <3>1. /\ AckedOffsets[x] = Offs(acked[PartitionOf[x]])
          /\ AckedOffsets'[x] = Offs(acked'[PartitionOf[x]])
          /\ PartitionOf[x] \in Partitions
      BY ConstantsAssumption DEF AckedOffsets
    <3>2. CASE PartitionOf[x] # p  BY <2>1, <2>4, <3>1, <3>2
    <3>3. CASE PartitionOf[x] = p
      <4>1. acked'[p] = acked[p] \cup {[poff |-> k, ev |-> e]}  BY <2>4
      <4>2. CASE x = w
        <5>1. [poff |-> k, ev |-> e].ev.ws = x /\ [poff |-> k, ev |-> e].ev.woff = o
          BY <2>1, <4>2
        <5>2. Mine(acked'[p]) = Mine(acked[p]) \cup {[poff |-> k, ev |-> e]}
          BY <4>1, <5>1
        <5> DEFINE S == Mine(acked[p])
                   ack == [poff |-> k, ev |-> e]
        <5> HIDE DEF S, ack
        <5>3. {a.ev.woff : a \in S \cup {ack}} = {a.ev.woff : a \in S} \cup {ack.ev.woff}
          OBVIOUS
        <5>4. Offs(acked'[p]) = Offs(acked[p]) \cup {o}  BY <5>1, <5>2, <5>3 DEF S, ack
        <5> QED  BY <3>1, <3>3, <4>2, <5>4
      <4>3. CASE x # w
        <5>1. Mine(acked'[p]) = Mine(acked[p])  BY <2>1, <4>1, <4>3
        <5> QED  BY <3>1, <3>3, <4>3, <5>1
      <4> QED  BY <4>2, <4>3
    <3> QED  BY <3>2, <3>3
  <2>6. AckedOffsets' = [AckedOffsets EXCEPT ![w] = @ \cup {o}]
    <3>1. /\ AckedOffsets' = [x \in WSIDs |-> AckedOffsets'[x]]
          /\ AckedOffsets = [x \in WSIDs |-> AckedOffsets[x]]
      BY DEF AckedOffsets
    <3> DEFINE old == AckedOffsets
               new == AckedOffsets'
    <3>2. /\ new = [x \in WSIDs |-> new[x]] /\ old = [x \in WSIDs |-> old[x]]
          /\ \A x \in WSIDs : new[x] = IF x = w THEN old[x] \cup {o} ELSE old[x]
      BY <2>5, <3>1
    <3> HIDE DEF old, new
    <3>3. new = [old EXCEPT ![w] = @ \cup {o}]  BY <3>2
    <3> QED  BY <3>3 DEF old, new
  <2>7. Promise!Acknowledge(w, o)
    BY <1>2, <2>3, <2>6 DEF Promise!Acknowledge
  <2> QED  BY <2>7
<1> QED  BY <1>3, <1>4

-----------------------------------------------------------------------------
LogStep == \E w \in WSIDs, o \in Offsets : Promise!Append(w, o) \/ Promise!Acknowledge(w, o)

\* A step that appends to no PLog, acknowledges nothing, writes no record and
\* builds no event.
Silent(n) == UNCHANGED <<plog, acked, records>> /\ pc'[n] # "putPLog"

LEMMA SilentSteps ==
    ASSUME TypeOK, NEW n \in Nodes,
           \/ \E w \in WSIDs, b \in BOOLEAN : Accept(n, w, b)
           \/ Recovery(n) \/ ExecFails(n) \/ SyncProjectors(n) \/ PutWLog(n)
           \/ PutWLogFails(n) \/ StoreDone(n) \/ NotifyAsyncActualizers(n) \/ Crash(n)
    PROVE  Silent(n)
<1>1. CASE \E w \in WSIDs, b \in BOOLEAN : Accept(n, w, b)
  BY <1>1 DEF Accept, storage, Silent, TypeOK
<1>2. CASE Recovery(n)
  BY <1>2 DEF Recovery, RecoverEvent, RecoverReadFails, RecoverEnd, Recovered, Fail,
              GoReply, storage, Silent, TypeOK
<1>3. CASE ExecFails(n)
  BY <1>3 DEF ExecFails, Fail, GoReply, storage, Silent, TypeOK
<1>4. CASE SyncProjectors(n) \/ PutWLog(n) \/ PutWLogFails(n)
  BY <1>4 DEF SyncProjectors, PutWLog, PutWLogFails, Silent
<1>5. CASE StoreDone(n)
  BY <1>5 DEF StoreDone, Recovered, Fail, GoReply, storage, Silent, TypeOK
<1>6. CASE NotifyAsyncActualizers(n)
  BY <1>6 DEF NotifyAsyncActualizers, GoReply, storage, Silent, TypeOK
<1>7. CASE Crash(n)
  BY <1>7 DEF Crash, storage, Silent, TypeOK
<1> QED  BY <1>1, <1>2, <1>3, <1>4, <1>5, <1>6, <1>7

LEMMA StepImplements ==
    ASSUME SafeStorage, SafeInv, SafeInv', UpdatesInv, NEW n \in Nodes, NodeStep(n)
    PROVE  UpdatesInv' /\ (LogStep \/ UNCHANGED <<WorkspaceLogs, AckedOffsets>>)
<1>0. TypeInv /\ TypeOK /\ OthersUnchanged(n) /\ StorageGrows
  BY NodeStepKeeps DEF SafeInv, TypeInv
<1>1. CASE Silent(n)
  <2>1. UpdatesInv'  BY <1>0, <1>1, UpdatesStay DEF Silent
  <2> QED  BY <1>1, <2>1, LogsUntouched DEF Silent
<1>2. CASE \E nnew \in 0..MaxNew, upd \in UpdateSets : Exec(n, nnew, upd)
  <2>1. UpdatesInv'  BY <1>0, <1>2, ExecUpdates DEF UpdateSets
  <2>2. UNCHANGED <<plog, acked>>  BY <1>2 DEF Exec, storage
  <2> QED  BY <2>1, <2>2, LogsUntouched
<1>3. CASE PutPLog(n) \/ PutPLogFails(n)
  <2>1. UpdatesInv'  BY <1>0, <1>3, PutPLogUpdates
  <2>2. /\ pc[n] = "putPLog" /\ acked' = acked
        /\ \/ UNCHANGED plog
           \/ /\ PLogWritable(Part(n), cmd[n].poff)
              /\ plog' = [plog EXCEPT ![Part(n)][cmd[n].poff] = cmd[n].ev]
    BY <1>3 DEF PutPLog, PutPLogFails
  <2>3. CASE UNCHANGED plog  BY <2>1, <2>2, <2>3, LogsUntouched
  <2>4. CASE /\ PLogWritable(Part(n), cmd[n].poff)
             /\ plog' = [plog EXCEPT ![Part(n)][cmd[n].poff] = cmd[n].ev]
    BY <2>1, <2>2, <2>4, PutPLogAppends DEF LogStep
  <2> QED  BY <2>2, <2>3, <2>4
<1>4. CASE ApplyRecords(n) \/ \E ids \in SUBSET RecordIDs : ApplyRecordsFails(n, ids)
  <2>1. UNCHANGED <<plog, acked>> /\ pc[n] = "applyRecords" /\ pc'[n] # "putPLog"
    BY <1>0, <1>4 DEF ApplyRecords, ApplyRecordsFails, FailAndRestart, GoReply, TypeOK
  <2>2. \E ids \in SUBSET RecordIDs :
            ids \subseteq Touched(cmd[n].ev) /\ WriteRecords(n, ids)
    <3>1. HasEvent(n)  BY <1>0, <2>1 DEF TypeInv, WorkpieceInv
    <3>2. Touched(cmd[n].ev) \in SUBSET RecordIDs
      BY <3>1 DEF HasEvent, Event, Touched
    <3> QED  BY <1>4, <3>2 DEF ApplyRecords, ApplyRecordsFails
  <2>3. UpdatesInv'  BY <1>0, <2>1, <2>2, ApplyRecordsUpdates
  <2> QED  BY <2>1, <2>3, LogsUntouched
<1>5. CASE Reply(n)
  <2>1. UNCHANGED <<plog, records>> /\ pc'[n] # "putPLog"
    BY <1>0, <1>5 DEF Reply, storage, TypeOK
  <2>2. UpdatesInv'  BY <1>0, <2>1, UpdatesStay
  <2> QED  BY <1>5, <2>2, ReplyAcknowledges DEF LogStep
<1> QED  BY <1>0, <1>1, <1>2, <1>3, <1>4, <1>5, SilentSteps
            DEF NodeStep, Step, Execution, Store

LEMMA NextImplements ==
    ASSUME SafeStorage, SafeInv, SafeInv', UpdatesInv, [Next]_vars
    PROVE  UpdatesInv' /\ [Promise!Next]_<<WorkspaceLogs, AckedOffsets>>
<1>1. LogStep => Promise!Next  BY DEF LogStep, Promise!Next
<1>2. CASE Next
  <2>1. PICK n \in Nodes : NodeStep(n)  BY <1>2 DEF Next, NodeStep
  <2> QED  BY <1>1, <2>1, StepImplements
<1>3. CASE UNCHANGED vars
  <2>1. UNCHANGED <<plog, acked, records, pc, cmd>>  BY <1>3 DEF vars, storage
  <2>2. UpdatesInv'
    BY <2>1 DEF UpdatesInv, HasCreators, HasCreator, Stored
  <2> QED  BY <2>1, <2>2, LogsUntouched
<1> QED  BY <1>2, <1>3

\* The processes, whatever writes fail and whenever they crash, behave towards
\* clients like one log per workspace: putPLog appends an event with new
\* record IDs that updates created records only, sendResponse acknowledges it.
THEOREM ProcessorsImplementWorkspaceLog ==
    ASSUME SafeStorage
    PROVE  Spec => ImplementsWorkspaceLog
<1> DEFINE Inv == SafeInv /\ UpdatesInv
<1>1. Init => Inv /\ Promise!Init  BY SafeInvInit, UpdatesInit, LogsInit
<1>2. Inv /\ [Next]_vars => Inv' /\ [Promise!Next]_<<WorkspaceLogs, AckedOffsets>>
  BY SafeInvNext, NextImplements
<1> HIDE DEF Inv
<1>3. Spec => Promise!Init /\ [][Promise!Next]_<<WorkspaceLogs, AckedOffsets>>
  BY <1>1, <1>2, PTL DEF Spec
<1> QED  BY <1>3 DEF ImplementsWorkspaceLog, Promise!Spec

-----------------------------------------------------------------------------
(***************************************************************************)
(* A process that works alone: what is stored is applied, save for the     *)
(* last event of a PLog, and what is applied stays so.                     *)
(***************************************************************************)
\* The last event of a PLog may not be applied yet, or not completely: it is
\* being stored, or the recovery of the partition is going to apply it again.
MayLag(n, p) ==
    \/ ~Current(n, p)
    \/ Doomed(n)
    \/ p = Part(n) /\ pc[n] \in {"applyRecords", "store"}

LagInv(n) ==
    \A p \in Partitions, k \in Offsets : Stored(p, k) /\ ~MayLag(n, p) => Applied(p, k)

\* The event that is being stored is the last one.
LastInv(n) ==
    pc[n] \in {"applyRecords", "store"} => IsLast(Part(n), cmd[n].poff)

\* What parseCUDs has read is not stale when the records are written.
OriginInv(n) ==
    pc[n] \in {"putPLog", "applyRecords"} /\ ~cmd[n].reapply =>
        \A id \in cmd[n].ev.updates : cmd[n].origin[id] = records[cmd[n].ev.ws][id]

\* The store stage begins when the records are written.
WrittenInv(n) ==
    pc[n] = "store" =>
        \A id \in Touched(cmd[n].ev) : cmd[n].poff \in records[cmd[n].ev.ws][id]

\* A record is updated by events that follow the one that creates it.
CreatedFirst ==
    \A p \in Partitions : \A j, k \in Offsets :
        SameWS(p, j, k) =>
            \A id \in plog[p][k].creates \cap plog[p][j].updates : k <= j

\* A record is made of events that touch it.
RecordsAreEvents ==
    \A w \in WSIDs, id \in RecordIDs : \A k \in records[w][id] :
        /\ Stored(PartitionOf[w], k) /\ plog[PartitionOf[w]][k].ws = w
        /\ id \in Touched(plog[PartitionOf[w]][k])

SoleNode(n) == LagInv(n) /\ LastInv(n) /\ OriginInv(n) /\ WrittenInv(n)

SoleStorage ==
    /\ CreatedFirst /\ EarlierEventsAreApplied /\ RecordsAreEvents /\ AnnouncedIsApplied

SoleInv == SafeInv /\ UpdatesInv /\ SoleStorage /\ \A n \in Nodes : SoleNode(n)

\* No event disappears from a record.
RecordsGrow ==
    \A w \in WSIDs, id \in RecordIDs : records[w][id] \subseteq records'[w][id]

LEMMA AppliedStays ==
    ASSUME TypeInv, StorageGrows, RecordsGrow, NEW p \in Partitions, NEW k \in Offsets,
           Stored(p, k), Applied(p, k)
    PROVE  Applied(p, k)' /\ Stored(p, k)'
<1> DEFINE e == plog[p][k]
<1>1. /\ e \in Event /\ e.ws \in WSIDs /\ e.woff \in Offsets /\ plog'[p][k] = e
  BY RowType DEF StorageGrows
<1>2. Touched(e) \in SUBSET RecordIDs  BY <1>1 DEF Touched, Event
<1>3. /\ k \in synced[p] /\ wlog[e.ws][e.woff] = k
      /\ \A id \in Touched(e) : k \in records[e.ws][id]
  BY DEF Applied
<1>4. k # 0  BY DEF Offsets
<1> HIDE DEF e
<1>5. /\ k \in synced'[p] /\ wlog'[e.ws][e.woff] = k
      /\ \A id \in Touched(e) : k \in records'[e.ws][id]
  BY <1>1, <1>2, <1>3, <1>4 DEF StorageGrows, RecordsGrow
<1>6. plog'[p][k] = plog[p][k]  BY <1>1 DEF e
<1> QED  BY <1>1, <1>5, <1>6 DEF Applied, Stored, e

\* The PLog stays, what is applied stays applied.
LEMMA StorageStays ==
    ASSUME SoleInv, StorageGrows, RecordsGrow, UNCHANGED <<plog, announced>>,
           RecordsAreEvents'
    PROVE  SoleStorage'
<1>0. TypeInv /\ TypeOK  BY DEF SoleInv, SafeInv, TypeInv
<1>1. CreatedFirst'  BY DEF SoleInv, SoleStorage, CreatedFirst, SameWS, Stored
<1>2. \A p \in Partitions, k \in Offsets : Stored(p, k) /\ Applied(p, k) => Applied(p, k)'
  BY <1>0, AppliedStays
<1>3. EarlierEventsAreApplied'
  <2> SUFFICES ASSUME NEW p \in Partitions, NEW k \in Offsets, Stored(p, k)', ~IsLast(p, k)'
               PROVE  Applied(p, k)'
    BY DEF EarlierEventsAreApplied
  <2>1. Stored(p, k) /\ ~IsLast(p, k)  BY DEF Stored, IsLast
  <2> QED  BY <1>2, <2>1 DEF SoleInv, SoleStorage, EarlierEventsAreApplied
<1>4. AnnouncedIsApplied'
  <2> SUFFICES ASSUME NEW p \in Partitions, NEW k \in announced[p]
               PROVE  Stored(p, k)' /\ Applied(p, k)'
    BY DEF AnnouncedIsApplied
  <2>1. k \in Offsets  BY <1>0 DEF TypeOK
  <2>2. Stored(p, k) /\ Applied(p, k)  BY DEF SoleInv, SoleStorage, AnnouncedIsApplied
  <2> QED  BY <1>0, <2>1, <2>2, AppliedStays
<1> QED  BY <1>1, <1>3, <1>4 DEF SoleStorage

LEMMA RecordsStay ==
    ASSUME SoleInv, UNCHANGED <<plog, records>>
    PROVE  RecordsGrow /\ RecordsAreEvents'
BY DEF SoleInv, SoleStorage, RecordsGrow, RecordsAreEvents, Stored

LEMMA LagStays ==
    ASSUME SoleInv, NEW n \in Nodes, StorageGrows, RecordsGrow, UNCHANGED plog,
           \A p \in Partitions : MayLag(n, p) => MayLag(n, p)'
    PROVE  LagInv(n)'
<1> SUFFICES ASSUME NEW p \in Partitions, NEW k \in Offsets, Stored(p, k)', ~MayLag(n, p)'
             PROVE  Applied(p, k)'
  BY DEF LagInv
<1>1. Stored(p, k) /\ ~MayLag(n, p)  BY DEF Stored
<1>2. Applied(p, k)  BY <1>1 DEF SoleInv, SoleNode, LagInv
<1> QED  BY <1>1, <1>2, AppliedStays DEF SoleInv, SafeInv

-----------------------------------------------------------------------------
(* The records of the last event. *)

\* No event before the last one touches a record that the last one creates.
LEMMA CreatedIsUntouched ==
    ASSUME SoleInv, NEW p \in Partitions, NEW l \in Offsets, IsLast(p, l),
           NEW k \in Offsets, SameWS(p, k, l), NEW id \in plog[p][l].creates,
           id \in Touched(plog[p][k])
    PROVE  k = l
<1>1. k <= l /\ Stored(p, k)  BY DEF IsLast, SameWS, Offsets
<1>2. CASE id \in plog[p][k].creates
  BY <1>2 DEF SoleInv, SafeInv, LogInv, RecordIDsAreUnique
<1>3. CASE id \in plog[p][k].updates
  <2>1. l <= k  BY <1>3 DEF SoleInv, SoleStorage, CreatedFirst
  <2> QED  BY <1>1, <2>1 DEF Offsets
<1> QED  BY <1>2, <1>3 DEF Touched

LEMMA WritingRecords ==
    ASSUME SoleInv, NEW n \in Nodes, pc[n] = "applyRecords", NEW ids \in SUBSET RecordIDs,
           ids \subseteq Touched(cmd[n].ev), WriteRecords(n, ids), UNCHANGED plog
    PROVE  /\ RecordsGrow /\ RecordsAreEvents'
           /\ \A id \in ids : cmd[n].poff \in records'[cmd[n].ev.ws][id]
<1> DEFINE p == Part(n)
           e == cmd[n].ev
           l == cmd[n].poff
<1>0. /\ TypeInv /\ TypeOK /\ HasEvent(n) /\ RowInv(n) /\ SoleNode(n)
  BY DEF SoleInv, SafeInv, TypeInv, WorkpieceInv, NodeInv
<1>1. /\ e \in Event /\ e.ws \in WSIDs /\ l \in Offsets /\ p \in Partitions
      /\ PartitionOf[e.ws] = p /\ plog[p][l] = e /\ IsLast(p, l)
  BY <1>0, CmdType DEF HasEvent, Event, RowInv, HasRow, SoleNode, LastInv
<1>2. Stored(p, l)  BY <1>1 DEF IsLast
<1>3. \A w \in WSIDs, id \in RecordIDs :
          records'[w][id] = IF w = e.ws /\ id \in ids THEN RecordValue(n, id)
                                                      ELSE records[w][id]
  BY <1>0, <1>1 DEF WriteRecords, TypeOK
<1>4. ASSUME NEW id \in ids
      PROVE  /\ records[e.ws][id] \subseteq RecordValue(n, id)
             /\ l \in RecordValue(n, id)
             /\ RecordValue(n, id) \subseteq records[e.ws][id] \cup {l}
  <2>1. l \in RecordValue(n, id)  BY DEF RecordValue
  <2>2. CASE id \in e.creates
    <3>1. RecordValue(n, id) = {l}  BY <2>2 DEF RecordValue
    <3>2. ASSUME NEW k \in records[e.ws][id]  PROVE k = l
      <4>1. /\ k \in Offsets /\ Stored(p, k) /\ plog[p][k].ws = e.ws
            /\ id \in Touched(plog[p][k])
        BY <1>0, <1>1 DEF SoleInv, SoleStorage, RecordsAreEvents, TypeOK
      <4>2. SameWS(p, k, l)  BY <1>1, <1>2, <4>1 DEF SameWS
      <4> QED  BY <1>1, <2>2, <4>1, <4>2, CreatedIsUntouched
    <3> QED  BY <2>1, <3>1, <3>2
  <2>3. CASE id \notin e.creates
    <3>1. id \in e.updates  BY <2>3 DEF Touched
    <3>2. ~cmd[n].reapply => cmd[n].origin[id] = records[e.ws][id]
      BY <1>0, <3>1 DEF SoleNode, OriginInv
    <3>3. RecordValue(n, id) = records[e.ws][id] \cup {l}
      <4>1. CASE cmd[n].reapply  BY <2>3, <4>1 DEF RecordValue
      <4>2. CASE ~cmd[n].reapply  BY <2>3, <3>2, <4>2 DEF RecordValue
      <4> QED  BY <4>1, <4>2
    <3> QED  BY <3>3
  <2> QED  BY <2>2, <2>3
<1> HIDE DEF p, e, l
<1>5. RecordsGrow  BY <1>3, <1>4 DEF RecordsGrow
<1>6. RecordsAreEvents'
  <2> SUFFICES ASSUME NEW w \in WSIDs, NEW id \in RecordIDs, NEW k \in records'[w][id]
               PROVE  /\ Stored(PartitionOf[w], k) /\ plog[PartitionOf[w]][k].ws = w
                      /\ id \in Touched(plog[PartitionOf[w]][k])
    BY DEF RecordsAreEvents, Stored
  <2>1. CASE k \in records[w][id]
    BY <2>1 DEF SoleInv, SoleStorage, RecordsAreEvents
  <2>2. CASE k \notin records[w][id]
    <3>1. w = e.ws /\ id \in ids /\ k = l  BY <1>3, <1>4, <2>2
    <3>2. id \in Touched(e)  BY <3>1 DEF e
    <3> QED  BY <1>1, <1>2, <3>1, <3>2
  <2> QED  BY <2>1, <2>2
<1>7. \A id \in ids : l \in records'[e.ws][id]  BY <1>1, <1>3, <1>4
<1> QED  BY <1>5, <1>6, <1>7 DEF e, l

-----------------------------------------------------------------------------
(* The steps of the process. *)

\* A step that writes neither to the PLog nor to the records.
LEMMA QuietSole ==
    ASSUME SoleInv, NEW n \in Nodes, StorageGrows, UNCHANGED <<plog, records, announced>>,
           \A p \in Partitions : MayLag(n, p) => MayLag(n, p)'
    PROVE  SoleStorage' /\ LagInv(n)'
BY RecordsStay, StorageStays, LagStays

LEMMA AcceptSole ==
    ASSUME SoleInv, NEW n \in Nodes, NEW w \in WSIDs, NEW b \in BOOLEAN, Accept(n, w, b),
           StorageGrows
    PROVE  SoleStorage' /\ SoleNode(n)'
<1>0. TypeOK  BY DEF SoleInv, SafeInv, TypeInv
<1>1. /\ pc[n] = "idle" /\ pc'[n] = IF PartitionOf[w] \in resident[n] THEN "exec" ELSE "readPLog"
      /\ UNCHANGED <<plog, records, announced, resident>>
  BY <1>0 DEF Accept, storage, memory, TypeOK
<1>2. Part(n)' = PartitionOf[w]
  <2>1. NewWorkpiece(w, b) \in Workpiece /\ NewWorkpiece(w, b).ws = w
    BY NewWorkpieceType DEF NewWorkpiece
  <2> QED  BY <1>0, <2>1, SetCmdEffect DEF Accept, Part
<1>3. \A p \in Partitions : MayLag(n, p) => MayLag(n, p)'
  BY <1>1, <1>2 DEF MayLag, Current, Doomed
<1>4. SoleStorage' /\ LagInv(n)'  BY <1>1, <1>3, QuietSole
<1> QED  BY <1>1, <1>4 DEF SoleNode, LastInv, OriginInv, WrittenInv

LEMMA RefusalSole ==
    ASSUME SoleInv, NEW n \in Nodes, RecoverReadFails(n) \/ ExecFails(n), StorageGrows
    PROVE  SoleStorage' /\ SoleNode(n)'
<1>0. TypeOK  BY DEF SoleInv, SafeInv, TypeInv
<1>1. /\ pc[n] \in {"readPLog", "exec"} /\ Fail(n)
      /\ UNCHANGED <<plog, records, announced, resident>>
  BY DEF RecoverReadFails, ExecFails, storage, memory
<1>2. pc'[n] = "reply" /\ Part(n)' = Part(n)  BY <1>0, <1>1, FailFields
<1>3. \A p \in Partitions : MayLag(n, p) => MayLag(n, p)'
  BY <1>1, <1>2 DEF MayLag, Current, Doomed
<1>4. SoleStorage' /\ LagInv(n)'  BY <1>1, <1>3, QuietSole
<1> QED  BY <1>2, <1>4 DEF SoleNode, LastInv, OriginInv, WrittenInv

LEMMA RecoverEventSole ==
    ASSUME SoleInv, NEW n \in Nodes, NEW k \in Offsets, RecoverEvent(n, k), StorageGrows
    PROVE  SoleStorage' /\ SoleNode(n)'
<1> DEFINE c == [cmd[n] EXCEPT !.ev = plog[Part(n)][k], !.poff = k]
<1>0. TypeInv /\ TypeOK  BY DEF SoleInv, SafeInv, TypeInv
<1>1. /\ pc[n] = "readPLog" /\ pc' = pc /\ SetCmd(n, c)
      /\ UNCHANGED <<plog, records, announced, resident>>
  BY DEF RecoverEvent, storage
<1>2. Part(n)' = Part(n)
  <2>1. cmd[n] \in Workpiece /\ cmd[n].ws \in WSIDs  BY <1>0, CmdType
  <2>2. cmd'[n] = c  BY <1>0, <1>1 DEF SetCmd, TypeOK
  <2>3. c.ws = cmd[n].ws  BY <2>1 DEF Workpiece
  <2> QED  BY <2>2, <2>3 DEF Part
<1>3. \A p \in Partitions : MayLag(n, p) => MayLag(n, p)'
  BY <1>1, <1>2 DEF MayLag, Current, Doomed
<1>4. SoleStorage' /\ LagInv(n)'  BY <1>1, <1>3, QuietSole
<1> QED  BY <1>1, <1>4 DEF SoleNode, LastInv, OriginInv, WrittenInv

LEMMA RecoverEndSole ==
    ASSUME SoleInv, NEW n \in Nodes, RecoverEnd(n), StorageGrows
    PROVE  SoleStorage' /\ SoleNode(n)'
<1> DEFINE p == Part(n)
           c == [cmd[n] EXCEPT !.reapply = TRUE]
<1>0. TypeInv /\ TypeOK /\ NodeInv(n) /\ WorkpieceInv(n)  BY DEF SoleInv, SafeInv, TypeInv
<1>1. /\ pc[n] = "readPLog" /\ UNCHANGED <<plog, records, announced>>
      /\ \A j \in Offsets : j >= nextPLogOffset[n][p] => ~Stored(p, j)
  BY DEF RecoverEnd, storage, Stored
<1>2. p \in Partitions /\ cmd[n] \in Workpiece  BY <1>0, CmdType
<1>3. CASE cmd[n].ev = NoEvent /\ Recovered(n) /\ UNCHANGED cmd
  <2>1. pc'[n] = "exec" /\ resident'[n] = resident[n] \cup {p} /\ Part(n)' = p
    BY <1>0, <1>3 DEF Recovered, TypeOK, Part
  <2>2. \A q \in Partitions : q # p /\ MayLag(n, q) => MayLag(n, q)'
    BY <1>1, <2>1 DEF MayLag, Current, Doomed
  <2>3. \A j \in Offsets : ~Stored(p, j)
    BY <1>0, <1>1, <1>3 DEF NodeInv, FreshInv, Offsets
  <2>4. SoleStorage'  BY <1>1, RecordsStay, StorageStays
  <2>5. LagInv(n)'
    <3> SUFFICES ASSUME NEW q \in Partitions, NEW k \in Offsets,
                        Stored(q, k)', ~MayLag(n, q)'
                 PROVE  Applied(q, k)'
      BY DEF LagInv
    <3>1. Stored(q, k)  BY <1>1 DEF Stored
    <3>2. q # p  BY <2>3, <3>1
    <3>3. Applied(q, k)  BY <2>2, <3>1, <3>2 DEF SoleInv, SoleNode, LagInv
    <3> QED  BY <1>0, <1>1, <3>1, <3>3, RecordsStay, AppliedStays
  <2> QED  BY <2>1, <2>4, <2>5 DEF SoleNode, LastInv, OriginInv, WrittenInv
<1>4. CASE /\ cmd[n].ev # NoEvent /\ SetCmd(n, c)
           /\ pc' = [pc EXCEPT ![n] = "applyRecords"] /\ UNCHANGED resident
  <2>1. /\ c \in Workpiece /\ c.ev = cmd[n].ev /\ c.poff = cmd[n].poff
        /\ c.ws = cmd[n].ws /\ c.reapply
    BY <1>2, FlagsType DEF Workpiece
  <2>2. SetCmd(n, c)  BY <1>4
  <2> HIDE DEF c
  <2>3. cmd'[n] = c /\ Part(n)' = p  BY <1>0, <2>1, <2>2, SetCmdEffect DEF Part
  <2>4. pc'[n] = "applyRecords" /\ resident' = resident  BY <1>0, <1>4 DEF TypeOK
  <2>5. \A q \in Partitions : MayLag(n, q) => MayLag(n, q)'
    BY <1>1, <2>3, <2>4 DEF MayLag, Current, Doomed
  <2>6. SoleStorage' /\ LagInv(n)'  BY <1>1, <2>5, QuietSole
  <2>7. IsLast(p, cmd[n].poff)
    <3>1. /\ plog[p][cmd[n].poff] = cmd[n].ev /\ cmd[n].poff \in Offsets
          /\ nextPLogOffset[n][p] = cmd[n].poff + 1
      BY <1>0, <1>1, <1>4 DEF NodeInv, RowInv, HasRow, WorkpieceInv, HasEvent
    <3> QED  BY <1>1, <1>4, <3>1 DEF IsLast, Stored, Offsets
  <2>8. LastInv(n)'  BY <1>1, <2>1, <2>3, <2>7 DEF LastInv, IsLast, Stored
  <2> QED  BY <2>1, <2>3, <2>4, <2>6, <2>8 DEF SoleNode, OriginInv, WrittenInv
<1> QED  BY <1>3, <1>4 DEF RecoverEnd

LEMMA ExecSole ==
    ASSUME SoleInv, NEW n \in Nodes, NEW nnew \in 0..MaxNew, NEW upd \in SUBSET RecordIDs,
           Exec(n, nnew, upd), StorageGrows
    PROVE  SoleStorage' /\ SoleNode(n)'
<1> DEFINE e == RawEvent(n, nnew, upd)
           org == Origin(n, upd)
           c == [cmd[n] EXCEPT !.nnew = nnew, !.ev = e,
                               !.poff = nextPLogOffset[n][Part(n)], !.origin = org]
<1>0. TypeInv /\ TypeOK  BY DEF SoleInv, SafeInv, TypeInv
<1>1. /\ pc[n] = "exec" /\ cmd' = [cmd EXCEPT ![n] = c]
      /\ pc' = [pc EXCEPT ![n] = "putPLog"]
      /\ UNCHANGED <<plog, records, announced, resident>>
  BY DEF Exec, SetCmd, storage, memory
<1>2. cmd[n] \in Workpiece  BY <1>0, CmdType
<1>3. /\ e.ws = cmd[n].ws /\ e.updates = upd
      /\ \A id \in upd : org[id] = records[cmd[n].ws][id]
  BY DEF RawEvent, Origin
<1> HIDE DEF e, org
<1>4. c.ev = e /\ c.ws = cmd[n].ws /\ c.origin = org  BY <1>2 DEF Workpiece
<1> HIDE DEF c
<1>5. cmd'[n] = c /\ pc'[n] = "putPLog" /\ Part(n)' = Part(n)
  BY <1>0, <1>1, <1>4 DEF TypeOK, Part
<1>6. \A p \in Partitions : MayLag(n, p) => MayLag(n, p)'
  BY <1>1, <1>5 DEF MayLag, Current, Doomed
<1>7. SoleStorage' /\ LagInv(n)'  BY <1>1, <1>6, QuietSole
<1>8. OriginInv(n)'  BY <1>1, <1>3, <1>4, <1>5 DEF OriginInv
<1> QED  BY <1>5, <1>7, <1>8 DEF SoleNode, LastInv, WrittenInv

\* What a new row at the end of a PLog means to the other ones.
LEMMA AppendSole ==
    ASSUME OneWriter, SoleInv, LogInv', NEW n \in Nodes, pc[n] = "putPLog", StorageGrows,
           NEW CONSTANT p0, NEW CONSTANT l, NEW CONSTANT e,
           p0 = Part(n), l = cmd[n].poff, e = cmd[n].ev, PLogWritable(p0, l),
           plog' = [plog EXCEPT ![p0][l] = e], UNCHANGED <<records, announced>>
    PROVE  SoleStorage' /\ p0 \in Partitions /\ IsLast(p0, l)'
<1>0. TypeInv /\ TypeOK /\ SafeInv /\ SafeStorage /\ WorkpieceInv(n)
  BY DEF SoleInv, SafeInv, TypeInv, SafeStorage
<1>1. /\ p0 \in Partitions /\ l \in Offsets /\ e \in Event
      /\ \A j \in Offsets : Stored(p0, j) <=> j < l
  BY <1>0, RowIsNext
<1>2. e # NoEvent /\ e.ws \in WSIDs /\ PartitionOf[e.ws] = p0
  BY <1>0, <1>1, ConstantsAssumption DEF WorkpieceInv, HasEvent, Event
<1>3. ~MayLag(n, p0)  BY DEF MayLag, Current, Doomed
<1>4. \A p \in Partitions, k \in Offsets :
          plog'[p][k] = IF p = p0 /\ k = l THEN e ELSE plog[p][k]
  BY <1>0, <1>1 DEF TypeOK
<1>5. \A p \in Partitions, k \in Offsets :
          Stored(p, k)' <=> Stored(p, k) \/ (p = p0 /\ k = l)
  BY <1>1, <1>2, <1>4 DEF Stored
<1>6. IsLast(p0, l)'
  <2>1. \A j \in Offsets : j > l => ~(j < l) /\ j # l  BY <1>1 DEF Offsets
  <2>2. Stored(p0, l)' /\ \A j \in Offsets : j > l => ~Stored(p0, j)'
    BY <1>1, <1>5, <2>1
  <2> QED  BY <2>2 DEF IsLast, Stored
<1>7. RecordsGrow  BY DEF RecordsGrow
<1>8. ASSUME NEW p \in Partitions, NEW k \in Offsets, Stored(p, k)', ~(p = p0 /\ k = l)
      PROVE  Stored(p, k) /\ (~MayLag(n, p) => Applied(p, k)')
  <2>1. Stored(p, k)  BY <1>5, <1>8
  <2>2. ~MayLag(n, p) => Applied(p, k)  BY <2>1 DEF SoleInv, SoleNode, LagInv
  <2> QED  BY <1>0, <1>7, <2>1, <2>2, AppliedStays
<1>9. EarlierEventsAreApplied'
  <2> SUFFICES ASSUME NEW p \in Partitions, NEW k \in Offsets, Stored(p, k)', ~IsLast(p, k)'
               PROVE  Applied(p, k)'
    BY DEF EarlierEventsAreApplied
  <2>1. ~(p = p0 /\ k = l)
    <3>1. ASSUME p = p0, k = l  PROVE FALSE
      <4>1. IsLast(p, k)' <=> IsLast(p0, l)'  BY <3>1 DEF IsLast, Stored
      <4> QED  BY <1>6, <4>1
    <3> QED  BY <3>1
  <2>2. Stored(p, k)  BY <1>8, <2>1
  <2>3. CASE p = p0
    BY <1>3, <1>8, <2>1, <2>3
  <2>4. CASE p # p0
    <3>1. ~IsLast(p, k)  BY <1>5, <2>4, <2>2 DEF IsLast
    <3>2. Applied(p, k)
      BY <2>2, <3>1 DEF SoleInv, SoleStorage, EarlierEventsAreApplied
    <3> QED  BY <1>0, <1>7, <2>2, <3>2, AppliedStays
  <2> QED  BY <2>3, <2>4
<1>10. RecordsAreEvents'
  <2> SUFFICES ASSUME NEW w \in WSIDs, NEW id \in RecordIDs, NEW k \in records[w][id]
               PROVE  /\ Stored(PartitionOf[w], k)' /\ plog'[PartitionOf[w]][k].ws = w
                      /\ id \in Touched(plog'[PartitionOf[w]][k])
    BY DEF RecordsAreEvents, Touched
  <2>0. PartitionOf[w] \in Partitions /\ k \in Offsets
    BY <1>0, ConstantsAssumption DEF TypeOK
  <2>1. /\ Stored(PartitionOf[w], k) /\ plog[PartitionOf[w]][k].ws = w
        /\ id \in Touched(plog[PartitionOf[w]][k])
    BY <2>0 DEF SoleInv, SoleStorage, RecordsAreEvents
  <2>2. plog'[PartitionOf[w]][k] = plog[PartitionOf[w]][k]
    BY <2>0, <2>1 DEF StorageGrows
  <2> QED  BY <2>1, <2>2 DEF Stored
<1>11. AnnouncedIsApplied'
  <2> SUFFICES ASSUME NEW p \in Partitions, NEW k \in announced[p]
               PROVE  Stored(p, k)' /\ Applied(p, k)'
    BY DEF AnnouncedIsApplied
  <2>1. k \in Offsets  BY <1>0 DEF TypeOK
  <2>2. Stored(p, k) /\ Applied(p, k)  BY DEF SoleInv, SoleStorage, AnnouncedIsApplied
  <2> QED  BY <1>0, <1>7, <2>1, <2>2, AppliedStays
<1>12. CreatedFirst'
  <2> SUFFICES ASSUME NEW p \in Partitions, NEW j \in Offsets, NEW k \in Offsets,
                      SameWS(p, j, k)', NEW id \in plog'[p][k].creates, id \in plog'[p][j].updates
               PROVE  k <= j
    BY DEF CreatedFirst
  <2>1. CASE p = p0 /\ j = l
    <3>1. k <= l  BY <1>1, <1>5, <2>1 DEF SameWS, Offsets
    <3> QED  BY <2>1, <3>1
  <2>2. CASE p = p0 /\ k = l /\ j # l
    <3>1. /\ Stored(p0, j) /\ plog'[p0][j] = plog[p0][j] /\ plog'[p0][l] = e
          /\ plog[p0][j].ws = e.ws
      BY <1>1, <1>4, <1>5, <2>2 DEF SameWS
    <3>2. HasCreator(e.ws, id)
      BY <1>1, <2>2, <3>1 DEF SoleInv, UpdatesInv, HasCreators
    <3>3. PICK i \in Offsets : /\ Stored(p0, i) /\ plog[p0][i].ws = e.ws
                               /\ id \in plog[p0][i].creates
      BY <1>2, <3>2 DEF HasCreator
    <3>4. i # l
      <4>1. i < l  BY <1>1, <3>3
      <4>2. i \in Int /\ l \in Int  BY <1>1 DEF Offsets
      <4> QED  BY <4>1, <4>2
    <3>5. plog'[p0][i] = plog[p0][i]  BY <1>1, <1>4, <3>4
    <3>6. /\ plog'[p0][i] # NoEvent /\ plog'[p0][l] # NoEvent
          /\ plog'[p0][i].ws = plog'[p0][l].ws
      BY <1>2, <3>1, <3>3, <3>5 DEF Stored
    <3>7. plog'[p0][i].creates \cap plog'[p0][l].creates = {}
      BY <1>1, <3>4, <3>6 DEF LogInv, RecordIDsAreUnique, SameWS, Stored
    <3> QED  BY <2>2, <3>3, <3>5, <3>7
  <2>3. CASE ~(p = p0 /\ (j = l \/ k = l))
    <3>1. plog'[p][j] = plog[p][j] /\ plog'[p][k] = plog[p][k]  BY <1>4, <2>3
    <3>2. SameWS(p, j, k)  BY <1>5, <2>3, <3>1 DEF SameWS
    <3> QED  BY <3>1, <3>2 DEF SoleInv, SoleStorage, CreatedFirst
  <2> QED  BY <2>1, <2>2, <2>3
<1> QED  BY <1>1, <1>6, <1>8, <1>9, <1>10, <1>11, <1>12 DEF SoleStorage

LEMMA PutPLogSole ==
    ASSUME OneWriter, SoleInv, LogInv', NEW n \in Nodes, PutPLog(n), StorageGrows
    PROVE  SoleStorage' /\ SoleNode(n)'
<1>0. TypeInv /\ TypeOK /\ WorkpieceInv(n)  BY DEF SoleInv, SafeInv, TypeInv
<1>a. PICK p0, l, e : p0 = Part(n) /\ l = cmd[n].poff /\ e = cmd[n].ev  OBVIOUS
<1>1. /\ pc[n] = "putPLog" /\ pc'[n] = "applyRecords" /\ PLogWritable(p0, l)
      /\ plog' = [plog EXCEPT ![p0][l] = e]
      /\ UNCHANGED <<records, announced, resident, cmd>>
  BY <1>0, <1>a DEF PutPLog, TypeOK
<1>2. Part(n)' = p0 /\ cmd'[n] = cmd[n]  BY <1>1, <1>a DEF Part
<1>3. SoleStorage' /\ p0 \in Partitions /\ IsLast(p0, l)'
  <2>1. UNCHANGED <<records, announced>>  BY <1>1
  <2>2. SoleStorage' /\ p0 \in Partitions  BY <1>1, <1>a, <2>1, AppendSole
  <2>3. IsLast(p0, l)' BY <1>1, <1>a, <2>1, AppendSole
  <2> QED  BY <2>2, <2>3
<1>4. \A p \in Partitions : p # p0 /\ MayLag(n, p) => MayLag(n, p)'
  BY <1>1, <1>2, <1>a DEF MayLag, Current, Doomed
<1>5. MayLag(n, p0)'  BY <1>1, <1>2 DEF MayLag
<1>6. LagInv(n)'
  <2> SUFFICES ASSUME NEW p \in Partitions, NEW k \in Offsets, Stored(p, k)', ~MayLag(n, p)'
               PROVE  Applied(p, k)'
    BY DEF LagInv
  <2>1. p # p0
    <3>1. ASSUME p = p0  PROVE FALSE
      <4>1. MayLag(n, p)' <=> MayLag(n, p0)'  BY <3>1 DEF MayLag, Current
      <4> QED  BY <1>5, <4>1
    <3> QED  BY <3>1
  <2>2. Stored(p, k)
    <3>1. plog'[p][k] = plog[p][k]  BY <1>0, <1>1, <2>1 DEF TypeOK
    <3> QED  BY <3>1 DEF Stored
  <2>3. Applied(p, k)  BY <1>4, <2>1, <2>2 DEF SoleInv, SoleNode, LagInv
  <2>4. RecordsGrow  BY <1>1 DEF RecordsGrow
  <2> QED  BY <1>0, <2>2, <2>3, <2>4, AppliedStays
<1>7. LastInv(n)'  BY <1>2, <1>3, <1>a DEF LastInv, IsLast, Stored
<1>8. OriginInv(n)'  BY <1>1, <1>2 DEF SoleInv, SoleNode, OriginInv
<1> QED  BY <1>1, <1>3, <1>6, <1>7, <1>8 DEF SoleNode, WrittenInv

\* The process that goes to its reply with a restart scheduled may lag.
LEMMA RestartSole ==
    ASSUME TypeOK, NEW n \in Nodes, FailAndRestart(n)
    PROVE  SoleNode(n)'
<1> DEFINE c == [cmd[n] EXCEPT !.failed = TRUE, !.restart = TRUE]
<1>0. cmd[n] \in Workpiece  BY CmdType
<1>2. c \in Workpiece /\ c.restart  BY <1>0, FlagsType DEF Workpiece
<1>3. SetCmd(n, c) /\ pc'[n] = "reply"  BY DEF FailAndRestart, GoReply, TypeOK
<1> HIDE DEF c
<1>1. pc'[n] = "reply" /\ cmd'[n].restart  BY <1>2, <1>3, SetCmdEffect
<1> QED  BY <1>1 DEF SoleNode, LagInv, MayLag, Doomed, LastInv, OriginInv, WrittenInv

LEMMA PutPLogFailsSole ==
    ASSUME OneWriter, SoleInv, LogInv', NEW n \in Nodes, PutPLogFails(n), StorageGrows
    PROVE  SoleStorage' /\ SoleNode(n)'
<1>0. TypeInv /\ TypeOK  BY DEF SoleInv, SafeInv, TypeInv
<1>a. PICK p0, l, e : p0 = Part(n) /\ l = cmd[n].poff /\ e = cmd[n].ev  OBVIOUS
<1>1. /\ pc[n] = "putPLog" /\ FailAndRestart(n) /\ UNCHANGED <<records, announced>>
      /\ UNCHANGED plog \/ (PLogWritable(p0, l) /\ plog' = [plog EXCEPT ![p0][l] = e])
  BY <1>a DEF PutPLogFails
<1>2. SoleStorage'
  <2>1. CASE UNCHANGED plog  BY <1>1, <2>1, RecordsStay, StorageStays
  <2>2. CASE PLogWritable(p0, l) /\ plog' = [plog EXCEPT ![p0][l] = e]
    BY <1>1, <1>a, <2>2, AppendSole
  <2> QED  BY <1>1, <2>1, <2>2
<1> QED  BY <1>0, <1>1, <1>2, RestartSole

LEMMA ApplyRecordsSole ==
    ASSUME SoleInv, NEW n \in Nodes, ApplyRecords(n), StorageGrows
    PROVE  SoleStorage' /\ SoleNode(n)'
<1> DEFINE c == [cmd[n] EXCEPT !.projector = "todo", !.putWLog = "todo"]
           ids == Touched(cmd[n].ev)
<1>0. TypeInv /\ TypeOK /\ HasEvent(n) /\ SoleNode(n)
  BY DEF SoleInv, SafeInv, TypeInv, WorkpieceInv, ApplyRecords
<1>1. /\ pc[n] = "applyRecords" /\ WriteRecords(n, ids) /\ SetCmd(n, c)
      /\ pc' = [pc EXCEPT ![n] = "store"]
      /\ UNCHANGED <<plog, announced, resident>>
  BY DEF ApplyRecords, memory
<1>2. ids \in SUBSET RecordIDs  BY <1>0 DEF HasEvent, Event, Touched
<1>3. cmd[n] \in Workpiece  BY <1>0, CmdType
<1>4. c \in Workpiece /\ c.ev = cmd[n].ev /\ c.poff = cmd[n].poff /\ c.ws = cmd[n].ws
  BY <1>3, FlagsType DEF Workpiece
<1> HIDE DEF c
<1>5. cmd'[n] = c /\ Part(n)' = Part(n) /\ pc'[n] = "store"
  BY <1>0, <1>1, <1>4, SetCmdEffect DEF Part, TypeOK
<1>6. /\ RecordsGrow /\ RecordsAreEvents'
      /\ \A id \in ids : cmd[n].poff \in records'[cmd[n].ev.ws][id]
  BY <1>1, <1>2, WritingRecords
<1>7. SoleStorage'  BY <1>1, <1>6, StorageStays
<1>8. \A p \in Partitions : MayLag(n, p) => MayLag(n, p)'
  BY <1>1, <1>5 DEF MayLag, Current, Doomed
<1>9. LagInv(n)'  BY <1>1, <1>6, <1>8, LagStays
<1>10. LastInv(n)'
  BY <1>0, <1>1, <1>4, <1>5 DEF SoleNode, LastInv, IsLast, Stored
<1>11. WrittenInv(n)'  BY <1>4, <1>5, <1>6 DEF WrittenInv
<1> QED  BY <1>5, <1>7, <1>9, <1>10, <1>11 DEF SoleNode, OriginInv

LEMMA ApplyRecordsFailsSole ==
    ASSUME SoleInv, NEW n \in Nodes, NEW ids \in SUBSET RecordIDs,
           ApplyRecordsFails(n, ids), StorageGrows
    PROVE  SoleStorage' /\ SoleNode(n)'
<1>0. TypeOK  BY DEF SoleInv, SafeInv, TypeInv
<1>1. /\ pc[n] = "applyRecords" /\ ids \subseteq Touched(cmd[n].ev) /\ WriteRecords(n, ids)
      /\ FailAndRestart(n) /\ UNCHANGED <<plog, announced>>
  BY DEF ApplyRecordsFails
<1>2. RecordsGrow /\ RecordsAreEvents'  BY <1>1, WritingRecords
<1>3. SoleStorage'  BY <1>1, <1>2, StorageStays
<1> QED  BY <1>0, <1>1, <1>3, RestartSole

\* A branch of the store stage.
LEMMA BranchSole ==
    ASSUME SoleInv, NEW n \in Nodes, StorageGrows, pc[n] = "store", pc' = pc,
           NEW c \in Workpiece, SetCmd(n, c), c.ev = cmd[n].ev, c.poff = cmd[n].poff,
           c.ws = cmd[n].ws, UNCHANGED <<plog, records, announced, resident>>
    PROVE  SoleStorage' /\ SoleNode(n)'
<1>0. TypeOK /\ SoleNode(n)  BY DEF SoleInv, SafeInv, TypeInv
<1>1. cmd'[n] = c /\ Part(n)' = Part(n) /\ pc'[n] = "store"
  BY <1>0, SetCmdEffect DEF Part
<1>2. \A p \in Partitions : MayLag(n, p) => MayLag(n, p)'
  BY <1>1 DEF MayLag, Current, Doomed
<1>3. SoleStorage' /\ LagInv(n)'  BY <1>2, QuietSole
<1>4. LastInv(n)'  BY <1>0, <1>1 DEF SoleNode, LastInv, IsLast, Stored
<1>5. WrittenInv(n)'  BY <1>0, <1>1 DEF SoleNode, WrittenInv
<1> QED  BY <1>1, <1>3, <1>4, <1>5 DEF SoleNode, OriginInv

LEMMA BranchesSole ==
    ASSUME SoleInv, NEW n \in Nodes, SyncProjectors(n) \/ PutWLog(n) \/ PutWLogFails(n),
           StorageGrows
    PROVE  SoleStorage' /\ SoleNode(n)'
<1>0. cmd[n] \in Workpiece  BY CmdType DEF SoleInv, SafeInv, TypeInv
<1>1. /\ pc[n] = "store" /\ pc' = pc /\ UNCHANGED <<plog, records, announced, resident>>
  BY DEF SyncProjectors, PutWLog, PutWLogFails, memory
<1>2. PICK c \in Workpiece : /\ SetCmd(n, c) /\ c.ev = cmd[n].ev /\ c.poff = cmd[n].poff
                             /\ c.ws = cmd[n].ws
  <2>1. CASE SyncProjectors(n)
    <3>1. CASE SetCmd(n, [cmd[n] EXCEPT !.projector = "ok"])
      <4> DEFINE d == [cmd[n] EXCEPT !.projector = "ok"]
      <4>1. d \in Workpiece /\ d.ev = cmd[n].ev /\ d.poff = cmd[n].poff /\ d.ws = cmd[n].ws
        BY <1>0, FlagsType DEF Workpiece
      <4> QED  BY <3>1, <4>1
    <3>2. CASE SetCmd(n, [cmd[n] EXCEPT !.projector = "err", !.restart = TRUE])
      <4> DEFINE d == [cmd[n] EXCEPT !.projector = "err", !.restart = TRUE]
      <4>1. d \in Workpiece /\ d.ev = cmd[n].ev /\ d.poff = cmd[n].poff /\ d.ws = cmd[n].ws
        BY <1>0, FlagsType DEF Workpiece
      <4> QED  BY <3>2, <4>1
    <3> QED  BY <2>1, <3>1, <3>2 DEF SyncProjectors
  <2>2. CASE PutWLog(n)
    <3> DEFINE d == [cmd[n] EXCEPT !.putWLog = "ok"]
    <3>1. d \in Workpiece /\ d.ev = cmd[n].ev /\ d.poff = cmd[n].poff /\ d.ws = cmd[n].ws
      BY <1>0, FlagsType DEF Workpiece
    <3>2. SetCmd(n, d)  BY <2>2 DEF PutWLog
    <3> QED  BY <3>1, <3>2
  <2>3. CASE PutWLogFails(n)
    <3> DEFINE d == [cmd[n] EXCEPT !.putWLog = "err", !.restart = TRUE]
    <3>1. d \in Workpiece /\ d.ev = cmd[n].ev /\ d.poff = cmd[n].poff /\ d.ws = cmd[n].ws
      BY <1>0, FlagsType DEF Workpiece
    <3>2. SetCmd(n, d)  BY <2>3 DEF PutWLogFails
    <3> QED  BY <3>1, <3>2
  <2> QED  BY <2>1, <2>2, <2>3
<1> QED  BY <1>1, <1>2, BranchSole

\* When both branches are through the last event is applied, too.
LEMMA StoredIsApplied ==
    ASSUME SoleInv, NEW n \in Nodes, pc[n] = "store", cmd[n].projector = "ok",
           cmd[n].putWLog = "ok", NEW k \in Offsets, Stored(Part(n), k)
    PROVE  Applied(Part(n), k)
<1> DEFINE p == Part(n)
           l == cmd[n].poff
           e == cmd[n].ev
<1>0. /\ TypeInv /\ TypeOK /\ HasEvent(n) /\ RowInv(n) /\ BranchInv(n) /\ SoleNode(n)
      /\ p \in Partitions
  BY CmdType DEF SoleInv, SafeInv, TypeInv, WorkpieceInv, NodeInv
<1>1. /\ l \in Offsets /\ plog[p][l] = e /\ IsLast(p, l)
      /\ wlog[e.ws][e.woff] = l /\ l \in synced[p]
      /\ \A id \in Touched(e) : l \in records[e.ws][id]
  BY <1>0 DEF HasEvent, RowInv, HasRow, SoleNode, LastInv, WrittenInv, BranchInv
<1>2. Applied(p, l)  BY <1>1 DEF Applied
<1>3. CASE ~IsLast(p, k)
  BY <1>0, <1>3 DEF SoleInv, SoleStorage, EarlierEventsAreApplied
<1>4. CASE IsLast(p, k)
  <2>1. ~(l > k) /\ ~(k > l)  BY <1>1, <1>4 DEF IsLast
  <2>2. k = l
    <3>1. k \in Int /\ l \in Int  BY <1>1 DEF Offsets
    <3> QED  BY <2>1, <3>1
  <2> QED  BY <1>2, <2>2
<1> QED  BY <1>3, <1>4

LEMMA StoreDoneSole ==
    ASSUME SoleInv, NEW n \in Nodes, StoreDone(n), StorageGrows
    PROVE  SoleStorage' /\ SoleNode(n)'
<1> DEFINE p == Part(n)
<1>0. TypeInv /\ TypeOK /\ NodeInv(n)  BY DEF SoleInv, SafeInv, TypeInv
<1>1. pc[n] = "store" /\ UNCHANGED <<plog, records, announced>>  BY DEF StoreDone, storage
<1>2. SoleStorage' /\ RecordsGrow  BY <1>1, RecordsStay, StorageStays
<1>3. CASE "err" \in {cmd[n].projector, cmd[n].putWLog} /\ Fail(n)
  <2>1. pc'[n] = "reply" /\ cmd'[n].restart = cmd[n].restart  BY <1>0, <1>3, FailFields
  <2>2. cmd[n].restart  BY <1>0, <1>1, <1>3 DEF NodeInv, BranchInv
  <2> QED
    BY <1>2, <2>1, <2>2 DEF SoleNode, LagInv, MayLag, Doomed, LastInv, OriginInv, WrittenInv
<1>4. ASSUME cmd[n].projector = "ok", cmd[n].putWLog = "ok", pc'[n] \in {"exec", "notify"},
             Part(n)' = p, resident'[n] \subseteq resident[n] \cup {p}
      PROVE  SoleNode(n)'
  <2>1. \A k \in Offsets : Stored(p, k) => Applied(p, k)
    BY <1>1, <1>4, StoredIsApplied
  <2>2. \A q \in Partitions : q # p /\ MayLag(n, q) => MayLag(n, q)'
    BY <1>1, <1>4 DEF MayLag, Current, Doomed
  <2>3. ASSUME NEW q \in Partitions, NEW k \in Offsets, Stored(q, k)', ~MayLag(n, q)'
        PROVE  Applied(q, k)'
    <3>1. Stored(q, k)  BY <1>1, <2>3 DEF Stored
    <3>2. Applied(q, k)
      BY <2>1, <2>2, <2>3, <3>1 DEF SoleInv, SoleNode, LagInv
    <3> QED  BY <1>0, <1>2, <3>1, <3>2, AppliedStays
  <2>4. LagInv(n)'  BY <2>3 DEF LagInv
  <2> QED  BY <1>4, <2>4 DEF SoleNode, LastInv, OriginInv, WrittenInv
<1>5. CASE /\ {cmd[n].projector, cmd[n].putWLog} = {"ok"} /\ Recovered(n)
           /\ SetCmd(n, NewWorkpiece(cmd[n].ws, cmd[n].createWS))
  <2> DEFINE c == NewWorkpiece(cmd[n].ws, cmd[n].createWS)
  <2>1. c \in Workpiece /\ c.ws = cmd[n].ws
    BY <1>0, CmdType, NewWorkpieceType DEF NewWorkpiece
  <2>2. SetCmd(n, c)  BY <1>5
  <2> HIDE DEF c
  <2>3. Part(n)' = p  BY <1>0, <2>1, <2>2, SetCmdEffect DEF Part
  <2>4. pc'[n] = "exec" /\ resident'[n] = resident[n] \cup {p}
    BY <1>0, <1>5 DEF Recovered, TypeOK
  <2>5. cmd[n].putWLog = "ok" /\ cmd[n].projector = "ok"  BY <1>5
  <2> QED  BY <1>2, <1>4, <2>3, <2>4, <2>5
<1>6. CASE /\ {cmd[n].projector, cmd[n].putWLog} = {"ok"}
           /\ pc' = [pc EXCEPT ![n] = "notify"] /\ UNCHANGED <<resident, cmd>>
  <2>1. pc'[n] = "notify" /\ Part(n)' = p /\ resident' = resident
    BY <1>0, <1>6 DEF TypeOK, Part
  <2>2. cmd[n].putWLog = "ok" /\ cmd[n].projector = "ok"  BY <1>6
  <2> QED  BY <1>2, <1>4, <2>1, <2>2
<1> QED  BY <1>3, <1>5, <1>6 DEF StoreDone

LEMMA NotifySole ==
    ASSUME SoleInv, NEW n \in Nodes, NotifyAsyncActualizers(n), StorageGrows
    PROVE  SoleStorage' /\ SoleNode(n)'
<1>a. PICK p, l : p = Part(n) /\ l = cmd[n].poff  OBVIOUS
<1>0. TypeInv /\ TypeOK /\ HasEvent(n) /\ RowInv(n) /\ LagInv(n) /\ p \in Partitions
  BY <1>a, CmdType
     DEF SoleInv, SafeInv, TypeInv, WorkpieceInv, NodeInv, NotifyAsyncActualizers, SoleNode
<1>1. /\ pc[n] = "notify" /\ pc'[n] = "reply"
      /\ announced' = [announced EXCEPT ![p] = @ \cup {l}]
      /\ UNCHANGED <<plog, records, resident, cmd>>
  BY <1>0, <1>a DEF NotifyAsyncActualizers, GoReply, storage, memory, TypeOK
<1>2. RecordsGrow /\ RecordsAreEvents'  BY <1>1, RecordsStay
<1>3. l \in Offsets /\ Stored(p, l)
  BY <1>0, <1>1, <1>a, ConstantsAssumption DEF HasEvent, RowInv, HasRow, Stored
<1>4. Applied(p, l)
  <2>1. ~MayLag(n, p)  BY <1>1, <1>a DEF MayLag, Current, Doomed
  <2> QED  BY <1>0, <1>3, <2>1 DEF LagInv
<1>5. CreatedFirst'  BY <1>1 DEF SoleInv, SoleStorage, CreatedFirst, SameWS, Stored
<1>6. EarlierEventsAreApplied'
  <2> SUFFICES ASSUME NEW q \in Partitions, NEW k \in Offsets, Stored(q, k)', ~IsLast(q, k)'
               PROVE  Applied(q, k)'
    BY DEF EarlierEventsAreApplied
  <2>1. Stored(q, k) /\ ~IsLast(q, k)  BY <1>1 DEF Stored, IsLast
  <2>2. Applied(q, k)  BY <2>1 DEF SoleInv, SoleStorage, EarlierEventsAreApplied
  <2> QED  BY <1>0, <1>2, <2>1, <2>2, AppliedStays
<1>7. AnnouncedIsApplied'
  <2> SUFFICES ASSUME NEW q \in Partitions, NEW k \in announced'[q]
               PROVE  Stored(q, k)' /\ Applied(q, k)'
    BY DEF AnnouncedIsApplied
  <2>1. k \in announced[q] \/ (q = p /\ k = l)  BY <1>0, <1>1 DEF TypeOK
  <2>2. k \in Offsets  BY <1>0, <1>3, <2>1 DEF TypeOK
  <2>3. Stored(q, k) /\ Applied(q, k)
    <3>1. CASE k \in announced[q]
      BY <3>1 DEF SoleInv, SoleStorage, AnnouncedIsApplied
    <3>2. CASE q = p /\ k = l  BY <1>3, <1>4, <3>2
    <3> QED  BY <2>1, <3>1, <3>2
  <2> QED  BY <1>0, <1>2, <2>2, <2>3, AppliedStays
<1>8. \A q \in Partitions : MayLag(n, q) => MayLag(n, q)'
  BY <1>1, <1>a DEF MayLag, Current, Doomed, Part
<1>9. LagInv(n)'  BY <1>1, <1>2, <1>8, LagStays
<1> QED
  BY <1>1, <1>2, <1>5, <1>6, <1>7, <1>9 DEF SoleStorage, SoleNode, LastInv, OriginInv, WrittenInv

LEMMA ForgetSole ==
    ASSUME SoleInv, NEW n \in Nodes, StorageGrows, UNCHANGED <<storage, announced>>,
           pc'[n] = "idle", NEW keep \in SUBSET Partitions, Forget(n, keep),
           keep \subseteq resident[n], Doomed(n) => keep = {},
           pc[n] \in {"applyRecords", "store"} => keep = {}
    PROVE  SoleStorage' /\ SoleNode(n)'
<1>0. TypeOK  BY DEF SoleInv, SafeInv, TypeInv
<1>1. resident'[n] = keep  BY <1>0 DEF Forget, TypeOK
<1>2. UNCHANGED <<plog, records, announced>>  BY DEF storage
<1>3. \A p \in Partitions : MayLag(n, p) => MayLag(n, p)'
  BY <1>1 DEF MayLag, Current
<1>4. SoleStorage' /\ LagInv(n)'  BY <1>2, <1>3, QuietSole
<1> QED  BY <1>4 DEF SoleNode, LastInv, OriginInv, WrittenInv

LEMMA EndSole ==
    ASSUME SoleInv, NEW n \in Nodes, Reply(n) \/ Crash(n), StorageGrows
    PROVE  SoleStorage' /\ SoleNode(n)'
<1>0. TypeOK  BY DEF SoleInv, SafeInv, TypeInv
<1>1. UNCHANGED <<storage, announced>> /\ pc'[n] = "idle"
  BY <1>0 DEF Reply, Crash, TypeOK
<1>2. CASE Reply(n)
  <2>1. PICK keep : keep = IF cmd[n].restart THEN {} ELSE resident[n]  OBVIOUS
  <2>2. keep \in SUBSET Partitions /\ keep \subseteq resident[n]  BY <1>0, <2>1 DEF TypeOK
  <2>3. Forget(n, keep) /\ pc[n] = "reply" /\ (Doomed(n) => keep = {})
    BY <1>2, <2>1 DEF Reply, Doomed
  <2> QED  BY <1>1, <2>2, <2>3, ForgetSole
<1>3. CASE Crash(n)
  <2>1. Forget(n, {})  BY <1>3 DEF Crash
  <2> QED  BY <1>1, <2>1, ForgetSole
<1> QED  BY <1>2, <1>3

-----------------------------------------------------------------------------
LEMMA SoleInit == Init => SoleInv
<1> SUFFICES ASSUME Init  PROVE SoleInv
  OBVIOUS
<1>1. SafeInv /\ UpdatesInv  BY SafeInvInit, UpdatesInit
<1>2. /\ \A p \in Partitions, k \in Offsets : ~Stored(p, k)
      /\ \A p \in Partitions : announced[p] = {}
      /\ \A w \in WSIDs, id \in RecordIDs : records[w][id] = {}
      /\ \A n \in Nodes : pc[n] = "idle"
  BY DEF Init, Stored
<1>3. SoleStorage
  BY <1>2 DEF SoleStorage, CreatedFirst, SameWS, EarlierEventsAreApplied,
              RecordsAreEvents, AnnouncedIsApplied
<1>4. \A n \in Nodes : SoleNode(n)
  BY <1>2 DEF SoleNode, LagInv, LastInv, OriginInv, WrittenInv
<1> QED  BY <1>1, <1>3, <1>4 DEF SoleInv

LEMMA SoleStep ==
    ASSUME OneWriter, SoleInv, LogInv', StorageGrows, NEW n \in Nodes, NodeStep(n)
    PROVE  SoleStorage' /\ SoleNode(n)'
<1>1. CASE \E w \in WSIDs, b \in BOOLEAN : Accept(n, w, b)  BY <1>1, AcceptSole
<1>2. CASE Recovery(n)
  BY <1>2, RecoverEventSole, RefusalSole, RecoverEndSole DEF Recovery
<1>3. CASE Execution(n)
  BY <1>3, RefusalSole, ExecSole, PutPLogSole, PutPLogFailsSole DEF Execution, UpdateSets
<1>4. CASE Store(n)
  BY <1>4, ApplyRecordsSole, ApplyRecordsFailsSole, BranchesSole, StoreDoneSole DEF Store
<1>5. CASE NotifyAsyncActualizers(n)  BY <1>5, NotifySole
<1>6. CASE Reply(n) \/ Crash(n)  BY <1>6, EndSole
<1> QED  BY <1>1, <1>2, <1>3, <1>4, <1>5, <1>6 DEF NodeStep, Step

LEMMA SoleNext ==
    ASSUME OneWriter, SoleInv, [Next]_vars
    PROVE  SoleInv'
<1>0. SafeStorage /\ SafeInv /\ UpdatesInv  BY DEF SoleInv, SafeStorage
<1>1. SafeInv' /\ UpdatesInv'
  BY <1>0, SafeInvNext, NextImplements
<1>2. CASE Next
  <2>1. PICK n \in Nodes : NodeStep(n)  BY <1>2 DEF Next, NodeStep
  <2>2. LogInv' /\ StorageGrows  BY <1>0, <2>1, NodeStepKeeps
  <2>3. SoleStorage' /\ SoleNode(n)'  BY <2>1, <2>2, SoleStep
  <2>4. \A m \in Nodes : SoleNode(m)'
    <3> TAKE m \in Nodes
    <3>1. m = n  BY DEF OneWriter
    <3> QED  BY <2>3, <3>1
  <2> QED  BY <1>1, <2>3, <2>4 DEF SoleInv
<1>3. CASE UNCHANGED vars
  <2>1. UNCHANGED <<plog, wlog, records, synced, announced, resident, pc, cmd>>
    BY <1>3 DEF vars, storage, memory
  <2>2. \A p, k : Applied(p, k)' = Applied(p, k) /\ Stored(p, k)' = Stored(p, k)
    BY <2>1 DEF Applied, Stored
  <2>3. SoleStorage'
    BY <2>1, <2>2 DEF SoleInv, SoleStorage, CreatedFirst, SameWS, EarlierEventsAreApplied,
                      IsLast, RecordsAreEvents, AnnouncedIsApplied
  <2>4. ASSUME NEW n \in Nodes  PROVE SoleNode(n)'
    <3>1. SoleNode(n)  BY DEF SoleInv
    <3>2. Part(n)' = Part(n) /\ \A p : MayLag(n, p)' = MayLag(n, p)
      BY <2>1 DEF Part, MayLag, Current, Doomed
    <3> QED
      BY <2>1, <2>2, <3>1, <3>2
         DEF SoleNode, LagInv, LastInv, IsLast, OriginInv, WrittenInv
  <2> QED  BY <1>1, <2>3, <2>4 DEF SoleInv
<1> QED  BY <1>2, <1>3

LEMMA SoleInvariance ==
    ASSUME OneWriter
    PROVE  Spec => []SoleInv
<1>1. SoleInv /\ [Next]_vars => SoleInv'  BY SoleNext
<1> QED  BY <1>1, SoleInit, PTL DEF Spec

\* When only one process writes, recovery has to apply the last event again
\* and no other: putPLog is not reached before the records, the projectors and
\* the WLog row of all earlier events are there, whatever writes failed.
THEOREM EarlierEventsNeedNoRecovery ==
    ASSUME OneWriter
    PROVE  Spec => []EarlierEventsAreApplied
<1>1. SoleInv => EarlierEventsAreApplied  BY DEF SoleInv, SoleStorage
<1> QED  BY <1>1, SoleInvariance, PTL

\* A command of a single process is executed on the effects of all events of
\* its PLog: a store stage that fails drops the partition, and the recovery
\* that brings it back applies the last event completely or fails.
THEOREM NoCommandRunsOnAStaleState ==
    ASSUME OneWriter
    PROVE  Spec => []ExecSeesAllEvents
<1>1. SoleInv => ExecSeesAllEvents
  <2> SUFFICES ASSUME SoleInv, NEW n \in Nodes, pc[n] = "exec",
                      NEW k \in Offsets, Stored(Part(n), k)
               PROVE  Applied(Part(n), k)
    BY DEF ExecSeesAllEvents
  <2>1. Part(n) \in Partitions  BY CmdType DEF SoleInv, SafeInv, TypeInv
  <2>2. ~MayLag(n, Part(n))  BY DEF MayLag, Current, Doomed
  <2> QED  BY <2>1, <2>2 DEF SoleInv, SoleNode, LagInv
<1> QED  BY <1>1, SoleInvariance, PTL

\* The records of a single process are the fold of its PLog: an update that is
\* applied again is built on the stored record, a first update on what
\* parseCUDs has read, and nothing was written in between.
THEOREM NoUpdateIsLostOrInvented ==
    ASSUME OneWriter
    PROVE  Spec => []RecordsFollowPLog
<1>1. SoleInv => RecordsFollowPLog
  <2> SUFFICES ASSUME SoleInv, NEW w \in WSIDs, NEW id \in RecordIDs
               PROVE  LET p == PartitionOf[w]
                          all == {k \in Offsets : Stored(p, k) /\ plog[p][k].ws = w
                                                  /\ id \in Touched(plog[p][k])}
                          last == {k \in Offsets : IsLast(p, k)}
                      IN  all \ last \subseteq records[w][id] /\ records[w][id] \subseteq all
    BY DEF RecordsFollowPLog
  <2>1. PartitionOf[w] \in Partitions /\ records[w][id] \subseteq Offsets
    BY ConstantsAssumption DEF SoleInv, SafeInv, TypeInv, TypeOK
  <2>2. ASSUME NEW k \in Offsets, Stored(PartitionOf[w], k), plog[PartitionOf[w]][k].ws = w,
               id \in Touched(plog[PartitionOf[w]][k]), ~IsLast(PartitionOf[w], k)
        PROVE  k \in records[w][id]
    BY <2>1, <2>2 DEF SoleInv, SoleStorage, EarlierEventsAreApplied, Applied
  <2>3. \A k \in records[w][id] :
            /\ Stored(PartitionOf[w], k) /\ plog[PartitionOf[w]][k].ws = w
            /\ id \in Touched(plog[PartitionOf[w]][k])
    BY DEF SoleInv, SoleStorage, RecordsAreEvents
  <2> QED  BY <2>1, <2>2, <2>3
<1> QED  BY <1>1, SoleInvariance, PTL

\* The async actualizers of a single process are told about events only that
\* they can read with all their effects, and these never go away.
THEOREM AnnouncedEventsCanBeRead ==
    ASSUME OneWriter
    PROVE  Spec => []AnnouncedIsApplied
<1>1. SoleInv => AnnouncedIsApplied  BY DEF SoleInv, SoleStorage
<1> QED  BY <1>1, SoleInvariance, PTL
=============================================================================
