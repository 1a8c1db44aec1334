----------------------- MODULE CommandProcessorProofs -----------------------
(***************************************************************************)
(* What is proved of CommandProcessor, for any number of processes,        *)
(* partitions, workspaces and any bounds.                                  *)
(***************************************************************************)
EXTENDS CommandProcessor, TLAPS

\* The event of the workpiece is going to be stored or is being stored
HasEvent(n) ==
    /\ cmd[n].ev \in Event
    /\ cmd[n].poff \in Offsets
    /\ PartitionOf[cmd[n].ev.ws] = Part(n)

\* NextWLogOffset still has to be bumped for the event of the workpiece
Pending(n) ==
    pc[n] = "applyRecords" \/ (pc[n] = "store" /\ cmd[n].putWLog # "ok")

\* How the workpiece and the in-memory offsets are related in every stage:
\* the offsets the handlers add to or subtract from stay in their range.
WorkpieceInv(n) ==
    LET c == cmd[n]
    IN  /\ pc[n] = "readPLog" =>
             /\ ~c.reapply
             /\ c.ev # NoEvent => /\ HasEvent(n)
                                  /\ nextWLogOffset[n][c.ev.ws] = c.ev.woff + 1
        /\ pc[n] = "exec" => c.ev = NoEvent /\ ~c.reapply
        /\ pc[n] = "putPLog" =>
             /\ HasEvent(n) /\ ~c.reapply
             /\ c.ev.ws = c.ws
             /\ nextPLogOffset[n][Part(n)] = c.poff
             /\ nextWLogOffset[n][c.ws] = c.ev.woff
             /\ nextRecordID[n][c.ws] + c.nnew \in 1..(MaxRecordID + 1)
        /\ pc[n] \in {"applyRecords", "store", "notify"} => HasEvent(n)
        /\ pc[n] = "reply" /\ ~c.failed => HasEvent(n)
        /\ Pending(n) => nextWLogOffset[n][c.ev.ws] = c.ev.woff

\* A PLog holds the events of the workspaces of its partition
PLogIsRouted ==
    \A p \in Partitions : \A k \in Offsets :
        Stored(p, k) => PartitionOf[plog[p][k].ws] = p

TypeInv == TypeOK /\ PLogIsRouted /\ \A n \in Nodes : WorkpieceInv(n)

\* A step of process n leaves the memory of the other processes alone
OthersUnchanged(n) ==
    \A m \in Nodes \ {n} :
        /\ pc'[m] = pc[m] /\ cmd'[m] = cmd[m]
        /\ resident'[m] = resident[m]
        /\ nextPLogOffset'[m] = nextPLogOffset[m]
        /\ nextWLogOffset'[m] = nextWLogOffset[m]
        /\ nextRecordID'[m] = nextRecordID[m]

USE DEF ConstantsAssumption, FirstUserRecordID, SingletonID

LEMMA OthersKeepWorkpiece ==
    ASSUME TypeInv, NEW n \in Nodes, OthersUnchanged(n)
    PROVE  \A m \in Nodes \ {n} : WorkpieceInv(m)'
BY DEF TypeInv, OthersUnchanged, WorkpieceInv, HasEvent, Pending, Part

\* Facts about the workpiece update every action makes
LEMMA NewWorkpieceType ==
    ASSUME NEW w \in WSIDs, NEW b \in BOOLEAN
    PROVE  /\ NewWorkpiece(w, b) \in Workpiece
           /\ NewWorkpiece(w, b).ev = NoEvent
           /\ ~NewWorkpiece(w, b).reapply
BY ConstantsAssumption DEF NewWorkpiece, Workpiece, NoOrigin, BranchStates

LEMMA SetCmdEffect ==
    ASSUME TypeOK, NEW n \in Nodes, NEW c \in Workpiece, SetCmd(n, c)
    PROVE  /\ cmd' \in [Nodes -> Workpiece]
           /\ cmd'[n] = c
           /\ \A m \in Nodes \ {n} : cmd'[m] = cmd[m]
BY DEF SetCmd, TypeOK

LEMMA FlagsType ==
    ASSUME NEW c \in Workpiece
    PROVE  /\ [c EXCEPT !.failed = TRUE] \in Workpiece
           /\ [c EXCEPT !.failed = TRUE, !.restart = TRUE] \in Workpiece
           /\ [c EXCEPT !.reapply = TRUE] \in Workpiece
           /\ [c EXCEPT !.projector = "todo", !.putWLog = "todo"] \in Workpiece
           /\ [c EXCEPT !.projector = "ok"] \in Workpiece
           /\ [c EXCEPT !.projector = "err", !.restart = TRUE] \in Workpiece
           /\ [c EXCEPT !.putWLog = "ok"] \in Workpiece
           /\ [c EXCEPT !.putWLog = "err", !.restart = TRUE] \in Workpiece
BY DEF Workpiece, BranchStates

LEMMA CmdType ==
    ASSUME TypeOK, NEW n \in Nodes
    PROVE  /\ cmd[n] \in Workpiece
           /\ cmd[n].ws \in WSIDs
           /\ Part(n) \in Partitions
           /\ cmd[n].ev \in Event \cup {NoEvent}
           /\ cmd[n].poff \in Offsets \cup {0}
           /\ cmd[n].createWS \in BOOLEAN
           /\ cmd[n].nnew \in 0..MaxNew
BY ConstantsAssumption DEF TypeOK, Workpiece, Part

LEMMA FailEffect ==
    ASSUME TypeOK, NEW n \in Nodes, Fail(n) \/ FailAndRestart(n)
    PROVE  /\ cmd' \in [Nodes -> Workpiece]
           /\ pc' = [pc EXCEPT ![n] = "reply"]
           /\ cmd'[n].failed
           /\ \A m \in Nodes \ {n} : cmd'[m] = cmd[m]
<1>1. cmd[n] \in Workpiece
  BY CmdType
<1>2. CASE Fail(n)
  <2> DEFINE c == [cmd[n] EXCEPT !.failed = TRUE]
  <2>1. c \in Workpiece /\ c.failed
    BY <1>1, FlagsType DEF Workpiece
  <2>2. SetCmd(n, c) /\ GoReply(n)
    BY <1>2 DEF Fail
  <2> HIDE DEF c
  <2> QED BY <2>1, <2>2, SetCmdEffect DEF GoReply
<1>3. CASE FailAndRestart(n)
  <2> DEFINE c == [cmd[n] EXCEPT !.failed = TRUE, !.restart = TRUE]
  <2>1. c \in Workpiece /\ c.failed
    BY <1>1, FlagsType DEF Workpiece
  <2>2. SetCmd(n, c) /\ GoReply(n)
    BY <1>3 DEF FailAndRestart
  <2> HIDE DEF c
  <2> QED BY <2>1, <2>2, SetCmdEffect DEF GoReply
<1> QED BY <1>2, <1>3

-----------------------------------------------------------------------------
LEMMA AcceptType ==
    ASSUME TypeInv, NEW n \in Nodes, NEW w \in WSIDs, NEW b \in BOOLEAN,
           Accept(n, w, b)
    PROVE  TypeInv' /\ OthersUnchanged(n)
<1> USE DEF TypeInv
<1> DEFINE c == NewWorkpiece(w, b)
<1>1. c \in Workpiece /\ c.ev = NoEvent /\ ~c.reapply
  BY NewWorkpieceType
<1>2. SetCmd(n, c) /\ UNCHANGED <<storage, announced, acked, memory>>
  BY DEF Accept
<1> HIDE DEF c
<1>3. /\ cmd' \in [Nodes -> Workpiece] /\ cmd'[n] = c
      /\ \A m \in Nodes \ {n} : cmd'[m] = cmd[m]
  BY <1>1, <1>2, SetCmdEffect
<1>4. /\ pc' \in [Nodes -> Stages] /\ pc'[n] \in {"exec", "readPLog"}
      /\ \A m \in Nodes \ {n} : pc'[m] = pc[m]
  BY DEF Accept, TypeOK, Stages
<1>5. OthersUnchanged(n)
  BY <1>2, <1>3, <1>4 DEF memory, OthersUnchanged
<1>6. TypeOK' /\ PLogIsRouted'
  BY <1>2, <1>3, <1>4 DEF storage, memory, TypeOK, PLogIsRouted, Stored
<1>7. WorkpieceInv(n)'
  BY <1>1, <1>3, <1>4 DEF WorkpieceInv, Pending
<1> QED BY <1>5, <1>6, <1>7, OthersKeepWorkpiece

LEMMA RecoverEventType ==
    ASSUME TypeInv, NEW n \in Nodes, NEW k \in Offsets, RecoverEvent(n, k)
    PROVE  TypeInv' /\ OthersUnchanged(n)
<1> USE DEF TypeInv
<1> DEFINE p == Part(n)
           e == plog[p][k]
           c == [cmd[n] EXCEPT !.ev = e, !.poff = k]
<1>1. /\ pc[n] = "readPLog" /\ e # NoEvent /\ SetCmd(n, c)
      /\ nextPLogOffset' = [nextPLogOffset EXCEPT ![n][p] = k + 1]
      /\ nextWLogOffset' = [nextWLogOffset EXCEPT ![n][e.ws] = e.woff + 1]
      /\ \E i \in 1..(MaxRecordID + 1) :
             nextRecordID' = [nextRecordID EXCEPT ![n][e.ws] = i]
      /\ UNCHANGED <<storage, announced, acked, resident, pc>>
  BY DEF RecoverEvent
<1>2. p \in Partitions /\ cmd[n] \in Workpiece
  BY CmdType
<1>3. e \in Event
  BY <1>1, <1>2 DEF TypeOK
<1>4. e.ws \in WSIDs /\ e.woff + 1 \in 1..(MaxOffset + 1)
  BY <1>3, ConstantsAssumption DEF Event, Offsets
<1>5. c \in Workpiece /\ c.ev = e /\ c.poff = k /\ c.ws = cmd[n].ws
      /\ c.reapply = cmd[n].reapply
  BY <1>2, <1>3 DEF Workpiece
<1> HIDE DEF c
<1>6. /\ cmd' \in [Nodes -> Workpiece] /\ cmd'[n] = c
      /\ \A m \in Nodes \ {n} : cmd'[m] = cmd[m]
  BY <1>1, <1>5, SetCmdEffect
<1>7. PartitionOf[e.ws] = p
  BY <1>1, <1>2 DEF PLogIsRouted, Stored
<1>8. OthersUnchanged(n)
  BY <1>1, <1>6 DEF OthersUnchanged, TypeOK
<1>9. TypeOK' /\ PLogIsRouted'
  <2>1. nextPLogOffset' \in [Nodes -> [Partitions -> 1..(MaxOffset + 1)]]
    BY <1>1, <1>2, ConstantsAssumption DEF TypeOK, Offsets
  <2>2. nextWLogOffset' \in [Nodes -> [WSIDs -> 1..(MaxOffset + 1)]]
    BY <1>1, <1>4 DEF TypeOK
  <2>3. nextRecordID' \in [Nodes -> [WSIDs -> 1..(MaxRecordID + 1)]]
    BY <1>1, <1>4 DEF TypeOK
  <2> QED
    BY <1>1, <1>6, <2>1, <2>2, <2>3 DEF storage, TypeOK, PLogIsRouted, Stored
<1>10. nextWLogOffset'[n][e.ws] = e.woff + 1
  BY <1>1, <1>4 DEF TypeOK
<1>11. WorkpieceInv(n)'
  BY <1>1, <1>3, <1>5, <1>6, <1>7, <1>10
     DEF TypeOK, WorkpieceInv, Part, HasEvent, Pending
<1> QED BY <1>8, <1>9, <1>11, OthersKeepWorkpiece

LEMMA RecoverReadFailsType ==
    ASSUME TypeInv, NEW n \in Nodes, RecoverReadFails(n)
    PROVE  TypeInv' /\ OthersUnchanged(n)
<1> USE DEF TypeInv
<1>1. Fail(n) /\ UNCHANGED <<storage, announced, acked, memory>>
  BY DEF RecoverReadFails
<1>2. /\ cmd' \in [Nodes -> Workpiece]
      /\ pc' = [pc EXCEPT ![n] = "reply"]
      /\ cmd'[n].failed
      /\ \A m \in Nodes \ {n} : cmd'[m] = cmd[m]
  BY <1>1, FailEffect
<1>3. OthersUnchanged(n)
  BY <1>1, <1>2 DEF memory, OthersUnchanged, TypeOK
<1>4. TypeOK' /\ PLogIsRouted'
  BY <1>1, <1>2 DEF storage, memory, TypeOK, Stages, PLogIsRouted, Stored
<1>5. WorkpieceInv(n)'
  BY <1>2 DEF TypeOK, WorkpieceInv, Pending
<1> QED BY <1>3, <1>4, <1>5, OthersKeepWorkpiece

LEMMA RecoverEndType ==
    ASSUME TypeInv, NEW n \in Nodes, RecoverEnd(n)
    PROVE  TypeInv' /\ OthersUnchanged(n)
<1> USE DEF TypeInv
<1> DEFINE p == Part(n)
           e == cmd[n].ev
<1>1. /\ pc[n] = "readPLog"
      /\ UNCHANGED <<storage, announced, acked, nextPLogOffset, nextRecordID>>
  BY DEF RecoverEnd
<1>2. p \in Partitions /\ cmd[n] \in Workpiece
  BY CmdType
<1>3. CASE e = NoEvent /\ Recovered(n) /\ UNCHANGED <<nextWLogOffset, cmd>>
  <2>1. /\ pc' = [pc EXCEPT ![n] = "exec"]
        /\ resident' = [resident EXCEPT ![n] = @ \cup {p}]
    BY <1>3 DEF Recovered
  <2>2. OthersUnchanged(n)
    BY <1>1, <1>3, <2>1 DEF OthersUnchanged, TypeOK
  <2>3. TypeOK' /\ PLogIsRouted'
    BY <1>1, <1>2, <1>3, <2>1
       DEF storage, TypeOK, Stages, PLogIsRouted, Stored
  <2>4. WorkpieceInv(n)'
    BY <1>1, <1>3, <2>1 DEF TypeOK, WorkpieceInv, Pending
  <2> QED BY <2>2, <2>3, <2>4, OthersKeepWorkpiece
<1>4. CASE /\ e # NoEvent
           /\ nextWLogOffset' = [nextWLogOffset EXCEPT ![n][e.ws] = @ - 1]
           /\ SetCmd(n, [cmd[n] EXCEPT !.reapply = TRUE])
           /\ pc' = [pc EXCEPT ![n] = "applyRecords"]
           /\ UNCHANGED resident
  <2> DEFINE c == [cmd[n] EXCEPT !.reapply = TRUE]
  <2>1. /\ c \in Workpiece /\ c.ev = e /\ c.poff = cmd[n].poff
        /\ c.ws = cmd[n].ws
    BY <1>2, FlagsType DEF Workpiece
  <2>2. SetCmd(n, c)
    BY <1>4
  <2> HIDE DEF c
  <2>3. /\ cmd' \in [Nodes -> Workpiece] /\ cmd'[n] = c
        /\ \A m \in Nodes \ {n} : cmd'[m] = cmd[m]
    BY <2>1, <2>2, SetCmdEffect
  <2>4. HasEvent(n) /\ nextWLogOffset[n][e.ws] = e.woff + 1
    BY <1>1, <1>4 DEF WorkpieceInv
  <2>5. e.ws \in WSIDs /\ e.woff \in 1..MaxOffset
    BY <2>4 DEF HasEvent, Event, Offsets
  <2>6. nextWLogOffset[n][e.ws] - 1 = e.woff
    BY <2>4, <2>5, ConstantsAssumption
  <2>7. /\ nextWLogOffset' \in [Nodes -> [WSIDs -> 1..(MaxOffset + 1)]]
        /\ nextWLogOffset'[n][e.ws] = e.woff
        /\ \A m \in Nodes \ {n} : nextWLogOffset'[m] = nextWLogOffset[m]
    BY <1>4, <2>5, <2>6, ConstantsAssumption DEF TypeOK
  <2>8. OthersUnchanged(n)
    BY <1>1, <1>4, <2>3, <2>7 DEF OthersUnchanged, TypeOK
  <2>9. TypeOK' /\ PLogIsRouted'
    BY <1>1, <1>4, <2>3, <2>7 DEF storage, TypeOK, Stages, PLogIsRouted, Stored
  <2>10. WorkpieceInv(n)'
    BY <1>4, <2>1, <2>3, <2>4, <2>7
       DEF TypeOK, WorkpieceInv, HasEvent, Part, Pending
  <2> QED BY <2>8, <2>9, <2>10, OthersKeepWorkpiece
<1> QED BY <1>3, <1>4 DEF RecoverEnd

LEMMA ExecFailsType ==
    ASSUME TypeInv, NEW n \in Nodes, ExecFails(n)
    PROVE  TypeInv' /\ OthersUnchanged(n)
<1> USE DEF TypeInv
<1>1. Fail(n) /\ UNCHANGED <<storage, announced, acked, memory>>
  BY DEF ExecFails
<1>2. /\ cmd' \in [Nodes -> Workpiece]
      /\ pc' = [pc EXCEPT ![n] = "reply"]
      /\ cmd'[n].failed
      /\ \A m \in Nodes \ {n} : cmd'[m] = cmd[m]
  BY <1>1, FailEffect
<1>3. OthersUnchanged(n)
  BY <1>1, <1>2 DEF memory, OthersUnchanged, TypeOK
<1>4. TypeOK' /\ PLogIsRouted'
  BY <1>1, <1>2 DEF storage, memory, TypeOK, Stages, PLogIsRouted, Stored
<1>5. WorkpieceInv(n)'
  BY <1>2 DEF TypeOK, WorkpieceInv, Pending
<1> QED BY <1>3, <1>4, <1>5, OthersKeepWorkpiece

LEMMA ExecType ==
    ASSUME TypeInv, NEW n \in Nodes, NEW nnew \in 0..MaxNew,
           NEW upd \in SUBSET RecordIDs, Exec(n, nnew, upd)
    PROVE  TypeInv' /\ OthersUnchanged(n)
<1> USE DEF TypeInv
<1> DEFINE w == cmd[n].ws
           p == Part(n)
           e == RawEvent(n, nnew, upd)
           org == Origin(n, upd)
           c == [cmd[n] EXCEPT !.nnew = nnew, !.ev = e,
                               !.poff = nextPLogOffset[n][p], !.origin = org]
<1>1. /\ pc[n] = "exec"
      /\ nextPLogOffset[n][p] <= MaxOffset
      /\ nextWLogOffset[n][w] <= MaxOffset
      /\ nextRecordID[n][w] + nnew - 1 <= MaxRecordID
      /\ SetCmd(n, c)
      /\ pc' = [pc EXCEPT ![n] = "putPLog"]
      /\ UNCHANGED <<storage, announced, acked, memory>>
  BY DEF Exec
<1>2. w \in WSIDs /\ p \in Partitions /\ cmd[n] \in Workpiece
  BY CmdType
<1>3. /\ nextPLogOffset[n][p] \in Offsets
      /\ nextWLogOffset[n][w] \in Offsets
      /\ nextRecordID[n][w] \in 1..(MaxRecordID + 1)
  BY <1>1, <1>2, ConstantsAssumption DEF TypeOK, Offsets
<1>4. NewIDs(n, nnew) \in SUBSET RecordIDs
  BY <1>1, <1>3, ConstantsAssumption DEF NewIDs, RecordIDs
<1>5. e \in Event /\ e.ws = w /\ e.woff = nextWLogOffset[n][w]
  BY <1>2, <1>3, <1>4 DEF RawEvent, Event
<1>6. org \in [RecordIDs -> SUBSET Offsets]
  BY <1>2 DEF Origin, TypeOK
<1> HIDE DEF e, org
<1>7. /\ c \in Workpiece /\ c.ev = e /\ c.poff = nextPLogOffset[n][p]
      /\ c.ws = w /\ c.nnew = nnew /\ c.reapply = cmd[n].reapply
  BY <1>2, <1>3, <1>5, <1>6 DEF Workpiece
<1> HIDE DEF c
<1>8. /\ cmd' \in [Nodes -> Workpiece] /\ cmd'[n] = c
      /\ \A m \in Nodes \ {n} : cmd'[m] = cmd[m]
  BY <1>1, <1>7, SetCmdEffect
<1>9. OthersUnchanged(n)
  BY <1>1, <1>8 DEF memory, OthersUnchanged, TypeOK
<1>10. TypeOK' /\ PLogIsRouted'
  BY <1>1, <1>8 DEF storage, memory, TypeOK, Stages, PLogIsRouted, Stored
<1>11. nextRecordID[n][w] + nnew \in 1..(MaxRecordID + 1)
  BY <1>1, <1>3, ConstantsAssumption
<1>12. WorkpieceInv(n)'
  BY <1>1, <1>3, <1>5, <1>7, <1>8, <1>11
     DEF memory, TypeOK, WorkpieceInv, HasEvent, Part, Pending
<1> QED BY <1>9, <1>10, <1>12, OthersKeepWorkpiece

LEMMA TakeIDsType ==
    ASSUME TypeInv, NEW n \in Nodes, pc[n] = "putPLog", TakeIDs(n)
    PROVE  /\ nextRecordID' \in [Nodes -> [WSIDs -> 1..(MaxRecordID + 1)]]
           /\ \A m \in Nodes \ {n} : nextRecordID'[m] = nextRecordID[m]
<1>1. cmd[n].ws \in WSIDs
  BY CmdType DEF TypeInv
<1>2. nextRecordID[n][cmd[n].ws] + cmd[n].nnew \in 1..(MaxRecordID + 1)
  BY DEF TypeInv, WorkpieceInv
<1> QED BY <1>1, <1>2 DEF TakeIDs, TypeInv, TypeOK

LEMMA PutPLogType ==
    ASSUME TypeInv, NEW n \in Nodes, PutPLog(n)
    PROVE  TypeInv' /\ OthersUnchanged(n)
<1> USE DEF TypeInv
<1> DEFINE p == Part(n)
           k == cmd[n].poff
           e == cmd[n].ev
<1>1. /\ pc[n] = "putPLog"
      /\ plog' = [plog EXCEPT ![p][k] = e]
      /\ nextPLogOffset' = [nextPLogOffset EXCEPT ![n][p] = @ + 1]
      /\ TakeIDs(n)
      /\ pc' = [pc EXCEPT ![n] = "applyRecords"]
      /\ UNCHANGED <<wlog, records, synced, announced, acked, resident,
                     nextWLogOffset, cmd>>
  BY DEF PutPLog
<1>2. p \in Partitions /\ cmd[n] \in Workpiece
  BY CmdType
<1>3. /\ e \in Event /\ k \in Offsets /\ PartitionOf[e.ws] = p
      /\ HasEvent(n) /\ e.ws = cmd[n].ws
      /\ nextPLogOffset[n][p] = k
      /\ nextWLogOffset[n][e.ws] = e.woff
  BY <1>1 DEF WorkpieceInv, HasEvent
<1>4. /\ nextRecordID' \in [Nodes -> [WSIDs -> 1..(MaxRecordID + 1)]]
      /\ \A m \in Nodes \ {n} : nextRecordID'[m] = nextRecordID[m]
  BY <1>1, TakeIDsType
<1>5. /\ nextPLogOffset' \in [Nodes -> [Partitions -> 1..(MaxOffset + 1)]]
      /\ \A m \in Nodes \ {n} : nextPLogOffset'[m] = nextPLogOffset[m]
  BY <1>1, <1>2, <1>3, ConstantsAssumption DEF TypeOK, Offsets
<1>6. plog' \in [Partitions -> [Offsets -> Event \cup {NoEvent}]]
  BY <1>1, <1>2, <1>3 DEF TypeOK
<1>7. OthersUnchanged(n)
  BY <1>1, <1>4, <1>5 DEF OthersUnchanged, TypeOK
<1>8. TypeOK'
  BY <1>1, <1>4, <1>5, <1>6 DEF TypeOK, Stages
<1>9. PLogIsRouted'
  BY <1>1, <1>2, <1>3 DEF PLogIsRouted, Stored, TypeOK
<1>10. WorkpieceInv(n)'
  BY <1>1, <1>3 DEF TypeOK, WorkpieceInv, HasEvent, Part, Pending
<1> QED BY <1>7, <1>8, <1>9, <1>10, OthersKeepWorkpiece

LEMMA PutPLogFailsType ==
    ASSUME TypeInv, NEW n \in Nodes, PutPLogFails(n)
    PROVE  TypeInv' /\ OthersUnchanged(n)
<1> USE DEF TypeInv
<1> DEFINE p == Part(n)
           k == cmd[n].poff
           e == cmd[n].ev
<1>1. /\ pc[n] = "putPLog"
      /\ plog' = plog \/ plog' = [plog EXCEPT ![p][k] = e]
      /\ TakeIDs(n)
      /\ FailAndRestart(n)
      /\ UNCHANGED <<wlog, records, synced, announced, acked, resident,
                     nextPLogOffset, nextWLogOffset>>
  BY DEF PutPLogFails
<1>2. p \in Partitions
  BY CmdType
<1>3. e \in Event /\ k \in Offsets /\ PartitionOf[e.ws] = p
  BY <1>1 DEF WorkpieceInv, HasEvent
<1>4. /\ nextRecordID' \in [Nodes -> [WSIDs -> 1..(MaxRecordID + 1)]]
      /\ \A m \in Nodes \ {n} : nextRecordID'[m] = nextRecordID[m]
  BY <1>1, TakeIDsType
<1>5. /\ cmd' \in [Nodes -> Workpiece]
      /\ pc' = [pc EXCEPT ![n] = "reply"]
      /\ cmd'[n].failed
      /\ \A m \in Nodes \ {n} : cmd'[m] = cmd[m]
  BY <1>1, FailEffect
<1>6. plog' \in [Partitions -> [Offsets -> Event \cup {NoEvent}]]
  <2>1. CASE plog' = plog
    BY <2>1 DEF TypeOK
  <2>2. CASE plog' = [plog EXCEPT ![p][k] = e]
    BY <1>2, <1>3, <2>2 DEF TypeOK
  <2> QED BY <1>1, <2>1, <2>2
<1>7. OthersUnchanged(n)
  BY <1>1, <1>4, <1>5 DEF OthersUnchanged, TypeOK
<1>8. TypeOK'
  BY <1>1, <1>4, <1>5, <1>6 DEF TypeOK, Stages
<1>9. PLogIsRouted'
  <2>1. CASE plog' = plog
    BY <2>1 DEF PLogIsRouted, Stored
  <2>2. CASE plog' = [plog EXCEPT ![p][k] = e]
    BY <1>2, <1>3, <2>2 DEF PLogIsRouted, Stored, TypeOK
  <2> QED BY <1>1, <2>1, <2>2
<1>10. WorkpieceInv(n)'
  BY <1>5 DEF TypeOK, WorkpieceInv, Pending
<1> QED BY <1>7, <1>8, <1>9, <1>10, OthersKeepWorkpiece

-----------------------------------------------------------------------------
LEMMA WriteRecordsType ==
    ASSUME TypeInv, NEW n \in Nodes, NEW ids, HasEvent(n), WriteRecords(n, ids)
    PROVE  records' \in [WSIDs -> [RecordIDs -> SUBSET Offsets]]
<1> DEFINE w == cmd[n].ev.ws
           row == [id \in RecordIDs |-> IF id \in ids THEN RecordValue(n, id)
                                        ELSE records[w][id]]
<1>1. w \in WSIDs /\ cmd[n].poff \in Offsets
  BY DEF HasEvent, Event
<1>2. cmd[n].origin \in [RecordIDs -> SUBSET Offsets]
  BY CmdType DEF TypeInv, Workpiece
<1>3. records \in [WSIDs -> [RecordIDs -> SUBSET Offsets]]
  BY DEF TypeInv, TypeOK
<1>4. \A id \in RecordIDs : RecordValue(n, id) \in SUBSET Offsets
  BY <1>1, <1>2, <1>3 DEF RecordValue
<1>5. row \in [RecordIDs -> SUBSET Offsets]
  BY <1>1, <1>3, <1>4
<1>6. records' = [records EXCEPT ![w] = row]
  BY DEF WriteRecords
<1> QED BY <1>3, <1>5, <1>6

LEMMA ApplyRecordsType ==
    ASSUME TypeInv, NEW n \in Nodes, ApplyRecords(n)
    PROVE  TypeInv' /\ OthersUnchanged(n)
<1> USE DEF TypeInv
<1> DEFINE c == [cmd[n] EXCEPT !.projector = "todo", !.putWLog = "todo"]
<1>1. /\ pc[n] = "applyRecords"
      /\ WriteRecords(n, Touched(cmd[n].ev))
      /\ SetCmd(n, c)
      /\ pc' = [pc EXCEPT ![n] = "store"]
      /\ UNCHANGED <<plog, wlog, synced, announced, acked, memory>>
  BY DEF ApplyRecords
<1>2. /\ HasEvent(n)
      /\ nextWLogOffset[n][cmd[n].ev.ws] = cmd[n].ev.woff
  BY <1>1 DEF WorkpieceInv, Pending
<1>3. /\ c \in Workpiece /\ c.ev = cmd[n].ev /\ c.poff = cmd[n].poff
      /\ c.ws = cmd[n].ws
  BY CmdType, FlagsType DEF Workpiece
<1> HIDE DEF c
<1>4. /\ cmd' \in [Nodes -> Workpiece] /\ cmd'[n] = c
      /\ \A m \in Nodes \ {n} : cmd'[m] = cmd[m]
  BY <1>1, <1>3, SetCmdEffect
<1>5. records' \in [WSIDs -> [RecordIDs -> SUBSET Offsets]]
  BY <1>1, <1>2, WriteRecordsType
<1>6. OthersUnchanged(n)
  BY <1>1, <1>4 DEF memory, OthersUnchanged, TypeOK
<1>7. TypeOK' /\ PLogIsRouted'
  BY <1>1, <1>4, <1>5 DEF memory, TypeOK, Stages, PLogIsRouted, Stored
<1>8. WorkpieceInv(n)'
  BY <1>1, <1>2, <1>3, <1>4
     DEF memory, TypeOK, WorkpieceInv, HasEvent, Part, Pending
<1> QED BY <1>6, <1>7, <1>8, OthersKeepWorkpiece

LEMMA ApplyRecordsFailsType ==
    ASSUME TypeInv, NEW n \in Nodes, NEW ids \in SUBSET RecordIDs,
           ApplyRecordsFails(n, ids)
    PROVE  TypeInv' /\ OthersUnchanged(n)
<1> USE DEF TypeInv
<1>1. /\ pc[n] = "applyRecords"
      /\ WriteRecords(n, ids)
      /\ FailAndRestart(n)
      /\ UNCHANGED <<plog, wlog, synced, announced, acked, memory>>
  BY DEF ApplyRecordsFails
<1>2. HasEvent(n)
  BY <1>1 DEF WorkpieceInv
<1>3. /\ cmd' \in [Nodes -> Workpiece]
      /\ pc' = [pc EXCEPT ![n] = "reply"]
      /\ cmd'[n].failed
      /\ \A m \in Nodes \ {n} : cmd'[m] = cmd[m]
  BY <1>1, FailEffect
<1>4. records' \in [WSIDs -> [RecordIDs -> SUBSET Offsets]]
  BY <1>1, <1>2, WriteRecordsType
<1>5. OthersUnchanged(n)
  BY <1>1, <1>3 DEF memory, OthersUnchanged, TypeOK
<1>6. TypeOK' /\ PLogIsRouted'
  BY <1>1, <1>3, <1>4 DEF memory, TypeOK, Stages, PLogIsRouted, Stored
<1>7. WorkpieceInv(n)'
  BY <1>3 DEF TypeOK, WorkpieceInv, Pending
<1> QED BY <1>5, <1>6, <1>7, OthersKeepWorkpiece

LEMMA SyncProjectorsType ==
    ASSUME TypeInv, NEW n \in Nodes, SyncProjectors(n)
    PROVE  TypeInv' /\ OthersUnchanged(n)
<1> USE DEF TypeInv
<1>1. /\ pc[n] = "store"
      /\ UNCHANGED <<plog, wlog, records, announced, acked, memory, pc>>
  BY DEF SyncProjectors
<1>2. /\ HasEvent(n) /\ Part(n) \in Partitions
      /\ cmd[n].putWLog # "ok" =>
             nextWLogOffset[n][cmd[n].ev.ws] = cmd[n].ev.woff
  BY <1>1, CmdType DEF WorkpieceInv, Pending
<1>3. synced' \in [Partitions -> SUBSET Offsets]
  <2>1. CASE synced' = synced
    BY <2>1 DEF TypeOK
  <2>2. CASE synced' = [synced EXCEPT ![Part(n)] = @ \cup {cmd[n].poff}]
    BY <1>2, <2>2 DEF TypeOK, HasEvent
  <2> QED BY <2>1, <2>2 DEF SyncProjectors
<1>4. PICK c \in Workpiece :
         /\ SetCmd(n, c)
         /\ c.ev = cmd[n].ev /\ c.poff = cmd[n].poff /\ c.ws = cmd[n].ws
         /\ c.putWLog = cmd[n].putWLog
  <2>1. cmd[n] \in Workpiece
    BY CmdType
  <2>2. CASE SetCmd(n, [cmd[n] EXCEPT !.projector = "ok"])
    <3> DEFINE d == [cmd[n] EXCEPT !.projector = "ok"]
    <3>1. /\ d \in Workpiece /\ d.ev = cmd[n].ev /\ d.poff = cmd[n].poff
          /\ d.ws = cmd[n].ws /\ d.putWLog = cmd[n].putWLog
      BY <2>1, FlagsType DEF Workpiece
    <3> QED BY <2>2, <3>1
  <2>3. CASE SetCmd(n, [cmd[n] EXCEPT !.projector = "err", !.restart = TRUE])
    <3> DEFINE d == [cmd[n] EXCEPT !.projector = "err", !.restart = TRUE]
    <3>1. /\ d \in Workpiece /\ d.ev = cmd[n].ev /\ d.poff = cmd[n].poff
          /\ d.ws = cmd[n].ws /\ d.putWLog = cmd[n].putWLog
      BY <2>1, FlagsType DEF Workpiece
    <3> QED BY <2>3, <3>1
  <2> QED BY <2>2, <2>3 DEF SyncProjectors
<1>5. /\ cmd' \in [Nodes -> Workpiece] /\ cmd'[n] = c
      /\ \A m \in Nodes \ {n} : cmd'[m] = cmd[m]
  BY <1>4, SetCmdEffect
<1>6. OthersUnchanged(n)
  BY <1>1, <1>5 DEF memory, OthersUnchanged, TypeOK
<1>7. TypeOK' /\ PLogIsRouted'
  BY <1>1, <1>3, <1>5 DEF memory, TypeOK, PLogIsRouted, Stored
<1>8. WorkpieceInv(n)'
  BY <1>1, <1>2, <1>4, <1>5
     DEF memory, TypeOK, WorkpieceInv, HasEvent, Part, Pending
<1> QED BY <1>6, <1>7, <1>8, OthersKeepWorkpiece

LEMMA PutWLogType ==
    ASSUME TypeInv, NEW n \in Nodes, PutWLog(n)
    PROVE  TypeInv' /\ OthersUnchanged(n)
<1> USE DEF TypeInv
<1> DEFINE e == cmd[n].ev
           c == [cmd[n] EXCEPT !.putWLog = "ok"]
<1>1. /\ pc[n] = "store" /\ cmd[n].putWLog = "todo"
      /\ wlog' = [wlog EXCEPT ![e.ws][e.woff] = cmd[n].poff]
      /\ nextWLogOffset' = [nextWLogOffset EXCEPT ![n][e.ws] = @ + 1]
      /\ SetCmd(n, c)
      /\ UNCHANGED <<plog, records, synced, announced, acked, resident,
                     nextPLogOffset, nextRecordID, pc>>
  BY DEF PutWLog
<1>2. HasEvent(n) /\ nextWLogOffset[n][e.ws] = e.woff
  BY <1>1 DEF WorkpieceInv, Pending
<1>3. e.ws \in WSIDs /\ e.woff \in Offsets /\ cmd[n].poff \in Offsets
  BY <1>2 DEF HasEvent, Event
<1>4. /\ c \in Workpiece /\ c.ev = e /\ c.poff = cmd[n].poff
      /\ c.ws = cmd[n].ws /\ c.putWLog = "ok"
  BY CmdType, FlagsType DEF Workpiece
<1> HIDE DEF c
<1>5. /\ cmd' \in [Nodes -> Workpiece] /\ cmd'[n] = c
      /\ \A m \in Nodes \ {n} : cmd'[m] = cmd[m]
  BY <1>1, <1>4, SetCmdEffect
<1>6. wlog' \in [WSIDs -> [Offsets -> Offsets \cup {0}]]
  BY <1>1, <1>3 DEF TypeOK
<1>7. e.woff + 1 \in 1..(MaxOffset + 1)
  BY <1>3, ConstantsAssumption DEF Offsets
<1>8. /\ nextWLogOffset' \in [Nodes -> [WSIDs -> 1..(MaxOffset + 1)]]
      /\ \A m \in Nodes \ {n} : nextWLogOffset'[m] = nextWLogOffset[m]
  BY <1>1, <1>2, <1>3, <1>7 DEF TypeOK
<1>9. OthersUnchanged(n)
  BY <1>1, <1>5, <1>8 DEF OthersUnchanged, TypeOK
<1>10. TypeOK' /\ PLogIsRouted'
  BY <1>1, <1>5, <1>6, <1>8 DEF TypeOK, PLogIsRouted, Stored
<1>11. WorkpieceInv(n)'
  BY <1>1, <1>2, <1>4, <1>5 DEF TypeOK, WorkpieceInv, HasEvent, Part, Pending
<1> QED BY <1>9, <1>10, <1>11, OthersKeepWorkpiece

LEMMA PutWLogFailsType ==
    ASSUME TypeInv, NEW n \in Nodes, PutWLogFails(n)
    PROVE  TypeInv' /\ OthersUnchanged(n)
<1> USE DEF TypeInv
<1> DEFINE e == cmd[n].ev
           c == [cmd[n] EXCEPT !.putWLog = "err", !.restart = TRUE]
<1>1. /\ pc[n] = "store" /\ cmd[n].putWLog = "todo"
      /\ wlog' = wlog \/ wlog' = [wlog EXCEPT ![e.ws][e.woff] = cmd[n].poff]
      /\ SetCmd(n, c)
      /\ UNCHANGED <<plog, records, synced, announced, acked, memory, pc>>
  BY DEF PutWLogFails
<1>2. HasEvent(n) /\ nextWLogOffset[n][e.ws] = e.woff
  BY <1>1 DEF WorkpieceInv, Pending
<1>3. e.ws \in WSIDs /\ e.woff \in Offsets /\ cmd[n].poff \in Offsets
  BY <1>2 DEF HasEvent, Event
<1>4. /\ c \in Workpiece /\ c.ev = e /\ c.poff = cmd[n].poff
      /\ c.ws = cmd[n].ws
  BY CmdType, FlagsType DEF Workpiece
<1> HIDE DEF c
<1>5. /\ cmd' \in [Nodes -> Workpiece] /\ cmd'[n] = c
      /\ \A m \in Nodes \ {n} : cmd'[m] = cmd[m]
  BY <1>1, <1>4, SetCmdEffect
<1>6. wlog' \in [WSIDs -> [Offsets -> Offsets \cup {0}]]
  <2>1. CASE wlog' = wlog
    BY <2>1 DEF TypeOK
  <2>2. CASE wlog' = [wlog EXCEPT ![e.ws][e.woff] = cmd[n].poff]
    BY <1>3, <2>2 DEF TypeOK
  <2> QED BY <1>1, <2>1, <2>2
<1>7. OthersUnchanged(n)
  BY <1>1, <1>5 DEF memory, OthersUnchanged, TypeOK
<1>8. TypeOK' /\ PLogIsRouted'
  BY <1>1, <1>5, <1>6 DEF memory, TypeOK, PLogIsRouted, Stored
<1>9. WorkpieceInv(n)'
  BY <1>1, <1>2, <1>4, <1>5
     DEF memory, TypeOK, WorkpieceInv, HasEvent, Part, Pending
<1> QED BY <1>7, <1>8, <1>9, OthersKeepWorkpiece

LEMMA StoreDoneType ==
    ASSUME TypeInv, NEW n \in Nodes, StoreDone(n)
    PROVE  TypeInv' /\ OthersUnchanged(n)
<1> USE DEF TypeInv
<1>1. /\ pc[n] = "store"
      /\ UNCHANGED <<storage, announced, acked, nextPLogOffset,
                     nextWLogOffset, nextRecordID>>
  BY DEF StoreDone
<1>2. HasEvent(n) /\ Part(n) \in Partitions
  BY <1>1, CmdType DEF WorkpieceInv
<1>3. CASE Fail(n) /\ UNCHANGED resident
  <2>1. /\ cmd' \in [Nodes -> Workpiece]
        /\ pc' = [pc EXCEPT ![n] = "reply"]
        /\ cmd'[n].failed
        /\ \A m \in Nodes \ {n} : cmd'[m] = cmd[m]
    BY <1>3, FailEffect
  <2>2. OthersUnchanged(n)
    BY <1>1, <1>3, <2>1 DEF OthersUnchanged, TypeOK
  <2>3. TypeOK' /\ PLogIsRouted'
    BY <1>1, <1>3, <2>1 DEF storage, TypeOK, Stages, PLogIsRouted, Stored
  <2>4. WorkpieceInv(n)'
    BY <2>1 DEF TypeOK, WorkpieceInv, Pending
  <2> QED BY <2>2, <2>3, <2>4, OthersKeepWorkpiece
<1>4. CASE /\ Recovered(n)
           /\ SetCmd(n, NewWorkpiece(cmd[n].ws, cmd[n].createWS))
  <2> DEFINE c == NewWorkpiece(cmd[n].ws, cmd[n].createWS)
  <2>1. c \in Workpiece /\ c.ev = NoEvent /\ ~c.reapply
    BY CmdType, NewWorkpieceType
  <2>2. SetCmd(n, c) /\ pc' = [pc EXCEPT ![n] = "exec"]
        /\ resident' = [resident EXCEPT ![n] = @ \cup {Part(n)}]
    BY <1>4 DEF Recovered
  <2> HIDE DEF c
  <2>3. /\ cmd' \in [Nodes -> Workpiece] /\ cmd'[n] = c
        /\ \A m \in Nodes \ {n} : cmd'[m] = cmd[m]
    BY <2>1, <2>2, SetCmdEffect
  <2>4. OthersUnchanged(n)
    BY <1>1, <2>2, <2>3 DEF OthersUnchanged, TypeOK
  <2>5. TypeOK' /\ PLogIsRouted'
    BY <1>1, <1>2, <2>2, <2>3
       DEF storage, TypeOK, Stages, PLogIsRouted, Stored
  <2>6. WorkpieceInv(n)'
    BY <2>1, <2>2, <2>3 DEF TypeOK, WorkpieceInv, Pending
  <2> QED BY <2>4, <2>5, <2>6, OthersKeepWorkpiece
<1>5. CASE /\ pc' = [pc EXCEPT ![n] = "notify"]
           /\ UNCHANGED <<resident, cmd>>
  <2>1. OthersUnchanged(n)
    BY <1>1, <1>5 DEF OthersUnchanged, TypeOK
  <2>2. TypeOK' /\ PLogIsRouted'
    BY <1>1, <1>5 DEF storage, TypeOK, Stages, PLogIsRouted, Stored
  <2>3. WorkpieceInv(n)'
    BY <1>2, <1>5 DEF TypeOK, WorkpieceInv, HasEvent, Part, Pending
  <2> QED BY <2>1, <2>2, <2>3, OthersKeepWorkpiece
<1> QED BY <1>3, <1>4, <1>5 DEF StoreDone

LEMMA NotifyType ==
    ASSUME TypeInv, NEW n \in Nodes, NotifyAsyncActualizers(n)
    PROVE  TypeInv' /\ OthersUnchanged(n)
<1> USE DEF TypeInv
<1>1. /\ pc[n] = "notify"
      /\ announced' = [announced EXCEPT ![Part(n)] = @ \cup {cmd[n].poff}]
      /\ pc' = [pc EXCEPT ![n] = "reply"]
      /\ UNCHANGED <<storage, acked, memory, cmd>>
  BY DEF NotifyAsyncActualizers, GoReply
<1>2. HasEvent(n) /\ Part(n) \in Partitions
  BY <1>1, CmdType DEF WorkpieceInv
<1>3. announced' \in [Partitions -> SUBSET Offsets]
  BY <1>1, <1>2 DEF TypeOK, HasEvent
<1>4. OthersUnchanged(n)
  BY <1>1 DEF memory, OthersUnchanged, TypeOK
<1>5. TypeOK' /\ PLogIsRouted'
  BY <1>1, <1>3 DEF storage, memory, TypeOK, Stages, PLogIsRouted, Stored
<1>6. WorkpieceInv(n)'
  BY <1>1, <1>2 DEF memory, TypeOK, WorkpieceInv, HasEvent, Part, Pending
<1> QED BY <1>4, <1>5, <1>6, OthersKeepWorkpiece

-----------------------------------------------------------------------------
LEMMA ForgetEffect ==
    ASSUME TypeOK, NEW n \in Nodes, NEW keep \in SUBSET Partitions,
           Forget(n, keep)
    PROVE  /\ resident' \in [Nodes -> SUBSET Partitions]
           /\ nextPLogOffset' \in [Nodes -> [Partitions -> 1..(MaxOffset + 1)]]
           /\ nextWLogOffset' \in [Nodes -> [WSIDs -> 1..(MaxOffset + 1)]]
           /\ nextRecordID' \in [Nodes -> [WSIDs -> 1..(MaxRecordID + 1)]]
           /\ \A m \in Nodes \ {n} :
                 /\ resident'[m] = resident[m]
                 /\ nextPLogOffset'[m] = nextPLogOffset[m]
                 /\ nextWLogOffset'[m] = nextWLogOffset[m]
                 /\ nextRecordID'[m] = nextRecordID[m]
<1>1. 1 \in 1..(MaxOffset + 1) /\ 1 \in 1..(MaxRecordID + 1)
  BY ConstantsAssumption
<1>2. [p \in Partitions |-> IF p \in keep THEN nextPLogOffset[n][p] ELSE 1]
        \in [Partitions -> 1..(MaxOffset + 1)]
  BY <1>1 DEF TypeOK
<1>3. [w \in WSIDs |-> IF PartitionOf[w] \in keep THEN nextWLogOffset[n][w]
                       ELSE 1] \in [WSIDs -> 1..(MaxOffset + 1)]
  BY <1>1 DEF TypeOK
<1>4. [w \in WSIDs |-> IF PartitionOf[w] \in keep THEN nextRecordID[n][w]
                       ELSE 1] \in [WSIDs -> 1..(MaxRecordID + 1)]
  BY <1>1 DEF TypeOK
<1>5. resident' \in [Nodes -> SUBSET Partitions]
      /\ \A m \in Nodes \ {n} : resident'[m] = resident[m]
  BY DEF Forget, TypeOK
<1>6. nextPLogOffset' \in [Nodes -> [Partitions -> 1..(MaxOffset + 1)]]
      /\ \A m \in Nodes \ {n} : nextPLogOffset'[m] = nextPLogOffset[m]
  BY <1>2 DEF Forget, TypeOK
<1>7. nextWLogOffset' \in [Nodes -> [WSIDs -> 1..(MaxOffset + 1)]]
      /\ \A m \in Nodes \ {n} : nextWLogOffset'[m] = nextWLogOffset[m]
  BY <1>3 DEF Forget, TypeOK
<1>8. nextRecordID' \in [Nodes -> [WSIDs -> 1..(MaxRecordID + 1)]]
      /\ \A m \in Nodes \ {n} : nextRecordID'[m] = nextRecordID[m]
  BY <1>4 DEF Forget, TypeOK
<1> QED BY <1>5, <1>6, <1>7, <1>8

LEMMA ReplyType ==
    ASSUME TypeInv, NEW n \in Nodes, Reply(n)
    PROVE  TypeInv' /\ OthersUnchanged(n)
<1> USE DEF TypeInv
<1> DEFINE c == NewWorkpiece(cmd[n].ws, FALSE)
           keep == IF cmd[n].restart THEN {} ELSE resident[n]
<1>1. /\ pc[n] = "reply"
      /\ acked' = IF cmd[n].failed THEN acked
                  ELSE [acked EXCEPT ![Part(n)] = @ \cup
                          {[poff |-> cmd[n].poff, ev |-> cmd[n].ev]}]
      /\ Forget(n, keep)
      /\ SetCmd(n, c)
      /\ pc' = [pc EXCEPT ![n] = "idle"]
      /\ UNCHANGED <<storage, announced>>
  BY DEF Reply
<1>2. keep \in SUBSET Partitions
  BY DEF TypeOK
<1>3. c \in Workpiece
  BY CmdType, NewWorkpieceType
<1> HIDE DEF c, keep
<1>4. /\ cmd' \in [Nodes -> Workpiece]
      /\ \A m \in Nodes \ {n} : cmd'[m] = cmd[m]
  BY <1>1, <1>3, SetCmdEffect
<1>5. acked' \in [Partitions -> SUBSET [poff : Offsets, ev : Event]]
  <2>1. CASE cmd[n].failed
    BY <1>1, <2>1 DEF TypeOK
  <2>2. CASE ~cmd[n].failed
    <3>1. [poff |-> cmd[n].poff, ev |-> cmd[n].ev]
             \in [poff : Offsets, ev : Event]
      BY <1>1, <2>2 DEF WorkpieceInv, HasEvent
    <3>2. acked' = [acked EXCEPT ![Part(n)] = @ \cup
                      {[poff |-> cmd[n].poff, ev |-> cmd[n].ev]}]
      BY <1>1, <2>2
    <3>3. Part(n) \in Partitions
      BY CmdType
    <3> QED BY <3>1, <3>2, <3>3 DEF TypeOK
  <2> QED BY <2>1, <2>2
<1>6. OthersUnchanged(n)
  BY <1>1, <1>2, <1>4, ForgetEffect DEF OthersUnchanged, TypeOK
<1>7. TypeOK' /\ PLogIsRouted'
  <2>1. /\ resident' \in [Nodes -> SUBSET Partitions]
        /\ nextPLogOffset' \in [Nodes -> [Partitions -> 1..(MaxOffset + 1)]]
        /\ nextWLogOffset' \in [Nodes -> [WSIDs -> 1..(MaxOffset + 1)]]
        /\ nextRecordID' \in [Nodes -> [WSIDs -> 1..(MaxRecordID + 1)]]
    BY <1>1, <1>2, ForgetEffect
  <2>2. pc' \in [Nodes -> Stages]
    BY <1>1 DEF TypeOK, Stages
  <2> QED
    BY <1>1, <1>4, <1>5, <2>1, <2>2 DEF storage, TypeOK, PLogIsRouted, Stored
<1>8. WorkpieceInv(n)'
  BY <1>1 DEF TypeOK, WorkpieceInv, Pending
<1> QED BY <1>6, <1>7, <1>8, OthersKeepWorkpiece

LEMMA CrashType ==
    ASSUME TypeInv, NEW n \in Nodes, Crash(n)
    PROVE  TypeInv' /\ OthersUnchanged(n)
<1> USE DEF TypeInv
<1> DEFINE c == NewWorkpiece(cmd[n].ws, FALSE)
<1>1. /\ Forget(n, {})
      /\ SetCmd(n, c)
      /\ pc' = [pc EXCEPT ![n] = "idle"]
      /\ UNCHANGED <<storage, announced, acked>>
  BY DEF Crash
<1>2. c \in Workpiece
  BY CmdType, NewWorkpieceType
<1> HIDE DEF c
<1>3. /\ cmd' \in [Nodes -> Workpiece]
      /\ \A m \in Nodes \ {n} : cmd'[m] = cmd[m]
  BY <1>1, <1>2, SetCmdEffect
<1>4. OthersUnchanged(n)
  BY <1>1, <1>3, ForgetEffect DEF OthersUnchanged, TypeOK
<1>5. TypeOK' /\ PLogIsRouted'
  BY <1>1, <1>3, ForgetEffect
     DEF storage, TypeOK, Stages, PLogIsRouted, Stored
<1>6. WorkpieceInv(n)'
  BY <1>1 DEF TypeOK, WorkpieceInv, Pending
<1> QED BY <1>4, <1>5, <1>6, OthersKeepWorkpiece

-----------------------------------------------------------------------------
LEMMA InitType == Init => TypeInv
<1> SUFFICES ASSUME Init PROVE TypeInv
  OBVIOUS
<1>1. 1 \in 1..(MaxOffset + 1) /\ 1 \in 1..(MaxRecordID + 1)
  BY ConstantsAssumption
<1>2. cmd \in [Nodes -> Workpiece]
  BY NewWorkpieceType DEF Init
<1>3. TypeOK
  BY <1>1, <1>2 DEF Init, TypeOK, Stages
<1>4. PLogIsRouted
  BY DEF Init, PLogIsRouted, Stored
<1>5. \A n \in Nodes : WorkpieceInv(n)
  BY DEF Init, WorkpieceInv, Pending
<1> QED BY <1>3, <1>4, <1>5 DEF TypeInv

LEMMA NextType == TypeInv /\ [Next]_vars => TypeInv'
<1> SUFFICES ASSUME TypeInv, [Next]_vars PROVE TypeInv'
  OBVIOUS
<1>1. CASE Next
  <2>1. PICK n \in Nodes :
            \/ \E w \in WSIDs, b \in BOOLEAN : Accept(n, w, b)
            \/ Step(n)
            \/ Crash(n)
    BY <1>1 DEF Next
  <2>2. CASE Recovery(n)
    BY <2>2, RecoverEventType, RecoverReadFailsType, RecoverEndType
       DEF Recovery
  <2>3. CASE Execution(n)
    BY <2>3, ExecFailsType, ExecType, PutPLogType, PutPLogFailsType
       DEF Execution, UpdateSets
  <2>4. CASE Store(n)
    BY <2>4, ApplyRecordsType, ApplyRecordsFailsType, SyncProjectorsType,
       PutWLogType, PutWLogFailsType, StoreDoneType DEF Store
  <2> QED
    BY <2>1, <2>2, <2>3, <2>4, AcceptType, NotifyType, ReplyType, CrashType
       DEF Step
<1>2. CASE UNCHANGED vars
  <2>1. UNCHANGED <<plog, wlog, records, synced, announced, acked, resident,
                    nextPLogOffset, nextWLogOffset, nextRecordID, pc, cmd>>
    BY <1>2 DEF vars, storage, memory
  <2>2. TypeOK' /\ PLogIsRouted'
    BY <2>1 DEF TypeInv, TypeOK, PLogIsRouted, Stored
  <2>3. \A n \in Nodes : WorkpieceInv(n)'
    BY <2>1 DEF TypeInv, WorkpieceInv, HasEvent, Part, Pending
  <2> QED BY <2>2, <2>3 DEF TypeInv
<1> QED BY <1>1, <1>2

\* Type correctness, with the ranges the offsets keep in every stage of the
\* command pipeline and of the recovery.
THEOREM TypeCorrectness == Spec => [](TypeInv /\ TypeOK)
<1>1. TypeInv => TypeOK
  BY DEF TypeInv
<1> QED BY <1>1, InitType, NextType, PTL DEF Spec
=============================================================================
