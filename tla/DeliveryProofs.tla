--------------------------- MODULE DeliveryProofs ---------------------------
(***************************************************************************)
(* Nothing is lost on the way to a client: the notifications of the broker *)
(* (no wake-up is lost and no quota leaks, for any number of channels,     *)
(* projections and subjects, any quotas and any size of the event queue)   *)
(* and the rows and errors of a query request (for any number of rows).    *)
(***************************************************************************)
EXTENDS N10nBroker, QueryRequest, FiniteSetTheorems, TLAPS

-----------------------------------------------------------------------------
(***************************************************************************)
(* A query request: no row and no error is lost between the query function *)
(* and the client.                                                         *)
(***************************************************************************)
Items == {"row", "error"}
Slots == {<<>>, <<"row">>, <<"error">>}  \* what a channel of one item holds

\* What an operator emits: rows, or one error.
Emitted == Seq({"row"}) \cup {<<"error">>}

ClientType ==
    /\ apiV2 \in BOOLEAN /\ ordered \in BOOLEAN /\ ctxDone \in BOOLEAN
    /\ caller \in {"call", "wait", "single", "open", "reply", "write", "drain", "done"}
    /\ received \in Nat /\ answer \in {"none", "complete", "error", "cut"}

BusType ==
    /\ meta \in {"none", "stream", "single", "taken"}
    /\ respCh \in Slots /\ respClosed \in BOOLEAN /\ resultErr \in BOOLEAN

ProcessorTypeOK ==
    /\ qp \in {"free", "queued", "exec", "close", "respond", "done"}
    /\ produced \in Nat /\ qpErr \in BOOLEAN

PipelineType ==
    /\ stdin \in [1..PipelineOut -> Slots] /\ closed \in SUBSET (1..PipelineOut)
    /\ out \in [Operators -> Emitted]
    /\ opErr \in SUBSET Operators /\ held \in Nat
    /\ hand \in Items \cup {"none"} /\ errCh \in BOOLEAN

QueryTypeOK == ClientType /\ BusType /\ ProcessorTypeOK /\ PipelineType

\* An operator closes its Stdout when nothing can come any more.
ClosingInv ==
    /\ \A op \in Operators : op + 1 \in closed => Finished(op)
    /\ OrderOp + 1 \in closed => held = 0
    /\ OrderOp \in opErr => OrderOp \in closed /\ stdin[OrderOp] = <<>>
    /\ RowOp \in closed => qp \in {"close", "respond", "done"}

\* How far the processor, the bus and the goroutine of the request are.
StageInv ==
    /\ qp \in {"free", "queued"} =>
          /\ stdin = [i \in 1..PipelineOut |-> <<>>] /\ closed = {}
          /\ out = [op \in Operators |-> <<>>]
          /\ opErr = {} /\ held = 0 /\ hand = "none"
          /\ produced = 0 /\ received = 0 /\ meta # "stream"
          /\ caller \in {"call", "wait", "single", "done"}
    /\ caller = "call" => qp = "free" /\ meta = "none" /\ respCh = <<>> /\ ~respClosed
    /\ caller = "wait" => meta # "taken"
    /\ caller \in {"drain", "done"} => ctxDone
    /\ caller = "single" \/ meta = "single" => qp = "free"
    /\ qp = "queued" => respCh = <<>> /\ meta = "none"
    /\ qp # "free" /\ respClosed => qp = "done"
    /\ qp \in {"free", "queued", "exec", "close", "respond"} => ~resultErr
    /\ qp = "respond" => qpErr \/ PipelineOut \in closed
    /\ qp = "done" /\ ~resultErr => ~qpErr /\ ~errCh /\ PipelineOut \in closed

\* Every row that is not with the client yet is somewhere on its way.
One(b) == IF b THEN 1 ELSE 0

InRowOp   == Len(stdin[RowOp])
OutRowOp  == Len(out[RowOp])
InOrderOp == Len(stdin[OrderOp])
OutOrderOp == Len(out[OrderOp])
InSendOp  == Len(stdin[SendOp])
InHand    == One(hand = "row")
InBus     == Len(respCh)
InRouter  == One(caller = "write")

OnTheWay ==
    InRowOp + OutRowOp + InOrderOp + held + OutOrderOp + InSendOp + InHand + InBus + InRouter

\* An error is on its way to the sender ...
ErrorComes ==
    \/ out[RowOp] = <<"error">> \/ stdin[OrderOp] = <<"error">>
    \/ out[OrderOp] = <<"error">> \/ stdin[SendOp] = <<"error">> \/ hand = "error"

\* ... and ends in the error of the response.
ErrorArrives == opErr # {} => ErrorComes \/ errCh \/ resultErr

RowsArrive == opErr = {} /\ qp # "free" => received + OnTheWay = produced

\* What the response and its end promise, as long as somebody listens.
NothingIsLost ==
    /\ stdin[RowOp] # <<"error">>
    /\ ErrorComes => opErr # {}
    /\ ~ctxDone /\ SendOp \notin opErr => ErrorArrives /\ RowsArrive

EndInv ==
    /\ answer = "complete" =>
          /\ caller = "done" /\ qp = "done" /\ PipelineOut \in closed
          /\ CleanEndIsComplete
    /\ answer # "none" => ctxDone

QueryInv == QueryTypeOK /\ ClosingInv /\ StageInv /\ NothingIsLost /\ EndInv

-----------------------------------------------------------------------------
USE DEF RowOp, OrderOp, SendOp, Releaser, PipelineOut, Operators

LEMMA Five == /\ 1..5 = {1, 2, 3, 4, 5} /\ 1..4 = {1, 2, 3, 4}
              /\ \A op \in 1..4 : op \in 1..5 /\ op + 1 \in 1..5 /\ op # op + 1
OBVIOUS

LEMMA EmittedFacts ==
    /\ <<>> \in Emitted /\ <<"row">> \in Emitted /\ <<"error">> \in Emitted
    /\ \A n \in Nat : [i \in 1..n |-> "row"] \in Emitted
    /\ \A s \in Emitted : Len(s) \in Nat
    /\ \A s \in Emitted : s # <<>> =>
          /\ Head(s) \in Items /\ Tail(s) \in Emitted
          /\ Len(s) = Len(Tail(s)) + 1
          /\ Head(s) = "error" => s = <<"error">>
          /\ Tail(s) # <<"error">> /\ (s # <<"error">> => Head(s) = "row")
<1>1. <<>> \in Emitted /\ <<"row">> \in Emitted /\ <<"error">> \in Emitted  BY DEF Emitted
<1>2. \A n \in Nat : [i \in 1..n |-> "row"] \in Emitted  BY DEF Emitted
<1>3. \A s \in Emitted : Len(s) \in Nat  BY DEF Emitted
<1>4. ASSUME NEW s \in Emitted, s # <<>>
      PROVE  /\ Head(s) \in Items /\ Tail(s) \in Emitted
             /\ Len(s) = Len(Tail(s)) + 1
             /\ Head(s) = "error" => s = <<"error">>
             /\ Tail(s) # <<"error">> /\ (s # <<"error">> => Head(s) = "row")
  <2>1. CASE s \in Seq({"row"})
    <3>1. Head(s) = "row" /\ Tail(s) \in Seq({"row"}) /\ Len(s) = Len(Tail(s)) + 1
      BY <1>4, <2>1
    <3>2. <<"error">> \notin Seq({"row"})
      <4>1. ASSUME <<"error">> \in Seq({"row"})  PROVE FALSE
        <5>1. Head(<<"error">>) \in {"row"}  BY <4>1
        <5> QED  BY <5>1
      <4> QED  BY <4>1
    <3> QED  BY <3>1, <3>2 DEF Emitted, Items
  <2>2. CASE s = <<"error">>
    <3>1. Head(s) = "error" /\ Tail(s) = <<>> /\ Len(s) = 1 /\ Len(Tail(s)) = 0
      BY <2>2
    <3> QED  BY <1>1, <2>2, <3>1 DEF Items
  <2> QED  BY <2>1, <2>2 DEF Emitted
<1> QED  BY <1>1, <1>2, <1>3, <1>4

LEMMA QueryTypeInit == QueryInit => QueryTypeOK
<1> SUFFICES ASSUME QueryInit  PROVE QueryTypeOK
  OBVIOUS
<1> QED
  BY EmittedFacts
     DEF QueryInit, QueryTypeOK, ClientType, BusType, ProcessorTypeOK, PipelineType, Slots, Items

LEMMA TypeStays ==
    /\ ClientType /\ UNCHANGED clientVars => ClientType'
    /\ BusType /\ UNCHANGED busVars => BusType'
    /\ ProcessorTypeOK /\ UNCHANGED qpVars => ProcessorTypeOK'
    /\ PipelineType /\ UNCHANGED pipelineVars => PipelineType'
BY DEF ClientType, BusType, ProcessorTypeOK, PipelineType, clientVars, busVars, qpVars,
       pipelineVars

\* The steps of the goroutine of the HTTP request.
LEMMA CallerTypes ==
    ASSUME QueryTypeOK, StageInv, SendRequest \/ HTTPRequestStep \/ SocketWrites \/ ClientLeaves
    PROVE  QueryTypeOK'
<1> USE TypeStays DEF QueryTypeOK, CallerEnds
<1>1. CASE SendRequest
  <2>1. ClientType' /\ PipelineType'
    BY <1>1 DEF SendRequest, ClientType
  <2>2. BusType' /\ ProcessorTypeOK'
    BY <1>1 DEF SendRequest, BusType, ProcessorTypeOK, Slots
  <2> QED  BY <2>1, <2>2
<1>2. CASE WaiterTakesMeta
  <2>1. ClientType'
    <3>1. CASE ctxDone  BY <1>2, <3>1 DEF WaiterTakesMeta, ClientType
    <3>2. CASE ~ctxDone
      <4>1. caller' \in {"single", "open", "reply"}
        BY <1>2, <3>2 DEF WaiterTakesMeta, BusType, StageInv
      <4> QED  BY <1>2, <3>2, <4>1 DEF WaiterTakesMeta, ClientType
    <3> QED  BY <3>1, <3>2
  <2>2. BusType'  BY <1>2 DEF WaiterTakesMeta, BusType
  <2> QED  BY <1>2, <2>1, <2>2 DEF WaiterTakesMeta
<1>3. CASE WaiterSeesContext  BY <1>3 DEF WaiterSeesContext, ClientType
<1>4. CASE ReplyTakes
  <2>1. ClientType'  BY <1>4 DEF ReplyTakes, ClientType
  <2>2. BusType'  BY <1>4 DEF ReplyTakes, BusType, Slots
  <2> QED  BY <1>4, <2>1, <2>2 DEF ReplyTakes
<1>5. CASE ReplyDrains
  <2>1. ClientType'  BY <1>5 DEF ReplyDrains, ClientType
  <2>2. BusType'  BY <1>5 DEF ReplyDrains, BusType, Slots
  <2> QED  BY <1>5, <2>1, <2>2 DEF ReplyDrains
<1>6. CASE ReplyOpens  BY <1>6 DEF ReplyOpens, ClientType
<1>7. CASE ReplyWrites  BY <1>7 DEF ReplyWrites, ClientType
<1>8. CASE ReplyFails  BY <1>8 DEF ReplyFails, ClientType
<1>9. CASE ReplySingle
  <2>1. ClientType'  BY <1>9 DEF ReplySingle, ClientType
  <2>2. BusType'  BY <1>9 DEF ReplySingle, BusType, Slots
  <2> QED  BY <1>9, <2>1, <2>2 DEF ReplySingle
<1>10. CASE ReplyEnds  BY <1>10 DEF ReplyEnds, ClientType
<1>11. CASE ClientLeaves  BY <1>11 DEF ClientLeaves, ClientType
<1> QED  BY <1>1, <1>2, <1>3, <1>4, <1>5, <1>6, <1>7, <1>8, <1>9, <1>10, <1>11
            DEF HTTPRequestStep, SocketWrites

LEMMA ProcessorTypes ==
    ASSUME QueryTypeOK, ProcessorStep
    PROVE  QueryTypeOK'
<1> USE Five, TypeStays DEF QueryTypeOK, ExecEnds
<1>1. CASE Prepare  BY <1>1 DEF Prepare, ProcessorTypeOK
<1>2. CASE SendAsync
  <2>1. /\ clientVars' = clientVars /\ busVars' = busVars
        /\ out' = out /\ opErr' = opErr /\ held' = held /\ hand' = hand /\ errCh' = errCh
    BY <1>2 DEF SendAsync
  <2>2. ProcessorTypeOK'
    <3>0. ProcessorTypeOK  OBVIOUS
    <3>1. /\ qp' = qp \/ qp' = "close"
          /\ produced' = produced \/ produced' = produced + 1
      BY <1>2 DEF SendAsync
    <3>2. qpErr' \in BOOLEAN  BY <1>2, <3>0 DEF SendAsync, ProcessorTypeOK
    <3> QED  BY <3>0, <3>1, <3>2 DEF ProcessorTypeOK
  <2>3. stdin' \in [1..PipelineOut -> Slots] /\ closed' \in SUBSET (1..PipelineOut)
    <3>1. stdin \in [1..PipelineOut -> Slots] /\ closed \in SUBSET (1..PipelineOut)
      BY DEF PipelineType
    <3>2. <<>> \in Slots /\ <<"row">> \in Slots  BY DEF Slots
    <3>3. \/ stdin' = [stdin EXCEPT ![RowOp] = <<"row">>]
          \/ stdin' = [stdin EXCEPT ![PipelineOut] = <<>>]
          \/ stdin' = stdin
      BY <1>2 DEF SendAsync
    <3>4. closed' = closed \/ closed' = closed \cup {RowOp}  BY <1>2 DEF SendAsync
    <3>5. stdin' \in [1..PipelineOut -> Slots]  BY <3>1, <3>2, <3>3
    <3>6. closed' \in SUBSET (1..PipelineOut)
      <4>1. RowOp \in 1..PipelineOut  OBVIOUS
      <4> HIDE DEF RowOp, PipelineOut
      <4> QED  BY <3>1, <3>4, <4>1
    <3> QED  BY <3>5, <3>6
  <2>4. PipelineType'  BY <2>1, <2>3 DEF PipelineType
  <2> QED  BY <2>1, <2>2, <2>4
<1>3. CASE ExecReturns
  <2>1. ProcessorTypeOK'  BY <1>3 DEF ExecReturns, ProcessorTypeOK
  <2>3. /\ stdin' = stdin /\ closed' = closed \cup {RowOp}
        /\ out' = out /\ opErr' = opErr /\ held' = held /\ hand' = hand /\ errCh' = errCh
    BY <1>3 DEF ExecReturns
  <2>2. PipelineType'  BY <2>3 DEF PipelineType
  <2> QED  BY <1>3, <2>1, <2>2 DEF ExecReturns
<1>4. CASE ClosePipeline
  <2>1. ProcessorTypeOK'  BY <1>4 DEF ClosePipeline, ProcessorTypeOK
  <2>2. PipelineType'  BY <1>4 DEF ClosePipeline, PipelineType, Slots
  <2> QED  BY <1>4, <2>1, <2>2 DEF ClosePipeline
<1>5. CASE Respond
  <2>1. ProcessorTypeOK'  BY <1>5 DEF Respond, CloseResponse, ProcessorTypeOK, PipelineType
  <2>2. PipelineType'  BY <1>5 DEF Respond, CloseResponse, PipelineType
  <2>3. BusType'
    BY <1>5 DEF Respond, CloseResponse, BusType, ProcessorTypeOK, PipelineType
  <2> QED  BY <1>5, <2>1, <2>2, <2>3 DEF Respond, CloseResponse
<1> QED  BY <1>1, <1>2, <1>3, <1>4, <1>5 DEF ProcessorStep

LEMMA PullerTypes ==
    ASSUME QueryTypeOK, NEW op \in Operators, PullerStep(op)
    PROVE  QueryTypeOK'
<1> USE Five, EmittedFacts, TypeStays DEF QueryTypeOK, Takes, Emits
<1>a. <<>> \in Slots /\ \A i \in Items : <<i>> \in Slots  BY DEF Slots, Items
<1>1. CASE Releases(op)  BY <1>1, <1>a DEF Releases, PipelineType
<1>2. CASE ForwardsError(op)  BY <1>2, <1>a DEF ForwardsError, PipelineType
<1>3. CASE Pushes(op)
  <2>1. Head(out[op]) \in Items /\ Tail(out[op]) \in Emitted
    BY <1>3 DEF Pushes, PipelineType
  <2>2. PipelineType'  BY <1>3, <1>a, <2>1 DEF Pushes, PipelineType
  <2> QED  BY <1>3, <2>2 DEF Pushes
<1>4. CASE ClosesStdout(op)  BY <1>4 DEF ClosesStdout, PipelineType
<1>5. CASE op = RowOp /\ RowOpWorks
  <2>2. /\ stdin' = [stdin EXCEPT ![RowOp] = <<>>] /\ closed' = closed
        /\ \E items \in Emitted : out' = [out EXCEPT ![RowOp] = items]
        /\ opErr' = opErr \/ opErr' = opErr \cup {RowOp}
        /\ held' = held /\ hand' = hand /\ errCh' = errCh
    BY <1>5 DEF RowOpWorks
  <2>3. stdin' \in [1..PipelineOut -> Slots]  BY <1>a, <2>2 DEF PipelineType
  <2>4. out' \in [Operators -> Emitted]  BY <2>2 DEF PipelineType
  <2>5. opErr' \in SUBSET Operators /\ held' \in Nat  BY <2>2 DEF PipelineType
  <2>1. PipelineType'  BY <2>2, <2>3, <2>4, <2>5 DEF PipelineType
  <2> QED  BY <1>5, <2>1 DEF RowOpWorks
<1>6. CASE op = OrderOp /\ OrderOpWorks
  <2>2. /\ stdin' = [stdin EXCEPT ![OrderOp] = <<>>] /\ closed' = closed
        /\ out' = out \/ out' = [out EXCEPT ![OrderOp] = <<"row">>]
        /\ opErr' = opErr /\ (held' = held \/ held' = held + 1)
        /\ hand' = hand /\ errCh' = errCh
    BY <1>6 DEF OrderOpWorks
  <2>3. stdin' \in [1..PipelineOut -> Slots]  BY <1>a, <2>2 DEF PipelineType
  <2>4. out' \in [Operators -> Emitted]  BY <2>2 DEF PipelineType
  <2>5. opErr' \in SUBSET Operators /\ held' \in Nat  BY <2>2 DEF PipelineType
  <2>1. PipelineType'  BY <2>2, <2>3, <2>4, <2>5 DEF PipelineType
  <2> QED  BY <1>6, <2>1 DEF OrderOpWorks
<1>7. CASE op = OrderOp /\ Flush
  <2>1. PipelineType'
    <3>1. held \in Nat /\ held' = 0  BY <1>7 DEF Flush, PipelineType
    <3>2. out' \in [Operators -> Emitted]  BY <1>7, <3>1 DEF Flush, PipelineType
    <3>3. opErr' \in SUBSET Operators  BY <1>7 DEF Flush, PipelineType
    <3> QED  BY <1>7, <3>1, <3>2, <3>3 DEF Flush, PipelineType
  <2> QED  BY <1>7, <2>1 DEF Flush
<1>8. CASE op = SendOp /\ SenderTakes
  <2>1. PipelineType'  BY <1>8, <1>a DEF SenderTakes, PipelineType, Items
  <2>2. BusType'  BY <1>8 DEF SenderTakes, BusType
  <2> QED  BY <1>8, <2>1, <2>2 DEF SenderTakes
<1>9. CASE op = SendOp /\ SenderReports
  <2>1. PipelineType'  BY <1>9 DEF SenderReports, PipelineType
  <2> QED  BY <1>9, <2>1 DEF SenderReports
<1>10. CASE op = SendOp /\ WriteFails
  <2>1. PipelineType'  BY <1>10 DEF WriteFails, SenderFails, PipelineType
  <2> QED  BY <1>10, <2>1 DEF WriteFails
<1>11. CASE op = SendOp /\ WritePuts
  <2>3. /\ stdin' = stdin /\ closed' = closed /\ held' = held /\ errCh' = errCh
        /\ \E items \in Emitted : out' = [out EXCEPT ![SendOp] = items]
        /\ opErr' = opErr \/ opErr' = opErr \cup {SendOp}
        /\ hand' = "none"
    BY <1>11 DEF WritePuts, SenderFails
  <2>4. out' \in [Operators -> Emitted]  BY <2>3 DEF PipelineType
  <2>5. opErr' \in SUBSET Operators  BY <2>3 DEF PipelineType
  <2>1. PipelineType'  BY <2>3, <2>4, <2>5 DEF PipelineType, Items
  <2>2. BusType'  BY <1>11 DEF WritePuts, BusType, Slots
  <2> QED  BY <1>11, <2>1, <2>2 DEF WritePuts
<1>12. CASE op = Releaser /\ ReleaserWorks  BY <1>12, <1>a DEF ReleaserWorks, PipelineType
<1> QED  BY <1>1, <1>2, <1>3, <1>4, <1>5, <1>6, <1>7, <1>8, <1>9, <1>10, <1>11, <1>12
            DEF PullerStep, SenderStep

LEMMA QueryTypeStays ==
    QueryTypeOK /\ StageInv /\ [QueryNext]_queryVars => QueryTypeOK'
<1> SUFFICES ASSUME QueryTypeOK, StageInv, [QueryNext]_queryVars  PROVE QueryTypeOK'
  OBVIOUS
<1>1. CASE UNCHANGED queryVars  BY <1>1, TypeStays DEF queryVars, QueryTypeOK
<1>2. CASE QueryNext  BY <1>2, CallerTypes, ProcessorTypes, PullerTypes DEF QueryNext
<1> QED  BY <1>1, <1>2

-----------------------------------------------------------------------------
(* Where no goroutine of the pipeline can move. *)

\* Before the processor has taken the request.
LEMMA NoPullerBefore ==
    ASSUME StageInv, qp \in {"free", "queued"}, NEW op \in Operators
    PROVE  ~PullerStep(op)
<1>1. /\ stdin[op] = <<>> /\ out[op] = <<>> /\ op \notin closed /\ hand = "none"
      /\ stdin = [i \in 1..PipelineOut |-> <<>>]
  BY DEF StageInv
<1> QED
  BY <1>1 DEF PullerStep, SenderStep, Releases, ForwardsError, Pushes, ClosesStdout, RowOpWorks,
              OrderOpWorks, Flush, SenderTakes, SenderReports, WriteFails, WritePuts,
              ReleaserWorks, Takes, Finished

\* After the last operator has closed its Stdout.
LEMMA DrainedFacts ==
    ASSUME ClosingInv, PipelineOut \in closed
    PROVE  held = 0 /\ \A op \in Operators : Finished(op) /\ op + 1 \in closed
<1>1. Finished(Releaser) /\ Releaser \in closed  BY DEF ClosingInv, Finished
<1>2. Finished(SendOp) /\ SendOp \in closed  BY <1>1 DEF ClosingInv, Finished
<1>3. Finished(OrderOp) /\ OrderOp \in closed  BY <1>2 DEF ClosingInv, Finished
<1>4. Finished(RowOp) /\ held = 0  BY <1>2, <1>3 DEF ClosingInv
<1>5. \A op \in Operators : op \in {RowOp, OrderOp, SendOp, Releaser}  OBVIOUS
<1> QED  BY <1>1, <1>2, <1>3, <1>4, <1>5

LEMMA NoPullerAfter ==
    ASSUME ClosingInv, PipelineOut \in closed, NEW op \in Operators
    PROVE  ~PullerStep(op)
<1>1. /\ stdin[op] = <<>> /\ out[op] = <<>> /\ op + 1 \in closed /\ held = 0
      /\ op = SendOp => hand = "none"
  BY DrainedFacts DEF Finished
<1> QED
  BY <1>1 DEF PullerStep, SenderStep, Releases, ForwardsError, Pushes, ClosesStdout, RowOpWorks,
              OrderOpWorks, Flush, SenderTakes, SenderReports, WriteFails, WritePuts,
              ReleaserWorks, Takes, Finished

\* After the client has its answer.
LEMMA NothingAfterTheEnd ==
    ASSUME ClosingInv, EndInv, answer = "complete"
    PROVE  ~QueryNext
<1>1. caller = "done" /\ qp = "done" /\ PipelineOut \in closed  BY DEF EndInv
<1>2. ~(SendRequest \/ HTTPRequestStep \/ SocketWrites \/ ClientLeaves)
  BY <1>1 DEF SendRequest, HTTPRequestStep, SocketWrites, ClientLeaves, WaiterTakesMeta,
              WaiterSeesContext, ReplyTakes, ReplyDrains, ReplyOpens, ReplyWrites, ReplyFails,
              ReplySingle, ReplyEnds, Writing
<1>3. ~ProcessorStep
  BY <1>1 DEF ProcessorStep, Prepare, SendAsync, ExecReturns, ClosePipeline, Respond,
              CloseResponse
<1> QED  BY <1>1, <1>2, <1>3, NoPullerAfter DEF QueryNext

-----------------------------------------------------------------------------
(* What a step of an operator changes, and what it finds. *)
PullerShape(op) ==
    /\ clientVars' = clientVars /\ qpVars' = qpVars
    /\ respClosed' = respClosed /\ resultErr' = resultErr
    /\ meta' = meta \/ (meta = "none" /\ meta' = "stream")
    /\ \A i \in 1..PipelineOut :
          stdin'[i] = stdin[i] \/ stdin'[i] = <<>> \/ (i = op + 1 /\ out[op] # <<>>)
    /\ \A other \in Operators : other # op => out'[other] = out[other]
    /\ op # SendOp => hand' = hand
    /\ held' = held \/ held' = 0 \/ stdin[OrderOp] # <<>>
    /\ OrderOp \in opErr' => OrderOp \in opErr \/ Finished(OrderOp)
    /\ \/ closed' = closed /\ (Finished(op) => op = OrderOp /\ held > 0)
       \/ /\ op + 1 \notin closed /\ closed' = closed \cup {op + 1}
          /\ Finished(op) /\ (op = OrderOp => held = 0)
          /\ stdin' = stdin /\ out' = out /\ hand' = hand /\ held' = held /\ opErr' = opErr

LEMMA PullerIsLocal ==
    ASSUME QueryTypeOK, NEW op \in Operators, PullerStep(op)
    PROVE  PullerShape(op)
<1>0. stdin \in [1..PipelineOut -> Slots] /\ out \in [Operators -> Emitted] /\ op \in 1..4
  BY DEF QueryTypeOK, PipelineType
<1> USE Five DEF PullerShape, Takes, Emits, Finished
<1>1. CASE Releases(op)  BY <1>0, <1>1 DEF Releases, busVars
<1>2. CASE ForwardsError(op)  BY <1>0, <1>2 DEF ForwardsError, busVars
<1>3. CASE Pushes(op)  BY <1>0, <1>3 DEF Pushes, busVars
<1>4. CASE ClosesStdout(op)  BY <1>0, <1>4 DEF ClosesStdout, busVars
<1>5. CASE op = RowOp /\ RowOpWorks  BY <1>0, <1>5 DEF RowOpWorks, busVars
<1>6. CASE op = OrderOp /\ OrderOpWorks  BY <1>0, <1>6 DEF OrderOpWorks, busVars
<1>7. CASE op = OrderOp /\ Flush  BY <1>0, <1>7 DEF Flush, busVars
<1>8. CASE op = SendOp /\ SenderTakes
  <2>1. PICK item \in Items : Takes(SendOp, item) /\ hand' = item
    BY <1>8 DEF SenderTakes, Items
  <2>2. /\ respClosed' = respClosed /\ resultErr' = resultErr
        /\ out' = out /\ opErr' = opErr /\ held' = held
        /\ meta' = meta \/ (meta = "none" /\ meta' = "stream")
    BY <1>8 DEF SenderTakes
  <2> QED  BY <1>0, <1>8, <2>1, <2>2
<1>9. CASE op = SendOp /\ SenderReports  BY <1>0, <1>9 DEF SenderReports, busVars
<1>10. CASE op = SendOp /\ WriteFails  BY <1>0, <1>10 DEF WriteFails, SenderFails, busVars
<1>11. CASE op = SendOp /\ WritePuts  BY <1>0, <1>11 DEF WritePuts, SenderFails
<1>12. CASE op = Releaser /\ ReleaserWorks  BY <1>0, <1>12 DEF ReleaserWorks, busVars
<1> QED  BY <1>1, <1>2, <1>3, <1>4, <1>5, <1>6, <1>7, <1>8, <1>9, <1>10, <1>11, <1>12
            DEF PullerStep, SenderStep

-----------------------------------------------------------------------------
(* The operators close one after the other. *)
LEMMA ClosingByPuller ==
    ASSUME QueryTypeOK, ClosingInv, NEW op \in Operators, PullerStep(op)
    PROVE  ClosingInv'
<1>0. PullerShape(op) /\ op \in 1..4  BY PullerIsLocal
<1>1. CASE closed' # closed
  <2>1. /\ closed' = closed \cup {op + 1} /\ Finished(op) /\ (op = OrderOp => held = 0)
        /\ stdin' = stdin /\ out' = out /\ hand' = hand /\ held' = held /\ opErr' = opErr
        /\ qp' = qp
    BY <1>0, <1>1 DEF PullerShape, qpVars
  <2> QED  BY <2>1 DEF ClosingInv, Finished
<1>2. CASE closed' = closed
  <2>1. /\ closed' = closed /\ (Finished(op) => op = OrderOp /\ held > 0) /\ qp' = qp
        /\ \A i \in 1..PipelineOut :
              stdin'[i] = stdin[i] \/ stdin'[i] = <<>> \/ (i = op + 1 /\ out[op] # <<>>)
        /\ \A other \in Operators : other # op => out'[other] = out[other]
        /\ op # SendOp => hand' = hand
        /\ held' = held \/ held' = 0 \/ stdin[OrderOp] # <<>>
        /\ OrderOp \in opErr' => OrderOp \in opErr \/ Finished(OrderOp)
    BY <1>0, <1>2 DEF PullerShape, qpVars
  <2>2. op + 1 \notin closed
    BY <2>1 DEF ClosingInv
  <2>3. \A o \in Operators : o \in closed => stdin'[o] = <<>> \/ stdin'[o] = stdin[o]
    BY <2>1, <2>2
  <2>4. ASSUME NEW o \in Operators, o + 1 \in closed'  PROVE Finished(o)'
    <3>1. Finished(o) /\ o # op  BY <2>1, <2>2, <2>4 DEF ClosingInv
    <3> QED  BY <2>1, <2>3, <3>1 DEF Finished
  <2>5. OrderOp + 1 \in closed' => held' = 0
    BY <2>1 DEF ClosingInv, Finished
  <2>6. OrderOp \in opErr' => OrderOp \in closed' /\ stdin'[OrderOp] = <<>>
    BY <2>1, <2>3 DEF ClosingInv, Finished
  <2> QED  BY <2>1, <2>4, <2>5, <2>6 DEF ClosingInv
<1> QED  BY <1>1, <1>2

LEMMA ClosingByProcessor ==
    ASSUME QueryTypeOK, ClosingInv, ProcessorStep
    PROVE  ClosingInv'
<1>1. /\ out' = out /\ opErr' = opErr /\ held' = held /\ hand' = hand
      /\ \/ stdin' = stdin \/ stdin' = [stdin EXCEPT ![PipelineOut] = <<>>]
         \/ stdin' = [stdin EXCEPT ![RowOp] = <<"row">>] /\ qp = "exec"
      /\ closed' = closed \/ (closed' = closed \cup {RowOp} /\ qp' = "close")
      /\ qp \in {"close", "respond", "done"} => qp' \in {"close", "respond", "done"}
  BY DEF ProcessorStep, Prepare, SendAsync, ExecReturns, ExecEnds, ClosePipeline, Respond,
         CloseResponse, pipelineVars
<1>2. stdin \in [1..PipelineOut -> Slots]  BY DEF QueryTypeOK, PipelineType
<1>3. \A o \in Operators : o \in closed => stdin'[o] = stdin[o]
  BY <1>1, <1>2 DEF ClosingInv
<1>4. ASSUME NEW o \in Operators, o + 1 \in closed'  PROVE Finished(o)'
  <2>1. Finished(o)  BY <1>1, <1>4 DEF ClosingInv
  <2> QED  BY <1>1, <1>3, <2>1 DEF Finished
<1>5. OrderOp + 1 \in closed' => held' = 0  BY <1>1 DEF ClosingInv
<1>6. OrderOp \in opErr' => OrderOp \in closed' /\ stdin'[OrderOp] = <<>>
  BY <1>1, <1>3 DEF ClosingInv
<1>7. RowOp \in closed' => qp' \in {"close", "respond", "done"}  BY <1>1 DEF ClosingInv
<1> QED  BY <1>4, <1>5, <1>6, <1>7 DEF ClosingInv

\* What the goroutine of the HTTP request leaves alone.
LEMMA CallerIsLocal ==
    ASSUME SendRequest \/ HTTPRequestStep \/ SocketWrites \/ ClientLeaves
    PROVE  /\ pipelineVars' = pipelineVars /\ resultErr' = resultErr
           /\ produced' = produced /\ qpErr' = qpErr
           /\ \/ qp' = qp
              \/ caller = "call" /\ qp' = "queued" /\ UNCHANGED <<meta, respCh, respClosed>>
           /\ respClosed' = respClosed \/ caller = "call"
           /\ meta' = meta \/ (caller = "call" /\ meta' = "single")
                           \/ (caller = "wait" /\ meta' = "taken")
           /\ ctxDone => ctxDone'
  BY DEF SendRequest, HTTPRequestStep, SocketWrites, ClientLeaves, WaiterTakesMeta,
         WaiterSeesContext, ReplyTakes, ReplyDrains, ReplyOpens, ReplyWrites, ReplyFails,
         ReplySingle, ReplyEnds, CallerEnds, busVars, qpVars

LEMMA ClosingStays ==
    QueryTypeOK /\ ClosingInv /\ StageInv /\ [QueryNext]_queryVars => ClosingInv'
<1> SUFFICES ASSUME QueryTypeOK, ClosingInv, StageInv, [QueryNext]_queryVars
             PROVE  ClosingInv'
  OBVIOUS
<1>1. CASE UNCHANGED queryVars
  BY <1>1 DEF queryVars, pipelineVars, qpVars, ClosingInv, Finished
<1>2. CASE SendRequest \/ HTTPRequestStep \/ SocketWrites \/ ClientLeaves
  <2>1. pipelineVars' = pipelineVars /\ (qp' = qp \/ caller = "call")
    BY <1>2, CallerIsLocal
  <2>2. caller = "call" => closed = {}  BY DEF StageInv
  <2> QED  BY <2>1, <2>2 DEF ClosingInv, Finished, pipelineVars
<1>3. CASE ProcessorStep  BY <1>3, ClosingByProcessor
<1>4. ASSUME NEW op \in Operators, PullerStep(op)  PROVE ClosingInv'
  BY <1>4, ClosingByPuller
<1> QED  BY <1>1, <1>2, <1>3, <1>4 DEF QueryNext

-----------------------------------------------------------------------------
(* How far each goroutine is. *)
LEMMA StageByPuller ==
    ASSUME ClosingInv, StageInv, NEW op \in Operators, PullerStep(op), PullerShape(op)
    PROVE  StageInv'
<1>1. qp \notin {"free", "queued"} /\ PipelineOut \notin closed
  BY NoPullerBefore, NoPullerAfter
<1>2. /\ caller' = caller /\ qp' = qp /\ qpErr' = qpErr
      /\ respClosed' = respClosed /\ resultErr' = resultErr
      /\ meta' = meta \/ (meta = "none" /\ meta' = "stream")
      /\ ctxDone' = ctxDone
      /\ PipelineOut \in closed => PipelineOut \in closed'
  BY DEF PullerShape, clientVars, qpVars
<1> QED  BY <1>1, <1>2 DEF StageInv

LEMMA StageByProcessor ==
    ASSUME QueryTypeOK, StageInv, ProcessorStep
    PROVE  StageInv'
<1>1. CASE Prepare
  <2>1. /\ qp = "queued" /\ clientVars' = clientVars /\ busVars' = busVars
        /\ \/ qp' = "exec" \/ (qp' = "respond" /\ qpErr' = TRUE)
    BY <1>1 DEF Prepare
  <2> QED  BY <2>1 DEF StageInv, clientVars, busVars
<1>2. CASE SendAsync \/ ExecReturns
  <2>1. /\ qp = "exec" /\ clientVars' = clientVars /\ busVars' = busVars
        /\ qp' = "exec" \/ qp' = "close"
    BY <1>2 DEF SendAsync, ExecReturns, ExecEnds
  <2> QED  BY <2>1 DEF StageInv, clientVars, busVars
<1>3. CASE ClosePipeline
  <2>1. /\ qp = "close" /\ clientVars' = clientVars /\ busVars' = busVars
        /\ qpErr' = qpErr /\ closed' = closed
        /\ qp' = "close" \/ (qp' = "respond" /\ PipelineOut \in closed)
    BY <1>3 DEF ClosePipeline
  <2> QED  BY <2>1 DEF StageInv, clientVars, busVars
<1>4. CASE Respond
  <2>1. /\ qp = "respond" /\ clientVars' = clientVars /\ qp' = "done"
        /\ qpErr' = (qpErr \/ errCh) /\ resultErr' = (qpErr \/ errCh) /\ errCh' = FALSE
        /\ meta' = (IF meta = "none" THEN "stream" ELSE meta) /\ closed' = closed
        /\ respCh' = respCh
    BY <1>4 DEF Respond, CloseResponse
  <2>2. /\ caller' = caller /\ received' = received /\ ctxDone' = ctxDone
        /\ caller \notin {"call", "single"} /\ meta' \notin {"single"}
        /\ caller = "wait" => meta' # "taken"
        /\ caller \in {"drain", "done"} => ctxDone
        /\ qpErr \/ PipelineOut \in closed
    BY <2>1 DEF StageInv, clientVars
  <2> QED  BY <2>1, <2>2 DEF StageInv
<1> QED  BY <1>1, <1>2, <1>3, <1>4 DEF ProcessorStep

LEMMA StageByCaller ==
    ASSUME QueryTypeOK, StageInv, SendRequest \/ HTTPRequestStep \/ SocketWrites \/ ClientLeaves
    PROVE  StageInv'
<1>1. /\ pipelineVars' = pipelineVars /\ resultErr' = resultErr
      /\ produced' = produced /\ qpErr' = qpErr
  BY CallerIsLocal
<1>2. CASE SendRequest
  <2>1. /\ caller = "call" /\ caller' = "wait" /\ received' = received
        /\ \/ qp' = "queued" /\ UNCHANGED <<meta, respCh, respClosed>>
           \/ qp' = qp /\ meta' = "single"
    BY <1>2 DEF SendRequest
  <2> QED  BY <1>1, <2>1 DEF StageInv, pipelineVars
<1>3. CASE WaiterTakesMeta
  <2>1. /\ caller = "wait" /\ meta # "none" /\ meta' = "taken" /\ received' = received
        /\ respCh' = respCh /\ respClosed' = respClosed /\ qp' = qp
        /\ \/ caller' = "done" \/ (meta = "single" /\ caller' = "single")
           \/ (meta = "stream" /\ caller' \in {"open", "reply"})
        /\ caller' = "done" => ctxDone'
    BY <1>3 DEF WaiterTakesMeta, CallerEnds, qpVars, QueryTypeOK, BusType, StageInv
  <2> QED  BY <1>1, <2>1 DEF StageInv, pipelineVars
<1>4. CASE WaiterSeesContext \/ ReplyOpens \/ ReplyWrites \/ ReplyFails \/ ReplyEnds
           \/ ClientLeaves \/ ReplySingle \/ ReplyTakes \/ ReplyDrains
  <2>1. /\ meta' = meta /\ respClosed' = respClosed /\ qp' = qp
        /\ respCh' = respCh \/ respCh' = <<>>
        /\ \/ caller' = caller /\ received' = received
           \/ caller' = "done" /\ received' = received /\ (caller = "drain" \/ ctxDone')
           \/ caller \in {"open", "reply", "write", "drain"}
              /\ caller' \notin {"call", "wait", "single"}
              /\ (caller' \in {"drain", "done"} => ctxDone' \/ caller = "drain")
    BY <1>4 DEF WaiterSeesContext, ReplyOpens, ReplyWrites, ReplyFails, ReplyEnds,
         ClientLeaves, ReplySingle, ReplyTakes, ReplyDrains, CallerEnds, busVars, qpVars, Writing
  <2>2. ctxDone => ctxDone'  BY CallerIsLocal
  <2>3. /\ stdin' = stdin /\ closed' = closed /\ out' = out /\ opErr' = opErr
        /\ held' = held /\ hand' = hand /\ errCh' = errCh
    BY <1>1 DEF pipelineVars
  <2>4. qp \in {"free", "queued"} => received' = received /\ caller' \in {caller, "done"}
    BY <2>1 DEF StageInv
  <2>5. caller' \in {"drain", "done"} => ctxDone'
    BY <2>1, <2>2 DEF StageInv
  <2>6. caller' \in {"call", "wait", "single"} => caller' = caller
    BY <2>1
  <2> HIDE <1>4
  <2>7. \/ qp' \notin {"free", "queued"}
        \/ /\ stdin' = [i \in 1..PipelineOut |-> <<>>] /\ closed' = {}
           /\ out' = [op \in Operators |-> <<>>]
           /\ opErr' = {} /\ held' = 0 /\ hand' = "none"
           /\ produced' = 0 /\ received' = 0 /\ meta' # "stream"
           /\ caller' \in {"call", "wait", "single", "done"}
    BY <1>1, <2>1, <2>3, <2>4 DEF StageInv
  <2>8. /\ caller' = "call" => qp' = "free" /\ meta' = "none" /\ respCh' = <<>> /\ ~respClosed'
        /\ caller' = "wait" => meta' # "taken"
        /\ caller' = "single" \/ meta' = "single" => qp' = "free"
        /\ qp' = "queued" => respCh' = <<>> /\ meta' = "none"
    BY <2>1, <2>6 DEF StageInv
  <2>9. /\ qp' # "free" /\ respClosed' => qp' = "done"
        /\ qp' \in {"free", "queued", "exec", "close", "respond"} => ~resultErr'
        /\ qp' = "respond" => qpErr' \/ PipelineOut \in closed'
        /\ qp' = "done" /\ ~resultErr' => ~qpErr' /\ ~errCh' /\ PipelineOut \in closed'
    BY <1>1, <2>1, <2>3 DEF StageInv
  <2> QED  BY <2>5, <2>7, <2>8, <2>9 DEF StageInv
<1> QED  BY <1>2, <1>3, <1>4 DEF HTTPRequestStep, SocketWrites

LEMMA StageStays ==
    QueryTypeOK /\ ClosingInv /\ StageInv /\ [QueryNext]_queryVars => StageInv'
<1> SUFFICES ASSUME QueryTypeOK, ClosingInv, StageInv, [QueryNext]_queryVars
             PROVE  StageInv'
  OBVIOUS
<1>1. CASE UNCHANGED queryVars
  BY <1>1 DEF queryVars, clientVars, busVars, pipelineVars, qpVars, StageInv
<1>2. CASE QueryNext
  BY <1>2, StageByCaller, StageByProcessor, StageByPuller, PullerIsLocal DEF QueryNext
<1> QED  BY <1>1, <1>2

-----------------------------------------------------------------------------
(* Rows and errors on their way. *)
LEMMA WayTypes ==
    ASSUME QueryTypeOK
    PROVE  /\ \A i \in 1..PipelineOut : stdin[i] \in Slots
           /\ \A op \in Operators : out[op] \in Emitted
           /\ held \in Nat /\ produced \in Nat /\ received \in Nat /\ respCh \in Slots
           /\ hand \in {"none", "row", "error"}
           /\ \A s \in Slots \cup Emitted : Len(s) \in Nat
           /\ Len(<<>>) = 0 /\ Len(<<"row">>) = 1
           /\ \A n \in Nat : Len([i \in 1..n |-> "row"]) = n
           /\ \A n \in Nat : [i \in 1..n |-> "row"] # <<"error">>
<1>1. \A s \in Slots \cup Emitted : Len(s) \in Nat  BY EmittedFacts DEF Slots
<1>2. \A n \in Nat : Len([i \in 1..n |-> "row"]) = n  OBVIOUS
<1>3. \A n \in Nat : [i \in 1..n |-> "row"] # <<"error">>
  <2>1. SUFFICES ASSUME NEW n \in Nat, [i \in 1..n |-> "row"] = <<"error">>  PROVE FALSE
    OBVIOUS
  <2>2. n = 1  BY <2>1, <1>2
  <2>3. [i \in 1..n |-> "row"][1] = "row"  BY <2>2
  <2> QED  BY <2>1, <2>3
<1>4. /\ \A i \in 1..PipelineOut : stdin[i] \in Slots
      /\ \A op \in Operators : out[op] \in Emitted
      /\ held \in Nat /\ produced \in Nat /\ received \in Nat /\ respCh \in Slots
      /\ hand \in {"none", "row", "error"}
  BY DEF QueryTypeOK, PipelineType, ProcessorTypeOK, BusType, ClientType, Items
<1> QED  BY <1>1, <1>2, <1>3, <1>4

LEMMA WayCounts ==
    ASSUME QueryTypeOK
    PROVE  /\ InRowOp \in Nat /\ OutRowOp \in Nat /\ InOrderOp \in Nat
           /\ held \in Nat /\ OutOrderOp \in Nat /\ InSendOp \in Nat
           /\ InHand \in Nat /\ InBus \in Nat /\ InRouter \in Nat
           /\ received \in Nat /\ produced \in Nat
<1>1. \A i \in {1, 2, 3} : stdin[i] \in Slots \cup Emitted
  <2>1. \A i \in 1..PipelineOut : stdin[i] \in Slots  BY WayTypes
  <2> QED  BY <2>1
<1>2. \A o \in {1, 2} : out[o] \in Slots \cup Emitted  BY WayTypes
<1>3. respCh \in Slots \cup Emitted  BY WayTypes
<1>4. \A s \in Slots \cup Emitted : Len(s) \in Nat  BY WayTypes
<1>5. InRowOp \in Nat /\ InOrderOp \in Nat /\ InSendOp \in Nat
  BY <1>1, <1>4 DEF InRowOp, InOrderOp, InSendOp
<1>6. OutRowOp \in Nat /\ OutOrderOp \in Nat /\ InBus \in Nat
  BY <1>2, <1>3, <1>4 DEF OutRowOp, OutOrderOp, InBus
<1>7. InHand \in Nat /\ InRouter \in Nat  BY DEF One, InHand, InRouter
<1> QED  BY <1>5, <1>6, <1>7, WayTypes

LEMMA Counts ==
    /\ InRowOp = Len(stdin[1]) /\ InRowOp' = Len(stdin'[1])
    /\ OutRowOp = Len(out[1]) /\ OutRowOp' = Len(out'[1])
    /\ InOrderOp = Len(stdin[2]) /\ InOrderOp' = Len(stdin'[2])
    /\ OutOrderOp = Len(out[2]) /\ OutOrderOp' = Len(out'[2])
    /\ InSendOp = Len(stdin[3]) /\ InSendOp' = Len(stdin'[3])
    /\ InHand = One(hand = "row") /\ InHand' = One(hand' = "row")
    /\ InBus = Len(respCh) /\ InBus' = Len(respCh')
    /\ InRouter = One(caller = "write") /\ InRouter' = One(caller' = "write")
    /\ Len(<<>>) = 0 /\ Len(<<"row">>) = 1 /\ One(TRUE) = 1 /\ One(FALSE) = 0
<1>1. /\ InRowOp = Len(stdin[1]) /\ OutRowOp = Len(out[1]) /\ InOrderOp = Len(stdin[2])
      /\ OutOrderOp = Len(out[2]) /\ InSendOp = Len(stdin[3]) /\ InBus = Len(respCh)
  BY DEF InRowOp, OutRowOp, InOrderOp, OutOrderOp, InSendOp, InBus
<1>2. /\ InRowOp' = Len(stdin'[1]) /\ OutRowOp' = Len(out'[1])
      /\ InOrderOp' = Len(stdin'[2]) /\ OutOrderOp' = Len(out'[2])
      /\ InSendOp' = Len(stdin'[3]) /\ InBus' = Len(respCh')
  BY DEF InRowOp, OutRowOp, InOrderOp, OutOrderOp, InSendOp, InBus
<1>3. /\ InHand = One(hand = "row") /\ InHand' = One(hand' = "row")
      /\ InRouter = One(caller = "write") /\ InRouter' = One(caller' = "write")
  BY DEF InHand, InRouter
<1>4. Len(<<>>) = 0 /\ Len(<<"row">>) = 1 /\ One(TRUE) = 1 /\ One(FALSE) = 0
  BY DEF One
<1> QED  BY <1>1, <1>2, <1>3, <1>4

\* What an operator does to what is on its way when the client is there.
SameRest ==
    /\ caller' = caller /\ received' = received /\ ctxDone' = ctxDone
    /\ qp' = qp /\ produced' = produced /\ resultErr' = resultErr

LEMMA RestStays ==
    ASSUME NEW op \in Operators, PullerShape(op)
    PROVE  SameRest
BY DEF PullerShape, SameRest, clientVars, qpVars

LEMMA RowOpLosesNothing ==
    ASSUME QueryTypeOK, NothingIsLost, SameRest, RowOpWorks
    PROVE  NothingIsLost'
<1>1. /\ stdin[1] = <<"row">> /\ stdin'[1] = <<>> /\ out[1] = <<>>
      /\ \A i \in 2..PipelineOut : stdin'[i] = stdin[i]
      /\ \A o \in 2..4 : out'[o] = out[o]
      /\ held' = held /\ hand' = hand /\ respCh' = respCh /\ errCh' = errCh
      /\ \/ out'[1] = <<"row">> /\ opErr' = opErr
         \/ out'[1] = <<"error">> /\ opErr' = opErr \cup {1}
  BY DEF RowOpWorks, Takes, Emits, QueryTypeOK, PipelineType, busVars
<1>2. ASSUME opErr = {}, opErr' = {}  PROVE OnTheWay' = OnTheWay
  <2>1. /\ InRowOp = 1 /\ InRowOp' = 0 /\ OutRowOp = 0 /\ OutRowOp' = 1
        /\ InOrderOp' = InOrderOp /\ held' = held /\ OutOrderOp' = OutOrderOp
        /\ InSendOp' = InSendOp /\ InHand' = InHand
        /\ InBus' = InBus /\ InRouter' = InRouter
    <3>1. out'[1] = <<"row">>  BY <1>1, <1>2
    <3>2. /\ stdin'[2] = stdin[2] /\ stdin'[3] = stdin[3] /\ out'[2] = out[2]  BY <1>1
    <3> QED  BY <1>1, <3>1, <3>2, Counts DEF SameRest
  <2> QED  BY <2>1, WayCounts DEF OnTheWay
<1>3. RowsArrive => RowsArrive'
  BY <1>1, <1>2 DEF RowsArrive, SameRest
<1>4. ErrorArrives => ErrorArrives'
  BY <1>1 DEF ErrorArrives, ErrorComes, SameRest
<1>5. (ErrorComes => opErr # {}) => (ErrorComes' => opErr' # {})
  BY <1>1 DEF ErrorComes
<1> QED  BY <1>1, <1>3, <1>4, <1>5 DEF NothingIsLost, SameRest

LEMMA OrderOpLosesNothing ==
    ASSUME QueryTypeOK, NothingIsLost, SameRest, OrderOpWorks
    PROVE  NothingIsLost'
<1>1. /\ stdin[2] = <<"row">> /\ stdin'[2] = <<>> /\ out[2] = <<>>
      /\ \A i \in {1, 3, 4, 5} : stdin'[i] = stdin[i]
      /\ \A o \in {1, 3, 4} : out'[o] = out[o]
      /\ hand' = hand /\ respCh' = respCh /\ errCh' = errCh /\ opErr' = opErr
      /\ \/ out'[2] = <<"row">> /\ held' = held
         \/ out'[2] = <<>> /\ held' = held + 1
  BY DEF OrderOpWorks, Takes, Emits, QueryTypeOK, PipelineType, busVars
<1>a. ASSUME opErr = {}, opErr' = {}  PROVE OnTheWay' = OnTheWay
  <2>1. /\ InRowOp' = InRowOp /\ OutRowOp' = OutRowOp
        /\ InOrderOp = 1 /\ InOrderOp' = 0 /\ held' + OutOrderOp' = held + 1
        /\ OutOrderOp = 0 /\ InSendOp' = InSendOp
        /\ InHand' = InHand /\ InBus' = InBus
        /\ InRouter' = InRouter
    <3>1. CASE out'[2] = <<"row">> /\ held' = held
      BY <1>1, <3>1, Counts, WayCounts DEF SameRest
    <3>2. CASE out'[2] = <<>> /\ held' = held + 1
      <4>1. OutOrderOp' = 0 /\ OutOrderOp = 0  BY <1>1, <3>2, Counts
      <4>2. held' + OutOrderOp' = held + 1  BY <3>2, <4>1, WayCounts
      <4> QED  BY <1>1, <4>1, <4>2, Counts DEF SameRest
    <3> QED  BY <1>1, <3>1, <3>2
  <2>2. OutOrderOp' \in Nat /\ held' \in Nat
    <3>1. OutOrderOp' = 0 \/ OutOrderOp' = 1  BY <1>1, Counts
    <3>2. held' \in Nat
      <4>1. held \in Nat  BY WayCounts
      <4> QED  BY <1>1, <4>1
    <3> QED  BY <3>1, <3>2
  <2> QED  BY <2>1, <2>2, WayCounts DEF OnTheWay
<1>b. RowsArrive => RowsArrive'
  BY <1>1, <1>a DEF RowsArrive, SameRest
<1>c. ErrorArrives => ErrorArrives'
  BY <1>1 DEF ErrorArrives, ErrorComes, SameRest
<1>d. (ErrorComes => opErr # {}) => (ErrorComes' => opErr' # {})
  BY <1>1, WayTypes DEF ErrorComes
<1> QED  BY <1>1, <1>b, <1>c, <1>d DEF NothingIsLost, SameRest

LEMMA FlushLosesNothing ==
    ASSUME QueryTypeOK, NothingIsLost, SameRest, Flush
    PROVE  NothingIsLost'
<1>1. /\ stdin' = stdin /\ out[2] = <<>> /\ held' = 0
      /\ \A o \in {1, 3, 4} : out'[o] = out[o]
      /\ hand' = hand /\ respCh' = respCh /\ errCh' = errCh
      /\ \/ out'[2] = [i \in 1..held |-> "row"] /\ opErr' = opErr
         \/ out'[2] = <<"error">> /\ opErr' = opErr \cup {2}
         \/ out'[2] = <<>> /\ opErr' = opErr /\ (2 \in opErr \/ ctxDone)
  BY DEF Flush, Finished, Active, Emits, QueryTypeOK, PipelineType, busVars
<1>2. CASE ctxDone
  <2>1. ErrorComes' => ErrorComes \/ opErr' # {}
    BY <1>1, WayTypes DEF ErrorComes
  <2> QED  BY <1>1, <1>2, <2>1 DEF NothingIsLost, SameRest
<1>3. CASE ~ctxDone
  <2>a. ASSUME opErr = {}, opErr' = {}  PROVE OnTheWay' = OnTheWay
    <3>0. OutOrderOp' = held  BY <1>1, <1>3, <2>a, WayTypes, Counts
    <3>1. /\ InRowOp' = InRowOp /\ OutRowOp' = OutRowOp
          /\ InOrderOp' = InOrderOp /\ held' = 0
          /\ OutOrderOp = 0 /\ OutOrderOp' = held /\ InSendOp' = InSendOp
          /\ InHand' = InHand /\ InBus' = InBus
          /\ InRouter' = InRouter
      BY <1>1, <3>0, Counts DEF SameRest
    <3> QED  BY <3>1, WayCounts DEF OnTheWay
  <2>b. RowsArrive => RowsArrive'
    BY <1>1, <1>3, <2>a DEF RowsArrive, SameRest
  <2>c. ErrorArrives => ErrorArrives'
    BY <1>1, <1>3 DEF ErrorArrives, ErrorComes, SameRest
  <2>d. (ErrorComes => opErr # {}) => (ErrorComes' => opErr' # {})
    BY <1>1, <1>3, WayTypes DEF ErrorComes
  <2> QED  BY <1>1, <1>3, <2>b, <2>c, <2>d DEF NothingIsLost, SameRest
<1> QED  BY <1>2, <1>3

LEMMA SenderLosesNothing ==
    ASSUME QueryTypeOK, NothingIsLost, SameRest, SenderStep
    PROVE  NothingIsLost'
<1>1. CASE SenderTakes
  <2>1. PICK item \in Items : stdin[3] = <<item>> /\ hand' = item
                              /\ Takes(SendOp, item)
    BY <1>1 DEF SenderTakes, Items, Takes
  <2>2. /\ hand = "none" /\ stdin'[3] = <<>>
        /\ \A i \in {1, 2, 4, 5} : stdin'[i] = stdin[i]
        /\ errCh' = errCh
    BY <2>1 DEF Takes, QueryTypeOK, PipelineType
  <2>3. out' = out /\ held' = held /\ respCh' = respCh /\ opErr' = opErr
    BY <1>1 DEF SenderTakes
  <2>4. item = "row" \/ item = "error"  BY DEF Items
  <2>5. CASE item = "row"
    <3>a. ASSUME opErr = {}, opErr' = {}  PROVE OnTheWay' = OnTheWay
      <4>1. /\ InRowOp' = InRowOp /\ OutRowOp' = OutRowOp
            /\ InOrderOp' = InOrderOp /\ held' = held
            /\ OutOrderOp' = OutOrderOp /\ InSendOp = 1 /\ InSendOp' = 0
            /\ InHand = 0 /\ InHand' = 1
            /\ InBus' = InBus
            /\ InRouter' = InRouter
        BY <2>1, <2>2, <2>3, <2>5, <3>a, Counts DEF One, SameRest
      <4> QED  BY <4>1, WayCounts DEF OnTheWay
    <3>b. RowsArrive => RowsArrive'
      BY <2>1, <2>2, <2>3, <2>5, <3>a DEF RowsArrive, SameRest
    <3>c. ErrorArrives => ErrorArrives'
      BY <2>1, <2>2, <2>3, <2>5 DEF ErrorArrives, ErrorComes, SameRest
    <3>d. (ErrorComes => opErr # {}) => (ErrorComes' => opErr' # {})
      <4>1. <<>> # <<"error">> /\ "row" # "error"  OBVIOUS
      <4>2. ErrorComes' => ErrorComes
        BY <2>1, <2>2, <2>3, <2>5, <4>1 DEF ErrorComes
      <4> QED  BY <2>3, <4>2
    <3> QED  BY <2>1, <2>2, <2>3, <2>5, <3>b, <3>c, <3>d DEF NothingIsLost, SameRest
  <2>6. CASE item = "error"
    <3>a. opErr # {}
      BY <2>1, <2>6 DEF NothingIsLost, ErrorComes
    <3>b. RowsArrive => RowsArrive'
      BY <2>1, <2>2, <2>3, <2>6, <3>a DEF RowsArrive, SameRest
    <3>c. ErrorArrives => ErrorArrives'
      BY <2>1, <2>2, <2>3, <2>6 DEF ErrorArrives, ErrorComes, SameRest
    <3>d. (ErrorComes => opErr # {}) => (ErrorComes' => opErr' # {})
      BY <2>1, <2>2, <2>3, <2>6, WayTypes DEF ErrorComes
    <3> QED  BY <2>1, <2>2, <2>3, <2>6, <3>b, <3>c, <3>d DEF NothingIsLost, SameRest
  <2> QED  BY <2>4, <2>5, <2>6
<1>2. CASE SenderReports
  <2>1. /\ hand = "error" /\ hand' = "none" /\ errCh' = TRUE
        /\ \A o \in {1, 2, 4} : out'[o] = out[o]
        /\ stdin' = stdin /\ held' = held /\ respCh' = respCh /\ opErr' = opErr
    BY <1>2 DEF SenderReports, Emits, QueryTypeOK, PipelineType, busVars
  <2>2. opErr # {}  BY <2>1 DEF NothingIsLost, ErrorComes
  <2> QED  BY <2>1, <2>2 DEF NothingIsLost, ErrorArrives, RowsArrive, SameRest
<1>3. CASE WriteFails
  <2>1. /\ opErr' = opErr \cup {SendOp} /\ stdin' = stdin
    BY <1>3 DEF WriteFails, SenderFails
  <2> QED  BY <2>1 DEF NothingIsLost
<1>4. CASE WritePuts
  <2>1. CASE ctxDone
    <3>1. stdin' = stdin /\ opErr' # {}
      <4>1. stdin' = stdin /\ (opErr' = opErr \cup {SendOp} \/ ~ctxDone)
        BY <1>4 DEF WritePuts, SenderFails
      <4> QED  BY <2>1, <4>1
    <3> QED  BY <2>1, <3>1 DEF NothingIsLost, SameRest
  <2>2. CASE ~ctxDone
    <3>1. /\ hand = "row" /\ hand' = "none" /\ opErr' = opErr /\ errCh' = errCh
          /\ respCh = <<>> /\ respCh' = <<"row">>
          /\ \A o \in {1, 2, 4} : out'[o] = out[o]
          /\ stdin' = stdin /\ held' = held
      BY <1>4, <2>2 DEF WritePuts, Emits, QueryTypeOK, PipelineType
    <3>a. ASSUME opErr = {}, opErr' = {}  PROVE OnTheWay' = OnTheWay
      <4>1. /\ InRowOp' = InRowOp /\ OutRowOp' = OutRowOp
            /\ InOrderOp' = InOrderOp /\ held' = held
            /\ OutOrderOp' = OutOrderOp /\ InSendOp' = InSendOp
            /\ InHand = 1 /\ InHand' = 0
            /\ InBus = 0 /\ InBus' = 1
            /\ InRouter' = InRouter
        BY <3>1, <3>a, Counts DEF One, SameRest
      <4> QED  BY <4>1, WayCounts DEF OnTheWay
    <3>b. RowsArrive => RowsArrive'
      BY <3>1, <3>a DEF RowsArrive, SameRest
    <3>c. ErrorArrives => ErrorArrives'
      BY <3>1 DEF ErrorArrives, ErrorComes, SameRest
    <3>d. (ErrorComes => opErr # {}) => (ErrorComes' => opErr' # {})
      BY <3>1, WayTypes DEF ErrorComes
    <3> QED  BY <3>1, <3>b, <3>c, <3>d DEF NothingIsLost, SameRest
  <2> QED  BY <2>1, <2>2
<1> QED  BY <1>1, <1>2, <1>3, <1>4 DEF SenderStep

\* A step that leaves everything that counts in its place.
LEMMA SameWay ==
    ASSUME QueryTypeOK, NothingIsLost, SameRest,
           \A i \in 1..3 : stdin'[i] = stdin[i], \A o \in {1, 2} : out'[o] = out[o],
           held' = held, hand' = hand, respCh' = respCh, errCh' = errCh, opErr' = opErr
    PROVE  NothingIsLost'
<1>1. /\ stdin'[1] = stdin[1] /\ stdin'[2] = stdin[2] /\ stdin'[3] = stdin[3]
      /\ out'[1] = out[1] /\ out'[2] = out[2]
  OBVIOUS
<1>2. OnTheWay' = OnTheWay  BY <1>1, Counts DEF OnTheWay, SameRest
<1>3. ErrorComes' <=> ErrorComes  BY <1>1 DEF ErrorComes
<1> QED  BY <1>1, <1>2, <1>3 DEF NothingIsLost, ErrorArrives, RowsArrive, SameRest

LEMMA PushLosesNothing ==
    ASSUME QueryTypeOK, NothingIsLost, SameRest, NEW op \in Operators, Pushes(op)
    PROVE  NothingIsLost'
<1>1. /\ out[op] # <<>> /\ out[op] \in Emitted /\ stdin[op + 1] = <<>>
      /\ out'[op] = Tail(out[op]) /\ stdin'[op + 1] = <<Head(out[op])>>
      /\ \A i \in 1..PipelineOut : i # op + 1 => stdin'[i] = stdin[i]
      /\ \A o \in Operators : o # op => out'[o] = out[o]
      /\ held' = held /\ hand' = hand /\ respCh' = respCh /\ errCh' = errCh /\ opErr' = opErr
  BY Five DEF Pushes, Emits, QueryTypeOK, PipelineType, busVars
<1>2. /\ Len(out[op]) = Len(Tail(out[op])) + 1
      /\ Len(Tail(out[op])) \in Nat
      /\ Tail(out[op]) # <<"error">>
      /\ \/ out[op] = <<"error">> /\ stdin'[op + 1] = <<"error">>
         \/ out[op] # <<"error">> /\ stdin'[op + 1] = <<"row">>
  <2>1. /\ Len(out[op]) = Len(Tail(out[op])) + 1 /\ Tail(out[op]) \in Emitted
        /\ Head(out[op]) \in Items /\ Tail(out[op]) # <<"error">>
        /\ Head(out[op]) = "error" => out[op] = <<"error">>
        /\ out[op] # <<"error">> => Head(out[op]) = "row"
    BY <1>1, EmittedFacts
  <2>2. Len(Tail(out[op])) \in Nat  BY <2>1, EmittedFacts
  <2>3. out[op] = <<"error">> => Head(out[op]) = "error"  OBVIOUS
  <2> QED  BY <1>1, <2>1, <2>2, <2>3
<1>3. op \in {1, 2, 3, 4}  OBVIOUS
<1>4. CASE op = 1
  <2>1. /\ stdin'[1] = stdin[1] /\ stdin'[3] = stdin[3] /\ out'[2] = out[2]
        /\ stdin[2] = <<>> /\ out'[1] # <<"error">>
        /\ Len(out[1]) = Len(out'[1]) + 1 /\ Len(out'[1]) \in Nat
        /\ \/ out[1] = <<"error">> /\ stdin'[2] = <<"error">>
           \/ out[1] # <<"error">> /\ stdin'[2] = <<"row">>
        /\ held' = held /\ hand' = hand /\ respCh' = respCh /\ errCh' = errCh
        /\ opErr' = opErr
    <3>0. op + 1 = 2  BY <1>4
    <3>1. stdin'[1] = stdin[1] /\ stdin'[3] = stdin[3] /\ out'[2] = out[2]  BY <1>1, <1>4, <3>0
    <3>2. out'[1] = Tail(out[1])  BY <1>1, <1>4
    <3>3. out'[1] # <<"error">> /\ Len(out[1]) = Len(out'[1]) + 1
      BY <1>2, <1>4, <3>2
    <3>4. Len(out'[1]) \in Nat  BY <1>2, <1>4, <3>2
    <3>5. /\ stdin[2] = <<>>
          /\ \/ out[1] = <<"error">> /\ stdin'[2] = <<"error">>
             \/ out[1] # <<"error">> /\ stdin'[2] = <<"row">>
      BY <1>1, <1>2, <1>4, <3>0
    <3> QED  BY <1>1, <3>1, <3>3, <3>4, <3>5
  <2>a. ASSUME opErr = {}, opErr' = {}  PROVE OnTheWay' = OnTheWay
    <3>0. out[1] # <<"error">>  BY <2>a DEF NothingIsLost, ErrorComes
    <3>1. /\ InRowOp' = InRowOp /\ OutRowOp = OutRowOp' + 1
          /\ InOrderOp = 0 /\ InOrderOp' = 1 /\ held' = held
          /\ OutOrderOp' = OutOrderOp /\ InSendOp' = InSendOp
          /\ InHand' = InHand /\ InBus' = InBus
          /\ InRouter' = InRouter
      BY <2>1, <3>0, Counts DEF SameRest
    <3>2. OutRowOp' \in Nat
      <4>1. OutRowOp' = Len(out'[1])  BY Counts
      <4>2. Len(out'[1]) \in Nat  BY <2>1
      <4> QED  BY <4>1, <4>2
    <3> QED  BY <3>1, <3>2, WayCounts DEF OnTheWay
  <2>b. RowsArrive => RowsArrive'
    BY <2>1, <2>a DEF RowsArrive, SameRest
  <2>c. ErrorArrives => ErrorArrives'
    BY <2>1 DEF ErrorArrives, ErrorComes, SameRest
  <2>d. (ErrorComes => opErr # {}) => (ErrorComes' => opErr' # {})
    BY <2>1 DEF ErrorComes
  <2> QED  BY <2>1, <2>b, <2>c, <2>d DEF NothingIsLost, SameRest
<1>5. CASE op = 2
  <2>1. /\ stdin'[1] = stdin[1] /\ stdin'[2] = stdin[2] /\ out'[1] = out[1]
        /\ stdin[3] = <<>> /\ out'[2] # <<"error">>
        /\ Len(out[2]) = Len(out'[2]) + 1 /\ Len(out'[2]) \in Nat
        /\ \/ out[2] = <<"error">> /\ stdin'[3] = <<"error">>
           \/ out[2] # <<"error">> /\ stdin'[3] = <<"row">>
        /\ held' = held /\ hand' = hand /\ respCh' = respCh /\ errCh' = errCh
        /\ opErr' = opErr
    <3>0. op + 1 = 3  BY <1>5
    <3>1. stdin'[1] = stdin[1] /\ stdin'[2] = stdin[2] /\ out'[1] = out[1]  BY <1>1, <1>5, <3>0
    <3>2. out'[2] = Tail(out[2])  BY <1>1, <1>5
    <3>3. out'[2] # <<"error">> /\ Len(out[2]) = Len(out'[2]) + 1
      BY <1>2, <1>5, <3>2
    <3>4. Len(out'[2]) \in Nat  BY <1>2, <1>5, <3>2
    <3>5. /\ stdin[3] = <<>>
          /\ \/ out[2] = <<"error">> /\ stdin'[3] = <<"error">>
             \/ out[2] # <<"error">> /\ stdin'[3] = <<"row">>
      BY <1>1, <1>2, <1>5, <3>0
    <3> QED  BY <1>1, <3>1, <3>3, <3>4, <3>5
  <2>a. ASSUME opErr = {}, opErr' = {}  PROVE OnTheWay' = OnTheWay
    <3>0. out[2] # <<"error">>  BY <2>a DEF NothingIsLost, ErrorComes
    <3>1. /\ InRowOp' = InRowOp /\ OutRowOp' = OutRowOp
          /\ InOrderOp' = InOrderOp /\ held' = held
          /\ OutOrderOp = OutOrderOp' + 1 /\ InSendOp = 0 /\ InSendOp' = 1
          /\ InHand' = InHand /\ InBus' = InBus
          /\ InRouter' = InRouter
      BY <2>1, <3>0, Counts DEF SameRest
    <3>2. OutOrderOp' \in Nat
      <4>1. OutOrderOp' = Len(out'[2])  BY Counts
      <4>2. Len(out'[2]) \in Nat  BY <2>1
      <4> QED  BY <4>1, <4>2
    <3> QED  BY <3>1, <3>2, WayCounts DEF OnTheWay
  <2>b. RowsArrive => RowsArrive'
    BY <2>1, <2>a DEF RowsArrive, SameRest
  <2>c. ErrorArrives => ErrorArrives'
    BY <2>1 DEF ErrorArrives, ErrorComes, SameRest
  <2>d. (ErrorComes => opErr # {}) => (ErrorComes' => opErr' # {})
    BY <2>1 DEF ErrorComes
  <2> QED  BY <2>1, <2>b, <2>c, <2>d DEF NothingIsLost, SameRest
<1>6. CASE op \in {3, 4}
  <2>1. /\ stdin'[1] = stdin[1] /\ stdin'[2] = stdin[2] /\ stdin'[3] = stdin[3]
        /\ out'[1] = out[1] /\ out'[2] = out[2]
    BY <1>1, <1>6
  <2> QED  BY <1>1, <2>1, SameWay
<1> QED  BY <1>3, <1>4, <1>5, <1>6

LEMMA ForwardLosesNothing ==
    ASSUME QueryTypeOK, NothingIsLost, SameRest, NEW op \in Operators, ForwardsError(op)
    PROVE  NothingIsLost'
<1>1. /\ op # SendOp /\ stdin[op] = <<"error">> /\ stdin'[op] = <<>>
      /\ \A i \in 1..PipelineOut : i # op => stdin'[i] = stdin[i]
      /\ out'[op] = <<"error">> /\ \A o \in Operators : o # op => out'[o] = out[o]
      /\ held' = held /\ hand' = hand /\ respCh' = respCh /\ errCh' = errCh /\ opErr' = opErr
  BY Five DEF ForwardsError, Takes, Emits, QueryTypeOK, PipelineType, busVars
<1>2. op # 1  BY <1>1 DEF NothingIsLost
<1>3. op \in {2, 4}  BY <1>1, <1>2
<1>4. CASE op = 4
  <2>1. /\ \A i \in 1..3 : stdin'[i] = stdin[i]
        /\ \A o \in {1, 2} : out'[o] = out[o]
    BY <1>1, <1>4
  <2> QED  BY <1>1, <2>1, SameWay
<1>5. CASE op = 2
  <2>1. stdin'[1] = stdin[1] /\ ErrorComes /\ ErrorComes'  BY <1>1, <1>5 DEF ErrorComes
  <2>2. opErr # {}  BY <2>1 DEF NothingIsLost
  <2> QED
    BY <1>1, <2>1, <2>2 DEF NothingIsLost, ErrorArrives, RowsArrive, SameRest
<1> QED  BY <1>3, <1>4, <1>5

LEMMA ReleaseLosesNothing ==
    ASSUME QueryTypeOK, ClosingInv, NothingIsLost, SameRest, NEW op \in Operators, Releases(op)
    PROVE  NothingIsLost'
<1>1. /\ stdin[op] # <<>> /\ stdin'[op] = <<>>
      /\ \A i \in 1..PipelineOut : i # op => stdin'[i] = stdin[i]
      /\ out' = out /\ held' = held /\ hand' = hand /\ respCh' = respCh
      /\ errCh' = errCh /\ opErr' = opErr
      /\ op \in opErr \/ ctxDone
  BY Five DEF Releases, Takes, Active, QueryTypeOK, PipelineType, busVars
<1>0. \A i \in {1, 2, 3} : stdin'[i] = stdin[i] \/ stdin'[i] = <<>>  BY <1>1
<1>6. /\ stdin'[1] = stdin[1] \/ stdin'[1] = <<>>
      /\ stdin'[2] = stdin[2] \/ stdin'[2] = <<>>
      /\ stdin'[3] = stdin[3] \/ stdin'[3] = <<>>
  BY <1>0
<1>2. stdin'[1] # <<"error">>
  BY <1>6 DEF NothingIsLost
<1>3. ErrorComes' => ErrorComes
  <2>1. <<"error">> # <<>>  OBVIOUS
  <2>2. /\ stdin'[2] = <<"error">> => stdin[2] = <<"error">>
        /\ stdin'[3] = <<"error">> => stdin[3] = <<"error">>
    BY <1>6, <2>1
  <2> QED  BY <1>1, <2>2 DEF ErrorComes
<1>4. CASE ctxDone \/ SendOp \in opErr
  BY <1>1, <1>2, <1>3, <1>4 DEF NothingIsLost, SameRest
<1>5. CASE ~ctxDone /\ SendOp \notin opErr
  <2>1. op \in opErr /\ op # SendOp  BY <1>1, <1>5
  <2>2. op # OrderOp  BY <1>1, <2>1 DEF ClosingInv
  <2>3. op \in {1, 4}  BY <2>1, <2>2
  <2>4. stdin'[2] = stdin[2] /\ stdin'[3] = stdin[3]  BY <1>1, <2>3
  <2>5. ErrorComes' <=> ErrorComes  BY <1>1, <2>4 DEF ErrorComes
  <2> QED
    BY <1>1, <1>2, <1>3, <2>1, <2>5 DEF NothingIsLost, ErrorArrives, RowsArrive, SameRest
<1> QED  BY <1>4, <1>5

LEMMA PullerLosesNothing ==
    ASSUME QueryTypeOK, ClosingInv, NothingIsLost, NEW op \in Operators, PullerStep(op)
    PROVE  NothingIsLost'
<1>0. SameRest  BY RestStays, PullerIsLocal
<1>1. CASE Releases(op)  BY <1>0, <1>1, ReleaseLosesNothing
<1>2. CASE ForwardsError(op)  BY <1>0, <1>2, ForwardLosesNothing
<1>3. CASE Pushes(op)  BY <1>0, <1>3, PushLosesNothing
<1>4. CASE ClosesStdout(op)
  BY <1>0, <1>4, SameWay DEF ClosesStdout, busVars
<1>5. CASE op = RowOp /\ RowOpWorks  BY <1>0, <1>5, RowOpLosesNothing
<1>6. CASE op = OrderOp /\ OrderOpWorks  BY <1>0, <1>6, OrderOpLosesNothing
<1>7. CASE op = OrderOp /\ Flush  BY <1>0, <1>7, FlushLosesNothing
<1>8. CASE op = SendOp /\ SenderStep  BY <1>0, <1>8, SenderLosesNothing
<1>9. CASE op = Releaser /\ ReleaserWorks
  <2>1. /\ \A i \in 1..3 : stdin'[i] = stdin[i]
        /\ out' = out /\ held' = held /\ hand' = hand /\ respCh' = respCh
        /\ errCh' = errCh /\ opErr' = opErr
    BY <1>9, Five DEF ReleaserWorks, Takes, QueryTypeOK, PipelineType, busVars
  <2> QED  BY <1>0, <2>1, SameWay
<1> QED  BY <1>1, <1>2, <1>3, <1>4, <1>5, <1>6, <1>7, <1>8, <1>9 DEF PullerStep

LEMMA ProcessorLosesNothing ==
    ASSUME QueryTypeOK, StageInv, NothingIsLost, ProcessorStep
    PROVE  NothingIsLost'
<1>1. /\ clientVars' = clientVars /\ respCh' = respCh
      /\ out' = out /\ opErr' = opErr /\ held' = held /\ hand' = hand
  BY DEF ProcessorStep, Prepare, SendAsync, ExecReturns, ExecEnds, ClosePipeline, Respond,
         CloseResponse, pipelineVars, busVars
<1>2. stdin \in [1..PipelineOut -> Slots]  BY DEF QueryTypeOK, PipelineType
<1>3. CASE Respond
  <2>1. /\ qp = "respond" /\ qp' = "done" /\ stdin' = stdin /\ produced' = produced
        /\ errCh => resultErr'
    BY <1>3 DEF Respond, CloseResponse
  <2>2. ~resultErr  BY <2>1 DEF StageInv
  <2>3. ErrorComes' <=> ErrorComes  BY <1>1, <2>1 DEF ErrorComes
  <2>4. OnTheWay' = OnTheWay /\ received' = received
    BY <1>1, <2>1, Counts DEF OnTheWay, clientVars
  <2> QED
    BY <1>1, <2>1, <2>2, <2>3, <2>4
       DEF NothingIsLost, ErrorArrives, RowsArrive, clientVars
<1>4. ASSUME stdin' = stdin \/ stdin' = [stdin EXCEPT ![PipelineOut] = <<>>],
             produced' = produced, errCh' = errCh, resultErr' = resultErr,
             qp' # "free" /\ qp # "free"
      PROVE  NothingIsLost'
  <2>1. stdin'[1] = stdin[1] /\ stdin'[2] = stdin[2] /\ stdin'[3] = stdin[3]
    BY <1>2, <1>4
  <2>2. ErrorComes' <=> ErrorComes  BY <1>1, <2>1 DEF ErrorComes
  <2>3. OnTheWay' = OnTheWay /\ received' = received
    BY <1>1, <2>1, Counts DEF OnTheWay, clientVars
  <2> QED
    BY <1>1, <1>4, <2>1, <2>2, <2>3
       DEF NothingIsLost, ErrorArrives, RowsArrive, clientVars
<1>5. CASE Prepare \/ ExecReturns \/ ClosePipeline
  <2>1. /\ stdin' = stdin \/ stdin' = [stdin EXCEPT ![PipelineOut] = <<>>]
        /\ produced' = produced /\ errCh' = errCh /\ resultErr' = resultErr
        /\ qp' # "free" /\ qp # "free"
    BY <1>5 DEF Prepare, ExecReturns, ExecEnds, ClosePipeline, busVars, pipelineVars
  <2> QED  BY <1>4, <2>1
<1>6. CASE SendAsync /\ produced' = produced
  <2>1. /\ stdin' = stdin \/ stdin' = [stdin EXCEPT ![PipelineOut] = <<>>]
        /\ errCh' = errCh /\ resultErr' = resultErr /\ qp' # "free" /\ qp # "free"
    BY <1>6, WayCounts DEF SendAsync, ExecEnds, busVars
  <2> QED  BY <1>4, <1>6, <2>1
<1>7. CASE SendAsync /\ produced' # produced
  <2>1. /\ stdin[1] = <<>> /\ stdin' = [stdin EXCEPT ![1] = <<"row">>]
        /\ produced' = produced + 1 /\ errCh' = errCh /\ resultErr' = resultErr
        /\ qp = "exec"
    BY <1>7 DEF SendAsync, ExecEnds, busVars
  <2>2. stdin'[1] = <<"row">> /\ stdin'[2] = stdin[2] /\ stdin'[3] = stdin[3]
    BY <1>2, <2>1
  <2>3. ErrorComes' <=> ErrorComes  BY <1>1, <2>2 DEF ErrorComes
  <2>4. OnTheWay' = OnTheWay + 1 /\ received' = received
    <3>1. /\ InRowOp = 0 /\ InRowOp' = 1 /\ OutRowOp' = OutRowOp
          /\ InOrderOp' = InOrderOp /\ held' = held /\ OutOrderOp' = OutOrderOp
          /\ InSendOp' = InSendOp /\ InHand' = InHand
          /\ InBus' = InBus /\ InRouter' = InRouter /\ received' = received
      BY <1>1, <2>1, <2>2, Counts DEF clientVars
    <3> QED  BY <3>1, WayCounts DEF OnTheWay
  <2>5. OnTheWay \in Nat  BY WayCounts DEF OnTheWay
  <2> QED
    <3>1. RowsArrive => RowsArrive'
      <4>1. opErr' = opErr /\ qp # "free"  BY <1>1, <2>1
      <4>2. received \in Nat /\ produced \in Nat  BY WayCounts
      <4>3. received + OnTheWay = produced => received' + OnTheWay' = produced'
        BY <2>1, <2>4, <2>5, <4>2
      <4> QED  BY <4>1, <4>3 DEF RowsArrive
    <3>2. ErrorArrives => ErrorArrives'  BY <1>1, <2>1, <2>3 DEF ErrorArrives
    <3>3. ctxDone' = ctxDone /\ stdin'[1] # <<"error">>  BY <1>1, <2>2 DEF clientVars
    <3> QED  BY <1>1, <2>3, <3>1, <3>2, <3>3 DEF NothingIsLost
<1> QED  BY <1>3, <1>5, <1>6, <1>7 DEF ProcessorStep

LEMMA CallerLosesNothing ==
    ASSUME QueryTypeOK, StageInv, NothingIsLost,
           SendRequest \/ HTTPRequestStep \/ SocketWrites \/ ClientLeaves
    PROVE  NothingIsLost'
<1>1. /\ pipelineVars' = pipelineVars /\ resultErr' = resultErr /\ produced' = produced
      /\ ctxDone => ctxDone'
  BY CallerIsLocal
<1>2. (ErrorComes' <=> ErrorComes) /\ opErr' = opErr /\ errCh' = errCh /\ stdin' = stdin
  BY <1>1 DEF ErrorComes, pipelineVars
<1>3. ASSUME ~ctxDone', RowsArrive  PROVE RowsArrive'
  <2>1. CASE SendRequest
    <3>1. /\ caller = "call" /\ caller' = "wait" /\ received' = received
          /\ qp' = qp \/ UNCHANGED respCh
      BY <2>1 DEF SendRequest
    <3>2. /\ qp = "free" /\ respCh = <<>>
          /\ stdin = [i \in 1..PipelineOut |-> <<>>] /\ out = [op \in Operators |-> <<>>]
          /\ held = 0 /\ hand = "none" /\ produced = 0 /\ received = 0
      BY <3>1 DEF StageInv
    <3>3. CASE qp' = qp  BY <3>2, <3>3 DEF RowsArrive
    <3>4. CASE respCh' = respCh
      <4>1. /\ stdin'[1] = <<>> /\ stdin'[2] = <<>> /\ stdin'[3] = <<>>
            /\ out'[1] = <<>> /\ out'[2] = <<>> /\ held' = 0 /\ hand' = "none"
            /\ respCh' = <<>>
        BY <1>1, <3>2, <3>4 DEF pipelineVars
      <4>2. OnTheWay' = 0
        <5>1. /\ InRowOp' = 0 /\ OutRowOp' = 0 /\ InOrderOp' = 0 /\ OutOrderOp' = 0
              /\ InSendOp' = 0 /\ InBus' = 0 /\ InHand' = 0 /\ InRouter' = 0
          BY <3>1, <4>1, Counts DEF One
        <5> QED  BY <4>1, <5>1 DEF OnTheWay
      <4> QED  BY <1>1, <3>1, <3>2, <4>2 DEF RowsArrive
    <3> QED  BY <3>1, <3>3, <3>4
  <2>2. CASE ReplyTakes
    <3>1. /\ caller = "reply" /\ caller' = "write" /\ respCh # <<>> /\ respCh' = <<>>
          /\ received' = received /\ qp' = qp
      BY <1>3, <2>2 DEF ReplyTakes, CallerEnds, qpVars
    <3>2. InBus = 1 /\ InBus' = 0  
      <4>1. respCh \in Slots  BY WayTypes
      <4>2. respCh = <<"row">> \/ respCh = <<"error">>  BY <3>1, <4>1 DEF Slots
      <4>3. Len(<<"error">>) = 1  OBVIOUS
      <4> QED  BY <3>1, <4>2, <4>3, Counts
    <3>3. OnTheWay' = OnTheWay
      <4>1. /\ InRowOp' = InRowOp /\ OutRowOp' = OutRowOp
            /\ InOrderOp' = InOrderOp /\ held' = held /\ OutOrderOp' = OutOrderOp
            /\ InSendOp' = InSendOp /\ InHand' = InHand
            /\ InBus = 1 /\ InBus' = 0 /\ InRouter = 0 /\ InRouter' = 1
        BY <1>1, <3>1, <3>2, Counts DEF pipelineVars, One
      <4> QED  BY <4>1, WayCounts DEF OnTheWay
    <3> QED  BY <1>1, <1>2, <1>3, <3>1, <3>3 DEF RowsArrive
  <2>3. CASE ReplyWrites
    <3>1. /\ caller = "write" /\ caller' = "reply" /\ respCh' = respCh
          /\ received' = received + 1 /\ qp' = qp
      BY <2>3 DEF ReplyWrites, busVars, qpVars
    <3>2. OnTheWay = OnTheWay' + 1 /\ OnTheWay' \in Nat
      <4>1. /\ InRowOp' = InRowOp /\ OutRowOp' = OutRowOp
            /\ InOrderOp' = InOrderOp /\ held' = held /\ OutOrderOp' = OutOrderOp
            /\ InSendOp' = InSendOp /\ InHand' = InHand
            /\ InBus' = InBus /\ InRouter = 1 /\ InRouter' = 0
        BY <1>1, <3>1, Counts DEF pipelineVars, One
      <4> QED  BY <4>1, WayCounts DEF OnTheWay
    <3> QED  BY <1>1, <1>2, <1>3, <3>1, <3>2, WayCounts DEF RowsArrive
  <2>4. CASE caller \in {"wait", "single", "open"} /\ ~SendRequest
    <3>1. /\ caller' # "write" /\ received' = received /\ qp' = qp
          /\ respCh' = respCh \/ qp = "free"
      BY <1>3, <2>4 DEF HTTPRequestStep, SocketWrites, ClientLeaves, WaiterTakesMeta,
         WaiterSeesContext, ReplyTakes, ReplyDrains, ReplyOpens, ReplyWrites, ReplyFails,
         ReplySingle, ReplyEnds, CallerEnds, busVars, qpVars, QueryTypeOK, BusType, StageInv
    <3>2. CASE respCh' = respCh
      <4>1. OnTheWay' = OnTheWay  BY <1>1, <2>4, <3>1, <3>2, Counts DEF OnTheWay, pipelineVars, One
      <4> QED  BY <1>1, <1>2, <1>3, <3>1, <4>1 DEF RowsArrive
    <3> QED  BY <3>1, <3>2 DEF RowsArrive
  <2>5. CASE caller \in {"reply", "write"} /\ ~ReplyTakes /\ ~ReplyWrites
    BY <1>3, <2>5 DEF SendRequest, HTTPRequestStep, SocketWrites, ClientLeaves, WaiterTakesMeta,
         WaiterSeesContext, ReplyDrains, ReplyOpens, ReplyFails,
         ReplySingle, ReplyEnds, CallerEnds, Writing
  <2>6. caller \notin {"drain", "done"}
    BY <1>1, <1>3 DEF StageInv
  <2>7. caller \in {"call", "wait", "single", "open", "reply", "write"}
    BY <2>6 DEF QueryTypeOK, ClientType
  <2>8. caller = "call" => SendRequest
    BY DEF HTTPRequestStep, SocketWrites, ClientLeaves, WaiterTakesMeta,
         WaiterSeesContext, ReplyTakes, ReplyDrains, ReplyOpens, ReplyWrites, ReplyFails,
         ReplySingle, ReplyEnds, Writing
  <2> QED  BY <2>1, <2>2, <2>3, <2>4, <2>5, <2>7, <2>8
<1> QED  BY <1>1, <1>2, <1>3 DEF NothingIsLost, ErrorArrives

LEMMA NothingGetsLost ==
    QueryTypeOK /\ ClosingInv /\ StageInv /\ NothingIsLost /\ [QueryNext]_queryVars
        => NothingIsLost'
<1> SUFFICES ASSUME QueryTypeOK, ClosingInv, StageInv, NothingIsLost, [QueryNext]_queryVars
             PROVE  NothingIsLost'
  OBVIOUS
<1>1. CASE UNCHANGED queryVars
  <2>1. SameRest  BY <1>1 DEF queryVars, clientVars, busVars, qpVars, SameRest
  <2> QED  BY <1>1, <2>1, SameWay DEF queryVars, busVars, pipelineVars
<1>2. CASE QueryNext
  BY <1>2, CallerLosesNothing, ProcessorLosesNothing, PullerLosesNothing DEF QueryNext
<1> QED  BY <1>1, <1>2

-----------------------------------------------------------------------------
(* The end of a response. *)

\* Where the pipeline is drained and the processor reports no error, there was none.
LEMMA CleanResponse ==
    ASSUME QueryTypeOK, ClosingInv, StageInv, NothingIsLost,
           caller = "reply", respCh = <<>>, respClosed, ~ctxDone, ~resultErr
    PROVE  /\ qp = "done" /\ PipelineOut \in closed /\ ~qpErr
           /\ SendOp \in opErr \/ (opErr = {} /\ received = produced)
<1>1. qp = "done" /\ PipelineOut \in closed /\ ~qpErr /\ ~errCh
  BY DEF StageInv
<1>2. /\ stdin[1] = <<>> /\ stdin[2] = <<>> /\ stdin[3] = <<>>
      /\ out[1] = <<>> /\ out[2] = <<>> /\ held = 0 /\ hand = "none"
  BY <1>1, DrainedFacts DEF Finished
<1>3. OnTheWay = 0
  <2>1. /\ InRowOp = 0 /\ OutRowOp = 0 /\ InOrderOp = 0 /\ OutOrderOp = 0
        /\ InSendOp = 0 /\ InBus = 0 /\ InHand = 0 /\ InRouter = 0
    BY <1>2, Counts DEF One
  <2> QED  BY <1>2, <2>1 DEF OnTheWay
<1>4. ~ErrorComes
  <2>1. <<>> # <<"error">>  OBVIOUS
  <2> QED  BY <1>2, <2>1 DEF ErrorComes
<1>5. SendOp \in opErr \/ (opErr = {} /\ received + OnTheWay = produced)
  BY <1>1, <1>4 DEF NothingIsLost, ErrorArrives, RowsArrive
<1> QED  BY <1>1, <1>3, <1>5, WayCounts

LEMMA EndStays ==
    QueryTypeOK /\ ClosingInv /\ StageInv /\ NothingIsLost /\ EndInv /\ [QueryNext]_queryVars
        => EndInv'
<1> SUFFICES ASSUME QueryTypeOK, ClosingInv, StageInv, NothingIsLost, EndInv,
                    [QueryNext]_queryVars
             PROVE  EndInv'
  OBVIOUS
<1>1. CASE UNCHANGED queryVars
  BY <1>1 DEF queryVars, clientVars, qpVars, pipelineVars, EndInv, CleanEndIsComplete
<1>2. CASE QueryNext /\ answer = "complete"
  BY <1>2, NothingAfterTheEnd
<1>3. ASSUME answer # "complete", answer' # "complete", answer' = answer \/ ctxDone',
             ctxDone => ctxDone'
      PROVE  EndInv'
  BY <1>3 DEF EndInv, CleanEndIsComplete
<1>4. CASE answer # "complete" /\ (ProcessorStep \/ \E op \in Operators : PullerStep(op))
  <2>1. clientVars' = clientVars
    <3>1. CASE ProcessorStep
      BY <3>1 DEF ProcessorStep, Prepare, SendAsync, ExecReturns, ExecEnds, ClosePipeline,
                  Respond, CloseResponse
    <3> QED  BY <1>4, <3>1, PullerIsLocal DEF PullerShape
  <2> QED  BY <1>3, <1>4, <2>1 DEF clientVars
<1>5. CASE answer # "complete" /\ ReplyEnds
  <2>1. /\ caller = "reply" /\ respCh = <<>> /\ respClosed
        /\ caller' = "done" /\ ctxDone' = TRUE /\ received' = received
        /\ qp' = qp /\ produced' = produced /\ qpErr' = qpErr
        /\ closed' = closed /\ opErr' = opErr
        /\ answer' = "complete" => ~ctxDone /\ ~resultErr
    BY <1>5 DEF ReplyEnds, CallerEnds, qpVars, pipelineVars
  <2>2. CASE answer' = "complete"
    BY <2>1, <2>2, CleanResponse DEF EndInv, CleanEndIsComplete
  <2>3. CASE answer' # "complete"  BY <1>3, <1>5, <2>1, <2>3
  <2> QED  BY <2>2, <2>3
<1>6. CASE /\ answer # "complete" /\ ~ReplyEnds
           /\ SendRequest \/ HTTPRequestStep \/ SocketWrites \/ ClientLeaves
  <2>1. answer' # "complete" /\ (answer' = answer \/ ctxDone')
    BY <1>6 DEF SendRequest, HTTPRequestStep, SocketWrites, ClientLeaves, WaiterTakesMeta,
         WaiterSeesContext, ReplyTakes, ReplyDrains, ReplyOpens, ReplyWrites, ReplyFails,
         ReplySingle, CallerEnds
  <2>2. ctxDone => ctxDone'  BY <1>6, CallerIsLocal
  <2> QED  BY <1>3, <1>6, <2>1, <2>2
<1> QED  BY <1>1, <1>2, <1>4, <1>5, <1>6 DEF QueryNext

LEMMA QueryInvInductive == QueryInv /\ [QueryNext]_queryVars => QueryInv'
BY QueryTypeStays, ClosingStays, StageStays, NothingGetsLost, EndStays DEF QueryInv

LEMMA QueryInvInit == QueryInit => QueryInv
<1> SUFFICES ASSUME QueryInit  PROVE QueryInv
  OBVIOUS
<1> USE DEF QueryInit
<1>1. QueryTypeOK  BY QueryTypeInit
<1>2. ClosingInv  BY DEF ClosingInv
<1>3. StageInv /\ EndInv  BY DEF StageInv, EndInv
<1>4. NothingIsLost
  <2>1. ~ErrorComes
    <3>1. <<>> # <<"error">>  OBVIOUS
    <3> QED  BY <3>1 DEF ErrorComes
  <2>2. <<>> # <<"error">>  OBVIOUS
  <2> QED  BY <2>1, <2>2 DEF NothingIsLost, ErrorArrives, RowsArrive
<1> QED  BY <1>1, <1>2, <1>3, <1>4 DEF QueryInv

\* A response that looks complete to the client is complete: whatever the
\* number of rows, no error of an operator, of the query or of a flush is lost
\* between the pipeline, errCh and resultErr, and no row either.
THEOREM CleanEndsAreComplete == QuerySpec => []CleanEndIsComplete
<1>1. QueryInv => CleanEndIsComplete  BY DEF QueryInv, EndInv, CleanEndIsComplete
<1> QED  BY <1>1, QueryInvInit, QueryInvInductive, PTL DEF QuerySpec

HIDE DEF RowOp, OrderOp, SendOp, Releaser, PipelineOut, Operators

-----------------------------------------------------------------------------
(***************************************************************************)
(* The broker: no wake-up is lost, no quota leaks.                         *)
(***************************************************************************)
USE BrokerAssumption DEF BrokerAssumption

-----------------------------------------------------------------------------
(* Callers. *)

LEMMA CallerFacts ==
    /\ \A c \in Channels : /\ Session(c) \in Subscribers /\ Session(c) \in Callers
                           /\ Channel(Session(c)) = c
    /\ \A x \in Clients : /\ Client(x) \in Subscribers /\ Client(x) \in Callers
                          /\ Channel(Client(x)) = ChannelOf[x]
    /\ \A k \in Keys : Publisher(k) \in Callers /\ Publisher(k) \notin Subscribers
    /\ \A t \in Subscribers :
          /\ t \in Callers /\ Channel(t) \in Channels
          /\ t = Session(Channel(t)) \/ \E x \in Clients : t = Client(x)
    /\ \A t \in Callers \ Subscribers : \E k \in Keys : t = Publisher(k)
    /\ \A c \in Channels, x \in Clients : Session(c) # Client(x)
    /\ \A c, d \in Channels : Session(c) = Session(d) => c = d
    /\ \A x, y \in Clients : Client(x) = Client(y) => x = y
<1> USE DEF Session, Client, Publisher, Subscribers, Callers
<1>1. \A c \in Channels : /\ Session(c) \in Subscribers /\ Session(c) \in Callers
                          /\ Channel(Session(c)) = c
  BY DEF Channel
<1>2. \A x \in Clients : /\ Client(x) \in Subscribers /\ Client(x) \in Callers
                         /\ Channel(Client(x)) = ChannelOf[x]
  BY DEF Channel
<1>3. \A k \in Keys : Publisher(k) \in Callers /\ Publisher(k) \notin Subscribers
  OBVIOUS
<1>4. ASSUME NEW t \in Subscribers
      PROVE  /\ t \in Callers /\ Channel(t) \in Channels
             /\ t = Session(Channel(t)) \/ \E x \in Clients : t = Client(x)
  <2>1. CASE t \in [kind : {"session"}, chan : Channels]
    <3>1. PICK c \in Channels : t = Session(c)  BY <2>1
    <3> QED  BY <3>1, <1>1
  <2>2. CASE t \in [kind : {"client"}, name : Clients]
    <3>1. PICK x \in Clients : t = Client(x)  BY <2>2
    <3> QED  BY <3>1, <1>2
  <2>3. t \notin [kind : {"publisher"}, key : Keys]  OBVIOUS
  <2> QED  BY <2>1, <2>2, <2>3
<1>5. \A t \in Callers \ Subscribers : \E k \in Keys : t = Publisher(k)
  OBVIOUS
<1>6. \A c \in Channels, x \in Clients : Session(c) # Client(x)
  OBVIOUS
<1>7. \A c, d \in Channels : Session(c) = Session(d) => c = d
  OBVIOUS
<1>8. \A x, y \in Clients : Client(x) = Client(y) => x = y
  OBVIOUS
<1> HIDE DEF Session, Client, Publisher, Subscribers, Callers
<1> QED  BY <1>1, <1>2, <1>3, <1>4, <1>5, <1>6, <1>7, <1>8

LEMMA SubjectFacts == \A c \in Channels : SubjectOf[c] \in Subjects
BY DEF Subjects

-----------------------------------------------------------------------------
(* Types. *)

\* What is left of a call, or nothing.
CallOK(r) ==
    /\ r = [at |-> r.at, key |-> r.key, on |-> r.on]
    /\ r.at \in {"none", "mark", "send"} /\ r.on \in BOOLEAN
    /\ r.at # "none" => r.key \in Keys

CallsOK ==
    /\ call = [t \in Callers |-> call[t]]
    /\ \A t \in Callers : CallOK(call[t])
    /\ \A t \in Callers \ Subscribers : call[t].at # "mark"

Stages == {"new", "subscribe", "watch", "deliver", "cleanup", "unsubscribe", "done"}

BrokerTypeOK ==
    /\ offset \in [Keys -> Nat]
    /\ subscriptions \in [Channels -> SUBSET Keys]
    /\ delivered \in [Channels -> [Keys -> Nat]]
    /\ channels \subseteq Channels
    /\ numChannels \in [Subjects -> Int] /\ numSubject \in [Subjects -> Int]
    /\ numSubscriptions \in Int
    /\ events \in Seq(Keys)
    /\ toSubscribe \in [Keys -> [Channels -> {"none", "on", "off"}]]
    /\ subscribed \in [Keys -> SUBSET Channels]
    /\ session \in [Channels -> Stages]
    /\ todo \in [Channels -> SUBSET Keys]
    /\ CallsOK

LEMMA TypeInit == BrokerInit => BrokerTypeOK
<1> SUFFICES ASSUME BrokerInit  PROVE BrokerTypeOK
  OBVIOUS
<1>1. CallsOK  BY DEF BrokerInit, CallsOK, CallOK, NoCall
<1> QED  BY <1>1 DEF BrokerInit, BrokerTypeOK, Stages

\* A caller starts a call of the broker, or goes on with it.
Calls(t, r) == call' = [call EXCEPT ![t] = r]

LEMMA CallsType ==
    ASSUME CallsOK, NEW t \in Callers, NEW r, CallOK(r), Calls(t, r),
           t \notin Subscribers => r.at # "mark"
    PROVE  /\ CallsOK'
           /\ call'[t] = r
           /\ \A u \in Callers \ {t} : call'[u] = call[u]
BY DEF CallsOK, CallOK, Calls

LEMMA SubscribeFacts ==
    ASSUME BrokerTypeOK, NEW t \in Subscribers, NEW c \in Channels, NEW key \in Keys,
           SubscribeLocked(t, c, key)
    PROVE  \E k \in Keys :
              /\ k = ZeroKey[key]
              /\ Calls(t, [at |-> "mark", key |-> k, on |-> TRUE])
              /\ CallOK([at |-> "mark", key |-> k, on |-> TRUE])
              /\ c \in channels /\ c \notin terminated
              /\ \/ k \in subscriptions[c]
                    /\ UNCHANGED <<subscriptions, delivered, numSubject, numSubscriptions>>
                 \/ /\ k \notin subscriptions[c]
                    /\ subscriptions' = [subscriptions EXCEPT ![c] = @ \cup {k}]
                    /\ delivered' = [delivered EXCEPT ![c][k] = 0]
                    /\ numSubject' = [numSubject EXCEPT ![SubjectOf[c]] = @ + 1]
                    /\ numSubscriptions' = numSubscriptions + 1
<1>1. ZeroKey[key] \in Keys  OBVIOUS
<1> QED  BY <1>1 DEF SubscribeLocked, CanSubscribe, Calls, CallOK

LEMMA UnsubscribeFacts ==
    ASSUME BrokerTypeOK, NEW t \in Subscribers, NEW c \in Channels, NEW k \in Keys,
           UnsubscribeLocked(t, c, k)
    PROVE  /\ \/ Calls(t, [at |-> "mark", key |-> k, on |-> FALSE])
              \/ call' = call
           /\ CallOK([at |-> "mark", key |-> k, on |-> FALSE])
           /\ \/ k \notin subscriptions[c]
                 /\ UNCHANGED <<subscriptions, numSubject, numSubscriptions>>
              \/ /\ k \in subscriptions[c]
                 /\ subscriptions' = [subscriptions EXCEPT ![c] = @ \ {k}]
                 /\ numSubject' = [numSubject EXCEPT ![SubjectOf[c]] = @ - 1]
                 /\ numSubscriptions' = numSubscriptions - 1
BY DEF UnsubscribeLocked, Calls, CallOK

-----------------------------------------------------------------------------
(* Every step keeps the types. *)

LEMMA CallsStay == CallsOK /\ call' = call => CallsOK'
BY DEF CallsOK, CallOK

LEMMA NotifierTakesType == BrokerTypeOK /\ NotifierTakes => BrokerTypeOK'
<1> SUFFICES ASSUME BrokerTypeOK, NotifierTakes  PROVE BrokerTypeOK'
  OBVIOUS
<1> DEFINE k == Head(events)
<1>1. k \in Keys /\ Tail(events) \in Seq(Keys)  BY DEF BrokerTypeOK, NotifierTakes
<1>2. Merged(k) \subseteq Channels  BY DEF Merged
<1>3. /\ subscribed' = [subscribed EXCEPT ![k] = Merged(k)]
      /\ toSubscribe' = [toSubscribe EXCEPT ![k] = [c \in Channels |-> "none"]]
      /\ events' = Tail(events)
      /\ UNCHANGED <<offset, subscriptions, delivered, channels, quotaVars, session, todo, call>>
  BY DEF NotifierTakes
<1>4. CallsOK'  BY <1>3, CallsStay DEF BrokerTypeOK
<1> HIDE DEF k
<1>5. subscribed' \in [Keys -> SUBSET Channels]  BY <1>1, <1>2, <1>3 DEF BrokerTypeOK
<1>6. toSubscribe' \in [Keys -> [Channels -> {"none", "on", "off"}]]
  <2>1. [c \in Channels |-> "none"] \in [Channels -> {"none", "on", "off"}]  OBVIOUS
  <2> QED  BY <1>1, <1>3, <2>1 DEF BrokerTypeOK
<1> QED  BY <1>1, <1>3, <1>4, <1>5, <1>6 DEF BrokerTypeOK, quotaVars

\* The steps of a goroutine that call nothing.
LEMMA SessionType ==
    ASSUME BrokerTypeOK, NEW c \in Channels,
           \/ NewChannel(c) \/ SendChannelID(c) \/ WatchTakes(c) \/ WatchDelivers(c)
           \/ WatchLeaves(c) \/ CleanupTerminates(c) \/ CleanupEnds(c)
    PROVE  BrokerTypeOK'
<1> USE DEF Goes
<1>1. call' = call /\ events' = events /\ toSubscribe' = toSubscribe /\ subscribed' = subscribed
  BY DEF NewChannel, SendChannelID, WatchTakes, WatchDelivers, WatchLeaves,
         CleanupTerminates, CleanupEnds, notifierVars
<1>2. CallsOK'  BY <1>1, CallsStay DEF BrokerTypeOK
<1>3. offset' = offset /\ subscriptions' = subscriptions
      /\ numSubject' = numSubject /\ numSubscriptions' = numSubscriptions
  BY DEF NewChannel, SendChannelID, WatchTakes, WatchDelivers, WatchLeaves,
         CleanupTerminates, CleanupEnds, quotaVars
<1>4. session' \in [Channels -> Stages]
  <2>1. \E stage \in Stages : session' = [session EXCEPT ![c] = stage]
    <3> USE DEF Stages
    <3>1. CASE NewChannel(c)  BY <3>1 DEF NewChannel
    <3>2. CASE SendChannelID(c) \/ WatchTakes(c) \/ WatchDelivers(c)
      BY <3>2 DEF SendChannelID, WatchTakes, WatchDelivers
    <3>3. CASE WatchLeaves(c) \/ CleanupTerminates(c) \/ CleanupEnds(c)
      BY <3>3 DEF WatchLeaves, CleanupTerminates, CleanupEnds
    <3> QED  BY <3>1, <3>2, <3>3
  <2> QED  BY <2>1 DEF BrokerTypeOK
<1>5. delivered' \in [Channels -> [Keys -> Nat]]
  <2>1. CASE delivered' = delivered  BY <2>1 DEF BrokerTypeOK
  <2>2. CASE WatchDelivers(c)
    <3> DEFINE told == [k \in Keys |-> IF k \in subscriptions[c] /\ offset[k] > delivered[c][k]
                                       THEN offset[k] ELSE delivered[c][k]]
    <3>1. told \in [Keys -> Nat]  BY DEF BrokerTypeOK
    <3>2. delivered' = [delivered EXCEPT ![c] = told]  BY <2>2 DEF WatchDelivers, BrokerTypeOK
    <3> HIDE DEF told
    <3> QED  BY <3>1, <3>2 DEF BrokerTypeOK
  <2> QED  BY <2>1, <2>2 DEF NewChannel, SendChannelID, WatchTakes, WatchLeaves,
                             CleanupTerminates, CleanupEnds
<1>6. todo' \in [Channels -> SUBSET Keys]
  <2>1. todo' = todo \/ \E K \in SUBSET Keys : todo' = [todo EXCEPT ![c] = K]
    <3>1. CASE NewChannel(c)  BY <3>1 DEF NewChannel
    <3>2. CASE CleanupTerminates(c)  BY <3>2 DEF CleanupTerminates, BrokerTypeOK
    <3> QED  BY <3>1, <3>2 DEF SendChannelID, WatchTakes, WatchDelivers, WatchLeaves, CleanupEnds
  <2> QED  BY <2>1 DEF BrokerTypeOK
<1>7. channels' \subseteq Channels
  BY DEF NewChannel, SendChannelID, WatchTakes, WatchDelivers, WatchLeaves,
         CleanupTerminates, CleanupEnds, BrokerTypeOK
<1>8. numChannels' \in [Subjects -> Int]
  <2>1. SubjectOf[c] \in Subjects  BY SubjectFacts
  <2>2. \/ numChannels' = numChannels
        \/ numChannels' = [numChannels EXCEPT ![SubjectOf[c]] = @ + 1]
        \/ numChannels' = [numChannels EXCEPT ![SubjectOf[c]] = @ - 1]
    BY DEF NewChannel, SendChannelID, WatchTakes, WatchDelivers, WatchLeaves,
           CleanupTerminates, CleanupEnds, quotaVars
  <2> QED  BY <2>1, <2>2 DEF BrokerTypeOK
<1> QED  BY <1>1, <1>2, <1>3, <1>4, <1>5, <1>6, <1>7, <1>8 DEF BrokerTypeOK

\* What a call of Subscribe or Unsubscribe may do under the broker's lock.
LEMMA LockedType ==
    ASSUME BrokerTypeOK, NEW t \in Subscribers, NEW c \in Channels, NEW key \in Keys,
           \/ SubscribeLocked(t, c, key)
           \/ UnsubscribeLocked(t, c, key) /\ delivered' = delivered
    PROVE  /\ subscriptions' \in [Channels -> SUBSET Keys]
           /\ delivered' \in [Channels -> [Keys -> Nat]]
           /\ numSubject' \in [Subjects -> Int] /\ numSubscriptions' \in Int
           /\ CallsOK'
<1> DEFINE s == SubjectOf[c]
<1>1. s \in Subjects /\ t \in Callers  BY SubjectFacts, CallerFacts
<1>3. CASE SubscribeLocked(t, c, key)
  <2>1. PICK k \in Keys :
              /\ k = ZeroKey[key]
              /\ Calls(t, [at |-> "mark", key |-> k, on |-> TRUE])
              /\ CallOK([at |-> "mark", key |-> k, on |-> TRUE])
              /\ c \in channels /\ c \notin terminated
              /\ \/ k \in subscriptions[c]
                    /\ UNCHANGED <<subscriptions, delivered, numSubject, numSubscriptions>>
                 \/ /\ k \notin subscriptions[c]
                    /\ subscriptions' = [subscriptions EXCEPT ![c] = @ \cup {k}]
                    /\ delivered' = [delivered EXCEPT ![c][k] = 0]
                    /\ numSubject' = [numSubject EXCEPT ![SubjectOf[c]] = @ + 1]
                    /\ numSubscriptions' = numSubscriptions + 1
    BY <1>3, SubscribeFacts
  <2>2. CallsOK'  BY <1>1, <2>1, CallsType DEF BrokerTypeOK
  <2>3. CASE UNCHANGED <<subscriptions, delivered, numSubject, numSubscriptions>>
    BY <2>2, <2>3 DEF BrokerTypeOK
  <2>4. CASE k \notin subscriptions[c]
    <3>0. /\ subscriptions' = [subscriptions EXCEPT ![c] = @ \cup {k}]
          /\ delivered' = [delivered EXCEPT ![c][k] = 0]
          /\ numSubject' = [numSubject EXCEPT ![SubjectOf[c]] = @ + 1]
          /\ numSubscriptions' = numSubscriptions + 1
      BY <2>1, <2>4
    <3>1. subscriptions' \in [Channels -> SUBSET Keys]
      <4>1. subscriptions[c] \cup {k} \in SUBSET Keys  BY DEF BrokerTypeOK
      <4> QED  BY <3>0, <4>1 DEF BrokerTypeOK
    <3>2. delivered' \in [Channels -> [Keys -> Nat]]  BY <3>0 DEF BrokerTypeOK
    <3>3. numSubject' \in [Subjects -> Int]  BY <1>1, <3>0 DEF BrokerTypeOK
    <3>4. numSubscriptions' \in Int  BY <3>0 DEF BrokerTypeOK
    <3> QED  BY <2>2, <3>1, <3>2, <3>3, <3>4
  <2> QED  BY <2>1, <2>3, <2>4
<1>4. CASE UnsubscribeLocked(t, c, key) /\ delivered' = delivered
  <2>1. /\ \/ Calls(t, [at |-> "mark", key |-> key, on |-> FALSE])
           \/ call' = call
        /\ CallOK([at |-> "mark", key |-> key, on |-> FALSE])
        /\ \/ UNCHANGED <<subscriptions, numSubject, numSubscriptions>>
           \/ /\ subscriptions' = [subscriptions EXCEPT ![c] = @ \ {key}]
              /\ numSubject' = [numSubject EXCEPT ![SubjectOf[c]] = @ - 1]
              /\ numSubscriptions' = numSubscriptions - 1
    BY <1>4, UnsubscribeFacts
  <2>2. CallsOK'  BY <1>1, <2>1, CallsType, CallsStay DEF BrokerTypeOK
  <2>3. subscriptions' \in [Channels -> SUBSET Keys]
    <3>1. subscriptions[c] \ {key} \in SUBSET Keys  BY DEF BrokerTypeOK
    <3> QED  BY <2>1, <3>1 DEF BrokerTypeOK
  <2>4. delivered' \in [Channels -> [Keys -> Nat]]  BY <1>4 DEF BrokerTypeOK
  <2>5. numSubject' \in [Subjects -> Int]  BY <1>1, <2>1 DEF BrokerTypeOK
  <2>6. numSubscriptions' \in Int  BY <2>1 DEF BrokerTypeOK
  <2> QED  BY <2>2, <2>3, <2>4, <2>5, <2>6
<1> QED  BY <1>3, <1>4

\* The steps that call Subscribe or Unsubscribe.
LEMMA SubscriberType ==
    ASSUME BrokerTypeOK,
           \/ \E c \in Channels : SessionSubscribes(c) \/ CleanupUnsubscribes(c)
           \/ \E x \in Clients : ClientSubscribes(x) \/ ClientUnsubscribes(x)
    PROVE  BrokerTypeOK'
<1>0. UNCHANGED <<offset, channels, numChannels, events, toSubscribe, subscribed>>
  BY DEF SessionSubscribes, CleanupUnsubscribes, ClientSubscribes, ClientUnsubscribes,
         notifierVars
<1>1. session' \in [Channels -> Stages]
  <2>1. session' = session \/ \E c \in Channels : session' = [session EXCEPT ![c] = "cleanup"]
    BY DEF SessionSubscribes, CleanupUnsubscribes, ClientSubscribes, ClientUnsubscribes, Goes
  <2> QED  BY <2>1 DEF BrokerTypeOK, Stages
<1>2. todo' \in [Channels -> SUBSET Keys]
  <2>1. \/ todo' = todo
        \/ \E c \in Channels, k \in Keys : todo' = [todo EXCEPT ![c] = @ \ {k}]
    <3>1. ASSUME NEW c \in Channels, SessionSubscribes(c) \/ CleanupUnsubscribes(c)
          PROVE  <2>1
      <4>1. todo[c] \subseteq Keys  BY DEF BrokerTypeOK
      <4> QED  BY <3>1, <4>1 DEF SessionSubscribes, CleanupUnsubscribes
    <3> QED  BY <3>1 DEF ClientSubscribes, ClientUnsubscribes
  <2>2. ASSUME NEW c \in Channels, NEW k \in Keys, todo' = [todo EXCEPT ![c] = @ \ {k}]
        PROVE  todo' \in [Channels -> SUBSET Keys]
    <3>1. todo[c] \ {k} \in SUBSET Keys  BY DEF BrokerTypeOK
    <3> QED  BY <2>2, <3>1 DEF BrokerTypeOK
  <2> QED  BY <2>1, <2>2 DEF BrokerTypeOK
<1>3. \/ UNCHANGED <<subscriptions, delivered, numSubject, numSubscriptions, call>>
      \/ \E t \in Subscribers, c \in Channels, key \in Keys :
            \/ SubscribeLocked(t, c, key)
            \/ UnsubscribeLocked(t, c, key) /\ delivered' = delivered
  <2>1. ASSUME NEW c \in Channels, SessionSubscribes(c) \/ CleanupUnsubscribes(c)
        PROVE  <1>3!1 \/ <1>3!2
    <3>1. todo[c] \subseteq Keys /\ Session(c) \in Subscribers
      BY CallerFacts DEF BrokerTypeOK
    <3> QED  BY <2>1, <3>1 DEF SessionSubscribes, CleanupUnsubscribes
  <2>2. ASSUME NEW x \in Clients, ClientSubscribes(x) \/ ClientUnsubscribes(x)
        PROVE  <1>3!2
    <3>1. ChannelOf[x] \in Channels /\ Client(x) \in Subscribers  BY CallerFacts
    <3> QED  BY <2>2, <3>1 DEF ClientSubscribes, ClientUnsubscribes
  <2> QED  BY <2>1, <2>2
<1>4. /\ subscriptions' \in [Channels -> SUBSET Keys]
      /\ delivered' \in [Channels -> [Keys -> Nat]]
      /\ numSubject' \in [Subjects -> Int] /\ numSubscriptions' \in Int
      /\ CallsOK'
  <2>1. CASE UNCHANGED <<subscriptions, delivered, numSubject, numSubscriptions, call>>
    BY <2>1, CallsStay DEF BrokerTypeOK
  <2> QED  BY <1>3, <2>1, LockedType
<1> QED  BY <1>0, <1>1, <1>2, <1>4 DEF BrokerTypeOK

LEMMA MarkType ==
    ASSUME BrokerTypeOK, NEW t \in Subscribers, Mark(t)
    PROVE  /\ BrokerTypeOK'
           /\ call[t].key \in Keys
           /\ Calls(t, [call[t] EXCEPT !.at = "send"])
<1>1. CallOK(call[t]) /\ t \in Callers /\ Channel(t) \in Channels
  BY CallerFacts DEF BrokerTypeOK, CallsOK
<1>2. call[t].key \in Keys  BY <1>1 DEF Mark, CallOK
<1>3. Calls(t, [call[t] EXCEPT !.at = "send"])
  BY <1>1 DEF Mark, Calls, BrokerTypeOK, CallsOK
<1>4. CallOK([call[t] EXCEPT !.at = "send"])  BY <1>1, <1>2 DEF CallOK
<1>5. [call[t] EXCEPT !.at = "send"].at = "send"  BY <1>1 DEF CallOK
<1>6. CallsOK'  BY <1>1, <1>3, <1>4, <1>5, CallsType DEF BrokerTypeOK
<1>7. toSubscribe' \in [Keys -> [Channels -> {"none", "on", "off"}]]
  BY <1>1, <1>2 DEF Mark, BrokerTypeOK
<1> QED  BY <1>2, <1>3, <1>6, <1>7 DEF BrokerTypeOK, Mark, quotaVars

LEMMA TypeNext == BrokerTypeOK /\ [BrokerNext]_brokerVars => BrokerTypeOK'
<1> SUFFICES ASSUME BrokerTypeOK, [BrokerNext]_brokerVars  PROVE BrokerTypeOK'
  OBVIOUS
<1>1. ASSUME NEW c \in Channels, NotifierSignals(c)  PROVE BrokerTypeOK'
  BY <1>1, CallsStay DEF BrokerTypeOK, NotifierSignals, quotaVars
<1>2. ASSUME NEW k \in Keys, Update(k)  PROVE BrokerTypeOK'
  <2>1. Calls(Publisher(k), [at |-> "send", key |-> k, on |-> FALSE])
    BY <1>2 DEF Update, Calls
  <2>2. CallsOK'  BY <2>1, CallsType, CallerFacts DEF BrokerTypeOK, CallOK
  <2> QED  BY <1>2, <2>2 DEF BrokerTypeOK, Update, quotaVars, notifierVars
<1>3. ASSUME NEW t \in Callers, Send(t)  PROVE BrokerTypeOK'
  <2>1. Calls(t, NoCall) /\ CallOK(NoCall)  BY <1>3 DEF Send, Calls, CallOK, NoCall
  <2>2. CallsOK'  BY <2>1, CallsType DEF BrokerTypeOK, NoCall
  <2>3. call[t].key \in Keys  BY <1>3 DEF Send, BrokerTypeOK, CallsOK, CallOK
  <2> QED  BY <1>3, <2>2, <2>3 DEF BrokerTypeOK, Send, quotaVars
<1>4. CASE UNCHANGED brokerVars
  BY <1>4, CallsStay DEF BrokerTypeOK, brokerVars, quotaVars, notifierVars
<1> QED
  BY <1>1, <1>2, <1>3, <1>4, NotifierTakesType, SessionType, SubscriberType, MarkType
     DEF BrokerNext, SessionNext

-----------------------------------------------------------------------------
(* No wake-up is lost. *)

\* A client waits for an answer before its next request, so that there is one
\* request about a channel at a time.
OneClientPerChannel == \A x, y \in Clients : ChannelOf[x] = ChannelOf[y] => x = y

\* Which calls there can be at a stage of a session.
CallsFit(c) ==
    /\ session[c] \in {"new", "subscribe"} =>
          \A x \in Clients : ChannelOf[x] = c => Free(Client(x))
    /\ session[c] \in {"new", "watch", "deliver"} => Free(Session(c))
    /\ session[c] = "new" => subscriptions[c] = {}

\* What the notifier knows of the subscriptions of a channel, or gets to know.
Prepared(c) ==
    Watching(c) =>
        /\ \A k \in subscriptions[c] : SubscriptionComes(c, k) \/ c \in Merged(k)
        /\ \A t \in Subscribers :
              Channel(t) = c /\ call[t].at = "mark" /\ ~call[t].on =>
                  call[t].key \notin subscriptions[c]

WakeUp(c) ==
    Watching(c) =>
        \A k \in subscriptions[c] : offset[k] > delivered[c][k] =>
            \/ c \in cchan \cup toNotify
            \/ session[c] = "deliver"
            \/ SubscriptionComes(c, k)
            \/ c \in Merged(k) /\ EventComes(k)

WakeInv ==
    /\ BrokerTypeOK
    /\ \A c \in Channels : CallsFit(c) /\ Prepared(c) /\ WakeUp(c)

LEMMA WakeInit == BrokerInit => WakeInv
<1> SUFFICES ASSUME BrokerInit, NEW c \in Channels
             PROVE  CallsFit(c) /\ Prepared(c) /\ WakeUp(c)
  BY TypeInit DEF WakeInv
<1>1. ~Watching(c) /\ subscriptions[c] = {}  BY DEF BrokerInit, Watching
<1>2. \A t \in Callers : Free(t)  BY DEF BrokerInit, Free, NoCall
<1> QED  BY <1>1, <1>2, CallerFacts DEF CallsFit, Prepared, WakeUp

LEMMA NobodyElseCalls ==
    ASSUME OneClientPerChannel, WakeInv, NEW t \in Subscribers, Free(t),
           \/ t = Session(Channel(t)) /\ session[Channel(t)] = "subscribe"
           \/ \E x \in Clients : t = Client(x) /\ Announced(ChannelOf[x])
    PROVE  Watching(Channel(t)) => \A u \in Subscribers : Channel(u) = Channel(t) => Free(u)
<1> SUFFICES ASSUME Watching(Channel(t)), NEW u \in Subscribers, Channel(u) = Channel(t)
             PROVE  Free(u)
  OBVIOUS
<1>1. Channel(t) \in Channels /\ CallsFit(Channel(t))  BY CallerFacts DEF WakeInv
<1>2. u = Session(Channel(t)) \/ \E y \in Clients : u = Client(y)  BY CallerFacts
<1>3. CASE t = Session(Channel(t)) /\ session[Channel(t)] = "subscribe"
  BY <1>1, <1>2, <1>3, CallerFacts DEF CallsFit
<1>4. ASSUME NEW x \in Clients, t = Client(x), Announced(ChannelOf[x])  PROVE Free(u)
  <2>1. session[Channel(t)] \in {"watch", "deliver"}
    BY <1>4, CallerFacts DEF Announced, Watching
  <2>2. ASSUME NEW y \in Clients, u = Client(y)  PROVE u = t
    BY <1>4, <2>2, CallerFacts DEF OneClientPerChannel
  <2> QED  BY <1>1, <1>2, <2>1, <2>2 DEF CallsFit
<1> QED  BY <1>3, <1>4

\* A call that begins does not hide the ones under way.
LEMMA CallStarts ==
    ASSUME WakeInv, NEW t \in Callers, Free(t), NEW r, Calls(t, r), UNCHANGED notifierVars,
           NEW c \in Channels, NEW k \in Keys
    PROVE  /\ SubscriptionComes(c, k) => SubscriptionComes(c, k)'
           /\ EventComes(k) => EventComes(k)'
           /\ Merged(k)' = Merged(k)
<1>1. call'[t] = r /\ \A u \in Callers \ {t} : call'[u] = call[u]
  BY DEF WakeInv, BrokerTypeOK, CallsOK, Calls
<1>2. SubscriptionComes(c, k) => SubscriptionComes(c, k)'
  BY <1>1, CallerFacts DEF SubscriptionComes, Free
<1>3. EventComes(k) => EventComes(k)'
  BY <1>1 DEF EventComes, Free, notifierVars
<1> QED  BY <1>2, <1>3 DEF Merged, notifierVars

LEMMA SubscribeWakes ==
    ASSUME OneClientPerChannel, WakeInv, NEW t \in Subscribers, Free(t), NEW key \in Keys,
           \/ t = Session(Channel(t)) /\ session[Channel(t)] = "subscribe"
           \/ \E x \in Clients : t = Client(x) /\ Announced(ChannelOf[x]),
           SubscribeLocked(t, Channel(t), key),
           UNCHANGED <<offset, notifierVars, session>>,
           NEW c \in Channels
    PROVE  CallsFit(c)' /\ Prepared(c)' /\ WakeUp(c)'
<1> DEFINE d == Channel(t)
<1>0. d \in Channels /\ t \in Callers  BY CallerFacts
<1>1. PICK k \in Keys :
              /\ k = ZeroKey[key]
              /\ Calls(t, [at |-> "mark", key |-> k, on |-> TRUE])
              /\ CallOK([at |-> "mark", key |-> k, on |-> TRUE])
              /\ d \in channels /\ d \notin terminated
              /\ \/ k \in subscriptions[d]
                    /\ UNCHANGED <<subscriptions, delivered, numSubject, numSubscriptions>>
                 \/ /\ k \notin subscriptions[d]
                    /\ subscriptions' = [subscriptions EXCEPT ![d] = @ \cup {k}]
                    /\ delivered' = [delivered EXCEPT ![d][k] = 0]
                    /\ numSubject' = [numSubject EXCEPT ![SubjectOf[d]] = @ + 1]
                    /\ numSubscriptions' = numSubscriptions + 1
  BY <1>0, SubscribeFacts DEF WakeInv
<1>2. /\ call'[t] = [at |-> "mark", key |-> k, on |-> TRUE]
      /\ \A u \in Callers \ {t} : call'[u] = call[u]
  BY <1>0, <1>1, CallsType DEF WakeInv, BrokerTypeOK
<1>3. /\ \A e \in Channels \ {d} : subscriptions'[e] = subscriptions[e]
                                   /\ delivered'[e] = delivered[e]
      /\ subscriptions'[d] = subscriptions[d] \cup {k}
      /\ \A j \in Keys \ {k} : delivered'[d][j] = delivered[d][j]
  <2>1. /\ subscriptions \in [Channels -> SUBSET Keys]
        /\ delivered \in [Channels -> [Keys -> Nat]]
    BY DEF WakeInv, BrokerTypeOK
  <2>2. CASE k \in subscriptions[d]  BY <1>0, <1>1, <2>1, <2>2
  <2>3. CASE k \notin subscriptions[d]
    <3>1. /\ subscriptions' = [subscriptions EXCEPT ![d] = @ \cup {k}]
          /\ delivered' = [delivered EXCEPT ![d][k] = 0]
      BY <1>1, <2>3
    <3> QED  BY <1>0, <2>1, <3>1
  <2> QED  BY <2>2, <2>3
<1>4. Watching(d) => \A u \in Subscribers : Channel(u) = d => Free(u)
  BY NobodyElseCalls
<1>5. SubscriptionComes(d, k)'
  BY <1>2 DEF SubscriptionComes
<1>6. \A j \in Keys : /\ SubscriptionComes(c, j) => SubscriptionComes(c, j)'
                      /\ EventComes(j) => EventComes(j)'
                      /\ Merged(j)' = Merged(j)
  BY <1>0, <1>1, CallStarts
<1>7. CallsFit(c)'
  <2>1. session[d] # "new" /\ (t = Session(d) => session[d] = "subscribe")
    BY <1>0, CallerFacts DEF Announced
  <2>2. CASE t = Session(d)
    BY <1>2, <1>3, <2>1, <2>2, CallerFacts DEF WakeInv, CallsFit, Free
  <2>3. CASE t # Session(d)
    <3>1. PICK x \in Clients : t = Client(x) /\ session[d] \notin {"new", "subscribe"}
      BY <2>3, CallerFacts DEF Announced
    <3> QED  BY <1>2, <1>3, <3>1, CallerFacts DEF WakeInv, CallsFit, Free
  <2> QED  BY <2>2, <2>3
<1> HIDE DEF d
<1>8. subscriptions[c] \subseteq Keys  BY DEF WakeInv, BrokerTypeOK
<1>9. Prepared(c)'
  <2> SUFFICES ASSUME Watching(c)'
               PROVE  /\ \A j \in subscriptions'[c] : SubscriptionComes(c, j)' \/ c \in Merged(j)'
                      /\ \A u \in Subscribers :
                            Channel(u) = c /\ call'[u].at = "mark" /\ ~call'[u].on =>
                                call'[u].key \notin subscriptions'[c]
    BY DEF Prepared
  <2>1. Watching(c)  BY DEF Watching
  <2>2. Prepared(c)  BY DEF WakeInv
  <2>3. \A j \in subscriptions'[c] : SubscriptionComes(c, j)' \/ c \in Merged(j)'
    BY <1>3, <1>5, <1>6, <1>8, <2>1, <2>2 DEF Prepared
  <2>4. ASSUME NEW u \in Subscribers, Channel(u) = c, call'[u].at = "mark", ~call'[u].on
        PROVE  call'[u].key \notin subscriptions'[c]
    <3>1. u # t /\ u \in Callers  BY <1>2, <2>4, CallerFacts
    <3>2. call'[u] = call[u]  BY <1>2, <3>1
    <3>3. c # d  BY <1>4, <2>1, <2>4, <3>2 DEF Free
    <3> QED  BY <1>3, <2>1, <2>2, <2>4, <3>2, <3>3 DEF Prepared
  <2> QED  BY <2>3, <2>4
<1>10. WakeUp(c)'
  <2> SUFFICES ASSUME Watching(c)', NEW j \in subscriptions'[c], offset'[j] > delivered'[c][j]
               PROVE  \/ c \in cchan' \cup toNotify'
                      \/ session'[c] = "deliver"
                      \/ SubscriptionComes(c, j)'
                      \/ c \in Merged(j)' /\ EventComes(j)'
    BY DEF WakeUp
  <2>1. CASE c = d /\ j = k  BY <1>5, <2>1
  <2>2. CASE ~(c = d /\ j = k)
    <3>1. j \in subscriptions[c] /\ j \in Keys /\ delivered'[c][j] = delivered[c][j]
      BY <1>3, <1>8, <2>2
    <3> QED  BY <1>6, <3>1 DEF WakeInv, WakeUp, Watching, notifierVars
  <2> QED  BY <2>1, <2>2
<1> QED  BY <1>7, <1>9, <1>10

LEMMA UnsubscribeWakes ==
    ASSUME WakeInv, NEW t \in Subscribers, Free(t), NEW key \in Keys,
           \/ t = Session(Channel(t)) /\ session[Channel(t)] = "unsubscribe"
           \/ \E x \in Clients : t = Client(x) /\ Announced(ChannelOf[x]),
           UnsubscribeLocked(t, Channel(t), key),
           UNCHANGED <<offset, delivered, notifierVars, session>>,
           NEW c \in Channels
    PROVE  CallsFit(c)' /\ Prepared(c)' /\ WakeUp(c)'
<1> DEFINE d == Channel(t)
<1>0. d \in Channels /\ t \in Callers  BY CallerFacts
<1>1. /\ \/ Calls(t, [at |-> "mark", key |-> key, on |-> FALSE])
         \/ call' = call
      /\ CallOK([at |-> "mark", key |-> key, on |-> FALSE])
      /\ \/ key \notin subscriptions[d] /\ subscriptions' = subscriptions
         \/ subscriptions' = [subscriptions EXCEPT ![d] = @ \ {key}]
  BY <1>0, UnsubscribeFacts DEF WakeInv
<1>2. /\ call'[t] = [at |-> "mark", key |-> key, on |-> FALSE] \/ call'[t] = call[t]
      /\ \A u \in Callers \ {t} : call'[u] = call[u]
  BY <1>0, <1>1, CallsType DEF WakeInv, BrokerTypeOK
<1>3. /\ \A e \in Channels \ {d} : subscriptions'[e] = subscriptions[e]
      /\ subscriptions'[d] = subscriptions[d] \ {key}
  BY <1>0, <1>1 DEF WakeInv, BrokerTypeOK
<1>4. \A j \in Keys : /\ SubscriptionComes(c, j) => SubscriptionComes(c, j)'
                      /\ EventComes(j) => EventComes(j)'
                      /\ Merged(j)' = Merged(j)
  <2>1. CASE call' = call
    BY <2>1 DEF SubscriptionComes, EventComes, Merged, notifierVars
  <2>2. CASE Calls(t, [at |-> "mark", key |-> key, on |-> FALSE])
    BY <1>0, <2>2, CallStarts
  <2> QED  BY <1>1, <2>1, <2>2
<1>5. CallsFit(c)'
  <2>1. t = Session(d) => session[d] = "unsubscribe"
    BY <1>0, CallerFacts
  <2>2. CASE t = Session(d)
    BY <1>2, <1>3, <2>1, <2>2, CallerFacts DEF WakeInv, CallsFit, Free
  <2>3. CASE t # Session(d)
    <3>1. PICK x \in Clients : t = Client(x) /\ session[d] \notin {"new", "subscribe"}
      BY <2>3, CallerFacts DEF Announced
    <3> QED  BY <1>2, <1>3, <3>1, CallerFacts DEF WakeInv, CallsFit, Free
  <2> QED  BY <2>2, <2>3
<1> HIDE DEF d
<1>6. subscriptions[c] \subseteq Keys /\ subscriptions'[c] \subseteq subscriptions[c]
  BY <1>3 DEF WakeInv, BrokerTypeOK
<1>7. Prepared(c)'
  <2> SUFFICES ASSUME Watching(c)'
               PROVE  /\ \A j \in subscriptions'[c] : SubscriptionComes(c, j)' \/ c \in Merged(j)'
                      /\ \A u \in Subscribers :
                            Channel(u) = c /\ call'[u].at = "mark" /\ ~call'[u].on =>
                                call'[u].key \notin subscriptions'[c]
    BY DEF Prepared
  <2>1. Watching(c) /\ Prepared(c)  BY DEF Watching, WakeInv
  <2>2. \A j \in subscriptions'[c] : SubscriptionComes(c, j)' \/ c \in Merged(j)'
    BY <1>4, <1>6, <2>1 DEF Prepared
  <2>3. ASSUME NEW u \in Subscribers, Channel(u) = c, call'[u].at = "mark", ~call'[u].on
        PROVE  call'[u].key \notin subscriptions'[c]
    <3>1. u \in Callers  BY CallerFacts
    <3>2. CASE call'[u] = call[u]  BY <1>6, <2>1, <2>3, <3>2 DEF Prepared
    <3>3. CASE u = t /\ call'[t] = [at |-> "mark", key |-> key, on |-> FALSE]
      BY <1>3, <2>3, <3>3 DEF d
    <3> QED  BY <1>2, <3>1, <3>2, <3>3
  <2> QED  BY <2>2, <2>3
<1>8. WakeUp(c)'
  BY <1>4, <1>6 DEF WakeInv, WakeUp, Watching, notifierVars
<1> QED  BY <1>5, <1>7, <1>8

\* toSubscribe is written, and the event is sent next.
LEMMA MarkWakes ==
    ASSUME WakeInv, NEW t \in Subscribers, Mark(t), NEW c \in Channels
    PROVE  CallsFit(c)' /\ Prepared(c)' /\ WakeUp(c)'
<1> DEFINE d == Channel(t)
<1>k. PICK k \in Keys : k = call[t].key  BY MarkType DEF WakeInv
<1>0. /\ d \in Channels /\ t \in Callers
      /\ CallOK(call[t])
      /\ Calls(t, [call[t] EXCEPT !.at = "send"])
  BY <1>k, CallerFacts, MarkType DEF WakeInv, BrokerTypeOK, CallsOK
<1>1. /\ call'[t].at = "send" /\ call'[t].key = k
      /\ \A u \in Callers \ {t} : call'[u] = call[u]
  BY <1>k, <1>0 DEF Calls, CallOK, WakeInv, BrokerTypeOK, CallsOK
<1>2. /\ \A e \in Channels, j \in Keys :
            ~(e = d /\ j = k) => toSubscribe'[j][e] = toSubscribe[j][e]
      /\ toSubscribe'[k][d] = IF call[t].on THEN "on" ELSE "off"
  BY <1>k, <1>0 DEF Mark, WakeInv, BrokerTypeOK
<1>3. /\ call[t].at = "mark"
      /\ UNCHANGED <<offset, subscriptions, delivered, events, subscribed, cchan, toNotify, session>>
  BY DEF Mark
<1>4. EventComes(k)'  BY <1>0, <1>1 DEF EventComes
<1>5. \A j \in Keys : EventComes(j) => EventComes(j)'
  BY <1>0, <1>1, <1>3 DEF EventComes
<1>6. \A j \in Keys : ~(c = d /\ j = k) =>
          /\ c \in Merged(j) => c \in Merged(j)'
          /\ SubscriptionComes(c, j) => SubscriptionComes(c, j)'
  <2> SUFFICES ASSUME NEW j \in Keys, ~(c = d /\ j = k)
               PROVE  /\ c \in Merged(j) => c \in Merged(j)'
                      /\ SubscriptionComes(c, j) => SubscriptionComes(c, j)'
    OBVIOUS
  <2>1. c \in Merged(j) => c \in Merged(j)'  BY <1>2, <1>3 DEF Merged
  <2>2. SubscriptionComes(c, j) => SubscriptionComes(c, j)'
    BY <1>k, <1>1, CallerFacts DEF SubscriptionComes
  <2> QED  BY <2>1, <2>2
<1>7. call[t].on => d \in Merged(k)'  BY <1>0, <1>2 DEF Merged
<1>8. CallsFit(c)'
  BY <1>1, <1>3, CallerFacts DEF WakeInv, CallsFit, Free
<1>9. subscriptions[c] \subseteq Keys /\ Prepared(c) /\ WakeUp(c)
  BY DEF WakeInv, BrokerTypeOK
<1>10. Watching(c) /\ c = d /\ k \in subscriptions[c] => call[t].on
  BY <1>k, <1>3, <1>9 DEF Prepared
<1> HIDE DEF d
<1>11. Prepared(c)'
  <2> SUFFICES ASSUME Watching(c)'
               PROVE  /\ \A j \in subscriptions'[c] : SubscriptionComes(c, j)' \/ c \in Merged(j)'
                      /\ \A u \in Subscribers :
                            Channel(u) = c /\ call'[u].at = "mark" /\ ~call'[u].on =>
                                call'[u].key \notin subscriptions'[c]
    BY DEF Prepared
  <2>1. Watching(c)  BY <1>3 DEF Watching
  <2>2. \A j \in subscriptions'[c] : SubscriptionComes(c, j)' \/ c \in Merged(j)'
    BY <1>3, <1>6, <1>7, <1>9, <1>10, <2>1 DEF Prepared
  <2>3. \A u \in Subscribers : Channel(u) = c /\ call'[u].at = "mark" /\ ~call'[u].on =>
                                call'[u].key \notin subscriptions'[c]
    BY <1>1, <1>3, <1>9, <2>1, CallerFacts DEF Prepared
  <2> QED  BY <2>2, <2>3
<1>12. WakeUp(c)'
  <2> SUFFICES ASSUME Watching(c)', NEW j \in subscriptions'[c], offset'[j] > delivered'[c][j]
               PROVE  \/ c \in cchan' \cup toNotify'
                      \/ session'[c] = "deliver"
                      \/ SubscriptionComes(c, j)'
                      \/ c \in Merged(j)' /\ EventComes(j)'
    BY DEF WakeUp
  <2>1. Watching(c) /\ j \in subscriptions[c] /\ j \in Keys /\ offset[j] > delivered[c][j]
    BY <1>3, <1>9 DEF Watching
  <2>2. CASE c = d /\ j = k  BY <1>4, <1>7, <1>10, <2>1, <2>2
  <2>3. CASE ~(c = d /\ j = k)  BY <1>3, <1>5, <1>6, <1>9, <2>1, <2>3 DEF WakeUp
  <2> QED  BY <2>2, <2>3
<1> QED  BY <1>8, <1>11, <1>12

\* The event is in the queue in the place of the call.
LEMMA SendWakes ==
    ASSUME WakeInv, NEW t \in Callers, Send(t), NEW c \in Channels
    PROVE  CallsFit(c)' /\ Prepared(c)' /\ WakeUp(c)'
<1>1. /\ call'[t] = NoCall /\ \A u \in Callers \ {t} : call'[u] = call[u]
      /\ call[t].at = "send" /\ call[t].key \in Keys
  BY DEF Send, WakeInv, BrokerTypeOK, CallsOK, CallOK
<1>2. /\ events' = Append(events, call[t].key) /\ events \in Seq(Keys)
      /\ UNCHANGED <<offset, subscriptions, delivered, toSubscribe, subscribed, cchan,
                     toNotify, session>>
  BY DEF Send, WakeInv, BrokerTypeOK
<1>3. ASSUME NEW j \in Keys, EventComes(j)  PROVE EventComes(j)'
  <2>1. ASSUME NEW i \in 1..Len(events), events[i] = j  PROVE EventComes(j)'
    <3>1. i \in 1..Len(events') /\ events'[i] = j  BY <1>1, <1>2, <2>1
    <3> QED  BY <3>1 DEF EventComes
  <2>2. ASSUME NEW u \in Callers, call[u].at = "send", call[u].key = j  PROVE EventComes(j)'
    <3>1. CASE u = t
      <4>1. Len(events') \in 1..Len(events') /\ events'[Len(events')] = j
        BY <1>1, <1>2, <2>2, <3>1
      <4> QED  BY <4>1 DEF EventComes
    <3>2. CASE u # t  BY <1>1, <2>2, <3>2 DEF EventComes
    <3> QED  BY <3>1, <3>2
  <2> QED  BY <1>3, <2>1, <2>2 DEF EventComes
<1>4. \A j \in Keys : /\ SubscriptionComes(c, j) => SubscriptionComes(c, j)'
                      /\ Merged(j)' = Merged(j)
  BY <1>1, <1>2, CallerFacts DEF SubscriptionComes, Merged
<1>5. CallsFit(c)'
  BY <1>1, <1>2, CallerFacts DEF WakeInv, CallsFit, Free, NoCall
<1>6. subscriptions[c] \subseteq Keys /\ Prepared(c) /\ WakeUp(c)
  BY DEF WakeInv, BrokerTypeOK
<1>7. Prepared(c)'
  BY <1>1, <1>2, <1>4, <1>6, CallerFacts DEF Prepared, Watching, NoCall
<1>8. WakeUp(c)'
  BY <1>2, <1>3, <1>4, <1>6 DEF WakeUp, Watching
<1> QED  BY <1>5, <1>7, <1>8

\* The offset grows and the event is sent next.
LEMMA UpdateWakes ==
    ASSUME WakeInv, NEW k \in Keys, Update(k), NEW c \in Channels
    PROVE  CallsFit(c)' /\ Prepared(c)' /\ WakeUp(c)'
<1> DEFINE t == Publisher(k)
<1>0. /\ t \in Callers /\ t \notin Subscribers
      /\ Free(t) /\ Calls(t, [at |-> "send", key |-> k, on |-> FALSE])
      /\ UNCHANGED <<subscriptions, delivered, notifierVars, session>>
      /\ \A j \in Keys \ {k} : offset'[j] = offset[j]
  BY CallerFacts DEF Update, Calls, WakeInv, BrokerTypeOK
<1>1. /\ call'[t] = [at |-> "send", key |-> k, on |-> FALSE]
      /\ \A u \in Callers \ {t} : call'[u] = call[u]
  BY <1>0 DEF Calls, WakeInv, BrokerTypeOK, CallsOK
<1>2. \A j \in Keys : /\ SubscriptionComes(c, j) => SubscriptionComes(c, j)'
                      /\ EventComes(j) => EventComes(j)'
                      /\ Merged(j)' = Merged(j)
  BY <1>0, CallStarts
<1>3. EventComes(k)'  BY <1>0, <1>1 DEF EventComes
<1>4. \A u \in Subscribers : call'[u] = call[u]  BY <1>0, <1>1, CallerFacts
<1> HIDE DEF t
<1>5. CallsFit(c)'  BY <1>0, <1>4, CallerFacts DEF WakeInv, CallsFit, Free
<1>6. subscriptions[c] \subseteq Keys /\ Prepared(c) /\ WakeUp(c)
  BY DEF WakeInv, BrokerTypeOK
<1>7. Prepared(c)'  BY <1>0, <1>2, <1>4, <1>6 DEF Prepared, Watching
<1>8. WakeUp(c)'
  <2> SUFFICES ASSUME Watching(c)', NEW j \in subscriptions'[c], offset'[j] > delivered'[c][j]
               PROVE  \/ c \in cchan' \cup toNotify'
                      \/ session'[c] = "deliver"
                      \/ SubscriptionComes(c, j)'
                      \/ c \in Merged(j)' /\ EventComes(j)'
    BY DEF WakeUp
  <2>1. Watching(c) /\ j \in subscriptions[c] /\ j \in Keys  BY <1>0, <1>6 DEF Watching
  <2>2. CASE j = k  BY <1>2, <1>3, <1>6, <2>1, <2>2 DEF Prepared
  <2>3. CASE j # k  BY <1>0, <1>2, <1>6, <2>1, <2>3 DEF WakeUp, notifierVars
  <2> QED  BY <2>2, <2>3
<1> QED  BY <1>5, <1>7, <1>8

\* The notifier merges toSubscribe before it reads the channels to notify.
LEMMA NotifierWakes ==
    ASSUME WakeInv, NotifierTakes, NEW c \in Channels
    PROVE  CallsFit(c)' /\ Prepared(c)' /\ WakeUp(c)'
<1>0. PICK k \in Keys : k = Head(events)  BY DEF WakeInv, BrokerTypeOK, NotifierTakes
<1>1. /\ toNotify = {} /\ events # <<>> /\ events \in Seq(Keys)
      /\ subscribed' = [subscribed EXCEPT ![k] = Merged(k)]
      /\ toSubscribe' = [toSubscribe EXCEPT ![k] = [e \in Channels |-> "none"]]
      /\ toNotify' = Merged(k)
      /\ events' = Tail(events)
      /\ UNCHANGED <<offset, subscriptions, delivered, cchan, session, call>>
  BY <1>0 DEF NotifierTakes, WakeInv, BrokerTypeOK
<1>2. /\ \A j \in Keys \ {k} : subscribed'[j] = subscribed[j] /\ toSubscribe'[j] = toSubscribe[j]
      /\ subscribed'[k] = Merged(k)
      /\ \A e \in Channels : toSubscribe'[k][e] = "none"
  BY <1>0, <1>1 DEF WakeInv, BrokerTypeOK
<1>3. \A j \in Keys : Merged(j)' = Merged(j)
  <2>1. Merged(k) \subseteq Channels  BY DEF Merged
  <2>2. Merged(k)' = Merged(k)  BY <1>2, <2>1 DEF Merged
  <2>3. \A j \in Keys \ {k} : Merged(j)' = Merged(j)  BY <1>2 DEF Merged
  <2> QED  BY <2>2, <2>3
<1>4. ASSUME NEW j \in Keys, j # k, EventComes(j)  PROVE EventComes(j)'
  <2>1. ASSUME NEW i \in 1..Len(events), events[i] = j  PROVE EventComes(j)'
    <3>1. i # 1  BY <1>0, <1>1, <1>4, <2>1
    <3>2. i - 1 \in 1..Len(events') /\ events'[i - 1] = j  BY <1>1, <2>1, <3>1
    <3> QED  BY <3>2 DEF EventComes
  <2> QED  BY <1>1, <1>4, <2>1 DEF EventComes
<1>5. \A j \in Keys : SubscriptionComes(c, j)' = SubscriptionComes(c, j)
  BY <1>1 DEF SubscriptionComes
<1>6. CallsFit(c)'  BY <1>1 DEF WakeInv, CallsFit, Free
<1>7. subscriptions[c] \subseteq Keys /\ Prepared(c) /\ WakeUp(c)
  BY DEF WakeInv, BrokerTypeOK
<1>8. Prepared(c)'  BY <1>1, <1>3, <1>5, <1>7 DEF Prepared, Watching
<1>9. WakeUp(c)'
  <2> SUFFICES ASSUME Watching(c)', NEW j \in subscriptions'[c], offset'[j] > delivered'[c][j]
               PROVE  \/ c \in cchan' \cup toNotify'
                      \/ session'[c] = "deliver"
                      \/ SubscriptionComes(c, j)'
                      \/ c \in Merged(j)' /\ EventComes(j)'
    BY DEF WakeUp
  <2>1. Watching(c) /\ j \in subscriptions[c] /\ j \in Keys /\ offset[j] > delivered[c][j]
    BY <1>1, <1>7 DEF Watching
  <2>2. CASE c \in Merged(j) /\ EventComes(j)
    BY <1>1, <1>3, <1>4, <2>1, <2>2
  <2>3. CASE c \in cchan \/ session[c] = "deliver" \/ SubscriptionComes(c, j)
    BY <1>1, <1>5, <2>1, <2>3
  <2> QED  BY <1>1, <1>7, <2>1, <2>2, <2>3 DEF WakeUp
<1> QED  BY <1>6, <1>8, <1>9

\* Calls, the queue and the list of the notifier are left as they are.
CallsAndListsStay ==
    UNCHANGED <<offset, subscriptions, call, events, toSubscribe, subscribed>>

LEMMA ListsStay ==
    ASSUME CallsAndListsStay, NEW c \in Channels
    PROVE  \A j \in Keys : /\ SubscriptionComes(c, j)' = SubscriptionComes(c, j)
                           /\ EventComes(j)' = EventComes(j)
                           /\ Merged(j)' = Merged(j)
BY DEF CallsAndListsStay, SubscriptionComes, EventComes, Merged

LEMMA SignalWakes ==
    ASSUME WakeInv, NEW d \in Channels, NotifierSignals(d), NEW c \in Channels
    PROVE  CallsFit(c)' /\ Prepared(c)' /\ WakeUp(c)'
<1>1. /\ CallsAndListsStay /\ UNCHANGED <<delivered, session>>
      /\ cchan' \cup toNotify' = cchan \cup toNotify
  BY DEF NotifierSignals, CallsAndListsStay
<1>2. subscriptions[c] \subseteq Keys /\ Prepared(c) /\ WakeUp(c) /\ CallsFit(c)
  BY DEF WakeInv, BrokerTypeOK
<1>3. CallsFit(c)'  BY <1>1, <1>2 DEF CallsFit, Free, CallsAndListsStay
<1>4. Prepared(c)'
  BY <1>1, <1>2, ListsStay DEF Prepared, Watching, CallsAndListsStay
<1>5. WakeUp(c)'
  BY <1>1, <1>2, ListsStay DEF WakeUp, Watching, CallsAndListsStay
<1> QED  BY <1>3, <1>4, <1>5

\* The steps of a session that call nothing: only its own stage, its value in
\* cchan and its delivered offsets change, and the offsets only when it delivers.
LEMMA SessionStays ==
    ASSUME WakeInv, NEW d \in Channels, NEW stage,
           session' = [session EXCEPT ![d] = stage],
           CallsAndListsStay, UNCHANGED toNotify,
           \A e \in Channels \ {d} : delivered'[e] = delivered[e] /\ (e \in cchan' <=> e \in cchan),
           CallsFit(d)', Prepared(d)', WakeUp(d)',
           NEW c \in Channels
    PROVE  CallsFit(c)' /\ Prepared(c)' /\ WakeUp(c)'
<1> SUFFICES ASSUME c # d  PROVE CallsFit(c)' /\ Prepared(c)' /\ WakeUp(c)'
  OBVIOUS
<1>1. session'[c] = session[c] /\ delivered'[c] = delivered[c] /\ (c \in cchan' <=> c \in cchan)
  BY DEF WakeInv, BrokerTypeOK
<1>2. subscriptions[c] \subseteq Keys /\ Prepared(c) /\ WakeUp(c) /\ CallsFit(c)
  BY DEF WakeInv, BrokerTypeOK
<1>3. CallsFit(c)'  BY <1>1, <1>2 DEF CallsFit, Free, CallsAndListsStay
<1>4. Prepared(c)'
  BY <1>1, <1>2, ListsStay DEF Prepared, Watching, CallsAndListsStay
<1>5. WakeUp(c)'
  BY <1>1, <1>2, ListsStay DEF WakeUp, Watching, CallsAndListsStay
<1> QED  BY <1>3, <1>4, <1>5

LEMMA SessionWakes ==
    ASSUME WakeInv, NEW d \in Channels, NEW c \in Channels,
           \/ NewChannel(d) \/ SendChannelID(d) \/ WatchTakes(d) \/ WatchDelivers(d)
           \/ WatchLeaves(d) \/ CleanupTerminates(d) \/ CleanupEnds(d)
           \/ /\ session[d] = "subscribe" /\ Goes(d, "cleanup") /\ UNCHANGED delivered
              /\ CallsAndListsStay /\ UNCHANGED <<toNotify, cchan>>
    PROVE  CallsFit(c)' /\ Prepared(c)' /\ WakeUp(c)'
<1> USE DEF Goes
<1>0. /\ CallsAndListsStay /\ UNCHANGED toNotify
      /\ \A e \in Channels \ {d} : delivered'[e] = delivered[e] /\ (e \in cchan' <=> e \in cchan)
  BY DEF NewChannel, SendChannelID, WatchTakes, WatchDelivers, WatchLeaves,
         CleanupTerminates, CleanupEnds, CallsAndListsStay, notifierVars, quotaVars,
         WakeInv, BrokerTypeOK
<1>1. subscriptions[d] \subseteq Keys /\ Prepared(d) /\ WakeUp(d) /\ CallsFit(d)
  BY DEF WakeInv, BrokerTypeOK
<1>2. \E stage \in {"subscribe", "watch", "deliver", "cleanup", "unsubscribe", "done"} :
         session' = [session EXCEPT ![d] = stage] /\ session'[d] = stage
  <2>1. \E stage \in {"subscribe", "watch", "deliver", "cleanup", "unsubscribe", "done"} :
           session' = [session EXCEPT ![d] = stage]
    BY DEF NewChannel, SendChannelID, WatchTakes, WatchDelivers, WatchLeaves,
           CleanupTerminates, CleanupEnds
  <2> QED  BY <2>1 DEF WakeInv, BrokerTypeOK
<1>3. CallsFit(d)' /\ Prepared(d)' /\ WakeUp(d)'
  <2>1. CASE NewChannel(d) /\ session'[d] = "subscribe"
    <3>1. session[d] = "new" /\ subscriptions'[d] = {} /\ call' = call
      BY <1>0, <1>1, <2>1 DEF NewChannel, CallsFit, CallsAndListsStay
    <3>2. CallsFit(d)'  BY <1>1, <2>1, <3>1 DEF CallsFit, Free
    <3>3. \A t \in Subscribers : Channel(t) = d => Free(t)'
      BY <1>1, <3>1, CallerFacts DEF CallsFit, Free
    <3>4. Prepared(d)' /\ WakeUp(d)'  BY <3>1, <3>3 DEF Prepared, WakeUp, Free
    <3> QED  BY <3>2, <3>4
  <2>2. CASE session'[d] \in {"cleanup", "unsubscribe", "done"}
    BY <2>2 DEF CallsFit, Prepared, WakeUp, Watching
  <2>3. CASE session'[d] = "watch" /\ SendChannelID(d)
    <3>1. session[d] = "subscribe" /\ call[Session(d)].at = "none"
          /\ UNCHANGED <<delivered, cchan>>
      BY <2>3 DEF SendChannelID, Free, notifierVars
    <3>2. CallsFit(d)'  BY <1>0, <2>3, <3>1 DEF CallsFit, Free, CallsAndListsStay
    <3>3. Prepared(d)'
      BY <1>0, <1>1, <3>1, ListsStay DEF Prepared, Watching, CallsAndListsStay
    <3>4. WakeUp(d)'
      BY <1>0, <1>1, <3>1, ListsStay DEF WakeUp, Watching, CallsAndListsStay
    <3> QED  BY <3>2, <3>3, <3>4
  <2>4. CASE session'[d] \in {"deliver", "watch"} /\ (WatchTakes(d) \/ WatchDelivers(d))
    <3>1. session[d] \in {"watch", "deliver"}  BY <2>4 DEF WatchTakes, WatchDelivers
    <3>2. CallsFit(d)'  BY <1>0, <1>1, <2>4, <3>1 DEF CallsFit, Free, CallsAndListsStay
    <3>3. Prepared(d)'
      BY <1>0, <1>1, <3>1, ListsStay DEF Prepared, Watching, CallsAndListsStay
    <3>4. WakeUp(d)'
      <4>1. CASE session'[d] = "deliver"  BY <4>1 DEF WakeUp
      <4>2. CASE WatchDelivers(d)
        <5>1. \A j \in subscriptions'[d] : ~(offset'[j] > delivered'[d][j])
          BY <1>1, <4>2 DEF WatchDelivers, WakeInv, BrokerTypeOK
        <5> QED  BY <5>1 DEF WakeUp
      <4>3. CASE WatchTakes(d) /\ session'[d] = "watch"
        BY <4>3 DEF WatchTakes, WakeInv, BrokerTypeOK
      <4> QED  BY <2>4, <4>1, <4>2, <4>3
    <3> QED  BY <3>2, <3>3, <3>4
  <2>5. /\ session'[d] = "subscribe" => NewChannel(d)
        /\ session'[d] = "watch" => SendChannelID(d) \/ WatchTakes(d) \/ WatchDelivers(d)
        /\ session'[d] = "deliver" => WatchTakes(d)
    BY DEF NewChannel, SendChannelID, WatchTakes, WatchDelivers, WatchLeaves,
           CleanupTerminates, CleanupEnds, WakeInv, BrokerTypeOK
  <2> QED  BY <1>2, <2>1, <2>2, <2>3, <2>4, <2>5
<1> QED  BY <1>0, <1>2, <1>3, SessionStays

LEMMA WakeStep ==
    ASSUME OneClientPerChannel, WakeInv, BrokerNext, NEW c \in Channels
    PROVE  CallsFit(c)' /\ Prepared(c)' /\ WakeUp(c)'
<1>1. ASSUME NEW d \in Channels, SessionSubscribes(d)
      PROVE  CallsFit(c)' /\ Prepared(c)' /\ WakeUp(c)'
  <2>1. Session(d) \in Subscribers /\ Channel(Session(d)) = d  BY CallerFacts
  <2>2. todo[d] \subseteq Keys  BY DEF WakeInv, BrokerTypeOK
  <2>3. ASSUME NEW key \in Keys, SubscribeLocked(Session(d), d, key), UNCHANGED session
        PROVE  CallsFit(c)' /\ Prepared(c)' /\ WakeUp(c)'
    <3>1. /\ Free(Session(d)) /\ session[d] = "subscribe"
          /\ UNCHANGED <<offset, notifierVars, session>>
      BY <1>1, <2>3 DEF SessionSubscribes
    <3> QED  BY <2>1, <2>3, <3>1, SubscribeWakes
  <2>4. CASE /\ session[d] = "subscribe" /\ Goes(d, "cleanup") /\ UNCHANGED delivered
             /\ CallsAndListsStay /\ UNCHANGED <<toNotify, cchan>>
    BY <2>4, SessionWakes
  <2> QED
    BY <1>1, <2>2, <2>3, <2>4 DEF SessionSubscribes, CallsAndListsStay, notifierVars
<1>2. ASSUME NEW d \in Channels, CleanupUnsubscribes(d)
      PROVE  CallsFit(c)' /\ Prepared(c)' /\ WakeUp(c)'
  <2>1. Session(d) \in Subscribers /\ Channel(Session(d)) = d  BY CallerFacts
  <2>2. todo[d] \subseteq Keys  BY DEF WakeInv, BrokerTypeOK
  <2>3. PICK k \in Keys : UnsubscribeLocked(Session(d), d, k)
    BY <1>2, <2>2 DEF CleanupUnsubscribes
  <2>4. /\ Free(Session(d)) /\ session[d] = "unsubscribe"
        /\ UNCHANGED <<offset, delivered, notifierVars, session>>
    BY <1>2 DEF CleanupUnsubscribes
  <2> QED  BY <2>1, <2>3, <2>4, UnsubscribeWakes
<1>3. ASSUME NEW x \in Clients, ClientSubscribes(x) \/ ClientUnsubscribes(x)
      PROVE  CallsFit(c)' /\ Prepared(c)' /\ WakeUp(c)'
  <2>1. Client(x) \in Subscribers /\ Channel(Client(x)) = ChannelOf[x]  BY CallerFacts
  <2>2. Free(Client(x)) /\ Announced(ChannelOf[x])
    BY <1>3 DEF ClientSubscribes, ClientUnsubscribes, Requests
  <2>3. CASE ClientSubscribes(x)
    <3>1. PICK key \in Keys : SubscribeLocked(Client(x), ChannelOf[x], key)
      BY <2>3 DEF ClientSubscribes
    <3>2. UNCHANGED <<offset, notifierVars, session>>  BY <2>3 DEF ClientSubscribes
    <3> QED  BY <2>1, <2>2, <3>1, <3>2, SubscribeWakes
  <2>4. CASE ClientUnsubscribes(x)
    <3>1. PICK key \in Keys : UnsubscribeLocked(Client(x), ChannelOf[x], key)
      BY <2>4 DEF ClientUnsubscribes
    <3>2. UNCHANGED <<offset, delivered, notifierVars, session>>
      BY <2>4 DEF ClientUnsubscribes
    <3> QED  BY <2>1, <2>2, <3>1, <3>2, UnsubscribeWakes
  <2> QED  BY <1>3, <2>3, <2>4
<1>4. ASSUME NEW d \in Channels,
             \/ NewChannel(d) \/ SendChannelID(d) \/ WatchTakes(d) \/ WatchDelivers(d)
             \/ WatchLeaves(d) \/ CleanupTerminates(d) \/ CleanupEnds(d)
      PROVE  CallsFit(c)' /\ Prepared(c)' /\ WakeUp(c)'
  BY <1>4, SessionWakes
<1>5. ASSUME NEW d \in Channels, NotifierSignals(d)
      PROVE  CallsFit(c)' /\ Prepared(c)' /\ WakeUp(c)'
  BY <1>5, SignalWakes
<1> QED
  BY <1>1, <1>2, <1>3, <1>4, <1>5, NotifierWakes, UpdateWakes, SendWakes, MarkWakes
     DEF BrokerNext, SessionNext

LEMMA WakeNext == OneClientPerChannel /\ WakeInv /\ [BrokerNext]_brokerVars => WakeInv'
<1> SUFFICES ASSUME OneClientPerChannel, WakeInv, [BrokerNext]_brokerVars
             PROVE  WakeInv'
  OBVIOUS
<1>1. BrokerTypeOK'  BY TypeNext DEF WakeInv
<1>2. CASE BrokerNext  BY <1>1, <1>2, WakeStep DEF WakeInv
<1>3. CASE UNCHANGED brokerVars
  <2>1. CallsAndListsStay /\ UNCHANGED <<session, delivered, cchan, toNotify>>
    BY <1>3 DEF brokerVars, quotaVars, notifierVars, CallsAndListsStay
  <2> SUFFICES ASSUME NEW c \in Channels  PROVE CallsFit(c)' /\ Prepared(c)' /\ WakeUp(c)'
    BY <1>1 DEF WakeInv
  <2>2. subscriptions[c] \subseteq Keys /\ Prepared(c) /\ WakeUp(c) /\ CallsFit(c)
    BY DEF WakeInv, BrokerTypeOK
  <2>3. CallsFit(c)'  BY <2>1, <2>2 DEF CallsFit, Free, CallsAndListsStay
  <2>4. Prepared(c)'
    BY <2>1, <2>2, ListsStay DEF Prepared, Watching, CallsAndListsStay
  <2>5. WakeUp(c)'
    BY <2>1, <2>2, ListsStay DEF WakeUp, Watching, CallsAndListsStay
  <2> QED  BY <2>3, <2>4, <2>5
<1> QED  BY <1>2, <1>3

\* notifier() sends to cchan in a select with a default case, and merges
\* toSubscribe some time after channel.subscriptions is written: a channel that is
\* prepared or watched and is behind the offset of one of its keys has a value in
\* cchan, or it is going to get one.  The premise is needed: WakeUpIsOnItsWay rests
\* on the notifier's list, and Subscribe and Unsubscribe of two requests for one
\* channel and key may write to the list in another order than to the channel.
THEOREM NoWakeUpIsLost == ASSUME OneClientPerChannel PROVE BrokerSpec => []WakeUpIsOnItsWay
<1>1. BrokerInit => WakeInv  BY WakeInit
<1>2. WakeInv /\ [BrokerNext]_brokerVars => WakeInv'  BY WakeNext
<1>3. WakeInv => WakeUpIsOnItsWay  BY DEF WakeInv, WakeUp, WakeUpIsOnItsWay
<1> QED  BY <1>1, <1>2, <1>3, PTL DEF BrokerSpec

-----------------------------------------------------------------------------
(* Every quota is given back. *)

Opened(C, s) == {c \in C : SubjectOf[c] = s}
Held(S) == {p \in Channels \X Keys : p[2] \in S[p[1]]}
HeldBy(S, s) == {p \in Channels \X Keys : SubjectOf[p[1]] = s /\ p[2] \in S[p[1]]}

\* The counters count, for some channels and some subscriptions.
Counted(C, S, chans, subs, all) ==
    /\ \A s \in Subjects : chans[s] = Cardinality(Opened(C, s))
                           /\ subs[s] = Cardinality(HeldBy(S, s))
    /\ all = Cardinality(Held(S))

\* Where a session is, and what may be subscribed there: a channel that is being
\* cleaned up gets no new subscriptions, for it is terminated.
StageFits(c) ==
    /\ c \in channels <=> session[c] \notin {"new", "done"}
    /\ session[c] \in {"new", "done"} => subscriptions[c] = {}
    /\ session[c] = "unsubscribe" => c \in terminated /\ subscriptions[c] \subseteq todo[c]

QuotaInv ==
    /\ BrokerTypeOK
    /\ \A c \in Channels : StageFits(c)
    /\ Counted(channels, subscriptions, numChannels, numSubject, numSubscriptions)

LEMMA HeldIsFinite == \A S, s : IsFiniteSet(Held(S)) /\ IsFiniteSet(HeldBy(S, s))
<1> SUFFICES ASSUME NEW S, NEW s
             PROVE  IsFiniteSet(Held(S)) /\ IsFiniteSet(HeldBy(S, s))
  OBVIOUS
<1>1. IsFiniteSet(Channels \X Keys)  BY FS_Product
<1>2. Held(S) \in SUBSET (Channels \X Keys) /\ HeldBy(S, s) \in SUBSET (Channels \X Keys)
  BY DEF Held, HeldBy
<1> QED  BY <1>1, <1>2, FS_Subset

LEMMA HeldMore ==
    ASSUME NEW S \in [Channels -> SUBSET Keys], NEW c \in Channels, NEW k \in Keys \ S[c],
           NEW T, T = [S EXCEPT ![c] = @ \cup {k}]
    PROVE  /\ Cardinality(Held(T)) = Cardinality(Held(S)) + 1
           /\ \A s \in Subjects : Cardinality(HeldBy(T, s)) =
                 Cardinality(HeldBy(S, s)) + (IF SubjectOf[c] = s THEN 1 ELSE 0)
<1> DEFINE p == <<c, k>>
<1>1. \A d \in Channels, j \in Keys : j \in T[d] <=> j \in S[d] \/ <<d, j>> = p  OBVIOUS
<1>2. p \in Channels \X Keys /\ p[1] = c /\ p[2] = k  OBVIOUS
<1>3. Held(T) = Held(S) \cup {p} /\ p \notin Held(S)  BY <1>1, <1>2 DEF Held
<1>4. ASSUME NEW s \in Subjects
      PROVE  Cardinality(HeldBy(T, s)) =
                Cardinality(HeldBy(S, s)) + (IF SubjectOf[c] = s THEN 1 ELSE 0)
  <2>1. p \notin HeldBy(S, s)  BY <1>2 DEF HeldBy
  <2>2. CASE SubjectOf[c] = s
    <3>1. HeldBy(T, s) = HeldBy(S, s) \cup {p}  BY <1>1, <1>2, <2>2 DEF HeldBy
    <3> HIDE DEF p
    <3> QED  BY <2>1, <2>2, <3>1, HeldIsFinite, FS_AddElement
  <2>3. CASE SubjectOf[c] # s
    <3>1. HeldBy(T, s) = HeldBy(S, s)  BY <1>1, <1>2, <2>3 DEF HeldBy
    <3>2. Cardinality(HeldBy(S, s)) \in Nat  BY HeldIsFinite, FS_CardinalityType
    <3> QED  BY <2>3, <3>1, <3>2
  <2> QED  BY <2>2, <2>3
<1> HIDE DEF p
<1>5. Cardinality(Held(T)) = Cardinality(Held(S)) + 1
  BY <1>3, HeldIsFinite, FS_AddElement
<1> QED  BY <1>4, <1>5

LEMMA HeldLess ==
    ASSUME NEW S \in [Channels -> SUBSET Keys], NEW c \in Channels, NEW k \in S[c],
           NEW T, T = [S EXCEPT ![c] = @ \ {k}]
    PROVE  /\ Cardinality(Held(T)) = Cardinality(Held(S)) - 1
           /\ \A s \in Subjects : Cardinality(HeldBy(T, s)) =
                 Cardinality(HeldBy(S, s)) - (IF SubjectOf[c] = s THEN 1 ELSE 0)
<1>1. T \in [Channels -> SUBSET Keys] /\ k \in Keys /\ k \notin T[c]
  <2>1. S[c] \ {k} \in SUBSET Keys  OBVIOUS
  <2> QED  BY <2>1
<1>2. S = [T EXCEPT ![c] = @ \cup {k}]
  <2>1. (S[c] \ {k}) \cup {k} = S[c]  OBVIOUS
  <2>2. T[c] \cup {k} = S[c]  BY <2>1
  <2>3. \A d \in Channels \ {c} : T[d] = S[d]  OBVIOUS
  <2> QED  BY <1>1, <2>2, <2>3
<1>3. /\ Cardinality(Held(S)) = Cardinality(Held(T)) + 1
      /\ \A s \in Subjects : Cardinality(HeldBy(S, s)) =
            Cardinality(HeldBy(T, s)) + (IF SubjectOf[c] = s THEN 1 ELSE 0)
  BY <1>1, <1>2, HeldMore
<1>4. /\ Cardinality(Held(T)) \in Nat
      /\ \A s \in Subjects : Cardinality(HeldBy(T, s)) \in Nat
  BY HeldIsFinite, FS_CardinalityType
<1>5. Cardinality(Held(T)) = Cardinality(Held(S)) - 1  BY <1>3, <1>4
<1>6. ASSUME NEW s \in Subjects
      PROVE  Cardinality(HeldBy(T, s)) =
                Cardinality(HeldBy(S, s)) - (IF SubjectOf[c] = s THEN 1 ELSE 0)
  <2>1. /\ Cardinality(HeldBy(T, s)) \in Nat
        /\ Cardinality(HeldBy(S, s)) =
              Cardinality(HeldBy(T, s)) + (IF SubjectOf[c] = s THEN 1 ELSE 0)
    BY <1>3, <1>4
  <2> QED  BY <2>1
<1> QED  BY <1>5, <1>6

LEMMA OpenedMore ==
    ASSUME NEW C \in SUBSET Channels, NEW c \in Channels \ C, NEW s \in Subjects
    PROVE  Cardinality(Opened(C \cup {c}, s)) =
              Cardinality(Opened(C, s)) + (IF SubjectOf[c] = s THEN 1 ELSE 0)
<1>1. IsFiniteSet(Opened(C, s))
  <2>1. Opened(C, s) \in SUBSET Channels  BY DEF Opened
  <2> QED  BY <2>1, FS_Subset
<1>2. CASE SubjectOf[c] = s
  <2>1. Opened(C \cup {c}, s) = Opened(C, s) \cup {c} /\ c \notin Opened(C, s)
    BY <1>2 DEF Opened
  <2> QED  BY <1>1, <1>2, <2>1, FS_AddElement
<1>3. CASE SubjectOf[c] # s
  <2>1. Opened(C \cup {c}, s) = Opened(C, s)  BY <1>3 DEF Opened
  <2>2. Cardinality(Opened(C, s)) \in Nat  BY <1>1, FS_CardinalityType
  <2> QED  BY <1>3, <2>1, <2>2
<1> QED  BY <1>2, <1>3

LEMMA OpenedLess ==
    ASSUME NEW C \in SUBSET Channels, NEW c \in C, NEW s \in Subjects
    PROVE  Cardinality(Opened(C \ {c}, s)) =
              Cardinality(Opened(C, s)) - (IF SubjectOf[c] = s THEN 1 ELSE 0)
<1>1. (C \ {c}) \cup {c} = C /\ C \ {c} \in SUBSET Channels /\ c \in Channels \ (C \ {c})
  OBVIOUS
<1>2. Cardinality(Opened(C, s)) =
         Cardinality(Opened(C \ {c}, s)) + (IF SubjectOf[c] = s THEN 1 ELSE 0)
  <2>1. Cardinality(Opened((C \ {c}) \cup {c}, s)) =
           Cardinality(Opened(C \ {c}, s)) + (IF SubjectOf[c] = s THEN 1 ELSE 0)
    BY <1>1, OpenedMore
  <2> QED  BY <1>1, <2>1
<1>3. Cardinality(Opened(C \ {c}, s)) \in Nat
  <2>1. Opened(C \ {c}, s) \in SUBSET Channels  BY DEF Opened
  <2> QED  BY <2>1, FS_Subset, FS_CardinalityType
<1> QED  BY <1>2, <1>3

LEMMA QuotaInit == BrokerInit => QuotaInv
<1> SUFFICES ASSUME BrokerInit  PROVE QuotaInv
  OBVIOUS
<1>1. \A c \in Channels : StageFits(c)  BY DEF BrokerInit, StageFits
<1>2. \A s : Opened(channels, s) = {} /\ HeldBy(subscriptions, s) = {}
  BY DEF BrokerInit, Opened, HeldBy
<1>3. Held(subscriptions) = {}  BY DEF BrokerInit, Held
<1>4. Counted(channels, subscriptions, numChannels, numSubject, numSubscriptions)
  BY <1>2, <1>3, FS_EmptySet DEF Counted, BrokerInit
<1> QED  BY <1>1, <1>4, TypeInit DEF QuotaInv

\* What is counted under the broker's lock.
LEMMA LockedCounts ==
    ASSUME QuotaInv, NEW t \in Subscribers, NEW c \in Channels, NEW key \in Keys,
           SubscribeLocked(t, c, key) \/ UnsubscribeLocked(t, c, key),
           UNCHANGED <<channels, numChannels>>
    PROVE  Counted(channels, subscriptions, numChannels, numSubject, numSubscriptions)'
<1> DEFINE s == SubjectOf[c]
<1>0. /\ BrokerTypeOK /\ s \in Subjects /\ subscriptions \in [Channels -> SUBSET Keys]
      /\ Counted(channels, subscriptions, numChannels, numSubject, numSubscriptions)
  BY SubjectFacts DEF QuotaInv, BrokerTypeOK
<1>1. \/ UNCHANGED <<subscriptions, numSubject, numSubscriptions>>
      \/ \E k \in Keys \ subscriptions[c] :
            /\ subscriptions' = [subscriptions EXCEPT ![c] = @ \cup {k}]
            /\ numSubject' = [numSubject EXCEPT ![s] = @ + 1]
            /\ numSubscriptions' = numSubscriptions + 1
      \/ \E k \in subscriptions[c] :
            /\ subscriptions' = [subscriptions EXCEPT ![c] = @ \ {k}]
            /\ numSubject' = [numSubject EXCEPT ![s] = @ - 1]
            /\ numSubscriptions' = numSubscriptions - 1
  <2>1. CASE SubscribeLocked(t, c, key)
    <3>1. ZeroKey[key] \in Keys  OBVIOUS
    <3> QED  BY <2>1, <3>1 DEF SubscribeLocked
  <2>2. CASE UnsubscribeLocked(t, c, key)  BY <2>2 DEF UnsubscribeLocked
  <2> QED  BY <2>1, <2>2
<1>2. CASE UNCHANGED <<subscriptions, numSubject, numSubscriptions>>
  BY <1>0, <1>2 DEF Counted
<1>3. ASSUME NEW k \in Keys \ subscriptions[c],
             subscriptions' = [subscriptions EXCEPT ![c] = @ \cup {k}],
             numSubject' = [numSubject EXCEPT ![s] = @ + 1],
             numSubscriptions' = numSubscriptions + 1
      PROVE  Counted(channels, subscriptions, numChannels, numSubject, numSubscriptions)'
  <2>1. /\ Cardinality(Held(subscriptions')) = Cardinality(Held(subscriptions)) + 1
        /\ \A r \in Subjects : Cardinality(HeldBy(subscriptions', r)) =
              Cardinality(HeldBy(subscriptions, r)) + (IF SubjectOf[c] = r THEN 1 ELSE 0)
    <3>1. subscriptions \in [Channels -> SUBSET Keys]  BY <1>0
    <3>2. \A T : T = [subscriptions EXCEPT ![c] = @ \cup {k}] =>
             /\ Cardinality(Held(T)) = Cardinality(Held(subscriptions)) + 1
             /\ \A r \in Subjects : Cardinality(HeldBy(T, r)) =
                   Cardinality(HeldBy(subscriptions, r)) + (IF SubjectOf[c] = r THEN 1 ELSE 0)
      BY <3>1, HeldMore
    <3> QED  BY <1>3, <3>2
  <2>2. ASSUME NEW r \in Subjects
        PROVE  numSubject'[r] = Cardinality(HeldBy(subscriptions', r))
    <3>1. numSubject[r] \in Int /\ numSubject[r] = Cardinality(HeldBy(subscriptions, r))
      BY <1>0 DEF BrokerTypeOK, Counted
    <3>2. numSubject'[r] = numSubject[r] + (IF s = r THEN 1 ELSE 0)
      BY <1>0, <1>3, <3>1 DEF BrokerTypeOK
    <3> QED  BY <2>1, <3>1, <3>2
  <2>3. numSubscriptions' = Cardinality(Held(subscriptions'))
    BY <1>0, <1>3, <2>1 DEF Counted
  <2> QED  BY <1>0, <2>2, <2>3 DEF Counted
<1>4. ASSUME NEW k \in subscriptions[c],
             subscriptions' = [subscriptions EXCEPT ![c] = @ \ {k}],
             numSubject' = [numSubject EXCEPT ![s] = @ - 1],
             numSubscriptions' = numSubscriptions - 1
      PROVE  Counted(channels, subscriptions, numChannels, numSubject, numSubscriptions)'
  <2>1. /\ Cardinality(Held(subscriptions')) = Cardinality(Held(subscriptions)) - 1
        /\ \A r \in Subjects : Cardinality(HeldBy(subscriptions', r)) =
              Cardinality(HeldBy(subscriptions, r)) - (IF SubjectOf[c] = r THEN 1 ELSE 0)
    <3>1. subscriptions \in [Channels -> SUBSET Keys]  BY <1>0
    <3>2. \A T : T = [subscriptions EXCEPT ![c] = @ \ {k}] =>
             /\ Cardinality(Held(T)) = Cardinality(Held(subscriptions)) - 1
             /\ \A r \in Subjects : Cardinality(HeldBy(T, r)) =
                   Cardinality(HeldBy(subscriptions, r)) - (IF SubjectOf[c] = r THEN 1 ELSE 0)
      BY <3>1, HeldLess
    <3> QED  BY <1>4, <3>2
  <2>2. ASSUME NEW r \in Subjects
        PROVE  numSubject'[r] = Cardinality(HeldBy(subscriptions', r))
    <3>1. numSubject[r] \in Int /\ numSubject[r] = Cardinality(HeldBy(subscriptions, r))
      BY <1>0 DEF BrokerTypeOK, Counted
    <3>2. numSubject'[r] = numSubject[r] - (IF s = r THEN 1 ELSE 0)
      BY <1>0, <1>4, <3>1 DEF BrokerTypeOK
    <3> QED  BY <2>1, <3>1, <3>2
  <2>3. numSubscriptions' = Cardinality(Held(subscriptions'))
    BY <1>0, <1>4, <2>1 DEF Counted
  <2> QED  BY <1>0, <2>2, <2>3 DEF Counted
<1> QED  BY <1>1, <1>2, <1>3, <1>4

LEMMA QuotaLocked ==
    ASSUME QuotaInv,
           \/ \E c \in Channels : SessionSubscribes(c) \/ CleanupUnsubscribes(c)
           \/ \E x \in Clients : ClientSubscribes(x) \/ ClientUnsubscribes(x)
    PROVE  QuotaInv'
<1>0. BrokerTypeOK'  BY SubscriberType DEF QuotaInv
<1>1. UNCHANGED <<channels, terminated, numChannels>>
  BY DEF SessionSubscribes, CleanupUnsubscribes, ClientSubscribes, ClientUnsubscribes
<1> USE DEF Goes
<1>2. ASSUME NEW d \in Channels, SessionSubscribes(d)  PROVE QuotaInv'
  <2>1. Session(d) \in Subscribers /\ todo[d] \subseteq Keys
    BY CallerFacts DEF QuotaInv, BrokerTypeOK
  <2>2. ASSUME NEW key \in Keys, SubscribeLocked(Session(d), d, key), UNCHANGED session,
               todo' = [todo EXCEPT ![d] = @ \ {key}]
        PROVE  QuotaInv'
    <3>1. session[d] = "subscribe"  BY <1>2 DEF SessionSubscribes
    <3>2. \A c \in Channels \ {d} : subscriptions'[c] = subscriptions[c] /\ todo'[c] = todo[c]
      BY <2>2 DEF SubscribeLocked, QuotaInv, BrokerTypeOK
    <3>3. \A c \in Channels : StageFits(c)'
      BY <1>1, <2>2, <3>1, <3>2 DEF QuotaInv, StageFits
    <3>4. Counted(channels, subscriptions, numChannels, numSubject, numSubscriptions)'
      BY <1>1, <2>1, <2>2, LockedCounts
    <3> QED  BY <1>0, <3>3, <3>4 DEF QuotaInv
  <2>3. CASE /\ session[d] = "subscribe" /\ Goes(d, "cleanup")
             /\ UNCHANGED <<subscriptions, numSubject, numSubscriptions, todo>>
    <3>1. \A c \in Channels : StageFits(c)'
      BY <1>1, <2>3 DEF QuotaInv, StageFits, BrokerTypeOK
    <3>2. Counted(channels, subscriptions, numChannels, numSubject, numSubscriptions)'
      BY <1>1, <2>3 DEF QuotaInv
    <3> QED  BY <1>0, <3>1, <3>2 DEF QuotaInv
  <2> QED  BY <1>2, <2>1, <2>2, <2>3 DEF SessionSubscribes
<1>3. ASSUME NEW d \in Channels, CleanupUnsubscribes(d)  PROVE QuotaInv'
  <2>1. Session(d) \in Subscribers /\ todo[d] \subseteq Keys
    BY CallerFacts DEF QuotaInv, BrokerTypeOK
  <2>2. PICK k \in Keys : /\ UnsubscribeLocked(Session(d), d, k)
                          /\ todo' = [todo EXCEPT ![d] = @ \ {k}]
    BY <1>3, <2>1 DEF CleanupUnsubscribes
  <2>3. session[d] = "unsubscribe" /\ session' = session
    BY <1>3 DEF CleanupUnsubscribes
  <2>4. /\ \A c \in Channels \ {d} : subscriptions'[c] = subscriptions[c] /\ todo'[c] = todo[c]
        /\ subscriptions'[d] = subscriptions[d] \ {k} /\ todo'[d] = todo[d] \ {k}
    BY <2>2 DEF UnsubscribeLocked, QuotaInv, BrokerTypeOK
  <2>5. \A c \in Channels : StageFits(c)'
    BY <1>1, <2>3, <2>4 DEF QuotaInv, StageFits
  <2>6. Counted(channels, subscriptions, numChannels, numSubject, numSubscriptions)'
    BY <1>1, <2>1, <2>2, LockedCounts
  <2> QED  BY <1>0, <2>5, <2>6 DEF QuotaInv
<1>4. ASSUME NEW x \in Clients, ClientSubscribes(x) \/ ClientUnsubscribes(x)
      PROVE  QuotaInv'
  <2> DEFINE d == ChannelOf[x]
  <2>1. Client(x) \in Subscribers /\ d \in Channels  BY CallerFacts
  <2>2. PICK key \in Keys : \/ SubscribeLocked(Client(x), d, key)
                            \/ UnsubscribeLocked(Client(x), d, key)
    BY <1>4 DEF ClientSubscribes, ClientUnsubscribes
  <2>3. /\ session[d] \notin {"new", "done"}
        /\ UNCHANGED <<session, todo>>
    BY <1>4 DEF ClientSubscribes, ClientUnsubscribes, Requests, Announced
  <2>4. /\ \A c \in Channels \ {d} : subscriptions'[c] = subscriptions[c]
        /\ d \in terminated => subscriptions'[d] \subseteq subscriptions[d]
    BY <2>1, <2>2 DEF SubscribeLocked, CanSubscribe, UnsubscribeLocked, QuotaInv, BrokerTypeOK
  <2>5. \A c \in Channels : StageFits(c)'
    BY <1>1, <2>3, <2>4 DEF QuotaInv, StageFits
  <2>6. Counted(channels, subscriptions, numChannels, numSubject, numSubscriptions)'
    BY <1>1, <2>1, <2>2, LockedCounts
  <2> QED  BY <1>0, <2>5, <2>6 DEF QuotaInv
<1> QED  BY <1>2, <1>3, <1>4

\* The steps that open and close a channel.
LEMMA QuotaChannels ==
    ASSUME QuotaInv, NEW d \in Channels, NewChannel(d) \/ CleanupEnds(d)
    PROVE  QuotaInv'
<1> USE DEF Goes
<1> DEFINE o == SubjectOf[d]
<1>0. /\ BrokerTypeOK' /\ o \in Subjects
      /\ BrokerTypeOK /\ \A c \in Channels : StageFits(c)
      /\ Counted(channels, subscriptions, numChannels, numSubject, numSubscriptions)
  BY SessionType, SubjectFacts DEF QuotaInv
<1>1. UNCHANGED <<subscriptions, terminated, numSubject, numSubscriptions>>
  BY DEF NewChannel, CleanupEnds
<1>2. \A c \in Channels \ {d} : /\ session'[c] = session[c] /\ todo'[c] = todo[c]
                                /\ c \in channels' <=> c \in channels
  BY <1>0 DEF NewChannel, CleanupEnds, BrokerTypeOK
<1>3. StageFits(d)'
  <2>1. CASE NewChannel(d)
    <3>1. subscriptions[d] = {} /\ d \notin channels /\ session[d] = "new"
      BY <1>0, <2>1 DEF NewChannel, StageFits
    <3>2. \/ session'[d] = "subscribe" /\ d \in channels'
          \/ session'[d] = "done" /\ d \notin channels'
      BY <1>0, <2>1, <3>1 DEF NewChannel, BrokerTypeOK
    <3> QED  BY <1>1, <3>1, <3>2 DEF StageFits
  <2>2. CASE CleanupEnds(d)
    <3>1. session[d] = "unsubscribe" /\ todo[d] = {} /\ session'[d] = "done" /\ d \notin channels'
      BY <1>0, <2>2 DEF CleanupEnds, BrokerTypeOK
    <3> QED  BY <1>0, <1>1, <3>1 DEF StageFits
  <2> QED  BY <2>1, <2>2
<1>4. \A c \in Channels : StageFits(c)'
  BY <1>0, <1>1, <1>2, <1>3 DEF StageFits
<1>5. \A s \in Subjects : numChannels'[s] = Cardinality(Opened(channels', s))
  <2> SUFFICES ASSUME NEW s \in Subjects
               PROVE  numChannels'[s] = Cardinality(Opened(channels', s))
    OBVIOUS
  <2>1. /\ channels \in SUBSET Channels /\ numChannels[s] \in Int
        /\ numChannels[s] = Cardinality(Opened(channels, s))
    BY <1>0 DEF BrokerTypeOK, Counted
  <2>2. CASE UNCHANGED <<channels, numChannels>>  BY <2>1, <2>2
  <2>3. CASE NewChannel(d) /\ ~UNCHANGED <<channels, numChannels>>
    <3>1. /\ channels' = channels \cup {d}
          /\ numChannels' = [numChannels EXCEPT ![o] = @ + 1] /\ session[d] = "new"
      BY <2>3 DEF NewChannel
    <3>2. d \in Channels \ channels  BY <1>0, <3>1 DEF StageFits
    <3>3. Cardinality(Opened(channels \cup {d}, s)) =
             Cardinality(Opened(channels, s)) + (IF SubjectOf[d] = s THEN 1 ELSE 0)
      BY <2>1, <3>2, OpenedMore
    <3>4. numChannels'[s] = numChannels[s] + (IF SubjectOf[d] = s THEN 1 ELSE 0)
      <4>1. DOMAIN numChannels = Subjects  BY <1>0 DEF BrokerTypeOK
      <4> QED  BY <2>1, <3>1, <4>1
    <3> QED  BY <2>1, <3>1, <3>3, <3>4
  <2>4. CASE CleanupEnds(d)
    <3>1. /\ channels' = channels \ {d}
          /\ numChannels' = [numChannels EXCEPT ![o] = @ - 1] /\ session[d] = "unsubscribe"
      BY <2>4 DEF CleanupEnds
    <3>2. d \in channels  BY <1>0, <3>1 DEF StageFits
    <3>3. Cardinality(Opened(channels \ {d}, s)) =
             Cardinality(Opened(channels, s)) - (IF SubjectOf[d] = s THEN 1 ELSE 0)
      BY <2>1, <3>2, OpenedLess
    <3>4. numChannels'[s] = numChannels[s] - (IF SubjectOf[d] = s THEN 1 ELSE 0)
      <4>1. DOMAIN numChannels = Subjects  BY <1>0 DEF BrokerTypeOK
      <4> QED  BY <2>1, <3>1, <4>1
    <3> QED  BY <2>1, <3>1, <3>3, <3>4
  <2> QED  BY <2>2, <2>3, <2>4
<1>6. Counted(channels, subscriptions, numChannels, numSubject, numSubscriptions)'
  BY <1>0, <1>1, <1>5 DEF Counted
<1> QED  BY <1>0, <1>4, <1>6 DEF QuotaInv

LEMMA QuotaNext == QuotaInv /\ [BrokerNext]_brokerVars => QuotaInv'
<1> SUFFICES ASSUME QuotaInv, [BrokerNext]_brokerVars  PROVE QuotaInv'
  OBVIOUS
<1> USE DEF Goes
<1>0. BrokerTypeOK' /\ BrokerTypeOK /\ \A c \in Channels : StageFits(c)
  BY TypeNext DEF QuotaInv
\* What the other steps of a session do.
<1>1. ASSUME NEW d \in Channels,
             \/ SendChannelID(d) \/ WatchTakes(d) \/ WatchDelivers(d) \/ WatchLeaves(d)
             \/ CleanupTerminates(d)
      PROVE  QuotaInv'
  <2>1. UNCHANGED <<channels, subscriptions, quotaVars>>
    BY <1>1 DEF SendChannelID, WatchTakes, WatchDelivers, WatchLeaves, CleanupTerminates
  <2>2. \/ /\ session[d] \in {"subscribe", "watch", "deliver"}
           /\ session'[d] \in {"watch", "deliver", "cleanup"}
        \/ /\ session[d] = "cleanup" /\ session'[d] = "unsubscribe"
           /\ d \in terminated' /\ todo'[d] = subscriptions[d]
    BY <1>0, <1>1 DEF SendChannelID, WatchTakes, WatchDelivers, WatchLeaves, CleanupTerminates,
                      BrokerTypeOK
  <2>3. \A c \in Channels \ {d} : /\ session'[c] = session[c] /\ todo'[c] = todo[c]
                                  /\ c \in terminated => c \in terminated'
    BY <1>0, <1>1 DEF SendChannelID, WatchTakes, WatchDelivers, WatchLeaves, CleanupTerminates,
                      BrokerTypeOK
  <2>4. \A c \in Channels : StageFits(c)'
    BY <1>0, <2>1, <2>2, <2>3 DEF StageFits
  <2>5. Counted(channels, subscriptions, numChannels, numSubject, numSubscriptions)'
    BY <2>1 DEF QuotaInv, quotaVars
  <2> QED  BY <1>0, <2>4, <2>5 DEF QuotaInv
<1>2. ASSUME UNCHANGED <<channels, subscriptions, terminated, quotaVars, session, todo>>
      PROVE  QuotaInv'
  BY <1>0, <1>2 DEF QuotaInv, StageFits, Counted, quotaVars
<1>3. ASSUME \/ UNCHANGED brokerVars \/ NotifierTakes
             \/ \E c \in Channels : NotifierSignals(c)
             \/ \E k \in Keys : Update(k)
             \/ \E t \in Callers : Send(t)
             \/ \E t \in Subscribers : Mark(t)
      PROVE  QuotaInv'
  <2>1. UNCHANGED <<channels, subscriptions, terminated, quotaVars, session, todo>>
    BY <1>3 DEF brokerVars, NotifierTakes, NotifierSignals, Update, Send, Mark
  <2> QED  BY <2>1, <1>2
<1> QED  BY <1>1, <1>3, QuotaLocked, QuotaChannels DEF BrokerNext, SessionNext

\* cleanupChannel gives back the quota of every subscription of its channel and of
\* the channel, also of what other requests subscribe and unsubscribe while it runs:
\* the counters of NewN10nBroker's quotas always count what there is, for any
\* number of clients of a channel.
THEOREM QuotasNeverLeak == BrokerSpec => []QuotasAreReturned
<1>1. BrokerInit => QuotaInv  BY QuotaInit
<1>2. QuotaInv /\ [BrokerNext]_brokerVars => QuotaInv'  BY QuotaNext
<1>3. QuotaInv => QuotasAreReturned
  <2> SUFFICES ASSUME QuotaInv  PROVE QuotasAreReturned
    OBVIOUS
  <2>1. \A c \in Channels \ channels : subscriptions[c] = {}  BY DEF QuotaInv, StageFits
  <2> QED  BY <2>1 DEF QuotaInv, Counted, Opened, Held, HeldBy, QuotasAreReturned
<1> QED  BY <1>1, <1>2, <1>3, PTL DEF BrokerSpec

-----------------------------------------------------------------------------
(* The steps of the broker are steps of Notifications, or stutter. *)
LEMMA SubscribeRefines ==
    ASSUME BrokerTypeOK, NEW t, NEW c \in Channels, NEW key \in Keys,
           SubscribeLocked(t, c, key), offset' = offset
    PROVE  [Delivery!Next]_(Delivery!vars)
<1>1. PICK k \in Keys : k = ZeroKey[key]  OBVIOUS
<1>2. CASE k \in subscriptions[c]
  BY <1>1, <1>2 DEF SubscribeLocked, Delivery!vars
<1>3. CASE k \notin subscriptions[c]
  <2>1. Delivery!Subscribe(c, k)
    BY <1>1, <1>3 DEF SubscribeLocked, Delivery!Subscribe
  <2> QED  BY <2>1 DEF Delivery!Next
<1> QED  BY <1>2, <1>3

LEMMA UnsubscribeRefines ==
    ASSUME BrokerTypeOK, NEW t, NEW c \in Channels, NEW k \in Keys,
           UnsubscribeLocked(t, c, k), offset' = offset, delivered' = delivered
    PROVE  [Delivery!Next]_(Delivery!vars)
<1>1. CASE k \notin subscriptions[c]
  BY <1>1 DEF UnsubscribeLocked, Delivery!vars
<1>2. CASE k \in subscriptions[c]
  <2>1. Delivery!Unsubscribe(c, k)  BY <1>2 DEF UnsubscribeLocked, Delivery!Unsubscribe
  <2> QED  BY <2>1 DEF Delivery!Next
<1> QED  BY <1>1, <1>2

LEMMA DeliverRefines ==
    ASSUME BrokerTypeOK, NEW c \in Channels, WatchDelivers(c)
    PROVE  [Delivery!Next]_(Delivery!vars)
<1> DEFINE D == [k \in Keys |-> IF k \in subscriptions[c] /\ offset[k] > delivered[c][k]
                               THEN offset[k] ELSE delivered[c][k]]
<1>1. /\ delivered' = [delivered EXCEPT ![c] = D]
      /\ UNCHANGED <<offset, subscriptions>>
  BY DEF WatchDelivers
<1>2. /\ delivered \in [Channels -> [Keys -> Nat]]
      /\ subscriptions \in [Channels -> SUBSET Keys]
  BY DEF BrokerTypeOK
<1>3. \A k \in Keys : k \in Delivery!Pending(c) <=>
                        k \in subscriptions[c] /\ offset[k] > delivered[c][k]
  BY <1>2 DEF Delivery!Pending
<1>4. CASE Delivery!Pending(c) # {}
  <2>1. D = [k \in Keys |-> IF k \in Delivery!Pending(c) THEN offset[k] ELSE delivered[c][k]]
    BY <1>3
  <2>2. Delivery!Deliver(c)  BY <1>1, <1>4, <2>1 DEF Delivery!Deliver
  <2> QED  BY <2>2 DEF Delivery!Next
<1>5. CASE Delivery!Pending(c) = {}
  <2>1. D = [k \in Keys |-> delivered[c][k]]  BY <1>3, <1>5
  <2>2. delivered[c] \in [Keys -> Nat]  BY <1>2
  <2>3. D = delivered[c]  BY <2>1, <2>2
  <2> HIDE DEF D
  <2>4. delivered' = delivered  BY <1>1, <1>2, <2>3
  <2> QED  BY <1>1, <2>4 DEF Delivery!vars
<1> QED  BY <1>4, <1>5

LEMMA BrokerStepRefines ==
    BrokerTypeOK /\ [BrokerNext]_brokerVars => [Delivery!Next]_(Delivery!vars)
<1> SUFFICES ASSUME BrokerTypeOK, [BrokerNext]_brokerVars  PROVE [Delivery!Next]_(Delivery!vars)
  OBVIOUS
<1>1. ASSUME UNCHANGED <<offset, subscriptions, delivered>>
      PROVE  [Delivery!Next]_(Delivery!vars)
  BY <1>1 DEF Delivery!vars
<1>2. ASSUME \/ UNCHANGED brokerVars \/ NotifierTakes
             \/ \E c \in Channels : \/ NotifierSignals(c) \/ NewChannel(c) \/ SendChannelID(c)
                                   \/ WatchTakes(c) \/ WatchLeaves(c) \/ CleanupTerminates(c)
                                   \/ CleanupEnds(c)
             \/ \E t \in Callers : Send(t)
             \/ \E t \in Subscribers : Mark(t)
      PROVE  [Delivery!Next]_(Delivery!vars)
  <2>1. UNCHANGED <<offset, subscriptions, delivered>>
    BY <1>2 DEF brokerVars, NotifierTakes, NotifierSignals, NewChannel, SendChannelID, WatchTakes,
                WatchLeaves, CleanupTerminates, CleanupEnds, Send, Mark
  <2> QED  BY <1>1, <2>1
<1>3. ASSUME NEW k \in Keys, Update(k)  PROVE [Delivery!Next]_(Delivery!vars)
  <2>1. offset \in [Keys -> Nat]  BY DEF BrokerTypeOK
  <2>2. offset'[k] = offset[k] + 1  BY <1>3, <2>1 DEF Update
  <2>3. offset'[k] \in Nat  BY <2>1, <2>2
  <2>4. Delivery!Update(k)  BY <1>3, <2>1, <2>2, <2>3 DEF Update, Delivery!Update
  <2> QED  BY <2>4 DEF Delivery!Next
<1>4. ASSUME NEW c \in Channels, SessionSubscribes(c)  PROVE [Delivery!Next]_(Delivery!vars)
  <2>1. todo[c] \subseteq Keys  BY DEF BrokerTypeOK
  <2>2. PICK key \in todo[c] : \/ SubscribeLocked(Session(c), c, key)
                               \/ UNCHANGED <<subscriptions, delivered>>
    BY <1>4 DEF SessionSubscribes
  <2>3. offset' = offset  BY <1>4 DEF SessionSubscribes
  <2> QED  BY <1>1, <2>1, <2>2, <2>3, SubscribeRefines
<1>5. ASSUME NEW c \in Channels, CleanupUnsubscribes(c)  PROVE [Delivery!Next]_(Delivery!vars)
  <2>1. todo[c] \subseteq Keys  BY DEF BrokerTypeOK
  <2>2. PICK k \in todo[c] : UnsubscribeLocked(Session(c), c, k)
    BY <1>5 DEF CleanupUnsubscribes
  <2>3. offset' = offset /\ delivered' = delivered  BY <1>5 DEF CleanupUnsubscribes
  <2> QED  BY <2>1, <2>2, <2>3, UnsubscribeRefines
<1>6. ASSUME NEW x \in Clients, ClientSubscribes(x)  PROVE [Delivery!Next]_(Delivery!vars)
  <2>1. PICK key \in Keys : SubscribeLocked(Client(x), ChannelOf[x], key)
    BY <1>6 DEF ClientSubscribes
  <2>2. offset' = offset /\ ChannelOf[x] \in Channels  BY <1>6 DEF ClientSubscribes
  <2> QED  BY <2>1, <2>2, SubscribeRefines
<1>7. ASSUME NEW x \in Clients, ClientUnsubscribes(x)  PROVE [Delivery!Next]_(Delivery!vars)
  <2>1. PICK k \in Keys : UnsubscribeLocked(Client(x), ChannelOf[x], k)
    BY <1>7 DEF ClientUnsubscribes
  <2>2. offset' = offset /\ delivered' = delivered /\ ChannelOf[x] \in Channels
    BY <1>7 DEF ClientUnsubscribes
  <2> QED  BY <2>1, <2>2, UnsubscribeRefines
<1> QED  BY <1>2, <1>3, <1>4, <1>5, <1>6, <1>7, DeliverRefines DEF BrokerNext, SessionNext

\* The broker's threads together keep the promise of in10n/interface.go as far as
\* it is about safety: what a client is told is the latest offset of a projection
\* it is subscribed to, taken at one time for all of them, and a subscription or
\* its end is never undone by a step of another thread.
THEOREM BrokerImplementsNotifications ==
    BrokerSpec => Delivery!Init /\ [][Delivery!Next]_(Delivery!vars)
<1>1. BrokerInit => Delivery!Init  BY DEF BrokerInit, Delivery!Init
<1> QED  BY <1>1, TypeInit, TypeNext, BrokerStepRefines, PTL DEF BrokerSpec

=============================================================================
