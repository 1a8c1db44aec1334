---------------------------- MODULE QueryRequest ----------------------------
(***************************************************************************)
(* One request for rows, from the router to a query processor and back:    *)
(* the bus (pkg/bus), the request handler (pkg/vvm, pkg/iprocbusmem), the  *)
(* processor (pkg/processors/query for API v1, pkg/processors/query2 for   *)
(* API v2), its rows processor, which is an asynchronous pipeline          *)
(* (pkg/pipeline) with a goroutine per operator, and the reply that the    *)
(* router writes to the client (pkg/router).                               *)
(*                                                                         *)
(* Abstractions: a row is the word "row"; the rows processor has four      *)
(* operators: one that works on each row and may fail (result fields,      *)
(* enrichment, include, keys), one that holds the rows back when the       *)
(* client wants them ordered, the sender and the releaser.  Every channel  *)
(* between them has room for one item, as in the code.                     *)
(***************************************************************************)
EXTENDS Naturals, Sequences

CONSTANT MaxRows  \* bound on the rows of a result

ASSUME MaxRowsAssumption == MaxRows \in Nat

RowOp == 1
OrderOp == 2
SendOp == 3
Releaser == 4
Operators == RowOp..Releaser
PipelineOut == Releaser + 1  \* AsyncPipeline.stdout, the Stdout of the releaser

VARIABLES
    apiV2,       \* the request uses API v2
    ordered,     \* the client wants the rows ordered
    caller,      \* where the goroutine of the HTTP request is
    received,    \* the rows the client has
    answer,      \* how the response has ended: "complete", "error" or "cut"
    ctxDone,     \* the context of the request is done
    meta,        \* responseMetaCh: "none", "stream", "single" or "taken"
    respCh,      \* implResponseWriter.ch, at most one item
    respClosed,  \* it is closed
    resultErr,   \* *implResponseWriter.resultErr # nil
    qp,          \* where the query processor is
    produced,    \* the rows the query function has sent
    qpErr,       \* the processor's err # nil
    stdin,       \* Stdin of the operators and PipelineOut, at most one item each
    closed,      \* the ones that are closed
    out,         \* what an operator has yet to put into its Stdout
    opErr,       \* operators with WiredOperator.err
    held,        \* rows the order operator holds
    hand,        \* the item the sender works on
    errCh        \* rowsProcessorErrCh holds an error

clientVars   == <<apiV2, ordered, caller, received, answer, ctxDone>>
busVars      == <<meta, respCh, respClosed, resultErr>>
qpVars       == <<qp, produced, qpErr>>
pipelineVars == <<stdin, closed, out, opErr, held, hand, errCh>>
queryVars    == <<clientVars, busVars, qpVars, pipelineVars>>

QueryInit ==
    /\ apiV2 \in BOOLEAN /\ ordered \in BOOLEAN
    /\ caller = "call" /\ received = 0 /\ answer = "none" /\ ctxDone = FALSE
    /\ meta = "none" /\ respCh = <<>> /\ respClosed = FALSE /\ resultErr = FALSE
    /\ qp = "free" /\ produced = 0 /\ qpErr = FALSE
    /\ stdin = [i \in 1..PipelineOut |-> <<>>] /\ closed = {}
    /\ out = [op \in Operators |-> <<>>]
    /\ opErr = {} /\ held = 0 /\ hand = "none" /\ errCh = FALSE

-----------------------------------------------------------------------------
(* The goroutine of the HTTP request: SendRequest of the bus, then the     *)
(* reply of the router.  When it ends the context is cancelled.            *)

CallerEnds(how) ==
    /\ caller' = "done"
    /\ answer' = IF ctxDone THEN "cut" ELSE how
    /\ ctxDone' = TRUE

\* Submit does not wait: without a processor the answer is 503.
SendRequest ==
    /\ caller = "call"
    /\ caller' = "wait"
    /\ \/ qp' = "queued" /\ UNCHANGED <<meta, respCh, respClosed>>
       \/ meta' = "single" /\ respCh' = <<"error">> /\ respClosed' = TRUE /\ UNCHANGED qp
    /\ UNCHANGED <<apiV2, ordered, received, answer, ctxDone, resultErr,
                   produced, qpErr, pipelineVars>>

WaiterTakesMeta ==
    /\ caller = "wait"
    /\ meta # "none"
    /\ IF ctxDone THEN CallerEnds("cut")
       ELSE /\ caller' = CASE meta = "single" -> "single"
                           [] meta = "stream" -> IF apiV2 THEN "open" ELSE "reply"
            /\ UNCHANGED <<answer, ctxDone>>
    /\ meta' = "taken"
    /\ UNCHANGED <<apiV2, ordered, received, respCh, respClosed, resultErr,
                   qpVars, pipelineVars>>

WaiterSeesContext ==
    /\ caller = "wait"
    /\ ctxDone
    /\ CallerEnds("cut")
    /\ UNCHANGED <<apiV2, ordered, received, busVars, qpVars, pipelineVars>>

ReplySingle ==
    /\ caller = "single"
    /\ CallerEnds("error")
    /\ respCh' = <<>>
    /\ UNCHANGED <<apiV2, ordered, received, meta, respClosed, resultErr, qpVars,
                   pipelineVars>>

\* The context has priority over the row that was received.
ReplyTakes ==
    /\ caller = "reply"
    /\ respCh # <<>>
    /\ respCh' = <<>>
    /\ IF ctxDone THEN CallerEnds("cut")
       ELSE caller' = "write" /\ UNCHANGED <<answer, ctxDone>>
    /\ UNCHANGED <<apiV2, ordered, received, meta, respClosed, resultErr, qpVars,
                   pipelineVars>>

\* The router writes to the socket; this takes as long as the client wants, as
\* there is no write timeout by default.
Writing == caller \in {"open", "write"}

\* The opening brackets of API v2.
ReplyOpens ==
    /\ caller = "open"
    /\ caller' = "reply"
    /\ UNCHANGED <<apiV2, ordered, received, answer, ctxDone, busVars, qpVars,
                   pipelineVars>>

ReplyWrites ==
    /\ caller = "write"
    /\ received' = received + 1
    /\ caller' = "reply"
    /\ UNCHANGED <<apiV2, ordered, answer, ctxDone, busVars, qpVars, pipelineVars>>

\* onSendFailed cancels the context; the channel is read until it is closed.
ReplyFails ==
    /\ Writing
    /\ caller' = "drain"
    /\ answer' = "cut"
    /\ ctxDone' = TRUE
    /\ UNCHANGED <<apiV2, ordered, received, busVars, qpVars, pipelineVars>>

ReplyDrains ==
    /\ caller = "drain"
    /\ \/ respCh # <<>> /\ respCh' = <<>> /\ UNCHANGED caller
       \/ respCh = <<>> /\ respClosed /\ caller' = "done" /\ UNCHANGED respCh
    /\ UNCHANGED <<apiV2, ordered, received, answer, ctxDone, meta, respClosed,
                   resultErr, qpVars, pipelineVars>>

\* The closing brackets, after the error if there is one.
ReplyEnds ==
    /\ caller = "reply"
    /\ respCh = <<>> /\ respClosed
    /\ CallerEnds(IF resultErr THEN "error" ELSE "complete")
    /\ UNCHANGED <<apiV2, ordered, received, busVars, qpVars, pipelineVars>>

ClientLeaves ==
    /\ caller \in {"wait", "reply"} \/ Writing
    /\ ~ctxDone
    /\ ctxDone' = TRUE
    /\ UNCHANGED <<apiV2, ordered, caller, received, answer, busVars, qpVars,
                   pipelineVars>>

-----------------------------------------------------------------------------
(* The query processor. *)

\* The stages before the rows processor is built, and exec.
Prepare ==
    /\ qp = "queued"
    /\ \/ qp' = "exec" /\ UNCHANGED qpErr
       \/ qp' = "respond" /\ qpErr' = TRUE
    /\ UNCHANGED <<produced, clientVars, busVars, pipelineVars>>

ExecEnds(failed) ==
    /\ qp' = "close"
    /\ qpErr' = failed
    /\ closed' = closed \cup {RowOp}
    /\ UNCHANGED <<produced, clientVars, busVars, out, opErr, held, hand, errCh>>

\* SendAsync, called by the query function: the row goes to the first
\* operator, or an error comes out of the pipeline and ends the query.
SendAsync ==
    /\ qp = "exec"
    /\ produced < MaxRows
    /\ \/ /\ apiV2 \/ ~ctxDone
          /\ stdin[RowOp] = <<>>
          /\ stdin' = [stdin EXCEPT ![RowOp] = <<"row">>]
          /\ produced' = produced + 1
          /\ UNCHANGED <<qp, qpErr, clientVars, busVars, closed, out, opErr, held,
                         hand, errCh>>
       \/ /\ apiV2 \/ ~ctxDone
          /\ stdin[PipelineOut] # <<>>
          /\ stdin' = [stdin EXCEPT ![PipelineOut] = <<>>]
          /\ ExecEnds(TRUE)
       \/ ~apiV2 /\ ctxDone /\ ExecEnds(TRUE) /\ UNCHANGED stdin

\* The query function, CheckResponseIntent or ApplyIntents fails, or none does.
ExecReturns ==
    /\ qp = "exec"
    /\ ExecEnds(TRUE) \/ ExecEnds(FALSE)
    /\ UNCHANGED stdin

\* AsyncPipeline.Close: what comes out of the pipeline is dropped.
ClosePipeline ==
    /\ qp = "close"
    /\ \/ /\ stdin[PipelineOut] # <<>>
          /\ stdin' = [stdin EXCEPT ![PipelineOut] = <<>>]
          /\ UNCHANGED qp
       \/ /\ stdin[PipelineOut] = <<>> /\ PipelineOut \in closed
          /\ qp' = "respond"
          /\ UNCHANGED stdin
    /\ UNCHANGED <<produced, qpErr, clientVars, busVars, closed, out, opErr, held,
                   hand, errCh>>

CloseResponse(failed) ==
    /\ qp = "respond"
    /\ qpErr' = failed
    /\ meta' = IF meta = "none" THEN "stream" ELSE meta
    /\ resultErr' = failed
    /\ respClosed' = TRUE
    /\ qp' = "done"
    /\ errCh' = FALSE
    /\ UNCHANGED <<produced, clientVars, respCh, stdin, closed, out, opErr, held, hand>>

RespondMutant == CloseResponse(qpErr)  \* Mutated form: without the rows processor's error.

\* The error of the rows processor counts when the processor has none.
Respond == CloseResponse(qpErr \/ errCh)

-----------------------------------------------------------------------------
(* The operators: puller_async. *)

\* WiredOperator.isActive: the pipeline of API v1 has the context of the
\* request, the one of API v2 that of the VVM.
Active(op) == op \notin opErr /\ (apiV2 \/ ~ctxDone)

Takes(op, item) ==
    /\ out[op] = <<>> /\ (op = SendOp => hand = "none")
    /\ stdin[op] = <<item>>
    /\ stdin' = [stdin EXCEPT ![op] = <<>>]
    /\ UNCHANGED <<clientVars, qpVars, closed, errCh>>

Emits(op, items) == out' = [out EXCEPT ![op] = items]

Releases(op) ==
    /\ \E item \in {"row", "error"} : Takes(op, item)
    /\ ~Active(op)
    /\ UNCHANGED <<busVars, out, opErr, held, hand>>

\* OnError of every operator but the sender does nothing.
ForwardsError(op) ==
    /\ op # SendOp
    /\ Takes(op, "error")
    /\ Active(op)
    /\ Emits(op, <<"error">>)
    /\ UNCHANGED <<busVars, opErr, held, hand>>

RowOpWorks ==
    /\ Takes(RowOp, "row")
    /\ Active(RowOp)
    /\ \/ Emits(RowOp, <<"row">>) /\ UNCHANGED opErr
       \/ Emits(RowOp, <<"error">>) /\ opErr' = opErr \cup {RowOp}
    /\ UNCHANGED <<busVars, held, hand>>

OrderOpWorks ==
    /\ Takes(OrderOp, "row")
    /\ Active(OrderOp)
    /\ IF ordered THEN held' = held + 1 /\ UNCHANGED out
                  ELSE Emits(OrderOp, <<"row">>) /\ UNCHANGED held
    /\ UNCHANGED <<busVars, opErr, hand>>

ReleaserWorks ==
    /\ Takes(Releaser, "row")
    /\ Active(Releaser)
    /\ UNCHANGED <<busVars, out, opErr, held, hand>>

\* The first row starts the response.
SenderTakes ==
    /\ \E item \in {"row", "error"} :
          /\ Takes(SendOp, item)
          /\ hand' = item
          /\ meta' = IF item = "row" /\ meta = "none" THEN "stream" ELSE meta
    /\ Active(SendOp)
    /\ UNCHANGED <<respCh, respClosed, resultErr, out, opErr, held>>

\* OnError of the sender: API v1 drops an error when there is one already, the
\* send of API v2 waits for room.
SenderReports ==
    /\ hand = "error"
    /\ ~apiV2 \/ ~errCh
    /\ errCh' = TRUE
    /\ hand' = "none"
    /\ Emits(SendOp, <<"error">>)
    /\ UNCHANGED <<clientVars, busVars, qpVars, stdin, closed, opErr, held>>

SenderFails ==
    /\ hand' = "none"
    /\ Emits(SendOp, <<"error">>)
    /\ opErr' = opErr \cup {SendOp}

WriteFailsMutant ==  \* Mutated form: Write waits without a timer.
    /\ hand = "row"
    /\ ctxDone
    /\ SenderFails
    /\ UNCHANGED <<clientVars, busVars, qpVars, stdin, closed, held, errCh>>

\* Write returns an error: the context is done, or there was no room for ten
\* seconds; the router takes the next row earlier, unless it is writing.
WriteFails ==
    /\ hand = "row"
    /\ ctxDone \/ (respCh # <<>> /\ Writing)
    /\ SenderFails
    /\ UNCHANGED <<clientVars, busVars, qpVars, stdin, closed, held, errCh>>

\* Write puts the row, and reports the context when it is done.
WritePuts ==
    /\ hand = "row"
    /\ respCh = <<>>
    /\ respCh' = <<"row">>
    /\ \/ ctxDone /\ SenderFails
       \/ ~ctxDone /\ hand' = "none" /\ Emits(SendOp, <<"row">>) /\ UNCHANGED opErr
    /\ UNCHANGED <<clientVars, meta, respClosed, resultErr, qpVars, stdin, closed,
                   held, errCh>>

Pushes(op) ==
    /\ out[op] # <<>>
    /\ stdin[op + 1] = <<>>
    /\ stdin' = [stdin EXCEPT ![op + 1] = <<Head(out[op])>>]
    /\ Emits(op, Tail(out[op]))
    /\ UNCHANGED <<clientVars, busVars, qpVars, closed, opErr, held, hand, errCh>>

\* There is nothing left to do, and nothing comes.
Finished(op) ==
    /\ out[op] = <<>> /\ (op = SendOp => hand = "none")
    /\ stdin[op] = <<>> /\ op \in closed

\* The rows the order operator holds; to compare two may fail.
Flush ==
    /\ Finished(OrderOp)
    /\ held > 0
    /\ held' = 0
    /\ \/ /\ Active(OrderOp)
          /\ Emits(OrderOp, [i \in 1..held |-> "row"])
          /\ UNCHANGED opErr
       \/ /\ Active(OrderOp) /\ held > 1
          /\ Emits(OrderOp, <<"error">>)
          /\ opErr' = opErr \cup {OrderOp}
       \/ ~Active(OrderOp) /\ UNCHANGED <<out, opErr>>
    /\ UNCHANGED <<clientVars, busVars, qpVars, stdin, closed, hand, errCh>>

ClosesStdout(op) ==
    /\ Finished(op) /\ op + 1 \notin closed
    /\ op = OrderOp => held = 0
    /\ closed' = closed \cup {op + 1}
    /\ UNCHANGED <<clientVars, busVars, qpVars, stdin, out, opErr, held, hand, errCh>>

-----------------------------------------------------------------------------
SocketWrites == ReplyOpens \/ ReplyWrites \/ ReplyFails \/ ReplySingle \/ ReplyEnds

HTTPRequestStep == WaiterTakesMeta \/ WaiterSeesContext \/ ReplyTakes \/ ReplyDrains

ProcessorStep == Prepare \/ SendAsync \/ ExecReturns \/ ClosePipeline \/ Respond

SenderStep == SenderTakes \/ SenderReports \/ WriteFails \/ WritePuts

PullerStep(op) ==
    \/ Releases(op) \/ ForwardsError(op) \/ Pushes(op) \/ ClosesStdout(op)
    \/ op = RowOp /\ RowOpWorks
    \/ op = OrderOp /\ (OrderOpWorks \/ Flush)
    \/ op = SendOp /\ SenderStep
    \/ op = Releaser /\ ReleaserWorks

QueryNext ==
    \/ SendRequest \/ HTTPRequestStep \/ SocketWrites \/ ClientLeaves
    \/ ProcessorStep
    \/ \E op \in Operators : PullerStep(op)

\* Goroutines and the timer go on, but a write to the socket may take for ever.
QueryFairness ==
    /\ WF_queryVars(HTTPRequestStep)
    /\ WF_queryVars(ProcessorStep)
    /\ \A op \in Operators : WF_queryVars(PullerStep(op))

QuerySpec == QueryInit /\ [][QueryNext]_queryVars /\ QueryFairness

-----------------------------------------------------------------------------
(* Properties. *)

\* A response that looks complete to the client is complete: no error of an
\* operator, of the query or of a flush is lost on its way through the
\* pipeline, errCh and resultErr (query/impl.go:138-164, query2/impl.go:78-103).
\* A failure to write is left to FirstErrorIsReported.
CleanEndIsComplete ==
    answer = "complete" =>
        \/ SendOp \in opErr
        \/ opErr = {} /\ ~qpErr /\ received = produced

\* The first error of the rows processor is in rowsProcessorErrCh
\* (query/impl.go:447, query2/util.go:71): a client that is still there is told.
FirstErrorIsReported == respClosed /\ ~ctxDone /\ opErr # {} => resultErr

\* The sender of API v2 has a second error to report; nobody reads errCh
\* before the pipeline is closed.
SecondErrorWaits == apiV2 /\ hand = "error" /\ errCh

\* A client that reads slowly, not at all, or leaves does not keep a query
\* processor for ever (sendResponseTimeout, clientCtx of Write).
ProcessorIsFreed == []<>(qp \in {"free", "done"} \/ SecondErrorWaits)
=============================================================================
