---------------------------- MODULE Observability ----------------------------
(***************************************************************************)
(* One request through ObservabilityMiddleware, RequestIdMiddleware and    *)
(* the endpoint: its spans (OtelTracer.start_span), the context variables  *)
(* that its log records are made of (core/context.py), the events and the  *)
(* metric that are published about it.                                     *)
(*                                                                         *)
(* A context variable belongs to a task, and a new task starts with a copy *)
(* of its creator's. BaseHTTPMiddleware, which is external, runs what is   *)
(* inside of it in a task of its own; an endpoint may leave a job running  *)
(* behind its answer. Requests are tasks of their own as well and share    *)
(* none of this, so there is one. A subscriber of an event may raise.      *)
(***************************************************************************)
EXTENDS Naturals, Sequences, SequencesExt

CONSTANTS
    Status,     \* what the endpoint answers with
    MaxSpans,   \* bound on the spans of the request
    None

\* The module that instantiates this one assumes it.
ObservabilityAssumption ==
    Status \subseteq Nat /\ MaxSpans \in Nat /\ None \notin Nat \cup {"endpoint", "subscriber"}

VARIABLES
    traced,   \* ObservabilityMiddleware is installed
    at,       \* where the request is
    task,     \* task[t]: the context of t, what it started with, and the
              \* open spans of start_span in t, the innermost last
    spans,    \* spans[i]: trace, status and end of span i
    events,   \* what was published, in order
    raised,   \* what ended the endpoint or the middleware: who raised
    answer,   \* status of the endpoint
    measured, \* the histogram http.server.request.duration has the request
    reply     \* what the client gets, and the correlation id in it

vars == <<traced, at, task, spans, events, raised, answer, measured, reply>>

-----------------------------------------------------------------------------
(* core/context.py. The header of the request, or a new uuid.              *)

CorrelationId == "id"

NoContext == [correlation |-> None, trace |-> None, span |-> None]

Begun(context) == [context |-> context, inherited |-> context, open |-> <<>>]

\* "server" is the task of the request, "app" that of the middlewares inside
\* and of the endpoint, "job" what the endpoint leaves running.
Tasks == DOMAIN task

Copied(name, context) == [t \in Tasks \cup {name} |-> IF t = name THEN Begun(context) ELSE task[t]]

\* CorrelationIdFilter and JsonFormatter: what a log record of t says of its
\* request.
Logged(t) ==
    LET c == task[t].context
    IN  [correlationId |-> c.correlation, requestId |-> c.correlation,
         traceId |-> c.trace, spanId |-> c.span]

-----------------------------------------------------------------------------
(* OtelTracer.start_span                                                   *)

\* A span of the trace of the current one, or the first of a trace.
Entered(t) ==
    LET c == task[t].context
        id == Len(spans) + 1
        trace == IF c.span = None THEN id ELSE c.trace
    IN  /\ spans' = Append(spans, [trace |-> trace, status |-> "unset", ended |-> FALSE])
        /\ task' = [task EXCEPT ![t].context = [@ EXCEPT !.trace = trace, !.span = id],
                                ![t].open = Append(@, [span |-> id, before |-> c])]

\* models.SpanStatus
SpanStatus == {"unset", "ok", "error"}

\* Mutant: on leaving a span there is none.
NoneBefore(t) == NoContext

Before(t) == Last(task[t].open).before

Left(t) ==
    [task EXCEPT ![t].context = [@ EXCEPT !.trace = Before(t).trace, !.span = Before(t).span],
                 ![t].open = Front(@)]

\* The status of a span that ends: the SDK sets ERROR when the block raised,
\* but for a span that was set to OK.
Ended(t, status) ==
    [spans EXCEPT ![Last(task[t].open).span] = [@ EXCEPT !.status = status, !.ended = TRUE]]

-----------------------------------------------------------------------------
Init ==
    /\ traced \in BOOLEAN
    /\ at = "arrived"
    /\ task = [t \in {"server"} |-> Begun(NoContext)]
    /\ spans = <<>> /\ events = <<>>
    /\ raised = None /\ answer = None /\ measured = FALSE /\ reply = None

\* ObservabilityMiddleware.dispatch, up to the event.
Dispatch ==
    /\ at = "arrived"
    /\ IF traced THEN Entered("server") /\ at' = "starting"
       ELSE at' = "calling" /\ UNCHANGED <<task, spans>>
    /\ UNCHANGED <<traced, events, raised, answer, measured, reply>>

\* trace.started. It is published outside of the try: who raises here ends
\* the span and the request.
Started ==
    /\ at = "starting"
    /\ events' = Append(events, [name |-> "trace.started", status |-> None])
    /\ \/ at' = "calling" /\ UNCHANGED <<task, spans, raised>>
       \/ /\ raised' = "subscriber" /\ at' = "failed"
          /\ spans' = Ended("server", "error") /\ task' = Left("server")
    /\ UNCHANGED <<traced, answer, measured, reply>>

\* call_next. RequestIdMiddleware sets the correlation id in its own task,
\* which is the one of the request when no other middleware is around it.
RequestId ==
    LET identified == [task["server"].context EXCEPT !.correlation = CorrelationId]
        copied == Copied("app", identified)
    IN  /\ at = "calling"
        /\ task' = IF traced THEN copied ELSE [copied EXCEPT !["server"].context = identified]
        /\ at' = "inside"
        /\ UNCHANGED <<traced, spans, events, raised, answer, measured, reply>>

\* A service opens a span around what it does, and leaves it.
OpenSpan(t) ==
    /\ IF t = "app" THEN at = "inside" ELSE t = "job"
    /\ Len(spans) < MaxSpans
    /\ Entered(t)
    /\ UNCHANGED <<traced, at, events, raised, answer, measured, reply>>

CloseSpan(t) ==
    /\ t # "server" /\ task[t].open # <<>>
    /\ \E status \in SpanStatus : spans' = Ended(t, status)
    /\ task' = Left(t)
    /\ UNCHANGED <<traced, at, events, raised, answer, measured, reply>>

\* The endpoint starts a job and does not wait for it.
Spawn ==
    /\ at = "inside" /\ "job" \notin Tasks
    /\ task' = Copied("job", task["app"].context)
    /\ UNCHANGED <<traced, at, spans, events, raised, answer, measured, reply>>

\* A response, of the endpoint or of an exception handler of the application.
Answers ==
    /\ at = "inside" /\ task["app"].open = <<>>
    /\ answer' \in Status
    /\ at' = "answered"
    /\ UNCHANGED <<traced, task, spans, events, raised, measured, reply>>

\* An exception that no handler inside takes.
Raises ==
    /\ at = "inside" /\ task["app"].open = <<>>
    /\ raised' = "endpoint"
    /\ at' = IF traced THEN "answered" ELSE "failed"
    /\ UNCHANGED <<traced, task, spans, events, answer, measured, reply>>

\* After call_next: the status of the span, trace.finished, the end of the span.
Finished ==
    LET status == IF answer # None /\ answer < 500 THEN "ok" ELSE "error"
    IN  /\ at = "answered" /\ traced
        /\ events' = Append(events, [name |-> "trace.finished", status |-> answer])
        /\ spans' = Ended("server", status) /\ task' = Left("server")
        /\ \/ /\ at' = IF raised = None THEN "finished" ELSE "failed"
              /\ UNCHANGED raised
           \/ at' = "failed" /\ raised' = "subscriber"
        /\ UNCHANGED <<traced, answer, measured, reply>>

\* The histogram, then metric.recorded.
Recorded ==
    /\ at = "finished"
    /\ measured' = TRUE
    /\ events' = Append(events, [name |-> "metric.recorded", status |-> None])
    /\ \/ at' = "leaving" /\ UNCHANGED raised
       \/ at' = "failed" /\ raised' = "subscriber"
    /\ UNCHANGED <<traced, task, spans, answer, reply>>

\* RequestIdMiddleware put the correlation id in the response.
Leaves ==
    /\ at = "leaving" \/ (at = "answered" /\ ~traced)
    /\ reply' = [status |-> answer, correlation |-> CorrelationId]
    /\ at' = "done"
    /\ UNCHANGED <<traced, task, spans, events, raised, answer, measured>>

\* _handle_unhandled_exception, in the task of the request.
Handled ==
    /\ at = "failed"
    /\ reply' = [status |-> 500, correlation |-> task["server"].context.correlation]
    /\ at' = "done"
    /\ UNCHANGED <<traced, task, spans, events, raised, answer, measured>>

Next ==
    \/ Dispatch \/ Started \/ RequestId \/ Spawn \/ Answers \/ Raises
    \/ Finished \/ Recorded \/ Leaves \/ Handled
    \/ \E t \in Tasks : OpenSpan(t) \/ CloseSpan(t)

Spec == Init /\ [][Next]_vars

-----------------------------------------------------------------------------
(* Properties.                                                             *)

\* Traces are whole. What a task logs is of its innermost open span, or of
\* the one it started in, of the trace of that span and, behind the middleware,
\* of the request's correlation id, however spans nest in the endpoint and in a
\* job that outlives the request. At the end the span of the request has ended,
\* an error exactly when the endpoint failed or never ran; and unless a
\* subscriber raised it was started and finished once, with the status the
\* client got, and measured when there was one.
TracesAreWhole ==
    /\ \A t \in Tasks :
         /\ Logged(t).spanId = IF task[t].open = <<>> THEN task[t].inherited.span
                               ELSE Last(task[t].open).span
         /\ Logged(t).traceId = IF Logged(t).spanId = None THEN None
                                ELSE spans[Logged(t).spanId].trace
         /\ t # "server" => Logged(t).correlationId = CorrelationId
    /\ (at = "done" /\ traced) =>
         /\ spans[1].ended
         /\ spans[1].status = "error" <=> (answer = None \/ answer >= 500)
         /\ raised # "subscriber" =>
              /\ reply.status = IF answer = None THEN 500 ELSE answer
              /\ measured <=> answer # None
              /\ SubSeq(events, 1, 2) = << [name |-> "trace.started", status |-> None],
                                           [name |-> "trace.finished", status |-> answer] >>

-----------------------------------------------------------------------------
(* What the documentation says and the code does not do.                   *)

\* docs/standards/API-STANDARD.md:62: every error response has the correlation
\* id that the middleware generated. Here: the answer to a request that raised.
ErrorsAreCorrelated ==
    (reply # None /\ reply.status >= 500 /\ raised # "subscriber") =>
        reply.correlation = CorrelationId
=============================================================================
