------------------------------- MODULE Gateway -------------------------------
(***************************************************************************)
(* The protection chain of ApiGateway: requests that pass the eight        *)
(* middlewares of MIDDLEWARE_ORDER, each on the way in and on the way out, *)
(* and workers that use evaluate() and release() outside HTTP.             *)
(*                                                                         *)
(* call_next of BaseHTTPMiddleware runs the inner chain in a task of its   *)
(* own, so requests interleave between any two stages; a step is what one  *)
(* dispatch does before its call_next, or after it.                        *)
(*                                                                         *)
(* What a stage decides by its own data is a choice here: the rate limit   *)
(* and the quotas other than concurrency admit or deny (RateLimit, Quota), *)
(* and records do not expire (Idempotency). EventBus.publish runs its      *)
(* subscribers in the publisher: one of them may raise.                    *)
(***************************************************************************)
EXTENDS Integers, Sequences, FiniteSets, FiniteSetsExt

CONSTANTS
    Request,            \* slots that requests are sent from, one at a time
    Worker,             \* callers of evaluate() and release()
    Traffic,            \* the requests that may arrive, records of Shape
    Key, NoKey,         \* values of Idempotency-Key, and its absence
    Installed,         \* the stages whose subsystem was given to the gateway
    ValidateResponses,  \* validate_responses
    MaxSlots,           \* limit of the concurrency quota
    Raising             \* events a subscriber of which may raise

Stage == {"cors", "audit", "compression", "versioning", "validation",
          "rate_limit", "quota", "idempotency"}

Event == {"request.accepted", "request.rejected", "audit.recorded",
          "version.negotiated", "rate.limit.exceeded", "quota.exceeded",
          "idempotency.detected", "request.compressed"}

\* What the stages read of a request: of its version only whether the policy
\* serves it, of its form only whether the validator accepts it.
Shape == [origin : {"none", "allowed", "other"}, preflight : BOOLEAN,
          key : Key \cup {NoKey}, body : {"b1", "b2"},
          supported : BOOLEAN, wellformed : BOOLEAN, encoding : BOOLEAN]

\* The module that instantiates this one assumes it.
GatewayAssumption ==
    /\ Traffic \subseteq Shape /\ Traffic # {}
    /\ NoKey \notin Key
    /\ Installed \subseteq Stage
    /\ ValidateResponses \in BOOLEAN
    /\ MaxSlots \in Nat
    /\ Raising \subseteq Event
    /\ IsFiniteSet(Request) /\ IsFiniteSet(Worker)

VARIABLES
    flow,       \* flow[r]: on its way "down" or "up", or unwinding; at a stage
    sent,       \* sent[r]: the request
    response,   \* response[r]: the response as it is so far
    log,        \* history of r: executed, charged, audited, announced, fault
    slots,      \* consumption of the concurrency quota
    records,    \* records[k]: the idempotency record of key k
    job         \* job[w]: worker w was allowed and has not released

vars == <<flow, sent, response, log, slots, records, job>>

-----------------------------------------------------------------------------
(* The chain.                                                              *)

\* install(): the configured stages in MIDDLEWARE_ORDER, from the outermost to
\* the innermost.
Configured(s) == IF s \in Installed THEN <<s>> ELSE <<>>
Chain ==
    Configured("cors") \o Configured("audit") \o Configured("compression")
    \o Configured("versioning") \o Configured("validation")
    \o Configured("rate_limit") \o Configured("quota") \o Configured("idempotency")
Endpoint == Len(Chain) + 1
Server == 0

At(r, s, phase) ==
    /\ flow[r].phase = phase
    /\ flow[r].at \in 1 .. Len(Chain) /\ Chain[flow[r].at] = s

\* call_next, and the return or the exception that its caller sees.
CallNext(r) == flow' = [flow EXCEPT ![r].at = @ + 1]
Leave(r, phase) == flow' = [flow EXCEPT ![r] = [phase |-> phase, at |-> @.at - 1]]

NoResponse == [status |-> "none", by |-> "server", size |-> "small", encoded |-> FALSE,
               vary |-> {}, cors |-> FALSE, stamps |-> {}, replayed |-> FALSE]

\* A request about to enter the chain, and a key never recorded.
NoEntry == [executed |-> FALSE, charged |-> {}, audited |-> <<>>, announced |-> <<>>,
            fault |-> "none"]
NoRecord == [body |-> "none", response |-> NoResponse]

\* A fresh response without a header that matters here.
Fresh(status, by, size) ==
    [NoResponse EXCEPT !.status = status, !.by = by, !.size = size]

Respond(r, value) == response' = [response EXCEPT ![r] = value]
Answer(r, value) == Respond(r, value) /\ Leave(r, "up")

\* What becomes of the history entry of a request.
Charged(entry, by) == [entry EXCEPT !.charged = @ \cup {by}]
Announced(entry, event) == [entry EXCEPT !.announced = Append(@, event)]
Write(r, entry) == log' = [log EXCEPT ![r] = entry]

\* A subscriber, or the endpoint, raised.
Raise(r, entry, what) ==
    /\ Leave(r, "raise")
    /\ Write(r, [entry EXCEPT !.fault = what])
    /\ UNCHANGED response

\* publish(): on, or out through the exception of a subscriber.
MayRaise(r, entry, event) == event \in Raising /\ Raise(r, entry, event)

\* reject(): request.rejected, and a problem response.
Reject(r, entry, by) ==
    LET told == Announced(entry, "request.rejected")
    IN  \/ Write(r, told) /\ Answer(r, Fresh("refused", by, "small"))
        \/ MayRaise(r, told, "request.rejected")

\* The limiters publish an event of their own first.
Exceeded(r, entry, by, event) == Reject(r, entry, by) \/ MayRaise(r, entry, event)

Pass(r, phase) == Leave(r, phase) /\ UNCHANGED <<response, log>>
Elsewhere == UNCHANGED <<sent, slots, records, job>>

Init ==
    /\ flow = [r \in Request |-> [phase |-> "done", at |-> Server]]
    /\ sent \in [Request -> Traffic]
    /\ response = [r \in Request |-> NoResponse]
    /\ log = [r \in Request |-> NoEntry]
    /\ slots = 0
    /\ records = [k \in Key |-> NoRecord]
    /\ job = [w \in Worker |-> FALSE]

-----------------------------------------------------------------------------
(* The server and the endpoint.                                            *)

Arrive(r) ==
    /\ flow[r].phase = "done"
    /\ \E request \in Traffic : sent' = [sent EXCEPT ![r] = request]
    /\ flow' = [flow EXCEPT ![r] = [phase |-> "down", at |-> 1]]
    /\ Respond(r, NoResponse)
    /\ Write(r, NoEntry)
    /\ UNCHANGED <<slots, records, job>>

\* The response leaves; an exception is answered by ServerErrorMiddleware.
Leaves(r) ==
    /\ flow[r].phase \in {"up", "raise"} /\ flow[r].at = Server
    /\ flow' = [flow EXCEPT ![r].phase = "done"]
    /\ IF flow[r].phase = "raise"
       THEN Respond(r, Fresh("server_error", "server", "small"))
       ELSE UNCHANGED response
    /\ UNCHANGED log
    /\ Elsewhere

\* The endpoint responds, or raises what no handler inside the chain catches.
Execute(r) ==
    /\ flow[r].phase = "down" /\ flow[r].at = Endpoint
    /\ LET entry == [log[r] EXCEPT !.executed = TRUE]
       IN  \/ /\ Write(r, entry)
              /\ \/ \E size \in {"small", "large", "huge"} :
                      Answer(r, Fresh("ok", "endpoint", size))
                 \/ \E status \in {"client_error", "server_error"} :
                      Answer(r, Fresh(status, "endpoint", "small"))
           \/ Raise(r, entry, "endpoint")
    /\ Elsewhere

\* A stage that has no except and no finally lets an exception through.
Unwind(r) ==
    /\ \E s \in Stage \ {"audit", "quota"} : At(r, s, "raise")
    /\ Pass(r, "raise")
    /\ Elsewhere

-----------------------------------------------------------------------------
(* CORS.                                                                   *)

\* A preflight is answered here: allowed, or 403 in plain text.
CorsIn(r) ==
    /\ At(r, "cors", "down")
    /\ IF sent[r].origin # "none" /\ sent[r].preflight
       THEN \/ /\ sent[r].origin = "allowed"
               /\ Answer(r, [Fresh("ok", "cors", "small") EXCEPT !.cors = TRUE,
                                                                !.vary = {"Origin"}])
               /\ UNCHANGED log
            \/ Reject(r, log[r], "cors")
       ELSE CallNext(r) /\ UNCHANGED <<response, log>>
    /\ Elsewhere

\* response.headers.update: Vary is replaced.
CorsOut(r) ==
    /\ At(r, "cors", "up")
    /\ IF sent[r].origin = "allowed"
       THEN Respond(r, [response[r] EXCEPT !.cors = TRUE, !.vary = {"Origin"}])
       ELSE UNCHANGED response
    /\ Leave(r, "up") /\ UNCHANGED log
    /\ Elsewhere

-----------------------------------------------------------------------------
(* Audit.                                                                  *)

\* Audit and compression do nothing that matters here on the way in.
GoIn(r) ==
    /\ \E s \in {"audit", "compression"} : At(r, s, "down")
    /\ CallNext(r)
    /\ UNCHANGED <<response, log>>
    /\ Elsewhere

\* _resolve_outcome
Outcome(value) ==
    CASE value.replayed -> "replayed"
      [] ~value.replayed /\ value.status = "server_error" -> "failed"
      [] ~value.replayed /\ value.status \in {"refused", "client_error"} -> "rejected"
      [] OTHER -> "accepted"

Audited(entry, outcome) == [entry EXCEPT !.audited = Append(@, outcome)]

\* ApiAudit.record goes to every sink, then audit.recorded and, for what was
\* accepted, request.accepted are published.
AuditOut(r) ==
    /\ At(r, "audit", "up")
    /\ LET outcome == Outcome(response[r])
           entry == Audited(log[r], outcome)
           told == IF outcome = "accepted" THEN Announced(entry, "request.accepted") ELSE entry
       IN  \/ Write(r, told) /\ Leave(r, "up") /\ UNCHANGED response
           \/ MayRaise(r, entry, "audit.recorded")
           \/ outcome = "accepted" /\ MayRaise(r, told, "request.accepted")
    /\ Elsewhere

\* Mutant: only responses are audited.
AuditUnwindsSilently(r) ==
    /\ At(r, "audit", "raise")
    /\ Pass(r, "raise")
    /\ Elsewhere

\* An exception is audited as a failure, and goes on.
AuditUnwinds(r) ==
    /\ At(r, "audit", "raise")
    /\ LET entry == Audited(log[r], "failed")
       IN  \/ Write(r, entry) /\ Leave(r, "raise") /\ UNCHANGED response
           \/ MayRaise(r, entry, "audit.recorded")
    /\ Elsewhere

-----------------------------------------------------------------------------
(* Compression, versioning, validation.                                    *)

\* CompressionNegotiator.select finds a provider.
Compressible(r) ==
    /\ ~response[r].encoded
    /\ sent[r].encoding
    /\ response[r].size \in {"large", "huge"}

\* The result may not be smaller: then the response stays as it is.
CompressionOut(r) ==
    /\ At(r, "compression", "up")
    /\ \/ Pass(r, "up")
       \/ /\ Compressible(r)
          /\ \/ /\ Respond(r, [response[r] EXCEPT !.encoded = TRUE,
                                                  !.vary = @ \cup {"Accept-Encoding"}])
                /\ Leave(r, "up") /\ UNCHANGED log
             \/ MayRaise(r, log[r], "request.compressed")
    /\ Elsewhere

\* A version the policy does not serve is refused (strict).
VersioningIn(r) ==
    /\ At(r, "versioning", "down")
    /\ IF sent[r].supported
       THEN \/ CallNext(r) /\ UNCHANGED <<response, log>>
            \/ MayRaise(r, log[r], "version.negotiated")
       ELSE Reject(r, log[r], "versioning")
    /\ Elsewhere

Stamp(r, header) == Respond(r, [response[r] EXCEPT !.stamps = @ \cup {header}])

VersioningOut(r) ==
    /\ At(r, "versioning", "up")
    /\ Stamp(r, "X-API-Version")
    /\ Leave(r, "up") /\ UNCHANGED log
    /\ Elsewhere

ValidationIn(r) ==
    /\ At(r, "validation", "down")
    /\ IF sent[r].wellformed
       THEN CallNext(r) /\ UNCHANGED <<response, log>>
       ELSE Reject(r, log[r], "validation")
    /\ Elsewhere

\* validate_response: a response over the limit is replaced by a 500.
ValidationOut(r) ==
    /\ At(r, "validation", "up")
    /\ IF ValidateResponses /\ response[r].size = "huge"
       THEN LET told == Announced(log[r], "request.rejected")
            IN  \/ Write(r, told) /\ Answer(r, Fresh("server_error", "validation", "small"))
                \/ MayRaise(r, told, "request.rejected")
       ELSE Pass(r, "up")
    /\ Elsewhere

-----------------------------------------------------------------------------
(* Rate limit, quota, idempotency.                                         *)

RateLimitIn(r) ==
    /\ At(r, "rate_limit", "down")
    /\ LET entry == Charged(log[r], "rate_limit")
       IN  \/ CallNext(r) /\ Write(r, entry) /\ UNCHANGED response
           \/ Exceeded(r, entry, "rate_limit", "rate.limit.exceeded")
    /\ Elsewhere

RateLimitOut(r) ==
    /\ At(r, "rate_limit", "up")
    /\ Stamp(r, "X-RateLimit")
    /\ Leave(r, "up") /\ UNCHANGED log
    /\ Elsewhere

\* consume(): the concurrency rule, evaluated last, takes a slot.
QuotaIn(r) ==
    /\ At(r, "quota", "down")
    /\ LET entry == Charged(log[r], "quota")
       IN  \/ /\ slots < MaxSlots /\ slots' = slots + 1
              /\ CallNext(r) /\ Write(r, entry) /\ UNCHANGED response
           \/ Exceeded(r, entry, "quota", "quota.exceeded") /\ UNCHANGED slots
    /\ UNCHANGED <<sent, records, job>>

\* Mutant: the slot is returned with the response, not in a finally.
QuotaOutWithoutFinally(r) ==
    /\ \/ At(r, "quota", "up") /\ Pass(r, "up") /\ slots' = slots - 1
       \/ At(r, "quota", "raise") /\ Pass(r, "raise") /\ UNCHANGED slots
    /\ UNCHANGED <<sent, records, job>>

\* finally: release()
QuotaOut(r) ==
    /\ \E phase \in {"up", "raise"} : At(r, "quota", phase) /\ Pass(r, phase)
    /\ slots' = slots - 1
    /\ UNCHANGED <<sent, records, job>>

\* A known key is replayed, or a conflict; everything else is executed. A key
\* stands for one that is sent with a method the manager applies to.
IdempotencyIn(r) ==
    /\ At(r, "idempotency", "down")
    /\ LET known == sent[r].key # NoKey /\ records[sent[r].key] # NoRecord
           record == records[sent[r].key]
       IN  \/ ~known /\ CallNext(r) /\ UNCHANGED <<response, log>>
           \/ /\ known /\ record.body # sent[r].body
              /\ Reject(r, log[r], "idempotency")
           \/ /\ known /\ record.body = sent[r].body
              /\ \/ Answer(r, [record.response EXCEPT !.replayed = TRUE]) /\ UNCHANGED log
                 \/ MayRaise(r, log[r], "idempotency.detected")
    /\ Elsewhere

\* remember(): server errors are not kept.
IdempotencyOut(r) ==
    /\ At(r, "idempotency", "up")
    /\ IF sent[r].key # NoKey /\ log[r].executed /\ response[r].status # "server_error"
       THEN records' = [records EXCEPT
              ![sent[r].key] = [body |-> sent[r].body, response |-> response[r]]]
       ELSE UNCHANGED records
    /\ Pass(r, "up")
    /\ UNCHANGED <<sent, slots, job>>

-----------------------------------------------------------------------------
(* evaluate() and release() of a worker.                                   *)

\* Nothing is to be released when the rate limit or a quota denied.
Evaluate(w) ==
    /\ "quota" \in Installed /\ ~job[w]
    /\ slots < MaxSlots /\ slots' = slots + 1
    /\ job' = [job EXCEPT ![w] = TRUE]
    /\ UNCHANGED <<flow, sent, response, log, records>>

Release(w) ==
    /\ job[w]
    /\ slots' = slots - 1
    /\ job' = [job EXCEPT ![w] = FALSE]
    /\ UNCHANGED <<flow, sent, response, log, records>>

Next ==
    \/ \E r \in Request :
         \/ Arrive(r) \/ Leaves(r) \/ Execute(r) \/ Unwind(r)
         \/ CorsIn(r) \/ CorsOut(r)
         \/ GoIn(r) \/ AuditOut(r) \/ AuditUnwinds(r)
         \/ CompressionOut(r) \/ VersioningIn(r) \/ VersioningOut(r)
         \/ ValidationIn(r) \/ ValidationOut(r)
         \/ RateLimitIn(r) \/ RateLimitOut(r)
         \/ QuotaIn(r) \/ QuotaOut(r)
         \/ IdempotencyIn(r) \/ IdempotencyOut(r)
    \/ \E w \in Worker : Evaluate(w) \/ Release(w)

Spec == Init /\ [][Next]_vars

-----------------------------------------------------------------------------
(* Properties.                                                             *)

Response == [status : {"none", "ok", "client_error", "server_error", "refused"},
             by : Stage \cup {"endpoint", "server"}, size : {"small", "large", "huge"},
             encoded : BOOLEAN, vary : SUBSET {"Origin", "Accept-Encoding"},
             cors : BOOLEAN, stamps : SUBSET {"X-API-Version", "X-RateLimit"},
             replayed : BOOLEAN]

\* Types: in particular the concurrency counter stays between zero and its
\* limit, whatever mixture of responses, refusals and exceptions leaves.
TypeOK ==
    /\ \A r \in Request : flow[r].phase \in {"down", "up", "raise", "done"}
                         /\ flow[r].at \in Server .. Endpoint
    /\ sent \in [Request -> Traffic]
    /\ \A r \in Request : response[r] \in Response
    /\ \A r \in Request :
          /\ log[r].executed \in BOOLEAN /\ log[r].charged \subseteq {"rate_limit", "quota"}
          /\ log[r].fault \in Raising \cup {"none", "endpoint"}
    /\ slots \in 0 .. MaxSlots
    /\ \A k \in Key : records[k].body \in {"none", "b1", "b2"} /\ records[k].response \in Response
    /\ job \in [Worker -> BOOLEAN]

\* r is between the consume() and the release() of QuotaMiddleware.
InsideQuota(r) ==
    \E i \in DOMAIN Chain :
        /\ Chain[i] = "quota"
        /\ \/ flow[r].phase = "down" /\ flow[r].at > i
           \/ flow[r].phase \in {"up", "raise"} /\ flow[r].at >= i

\* The concurrency quota counts exactly the requests that are inside it and
\* the workers that still hold their slot: a response, an exception of the
\* endpoint or of a subscriber, and a refusal further in all give the slot
\* back once, and a refusal by the quota itself gives none back.
SlotsAreHeld ==
    slots = Quantify(Request, InsideQuota) + Quantify(Worker, LAMBDA w : job[w])

Answered(r) == flow[r].phase = "done" /\ response[r] # NoResponse
Preflight(r) == sent[r].origin # "none" /\ sent[r].preflight

\* What was answered is what was audited, once: also a refusal by an inner
\* stage, a replay, and a response that a stage further in replaced. Unless a
\* subscriber raised, accepted requests and refusals are announced once, and
\* never both.
AuditedAsAnswered ==
    \A r \in Request :
        Answered(r) /\ ~Preflight(r) =>
            LET outcome == Outcome(response[r]) IN
            /\ Len(log[r].audited) = 1 /\ Len(log[r].announced) <= 1
            /\ log[r].fault \notin {"audit.recorded", "request.accepted"} =>
                  log[r].audited = <<outcome>>
            /\ log[r].fault = "none" =>
                  /\ outcome = "accepted" <=> log[r].announced = <<"request.accepted">>
                  /\ response[r].by \in Stage /\ ~response[r].replayed =>
                        log[r].announced = <<"request.rejected">>
=============================================================================
