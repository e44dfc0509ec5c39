----------------------------- MODULE Idempotency -----------------------------
(***************************************************************************)
(* Idempotent replay of TEAF: IdempotencyMiddleware and IdempotencyManager *)
(* in each replica of an application, over an InMemoryIdempotencyStore per *)
(* process or one RedisIdempotencyStore for all of them.                   *)
(*                                                                         *)
(* A request with an Idempotency-Key runs in three steps, because dispatch *)
(* suspends at call_next and again while the response body is read:        *)
(* lookup, the endpoint's work, and remember followed by the answer. Other *)
(* requests, the clock, failures and restarts run in between. Requests     *)
(* without a key, or with a method that is not managed, pass untouched.    *)
(*                                                                         *)
(* A response is identified by the request whose execution produced it; a  *)
(* status code is reduced to its class. IdempotencyManager.forget, which   *)
(* nothing in the framework calls, is left out.                            *)
(***************************************************************************)
EXTENDS Integers, FiniteSets

CONSTANTS
    Request,        \* requests that carry an Idempotency-Key, retries included
    KeyOf,          \* KeyOf[r]: its Idempotency-Key
    FingerprintOf,  \* FingerprintOf[r]: build_fingerprint of method, path, body
    Replica,        \* processes of the application
    Backed,         \* those whose IdempotencyManager was given the Redis store
    TTL,            \* ttl_seconds, in ticks
    PurgeInterval,  \* _PURGE_INTERVAL_WRITES
    Restarts,       \* replicas that may be restarted
    MaxTime         \* bound of the clock, in ticks

Key == {KeyOf[r] : r \in Request}

Shared == "redis"
Store == Replica \cup {Shared}

\* Without a store, IdempotencyManager builds an InMemoryIdempotencyStore.
StoreOf(p) == IF p \in Backed THEN Shared ELSE p

ASSUME IdempotencyAssumption ==
    /\ Request # {} /\ Replica # {}
    /\ Backed \subseteq Replica
    /\ Shared \notin Replica
    /\ TTL \in Nat \ {0}
    /\ PurgeInterval \in Nat \ {0}
    /\ Restarts \subseteq Replica
    /\ MaxTime \in Nat

VARIABLES
    clock,      \* time.time(), in ticks
    records,    \* records[<<s, k>>]: what store s holds under key k
    writes,     \* writes[p]: _writes_since_purge of the in-memory store of p
    status,     \* status[r]: how far request r got
    place,      \* place[r]: the replica that serves r, once it is sent
    outcome,    \* outcome[r]: class of the response the endpoint gave to r
    answer,     \* answer[r]: what the client of r was sent
    answeredAt  \* history: when r was answered

vars == <<clock, records, writes, status, place, outcome, answer, answeredAt>>

-----------------------------------------------------------------------------
(* Records and stores.                                                     *)

Class == {"2xx", "4xx", "5xx"}

\* expires_at is positive, so a record that expires at 0 stands for none.
Record == [by : Request, fingerprint : {FingerprintOf[r] : r \in Request},
           class : Class, expires : Nat]
NoRecord == [expires |-> 0]

Live(rec) == rec.expires > clock

\* Mutant: the sweep clears the store.
PurgedEverything(s) == [x \in Store \X Key |-> IF x[1] = s THEN NoRecord ELSE records[x]]

\* purge_expired of store s.
Purged(s) == [x \in Store \X Key |-> IF x[1] = s /\ ~Live(records[x])
                                     THEN NoRecord ELSE records[x]]

\* store.get of request r at replica p: in memory, an expired record is dropped.
Found(r, p) == Live(records[<<StoreOf(p), KeyOf[r]>>])
Got(r, p) == IF Found(r, p) THEN records
             ELSE [records EXCEPT ![<<StoreOf(p), KeyOf[r]>>] = NoRecord]

\* store.put, with the sweep that every PurgeInterval writes to memory trigger.
Put(s, k, rec) ==
    IF s = Shared
    THEN records' = [records EXCEPT ![<<s, k>>] = rec] /\ UNCHANGED writes
    ELSE IF writes[s] + 1 >= PurgeInterval
    THEN records' = [Purged(s) EXCEPT ![<<s, k>>] = rec] /\ writes' = [writes EXCEPT ![s] = 0]
    ELSE records' = [records EXCEPT ![<<s, k>>] = rec] /\ writes' = [writes EXCEPT ![s] = @ + 1]

\* IdempotencyManager.remember: server errors are not kept.
Remembers(class) == class # "5xx"

\* The record remember builds for the response of r.
RecordOf(r) == [by |-> r, fingerprint |-> FingerprintOf[r],
                class |-> outcome[r], expires |-> clock + TTL]

\* Mutant: lookup does not compare fingerprints.
MatchesAnything(r, rec) == TRUE

\* IdempotencyManager.lookup: the record belongs to a retry of the same request.
Matches(r, rec) == rec.fingerprint = FingerprintOf[r]

-----------------------------------------------------------------------------
(* Actions.                                                                *)

Init ==
    /\ clock = 0
    /\ records = [x \in Store \X Key |-> NoRecord]
    /\ writes = [p \in Replica |-> 0]
    /\ status = [r \in Request |-> "unsent"]
    /\ place = [r \in Request |-> CHOOSE p \in Replica : TRUE]
    /\ outcome = [r \in Request |-> "none"]
    /\ answer = [r \in Request |-> [by |-> r, class |-> "none"]]
    /\ answeredAt = [r \in Request |-> 0]

Answered(r, by, class) ==
    /\ status' = [status EXCEPT ![r] = "answered"]
    /\ answer' = [answer EXCEPT ![r] = [by |-> by, class |-> class]]
    /\ answeredAt' = [answeredAt EXCEPT ![r] = clock]

\* dispatch, no record: call_next starts the endpoint. Nothing is reserved.
Execute(r, p) ==
    /\ status[r] = "unsent"
    /\ ~Found(r, p)
    /\ records' = Got(r, p)
    /\ status' = [status EXCEPT ![r] = "executing"]
    /\ place' = [place EXCEPT ![r] = p]
    /\ UNCHANGED <<clock, writes, outcome, answer, answeredAt>>

\* dispatch, a record: the same request is replayed, another one is a conflict.
Replay(r, p) ==
    LET rec == records[<<StoreOf(p), KeyOf[r]>>]
    IN  /\ status[r] = "unsent"
        /\ Found(r, p)
        /\ IF Matches(r, rec) THEN Answered(r, rec.by, rec.class)
                              ELSE Answered(r, r, "409")
        /\ place' = [place EXCEPT ![r] = p]
        /\ UNCHANGED <<clock, records, writes, outcome>>

\* The endpoint has done its work; the body of its response is still to be read.
Respond(r, class) ==
    /\ status[r] = "executing"
    /\ status' = [status EXCEPT ![r] = "responding"]
    /\ outcome' = [outcome EXCEPT ![r] = class]
    /\ UNCHANGED <<clock, records, writes, place, answer, answeredAt>>

\* The body was read: the response is remembered, then returned.
Remember(r) ==
    /\ status[r] = "responding"
    /\ IF Remembers(outcome[r])
       THEN Put(StoreOf(place[r]), KeyOf[r], RecordOf(r))
       ELSE UNCHANGED <<records, writes>>
    /\ Answered(r, r, outcome[r])
    /\ UNCHANGED <<clock, place, outcome>>

\* The endpoint, the reading of its body or a call to the shared store raises:
\* the client gets an error, and nothing is remembered.
Fail(r) ==
    /\ \/ status[r] \in {"executing", "responding"}
       \/ status[r] = "unsent" /\ Backed # {}
    /\ Answered(r, r, "5xx")
    /\ UNCHANGED <<clock, records, writes, place, outcome>>

\* Replica p restarts: what it was serving is lost, and so is its own store.
Restart(p) ==
    /\ p \in Restarts
    /\ status' = [r \in Request |->
                    IF status[r] \in {"executing", "responding"} /\ place[r] = p
                    THEN "lost" ELSE status[r]]
    /\ records' = [x \in Store \X Key |-> IF x[1] = p THEN NoRecord ELSE records[x]]
    /\ writes' = [writes EXCEPT ![p] = 0]
    /\ UNCHANGED <<clock, place, outcome, answer, answeredAt>>

Tick ==
    /\ clock < MaxTime
    /\ clock' = clock + 1
    /\ UNCHANGED <<records, writes, status, place, outcome, answer, answeredAt>>

Next ==
    \/ \E r \in Request, p \in Replica : Execute(r, p)
    \/ \E r \in Request, p \in Replica : Replay(r, p)
    \/ \E r \in Request, class \in Class : Respond(r, class)
    \/ \E r \in Request : Remember(r)
    \/ \E r \in Request : Fail(r)
    \/ \E p \in Replica : Restart(p)
    \/ Tick

Spec == Init /\ [][Next]_vars

-----------------------------------------------------------------------------
(* Properties.                                                             *)

Executed(r) == outcome[r] # "none"

\* A restart of p does not lose the store that its requests are looked up in.
Durable(p) == p \in Backed \/ p \notin Restarts

\* The client of r holds the response of r's own execution, which is not a
\* server error, from a replica whose store survives, and its record has not
\* reached its expiry.
Fresh(r) ==
    /\ status[r] = "answered" /\ answer[r].by = r /\ answer[r].class \in {"2xx", "4xx"}
    /\ Durable(place[r])
    /\ clock < answeredAt[r] + TTL

\* Every variable stays in its range.
TypeOK ==
    /\ clock \in 0 .. MaxTime
    /\ records \in [Store \X Key -> Record \cup {NoRecord}]
    /\ writes \in [Replica -> 0 .. PurgeInterval - 1]
    /\ status \in [Request -> {"unsent", "executing", "responding", "answered", "lost"}]
    /\ place \in [Request -> Replica]
    /\ outcome \in [Request -> Class \cup {"none"}]
    /\ answer \in [Request -> [by : Request, class : Class \cup {"none", "409"}]]
    /\ answeredAt \in [Request -> 0 .. MaxTime]

\* Whatever overlaps, what a client gets without an execution of its own is
\* the response some execution of the same request gave, never a server error
\* (manager.py, rules 2 and 3), and a conflict is only reported when the key
\* was used for another request.
AnswersAreJustified ==
    \A r \in Request : status[r] = "answered" =>
        /\ LET by == answer[r].by
           IN  by # r => /\ KeyOf[by] = KeyOf[r]
                         /\ FingerprintOf[by] = FingerprintOf[r]
                         /\ Executed(by)
                         /\ answer[r].class = outcome[by]
                         /\ answer[r].class # "5xx"
        /\ answer[r].class = "409" =>
             \E b \in Request : /\ KeyOf[b] = KeyOf[r]
                                /\ FingerprintOf[b] # FingerprintOf[r]
                                /\ Executed(b)

\* Once a client was sent a response, no request with the same key that looks
\* it up in the same store starts the endpoint until the record expires: the
\* record is kept before the answer leaves, and no overlapping request, sweep
\* or restart of another replica removes it.
AnsweredKeyNotExecuted ==
    [][\A r, b \in Request :
         /\ status[r] = "unsent" /\ status'[r] = "executing"
         /\ KeyOf[b] = KeyOf[r]
         /\ StoreOf(place[b]) = StoreOf(place'[r])
         => ~Fresh(b)]_vars

=============================================================================
