-------------------------- MODULE ProtectionProofs --------------------------
(***************************************************************************)
(* Theorems about two modules that share no state.                         *)
(*                                                                         *)
(* Idempotency, for any requests, keys, bodies, replicas, stores and       *)
(* bounds. The inductive invariant is Inv: what a store holds is the       *)
(* response of an execution that took place (RecordsJustified), a request  *)
(* has an outcome only once its endpoint has responded                     *)
(* (OutcomeFollowsStatus), and a response that is still fresh for its      *)
(* client is in the store with an expiry no earlier than the freshness     *)
(* ends (FreshIsKept).                                                     *)
(*                                                                         *)
(* Policies, for any configurations, requests, pages, networks and         *)
(* versions. The inductive invariant is PolicyInv: the gateway is built of *)
(* some configuration, and a response is one that a stage of it gives      *)
(* (Told).                                                                 *)
(***************************************************************************)
EXTENDS Responses, FiniteSetTheorems, SequenceTheorems, WellFoundedInduction, TLAPS

-----------------------------------------------------------------------------
(* Idempotency.                                                            *)

Slot == Store \X Key
SlotOf(r) == <<StoreOf(place[r]), KeyOf[r]>>

\* The record was left by a request of its key that got its response.
Justified(x, rec) ==
    /\ rec \in Record
    /\ KeyOf[rec.by] = x[2]
    /\ rec.fingerprint = FingerprintOf[rec.by]
    /\ rec.class = outcome[rec.by]
    /\ rec.class # "5xx"

RecordsJustified == \A x \in Slot : records[x] = NoRecord \/ Justified(x, records[x])

OutcomeFollowsStatus ==
    \A r \in Request :
        /\ status[r] \in {"unsent", "executing"} => outcome[r] = "none"
        /\ status[r] = "responding" => outcome[r] \in Class

AnsweredInThePast == \A r \in Request : answeredAt[r] <= clock

FreshIsKept ==
    \A r \in Request : Fresh(r) => records[SlotOf(r)].expires >= answeredAt[r] + TTL

-----------------------------------------------------------------------------
(* Type correctness.                                                       *)

LEMMA SlotType ==
    ASSUME NEW r \in Request, NEW p \in Replica
    PROVE  /\ StoreOf(p) \in Store
           /\ KeyOf[r] \in Key
           /\ <<StoreOf(p), KeyOf[r]>> \in Slot
BY DEF StoreOf, Store, Key, Slot

LEMMA PutType ==
    ASSUME TypeOK, NEW s \in Store, NEW k \in Key, NEW rec \in Record, Put(s, k, rec)
    PROVE  /\ records' \in [Slot -> Record \cup {NoRecord}]
           /\ writes' \in [Replica -> 0 .. PurgeInterval - 1]
           /\ records'[<<s, k>>] = rec
           /\ \A x \in Slot : x # <<s, k>> =>
                records'[x] = records[x] \/ (~Live(records[x]) /\ records'[x] = NoRecord)
<1> <<s, k>> \in Slot
  BY DEF Slot
<1>1. records \in [Slot -> Record \cup {NoRecord}] /\ Purged(s) \in [Slot -> Record \cup {NoRecord}]
  BY DEF TypeOK, Slot, Purged
<1>2. /\ records' \in [Slot -> Record \cup {NoRecord}]
      /\ records'[<<s, k>>] = rec
      /\ \A x \in Slot : x # <<s, k>> => records'[x] \in {records[x], Purged(s)[x]}
  BY <1>1 DEF Put
<1>3. \A x \in Slot : Purged(s)[x] = records[x] \/ (~Live(records[x]) /\ Purged(s)[x] = NoRecord)
  BY DEF Purged, Slot
<1>4. writes' \in [Replica -> 0 .. PurgeInterval - 1]
  BY IdempotencyAssumption DEF Put, TypeOK, Store
<1> QED
  BY <1>2, <1>3, <1>4

LEMMA RememberEffect ==
    ASSUME TypeOK, OutcomeFollowsStatus, NEW r \in Request, Remember(r)
    PROVE  /\ records' \in [Slot -> Record \cup {NoRecord}]
           /\ writes' \in [Replica -> 0 .. PurgeInterval - 1]
           /\ outcome[r] # "5xx" => records'[SlotOf(r)] = RecordOf(r)
           /\ \A x \in Slot :
                \/ records'[x] = records[x]
                \/ ~Live(records[x]) /\ records'[x] = NoRecord
                \/ x = SlotOf(r) /\ outcome[r] # "5xx" /\ records'[x] = RecordOf(r)
<1>1. place[r] \in Replica /\ outcome[r] \in Class /\ clock \in Nat
  BY IdempotencyAssumption DEF TypeOK, OutcomeFollowsStatus, Remember
<1>2. RecordOf(r) \in Record
  BY <1>1, IdempotencyAssumption DEF RecordOf, Record
<1>3. CASE Remembers(outcome[r])
  <2>1. Put(StoreOf(place[r]), KeyOf[r], RecordOf(r))
    BY <1>3 DEF Remember, RecordOf
  <2> QED
    BY <1>1, <1>2, <1>3, <2>1, SlotType, PutType DEF SlotOf, Remembers
<1>4. CASE ~Remembers(outcome[r])
  BY <1>4 DEF Remember, Remembers, TypeOK, Slot
<1> QED
  BY <1>3, <1>4

LEMMA AnsweredType ==
    ASSUME TypeOK, NEW r \in Request, NEW by \in Request,
           NEW class \in Class \cup {"none", "409"}, Answered(r, by, class)
    PROVE  /\ status' \in [Request -> {"unsent", "executing", "responding", "answered", "lost"}]
           /\ answer' \in [Request -> [by : Request, class : Class \cup {"none", "409"}]]
           /\ answeredAt' \in [Request -> 0 .. MaxTime]
<1>1. [by |-> by, class |-> class] \in [by : Request, class : Class \cup {"none", "409"}]
  OBVIOUS
<1> QED
  BY <1>1 DEF Answered, TypeOK

LEMMA FoundRecord ==
    ASSUME TypeOK, NEW r \in Request, NEW p \in Replica, Found(r, p)
    PROVE  records[<<StoreOf(p), KeyOf[r]>>] \in Record
<1>1. records[<<StoreOf(p), KeyOf[r]>>] \in Record \cup {NoRecord}
  BY SlotType DEF TypeOK, Slot
<1>2. clock \in Nat
  BY IdempotencyAssumption DEF TypeOK
<1> QED
  BY <1>1, <1>2 DEF Found, Live, NoRecord

LEMMA NextType == TypeOK /\ OutcomeFollowsStatus /\ [Next]_vars => TypeOK' /\ OutcomeFollowsStatus'
<1> SUFFICES ASSUME TypeOK, OutcomeFollowsStatus, [Next]_vars
             PROVE  TypeOK' /\ OutcomeFollowsStatus'
  OBVIOUS
<1>1. ASSUME NEW r \in Request, NEW p \in Replica, Execute(r, p)
      PROVE  TypeOK' /\ OutcomeFollowsStatus'
  BY <1>1, SlotType DEF Execute, Got, TypeOK, OutcomeFollowsStatus, Slot
<1>2. ASSUME NEW r \in Request, NEW p \in Replica, Replay(r, p)
      PROVE  TypeOK' /\ OutcomeFollowsStatus'
  <2> DEFINE rec == records[<<StoreOf(p), KeyOf[r]>>]
  <2>1. rec.by \in Request /\ rec.class \in Class
    BY <1>2, FoundRecord DEF Replay, Record
  <2>2. \E by \in Request, class \in Class \cup {"none", "409"} : Answered(r, by, class)
    <3>1. CASE Matches(r, rec)
      BY <1>2, <2>1, <3>1 DEF Replay
    <3>2. CASE ~Matches(r, rec)
      BY <1>2, <3>2 DEF Replay
    <3> QED
      BY <3>1, <3>2
  <2>3. /\ status' \in [Request -> {"unsent", "executing", "responding", "answered", "lost"}]
        /\ answer' \in [Request -> [by : Request, class : Class \cup {"none", "409"}]]
        /\ answeredAt' \in [Request -> 0 .. MaxTime]
        /\ status' = [status EXCEPT ![r] = "answered"]
    BY <2>2, AnsweredType DEF Answered
  <2> QED
    BY <1>2, <2>3 DEF Replay, TypeOK, OutcomeFollowsStatus
<1>3. ASSUME NEW r \in Request, NEW class \in Class, Respond(r, class)
      PROVE  TypeOK' /\ OutcomeFollowsStatus'
  BY <1>3 DEF Respond, TypeOK, OutcomeFollowsStatus
<1>4. ASSUME NEW r \in Request, Remember(r)
      PROVE  TypeOK' /\ OutcomeFollowsStatus'
  <2>1. outcome[r] \in Class
    BY <1>4 DEF Remember, OutcomeFollowsStatus
  <2>2. /\ status' \in [Request -> {"unsent", "executing", "responding", "answered", "lost"}]
        /\ answer' \in [Request -> [by : Request, class : Class \cup {"none", "409"}]]
        /\ answeredAt' \in [Request -> 0 .. MaxTime]
    BY <1>4, <2>1, AnsweredType DEF Remember
  <2>3. status' = [status EXCEPT ![r] = "answered"]
    BY <1>4 DEF Remember, Answered
  <2> QED
    BY <1>4, <2>2, <2>3, RememberEffect DEF Remember, TypeOK, OutcomeFollowsStatus, Slot
<1>5. ASSUME NEW r \in Request, Fail(r)
      PROVE  TypeOK' /\ OutcomeFollowsStatus'
  <2>1. "5xx" \in Class \cup {"none", "409"}
    BY DEF Class
  <2>2. /\ status' \in [Request -> {"unsent", "executing", "responding", "answered", "lost"}]
        /\ answer' \in [Request -> [by : Request, class : Class \cup {"none", "409"}]]
        /\ answeredAt' \in [Request -> 0 .. MaxTime]
    BY <1>5, <2>1, AnsweredType DEF Fail
  <2>3. status' = [status EXCEPT ![r] = "answered"]
    BY <1>5 DEF Fail, Answered
  <2> QED
    BY <1>5, <2>2, <2>3 DEF Fail, TypeOK, OutcomeFollowsStatus
<1>6. ASSUME NEW p \in Replica, Restart(p)
      PROVE  TypeOK' /\ OutcomeFollowsStatus'
  BY <1>6, IdempotencyAssumption DEF Restart, TypeOK, OutcomeFollowsStatus
<1>7. CASE Tick
  BY <1>7, IdempotencyAssumption DEF Tick, TypeOK, OutcomeFollowsStatus
<1>8. CASE UNCHANGED vars
  BY <1>8 DEF vars, TypeOK, OutcomeFollowsStatus
<1> QED
  BY <1>1, <1>2, <1>3, <1>4, <1>5, <1>6, <1>7, <1>8 DEF Next

\* Every variable stays in its range, and a request has an outcome only once
\* its endpoint has responded.
THEOREM TypeCorrect == Spec => [](TypeOK /\ OutcomeFollowsStatus)
<1>1. Init => TypeOK /\ OutcomeFollowsStatus
  BY IdempotencyAssumption DEF Init, TypeOK, OutcomeFollowsStatus
<1> QED
  BY <1>1, NextType, PTL DEF Spec

-----------------------------------------------------------------------------
(* Answers.                                                                *)

\* What Respond changes is not yet visible in any record or answer.
LEMMA OutcomeIsStable ==
    ASSUME TypeOK, OutcomeFollowsStatus, [Next]_vars,
           NEW b \in Request, outcome[b] # "none"
    PROVE  outcome'[b] = outcome[b]
<1>1. ASSUME NEW r \in Request, NEW class \in Class, Respond(r, class)
      PROVE  outcome'[b] = outcome[b]
  BY <1>1 DEF Respond, OutcomeFollowsStatus, TypeOK
<1> QED
  BY <1>1 DEF Next, Execute, Replay, Remember, Fail, Restart, Tick, vars

LEMMA NextRecords ==
    TypeOK /\ OutcomeFollowsStatus /\ RecordsJustified /\ [Next]_vars => RecordsJustified'
<1> SUFFICES ASSUME TypeOK, OutcomeFollowsStatus, RecordsJustified, [Next]_vars,
                    NEW x \in Slot, records'[x] # NoRecord
             PROVE  Justified(x, records[x])'
  BY DEF RecordsJustified
<1>1. ASSUME records'[x] = records[x]
      PROVE  Justified(x, records[x])'
  <2>1. Justified(x, records[x])
    BY <1>1 DEF RecordsJustified
  <2>2. outcome[records[x].by] # "none" /\ records[x].by \in Request
    BY <2>1 DEF Justified, Record, Class
  <2> QED
    BY <1>1, <2>1, <2>2, OutcomeIsStable DEF Justified
<1>2. ASSUME NEW r \in Request, Remember(r)
      PROVE  Justified(x, records[x])'
  <2>1. CASE x = SlotOf(r) /\ outcome[r] # "5xx" /\ records'[x] = RecordOf(r)
    <3>1. outcome' = outcome /\ outcome[r] \in Class /\ clock \in Nat
      BY <1>2, IdempotencyAssumption DEF Remember, OutcomeFollowsStatus, TypeOK
    <3>2. RecordOf(r) \in Record
      BY <3>1, IdempotencyAssumption DEF RecordOf, Record
    <3> QED
      BY <2>1, <3>1, <3>2 DEF Justified, RecordOf, SlotOf
  <2> QED
    BY <1>1, <1>2, <2>1, RememberEffect
<1>3. ASSUME NEW r \in Request, NEW p \in Replica, Execute(r, p)
      PROVE  Justified(x, records[x])'
  BY <1>1, <1>3 DEF Execute, Got, TypeOK, Slot
<1>4. ASSUME NEW p \in Replica, Restart(p)
      PROVE  Justified(x, records[x])'
  BY <1>1, <1>4 DEF Restart, Slot
<1> QED
  BY <1>1, <1>2, <1>3, <1>4 DEF Next, Replay, Respond, Fail, Tick, vars

\* AnswersAreJustified, for one request.
AnswerJustified(r) ==
    /\ answer[r].by # r => /\ KeyOf[answer[r].by] = KeyOf[r]
                           /\ FingerprintOf[answer[r].by] = FingerprintOf[r]
                           /\ Executed(answer[r].by)
                           /\ answer[r].class = outcome[answer[r].by]
                           /\ answer[r].class # "5xx"
    /\ answer[r].class = "409" =>
         \E b \in Request : /\ KeyOf[b] = KeyOf[r]
                            /\ FingerprintOf[b] # FingerprintOf[r]
                            /\ Executed(b)

LEMMA NextAnswers ==
    TypeOK /\ OutcomeFollowsStatus /\ RecordsJustified /\ AnswersAreJustified /\ [Next]_vars
      => AnswersAreJustified'
<1> SUFFICES ASSUME TypeOK, OutcomeFollowsStatus, RecordsJustified, AnswersAreJustified,
                    [Next]_vars, NEW b \in Request, status'[b] = "answered"
             PROVE  AnswerJustified(b)'
  BY DEF AnswersAreJustified, AnswerJustified
<1>1. ASSUME status[b] = "answered", answer'[b] = answer[b]
      PROVE  AnswerJustified(b)'
  <2>1. AnswerJustified(b) /\ answer[b].by \in Request
    BY <1>1 DEF AnswersAreJustified, AnswerJustified, TypeOK
  <2>2. \A c \in Request : Executed(c) => outcome'[c] = outcome[c] /\ Executed(c)'
    BY OutcomeIsStable DEF Executed
  <2> QED
    BY <1>1, <2>1, <2>2 DEF AnswerJustified
<1>2. ASSUME answer'[b].by = b, answer'[b].class # "409"
      PROVE  AnswerJustified(b)'
  BY <1>2 DEF AnswerJustified
<1>3. ASSUME NEW r \in Request, NEW p \in Replica, Replay(r, p)
      PROVE  AnswerJustified(b)'
  <2>1. CASE b # r
    BY <1>1, <1>3, <2>1 DEF Replay, Answered, TypeOK
  <2>2. CASE b = r
    <3> DEFINE x == <<StoreOf(p), KeyOf[r]>>
    <3>1. x \in Slot /\ records[x] \in Record /\ x[2] = KeyOf[r]
      BY <1>3, SlotType, FoundRecord DEF Replay
    <3>2. records[x] # NoRecord
      <4>1. clock \in Nat
        BY IdempotencyAssumption DEF TypeOK
      <4> QED
        BY <1>3, <4>1 DEF Replay, Found, Live, NoRecord
    <3>3. Justified(x, records[x])
      BY <3>1, <3>2 DEF RecordsJustified
    <3>4. records[x].by \in Request /\ records[x].class \in {"2xx", "4xx"}
          /\ Executed(records[x].by)
      BY <3>3 DEF Justified, Record, Class, Executed
    <3>5. outcome' = outcome
      BY <1>3 DEF Replay
    <3>6. CASE Matches(r, records[x])
      <4>1. answer'[r] = [by |-> records[x].by, class |-> records[x].class]
        BY <1>3, <3>6 DEF Replay, Answered, TypeOK
      <4> DEFINE c == records[x].by
      <4>2. KeyOf[c] = KeyOf[r]
        BY <3>1, <3>3 DEF Justified
      <4>3. FingerprintOf[c] = FingerprintOf[r]
        BY <3>3, <3>6 DEF Justified, Matches
      <4>4. outcome'[c] = records[x].class /\ outcome'[c] # "none"
        BY <3>3, <3>4, <3>5 DEF Justified
      <4>5. records[x].class # "5xx" /\ records[x].class # "409"
        BY <3>4
      <4>6. answer'[b].by = c /\ answer'[b].class = records[x].class
        BY <2>2, <4>1
      <4> HIDE DEF c
      <4> QED
        BY <2>2, <4>2, <4>3, <4>4, <4>5, <4>6 DEF AnswerJustified, Executed
    <3>7. CASE ~Matches(r, records[x])
      <4>1. answer'[r] = [by |-> r, class |-> "409"]
        BY <1>3, <3>7 DEF Replay, Answered, TypeOK
      <4> QED
        BY <2>2, <3>1, <3>3, <3>4, <3>5, <3>7, <4>1
        DEF AnswerJustified, Justified, Matches, Executed
    <3> QED
      BY <3>6, <3>7
  <2> QED
    BY <2>1, <2>2
<1>4. ASSUME NEW r \in Request, Remember(r)
      PROVE  AnswerJustified(b)'
  <2>1. CASE b # r
    BY <1>1, <1>4, <2>1 DEF Remember, Answered, TypeOK
  <2>2. CASE b = r
    <3>1. outcome[r] \in Class
      BY <1>4 DEF Remember, OutcomeFollowsStatus
    <3> QED
      BY <1>2, <1>4, <2>2, <3>1 DEF Remember, Answered, TypeOK, Class
  <2> QED
    BY <2>1, <2>2
<1>5. ASSUME NEW r \in Request, Fail(r)
      PROVE  AnswerJustified(b)'
  BY <1>1, <1>2, <1>5 DEF Fail, Answered, TypeOK
<1>6. ASSUME NEW r \in Request, NEW p \in Replica, Execute(r, p)
      PROVE  AnswerJustified(b)'
  BY <1>1, <1>6 DEF Execute, TypeOK
<1>7. ASSUME NEW r \in Request, NEW class \in Class, Respond(r, class)
      PROVE  AnswerJustified(b)'
  BY <1>1, <1>7 DEF Respond, TypeOK
<1>8. ASSUME NEW p \in Replica, Restart(p)
      PROVE  AnswerJustified(b)'
  BY <1>1, <1>8 DEF Restart, TypeOK
<1>9. CASE Tick \/ UNCHANGED vars
  BY <1>1, <1>9 DEF Tick, vars
<1> QED
  BY <1>3, <1>4, <1>5, <1>6, <1>7, <1>8, <1>9 DEF Next

\* For any replicas, wiring, restarts and overlaps: a replayed response is one
\* that an execution of the same request gave, and a conflict is reported only
\* for a key that another request used.
THEOREM AnswersHold == Spec => []AnswersAreJustified
<1>1. Init => RecordsJustified /\ AnswersAreJustified
  <2>1. Init => RecordsJustified
    BY DEF Init, RecordsJustified, Slot
  <2>2. Init => AnswersAreJustified
    BY DEF Init, AnswersAreJustified
  <2> QED
    BY <2>1, <2>2
<1>2. TypeOK /\ OutcomeFollowsStatus /\ RecordsJustified /\ AnswersAreJustified /\ [Next]_vars
        => RecordsJustified' /\ AnswersAreJustified'
  BY NextRecords, NextAnswers
<1> QED
  BY <1>1, <1>2, TypeCorrect, PTL DEF Spec

-----------------------------------------------------------------------------
(* Answered keys.                                                          *)

LEMMA NextFresh ==
    /\ TypeOK /\ OutcomeFollowsStatus /\ RecordsJustified
    /\ AnsweredInThePast /\ FreshIsKept /\ [Next]_vars
    => AnsweredInThePast' /\ FreshIsKept'
<1> SUFFICES ASSUME TypeOK, OutcomeFollowsStatus, RecordsJustified,
                    AnsweredInThePast, FreshIsKept, [Next]_vars,
                    NEW b \in Request
             PROVE  /\ (answeredAt[b] <= clock)'
                    /\ Fresh(b)' => (records[SlotOf(b)].expires >= answeredAt[b] + TTL)'
  BY DEF AnsweredInThePast, FreshIsKept
<1>1. /\ clock \in Nat /\ TTL \in Nat \ {0} /\ answeredAt[b] \in Nat /\ answeredAt[b] <= clock
      /\ place[b] \in Replica /\ SlotOf(b) \in Slot
      /\ Fresh(b) => records[SlotOf(b)].expires >= answeredAt[b] + TTL
  BY IdempotencyAssumption, SlotType DEF TypeOK, AnsweredInThePast, FreshIsKept, SlotOf
<1>2. Fresh(b) => records[SlotOf(b)].expires > clock
  <2>1. records[SlotOf(b)] \in Record \cup {NoRecord}
    BY <1>1 DEF TypeOK, Slot
  <2>2. records[SlotOf(b)].expires \in Nat
    BY <2>1 DEF Record, NoRecord
  <2> QED
    BY <1>1, <2>2 DEF Fresh
<1>3. ASSUME status'[b] = status[b], answer'[b] = answer[b], answeredAt'[b] = answeredAt[b],
             place'[b] = place[b], clock' \in {clock, clock + 1},
             Fresh(b) => records'[SlotOf(b)] = records[SlotOf(b)]
      PROVE  /\ (answeredAt[b] <= clock)'
             /\ Fresh(b)' => (records[SlotOf(b)].expires >= answeredAt[b] + TTL)'
  <2>1. Fresh(b)' => Fresh(b)
    BY <1>1, <1>3 DEF Fresh
  <2>2. SlotOf(b)' = SlotOf(b)
    BY <1>3 DEF SlotOf, StoreOf
  <2> QED
    BY <1>1, <1>3, <2>1, <2>2
<1>4. ASSUME NEW r \in Request, NEW p \in Replica, Execute(r, p)
      PROVE  /\ (answeredAt[b] <= clock)'
             /\ Fresh(b)' => (records[SlotOf(b)].expires >= answeredAt[b] + TTL)'
  <2>1. CASE b = r
    BY <1>1, <1>4, <2>1 DEF Execute, Fresh, TypeOK
  <2>2. CASE b # r
    <3>1. Fresh(b) => records'[SlotOf(b)] = records[SlotOf(b)]
      BY <1>1, <1>2, <1>4 DEF Execute, Got, Found, Live, TypeOK, Slot
    <3> QED
      BY <1>3, <1>4, <2>2, <3>1 DEF Execute, TypeOK
  <2> QED
    BY <2>1, <2>2
<1>5. ASSUME NEW r \in Request, NEW p \in Replica, Replay(r, p)
      PROVE  /\ (answeredAt[b] <= clock)'
             /\ Fresh(b)' => (records[SlotOf(b)].expires >= answeredAt[b] + TTL)'
  <2>1. CASE b = r
    <3> DEFINE x == <<StoreOf(p), KeyOf[r]>>
    <3>1. x \in Slot /\ records[x] \in Record
      BY <1>5, SlotType, FoundRecord DEF Replay
    <3>2. records[x] # NoRecord
      BY <1>1, <1>5 DEF Replay, Found, Live, NoRecord
    <3>3. outcome[records[x].by] # "none" /\ outcome[r] = "none"
      BY <1>5, <3>1, <3>2 DEF RecordsJustified, Justified, Record, Class, Replay, OutcomeFollowsStatus
    <3>4. answer'[r].by # r \/ answer'[r].class = "409"
      BY <1>5, <3>3 DEF Replay, Answered, TypeOK
    <3>5. answeredAt'[r] = clock /\ clock' = clock
      BY <1>5 DEF Replay, Answered, TypeOK
    <3> QED
      BY <1>1, <2>1, <3>4, <3>5 DEF Fresh
  <2>2. CASE b # r
    BY <1>3, <1>5, <2>2 DEF Replay, Answered, TypeOK
  <2> QED
    BY <2>1, <2>2
<1>6. ASSUME NEW r \in Request, NEW class \in Class, Respond(r, class)
      PROVE  /\ (answeredAt[b] <= clock)'
             /\ Fresh(b)' => (records[SlotOf(b)].expires >= answeredAt[b] + TTL)'
  <2>1. CASE b = r
    BY <1>1, <1>6, <2>1 DEF Respond, Fresh, TypeOK
  <2>2. CASE b # r
    BY <1>3, <1>6, <2>2 DEF Respond, TypeOK
  <2> QED
    BY <2>1, <2>2
<1>7. ASSUME NEW r \in Request, Remember(r)
      PROVE  /\ (answeredAt[b] <= clock)'
             /\ Fresh(b)' => (records[SlotOf(b)].expires >= answeredAt[b] + TTL)'
  <2>1. /\ clock' = clock /\ place' = place
        /\ SlotOf(b)' = SlotOf(b)
    BY <1>7 DEF Remember, SlotOf, StoreOf
  <2>2. RecordOf(r).expires = clock + TTL
    BY DEF RecordOf
  <2>3. CASE b = r
    <3>1. answeredAt'[r] = clock /\ answer'[r].class = outcome[r]
      BY <1>7 DEF Remember, Answered, TypeOK
    <3>2. outcome[r] # "5xx" => records'[SlotOf(r)] = RecordOf(r)
      BY <1>7, RememberEffect
    <3> QED
      BY <1>1, <2>1, <2>2, <2>3, <3>1, <3>2 DEF Fresh
  <2>4. CASE b # r
    <3>1. /\ status'[b] = status[b] /\ answer'[b] = answer[b]
          /\ answeredAt'[b] = answeredAt[b]
      BY <1>7, <2>4 DEF Remember, Answered, TypeOK
    <3>2. CASE records'[SlotOf(b)] = records[SlotOf(b)]
      BY <1>3, <2>1, <3>1, <3>2
    <3>3. CASE ~Live(records[SlotOf(b)])
      <4>1. ~Fresh(b)
        BY <1>2, <3>3 DEF Live
      <4> QED
        BY <1>3, <2>1, <3>1, <4>1
    <3>4. CASE records'[SlotOf(b)] = RecordOf(r)
      BY <1>1, <2>1, <2>2, <3>1, <3>4
    <3> QED
      BY <1>1, <1>7, <3>2, <3>3, <3>4, RememberEffect
  <2> QED
    BY <2>3, <2>4
<1>8. ASSUME NEW r \in Request, Fail(r)
      PROVE  /\ (answeredAt[b] <= clock)'
             /\ Fresh(b)' => (records[SlotOf(b)].expires >= answeredAt[b] + TTL)'
  <2>1. CASE b = r
    BY <1>1, <1>8, <2>1 DEF Fail, Answered, Fresh, TypeOK
  <2>2. CASE b # r
    BY <1>3, <1>8, <2>2 DEF Fail, Answered, TypeOK
  <2> QED
    BY <2>1, <2>2
<1>9. ASSUME NEW p \in Replica, Restart(p)
      PROVE  /\ (answeredAt[b] <= clock)'
             /\ Fresh(b)' => (records[SlotOf(b)].expires >= answeredAt[b] + TTL)'
  <2>1. Fresh(b) => SlotOf(b)[1] # p
    BY <1>1, <1>9, IdempotencyAssumption DEF Fresh, Durable, SlotOf, StoreOf, Restart
  <2>2. Fresh(b) => records'[SlotOf(b)] = records[SlotOf(b)]
    BY <1>1, <1>9, <2>1 DEF Restart, Slot
  <2>3. CASE status[b] \in {"executing", "responding"} /\ place[b] = p
    BY <1>1, <1>9, <2>3 DEF Restart, Fresh
  <2>4. CASE ~(status[b] \in {"executing", "responding"} /\ place[b] = p)
    BY <1>3, <1>9, <2>2, <2>4 DEF Restart
  <2> QED
    BY <2>3, <2>4
<1>10. CASE Tick \/ UNCHANGED vars
  BY <1>3, <1>10 DEF Tick, vars
<1> QED
  BY <1>4, <1>5, <1>6, <1>7, <1>8, <1>9, <1>10 DEF Next

\* For any replicas, stores, restarts and overlaps: the endpoint is not started
\* for a key whose response a client holds, and which is looked up in the store
\* that response was remembered in, until the record expires.
THEOREM AnsweredKeysAreNotExecuted == Spec => AnsweredKeyNotExecuted
<1>1. Init => RecordsJustified /\ AnsweredInThePast /\ FreshIsKept
  <2>1. Init => RecordsJustified
    BY DEF Init, RecordsJustified, Slot
  <2>2. Init => AnsweredInThePast
    BY DEF Init, AnsweredInThePast
  <2>3. Init => FreshIsKept
    BY DEF Init, FreshIsKept, Fresh
  <2> QED
    BY <2>1, <2>2, <2>3
<1>2. /\ TypeOK /\ OutcomeFollowsStatus /\ RecordsJustified
      /\ AnsweredInThePast /\ FreshIsKept /\ [Next]_vars
      => RecordsJustified' /\ AnsweredInThePast' /\ FreshIsKept'
  BY NextRecords, NextFresh
<1>3. TypeOK /\ FreshIsKept /\ [Next]_vars =>
        [\A r, b \in Request :
           /\ status[r] = "unsent" /\ status'[r] = "executing"
           /\ KeyOf[b] = KeyOf[r]
           /\ StoreOf(place[b]) = StoreOf(place'[r])
           => ~Fresh(b)]_vars
  <2> SUFFICES ASSUME TypeOK, FreshIsKept, Next, NEW r \in Request, NEW b \in Request,
                      status[r] = "unsent", status'[r] = "executing",
                      KeyOf[b] = KeyOf[r], Fresh(b),
                      StoreOf(place[b]) = StoreOf(place'[r])
               PROVE  FALSE
    OBVIOUS
  <2>1. PICK p \in Replica : Execute(r, p)
    <3>1. status \in [Request -> {"unsent", "executing", "responding", "answered", "lost"}]
      BY DEF TypeOK
    <3>2. ASSUME NEW q \in Request, NEW by, NEW class PROVE ~Answered(q, by, class)
      BY <3>1 DEF Answered
    <3>3. ASSUME NEW q \in Request, NEW class \in Class PROVE ~Respond(q, class)
      BY <3>1 DEF Respond
    <3>4. ASSUME NEW q \in Request, NEW p \in Replica
          PROVE  ~Replay(q, p)
      BY <3>2 DEF Replay
    <3>5. ASSUME NEW q \in Request PROVE ~Remember(q) /\ ~Fail(q)
      BY <3>2 DEF Remember, Fail
    <3>6. ~Tick /\ \A p \in Replica : ~Restart(p)
      BY DEF Tick, Restart
    <3>7. ASSUME NEW q \in Request, NEW p \in Replica, Execute(q, p) PROVE q = r
      BY <3>1, <3>7 DEF Execute
    <3> QED
      BY <3>3, <3>4, <3>5, <3>6, <3>7 DEF Next
  <2>2. /\ place[b] \in Replica /\ clock \in Nat /\ answeredAt[b] \in Nat /\ TTL \in Nat
        /\ records[SlotOf(b)].expires >= answeredAt[b] + TTL
    BY IdempotencyAssumption DEF TypeOK, FreshIsKept
  <2>3. SlotOf(b) = <<StoreOf(p), KeyOf[r]>>
    BY <2>1 DEF Execute, TypeOK, SlotOf
  <2>4. records[SlotOf(b)] \in Record \cup {NoRecord}
    BY <2>2, SlotType DEF SlotOf, TypeOK, Slot
  <2>5. records[SlotOf(b)].expires \in Nat
    BY <2>4 DEF Record, NoRecord
  <2>6. records[SlotOf(b)].expires > clock
    BY <2>2, <2>5 DEF Fresh
  <2> QED
    BY <2>1, <2>3, <2>6 DEF Execute, Found, Live
<1> QED
  BY <1>1, <1>2, <1>3, TypeCorrect, PTL DEF Spec, AnsweredKeyNotExecuted

-----------------------------------------------------------------------------
(* Policies.                                                               *)

(* What an answer is made of.                                              *)

\* The answer a of gateway g to request q for page p, by the stage that gave
\* it: the server, the preflight of CORS, or the chain.
FromPreflight(g, q, a) ==
    /\ Policy!IsPreflight(g, q)
    /\ \/ a.status = 403 /\ a.grant = Policy!NoGrant
       \/ a.status = 204 /\ Policy!Preflight(g, q) # None /\ a.grant = Policy!Preflight(g, q)
                         /\ a.vary = a.grant.vary
    /\ a.encoding = None
    /\ a.client = Policy!ResolveClientIp(g, q)

FromChain(g, q, p, a) ==
    /\ ~Policy!IsPreflight(g, q)
    /\ a.status # 204
    /\ a.grant = IF "cors" \in g.parts /\ q.origin # None
                 THEN Policy!GrantOf(g, q.origin) ELSE Policy!NoGrant
    /\ a.grant # Policy!NoGrant => a.vary = a.grant.vary
    /\ (a.status = 200 /\ "versioning" \in g.parts /\ g.strategies # <<>>) =>
          /\ Policy!Negotiate(g, q) # Policy!Unsupported
          /\ a.version = Policy!Negotiate(g, q).version
    /\ a.encoding # None => a.status = 200 /\ a.encoding = Policy!Encoding(g, q, p)
    /\ a.client = Policy!ResolveClientIp(g, q)

Told(g, q, p, a) == a = Policy!Unhandled \/ FromPreflight(g, q, a) \/ FromChain(g, q, p, a)

Status == {400, 401, 403, 409, 413, 415, 422, 429, 500}

\* No exception becomes a success.
LEMMA StatusOfProblem ==
    ASSUME NEW exception
    PROVE  Policy!ResolveStatus(exception) \in Status
<1>1. CASE exception \in DOMAIN Policy!ExceptionStatus
  BY <1>1 DEF Policy!ResolveStatus, Policy!ExceptionStatus, Status
<1>2. CASE /\ exception \notin DOMAIN Policy!ExceptionStatus
          /\ exception \in DOMAIN Policy!StatusByExceptionType
  BY <1>2 DEF Policy!ResolveStatus, Policy!StatusByExceptionType, Status
<1>3. CASE /\ exception \notin DOMAIN Policy!ExceptionStatus
          /\ exception \notin DOMAIN Policy!StatusByExceptionType
  BY <1>3 DEF Policy!ResolveStatus, Status
<1> QED
  BY <1>1, <1>2, <1>3

\* What the stages inside CORS and compression answer: a problem, or the page.
Bare(code, version, encoding) ==
    [status |-> code, version |-> version, encoding |-> encoding, grant |-> Policy!NoGrant,
     vary |-> {}, headers |-> {}, client |-> None]

OfInner(g, q, p, code, version, encoding) ==
    \/ code \in Status /\ encoding = None
    \/ /\ code = 200 /\ encoding = p.encoding
       /\ ("versioning" \in g.parts /\ g.strategies # <<>>) =>
             /\ Policy!Negotiate(g, q) # Policy!Unsupported
             /\ version = Policy!Negotiate(g, q).version

LEMMA InnerAnswers ==
    ASSUME NEW q, NEW p
    PROVE  \E code, version, encoding :
             /\ Policy!Inner(q, p) = Bare(code, version, encoding)
             /\ OfInner(gateway, q, p, code, version, encoding)
<1>1. \A e : /\ Policy!Problem(e) = Bare(Policy!ResolveStatus(e), None, None)
             /\ Policy!ResolveStatus(e) \in Status
  BY StatusOfProblem DEF Policy!Problem, Policy!NoReply, Bare
<1>2. PICK n : n = Policy!Negotiated(q)
  BY Zenon
<1>3. PICK j : j = Policy!Rejected(q)
  BY Zenon
<1>4. Policy!Inner(q, p) =
        IF n = Policy!Unsupported THEN Policy!Problem("UnsupportedApiVersionException")
        ELSE IF j # None THEN [Policy!Problem(j) EXCEPT !.version = n.version]
        ELSE IF p.raises # None THEN [Policy!Problem(p.raises) EXCEPT !.version = n.version]
        ELSE [[Policy!NoReply EXCEPT !.status = 200, !.encoding = p.encoding]
               EXCEPT !.version = n.version]
  BY <1>2, <1>3 DEF Policy!Inner
<1>5. \A code, version, encoding :
         [Bare(code, None, encoding) EXCEPT !.version = version] = Bare(code, version, encoding)
  BY DEF Bare
<1>6. CASE n = Policy!Unsupported
  <2>1. Policy!Inner(q, p) =
          Bare(Policy!ResolveStatus("UnsupportedApiVersionException"), None, None)
    BY <1>1, <1>4, <1>6
  <2> QED
    BY <1>1, <2>1 DEF OfInner
<1>7. CASE n # Policy!Unsupported /\ j # None
  <2>1. Policy!Inner(q, p) = Bare(Policy!ResolveStatus(j), n.version, None)
    BY <1>1, <1>4, <1>5, <1>7
  <2> QED
    BY <1>1, <2>1 DEF OfInner
<1>8. CASE n # Policy!Unsupported /\ j = None /\ p.raises # None
  <2>1. Policy!Inner(q, p) = Bare(Policy!ResolveStatus(p.raises), n.version, None)
    BY <1>1, <1>4, <1>5, <1>8
  <2> QED
    BY <1>1, <2>1 DEF OfInner
<1>9. CASE n # Policy!Unsupported /\ j = None /\ p.raises = None
  <2> PICK encoding : encoding = p.encoding
    BY Zenon
  <2> PICK version : version = n.version
    BY Zenon
  <2>1. [Policy!NoReply EXCEPT !.status = 200, !.encoding = encoding] = Bare(200, None, encoding)
    <3>1. [Policy!NoReply EXCEPT !.status = 200, !.encoding = encoding]
            = [[Policy!NoReply EXCEPT !.status = 200] EXCEPT !.encoding = encoding]
      OBVIOUS
    <3>2. [Policy!NoReply EXCEPT !.status = 200] = Bare(200, None, None)
      BY DEF Policy!NoReply, Bare
    <3>3. [Bare(200, None, None) EXCEPT !.encoding = encoding] = Bare(200, None, encoding)
      BY DEF Bare
    <3> QED
      BY <3>1, <3>2, <3>3, Zenon
  <2>2. Policy!Inner(q, p) = Bare(200, version, encoding)
    <3>1. Policy!Inner(q, p) = [[Policy!NoReply EXCEPT !.status = 200, !.encoding = encoding]
                           EXCEPT !.version = version]
      BY <1>4, <1>9
    <3>2. Policy!Inner(q, p) = [Bare(200, None, encoding) EXCEPT !.version = version]
      BY <2>1, <3>1, Zenon
    <3>3. [Bare(200, None, encoding) EXCEPT !.version = version] = Bare(200, version, encoding)
      BY DEF Bare
    <3> QED
      BY <3>2, <3>3, Zenon
  <2>3. "versioning" \in gateway.parts /\ gateway.strategies # <<>> =>
          n = Policy!Negotiate(gateway, q)
    BY <1>2 DEF Policy!Negotiated, Policy!Configured
  <2> QED
    BY <1>9, <2>2, <2>3 DEF OfInner
<1> QED
  BY <1>6, <1>7, <1>8, <1>9

\* Every field of an answer.
Full(code, version, encoding, grant, vary, headers, client) ==
    [status |-> code, version |-> version, encoding |-> encoding, grant |-> grant,
     vary |-> vary, headers |-> headers, client |-> client]

\* What the chain puts in them.
OfChain(g, q, p, code, version, coded, grant, vary) ==
    /\ code # 204
    /\ grant = IF "cors" \in g.parts /\ q.origin # None
               THEN Policy!GrantOf(g, q.origin) ELSE Policy!NoGrant
    /\ grant # Policy!NoGrant => vary = grant.vary
    /\ (code = 200 /\ "versioning" \in g.parts /\ g.strategies # <<>>) =>
          /\ Policy!Negotiate(g, q) # Policy!Unsupported
          /\ version = Policy!Negotiate(g, q).version
    /\ coded # None => code = 200 /\ coded = Policy!Encoding(g, q, p)

LEMMA ChainAnswers ==
    ASSUME NEW g, NEW q, NEW p, NEW code, NEW version, NEW coded, NEW grant, NEW vary,
           NEW headers, NEW client, NEW a, ~Policy!IsPreflight(g, q),
           OfChain(g, q, p, code, version, coded, grant, vary),
           client = Policy!ResolveClientIp(g, q),
           a = Full(code, version, coded, grant, vary, headers, client)
    PROVE  FromChain(g, q, p, a)
<1>1. /\ a.status = code /\ a.version = version /\ a.encoding = coded
      /\ a.grant = grant /\ a.vary = vary /\ a.client = client
  BY DEF Full
<1> QED
  BY <1>1 DEF FromChain, OfChain

LEMMA OuterAnswers ==
    ASSUME NEW q, NEW p, ~Policy!IsPreflight(gateway, q), NEW headers, NEW client,
           client = Policy!ResolveClientIp(gateway, q)
    PROVE  \E code, version, coded, grant, vary :
             /\ [Policy!Outer(q, p) EXCEPT !.headers = headers, !.client = client]
                  = Full(code, version, coded, grant, vary, headers, client)
             /\ OfChain(gateway, q, p, code, version, coded, grant, vary)
<1>1. PICK code, version, encoding :
         /\ Policy!Inner(q, p) = Bare(code, version, encoding)
         /\ OfInner(gateway, q, p, code, version, encoding)
  BY InnerAnswers
<1>2. PICK coded : coded = IF code = 200 THEN Policy!Encoding(gateway, q, p) ELSE None
  BY Zenon
<1>3. PICK grant : grant = IF "cors" \in gateway.parts /\ q.origin # None
                           THEN Policy!GrantOf(gateway, q.origin) ELSE Policy!NoGrant
  BY Zenon
<1>4. PICK vary : vary = IF grant # Policy!NoGrant THEN grant.vary
                         ELSE IF coded # encoding THEN {"accept-encoding"} ELSE {}
  BY Zenon
<1>6. Policy!Inner(q, p).status = code /\ Policy!Inner(q, p).encoding = encoding
  BY <1>1 DEF Bare
<1>7. Policy!Outer(q, p) =
        [Policy!Inner(q, p) EXCEPT !.encoding = coded, !.grant = grant, !.vary = vary]
  BY <1>2, <1>3, <1>4, <1>6 DEF Policy!Outer, Policy!Configured
<1>8. [Policy!Outer(q, p) EXCEPT !.headers = headers, !.client = client]
        = Full(code, version, coded, grant, vary, headers, client)
  <2>1. Policy!Inner(q, p) = Full(code, version, encoding, Policy!NoGrant, {}, {}, None)
    BY <1>1 DEF Bare, Full
  <2>2. [Full(code, version, encoding, Policy!NoGrant, {}, {}, None) EXCEPT !.encoding = coded]
          = Full(code, version, coded, Policy!NoGrant, {}, {}, None)
    BY DEF Full
  <2>3. [Full(code, version, coded, Policy!NoGrant, {}, {}, None) EXCEPT !.grant = grant]
          = Full(code, version, coded, grant, {}, {}, None)
    BY DEF Full
  <2>4. [Full(code, version, coded, grant, {}, {}, None) EXCEPT !.vary = vary]
          = Full(code, version, coded, grant, vary, {}, None)
    BY DEF Full
  <2>5. [Full(code, version, coded, grant, vary, {}, None) EXCEPT !.headers = headers]
          = Full(code, version, coded, grant, vary, headers, None)
    BY DEF Full
  <2>6. [Full(code, version, coded, grant, vary, headers, None) EXCEPT !.client = client]
          = Full(code, version, coded, grant, vary, headers, client)
    BY DEF Full
  <2>7. \A r : [r EXCEPT !.encoding = coded, !.grant = grant, !.vary = vary]
               = [[[r EXCEPT !.encoding = coded] EXCEPT !.grant = grant] EXCEPT !.vary = vary]
    OBVIOUS
  <2>8. \A r : [r EXCEPT !.headers = headers, !.client = client]
               = [[r EXCEPT !.headers = headers] EXCEPT !.client = client]
    OBVIOUS
  <2>9. Policy!Outer(q, p) = Full(code, version, coded, grant, vary, {}, None)
    BY <1>7, <2>1, <2>2, <2>3, <2>4, <2>7, Zenon
  <2>10. [Policy!Outer(q, p) EXCEPT !.headers = headers, !.client = client]
           = [[Full(code, version, coded, grant, vary, {}, None) EXCEPT !.headers = headers]
                EXCEPT !.client = client]
    BY <2>8, <2>9, Zenon
  <2> QED
    BY <2>5, <2>6, <2>10, Zenon
<1>11. code # 204
  BY <1>1 DEF OfInner, Status
<1>12. (code = 200 /\ "versioning" \in gateway.parts /\ gateway.strategies # <<>>) =>
         /\ Policy!Negotiate(gateway, q) # Policy!Unsupported
         /\ version = Policy!Negotiate(gateway, q).version
  BY <1>1 DEF OfInner, Status
<1>13. coded # None => code = 200 /\ coded = Policy!Encoding(gateway, q, p)
  BY <1>2
<1>14. grant # Policy!NoGrant => vary = grant.vary
  BY <1>4
<1> QED
  BY <1>3, <1>8, <1>11, <1>12, <1>13, <1>14 DEF OfChain

LEMMA PreflightAnswers ==
    ASSUME NEW q, Policy!IsPreflight(gateway, q), NEW headers, NEW a,
           a = [Policy!Preflighted(q) EXCEPT !.headers = headers,
                                      !.client = Policy!ResolveClientIp(gateway, q)]
    PROVE  FromPreflight(gateway, q, a)
<1>1. PICK granted : granted = Policy!Preflight(gateway, q)
  BY Zenon
<1>2. CASE granted = None
  BY <1>1, <1>2 DEF Policy!Preflighted, Policy!NoReply, FromPreflight
<1>3. CASE granted # None
  BY <1>1, <1>3 DEF Policy!Preflighted, Policy!NoReply, FromPreflight
<1> QED
  BY <1>2, <1>3

LEMMA EveryAnswerIsTold ==
    ASSUME NEW q, NEW p
    PROVE  Told(gateway, q, p, Policy!Respond(q, p))
<1>1. PICK a : a = Policy!Respond(q, p)
  BY Zenon
<1>2. CASE a = Policy!Unhandled
  BY <1>1, <1>2 DEF Told
<1>3. CASE a # Policy!Unhandled /\ Policy!IsPreflight(gateway, q)
  <2>1. a = [Policy!Preflighted(q) EXCEPT !.headers = Policy!SecurityHeaders(q),
                                   !.client = Policy!ResolveClientIp(gateway, q)]
    BY <1>1, <1>3 DEF Policy!Respond
  <2> QED
    BY <1>1, <1>3, <2>1, PreflightAnswers DEF Told
<1>4. CASE a # Policy!Unhandled /\ ~Policy!IsPreflight(gateway, q)
  <2>1. a = [Policy!Outer(q, p) EXCEPT !.headers = Policy!SecurityHeaders(q),
                                !.client = Policy!ResolveClientIp(gateway, q)]
    BY <1>1, <1>4 DEF Policy!Respond
  <2>2. PICK client : client = Policy!ResolveClientIp(gateway, q)
    BY Zenon
  <2>3. PICK headers : headers = Policy!SecurityHeaders(q)
    BY Zenon
  <2>4. PICK code, version, coded, grant, vary :
          /\ [Policy!Outer(q, p) EXCEPT !.headers = headers, !.client = client]
               = Full(code, version, coded, grant, vary, headers, client)
          /\ OfChain(gateway, q, p, code, version, coded, grant, vary)
    BY <1>4, <2>2, OuterAnswers
  <2>5. [Policy!Outer(q, p) EXCEPT !.headers = headers, !.client = client] = a
    BY <2>1, <2>2, <2>3, Zenon
  <2>6. a = Full(code, version, coded, grant, vary, headers, client)
    BY <2>4, <2>5, Zenon
  <2>7. FromChain(gateway, q, p, a)
    BY <1>4, <2>2, <2>4, <2>6, ChainAnswers, Zenon
  <2> QED
    BY <1>1, <2>7, Zenon DEF Told
<1> QED
  BY <1>2, <1>3, <1>4

-----------------------------------------------------------------------------
(* The inductive invariant.                                                *)

Answering ==
    \/ request = None /\ reply = Policy!NoReply
    \/ /\ request # None /\ state = "serving"
       /\ request \in Traffic /\ Told(gateway, request, page, reply)

\* What serves is a gateway built of some values it may be deployed with.
GatewayIsBuilt ==
    /\ values \in Deployment
    /\ state = "serving" =>
          \E v \in Deployment : gateway = Policy!ApiGateway(Policy!FromMapping(v))

PolicyInv == GatewayIsBuilt /\ Answering

LEMMA GatewayStep == GatewayIsBuilt /\ [Policy!Next]_Policy!vars => GatewayIsBuilt'
<1> SUFFICES ASSUME GatewayIsBuilt, [Policy!Next]_Policy!vars PROVE GatewayIsBuilt'
  OBVIOUS
<1>1. CASE Policy!Build
  BY <1>1 DEF Policy!Build, GatewayIsBuilt
<1>2. CASE Policy!Ask
  BY <1>2 DEF Policy!Ask, GatewayIsBuilt
<1>3. CASE Policy!Answered
  BY <1>3 DEF Policy!Answered, GatewayIsBuilt
<1>4. CASE Policy!Redeploy
  BY <1>4 DEF Policy!Redeploy, GatewayIsBuilt
<1>5. CASE UNCHANGED Policy!vars
  BY <1>5 DEF Policy!vars, GatewayIsBuilt
<1> QED
  BY <1>1, <1>2, <1>3, <1>4, <1>5 DEF Policy!Next

LEMMA PolicyInvariant == Policy!Spec => []PolicyInv
<1>1. Policy!Init => PolicyInv
  BY DEF Policy!Init, PolicyInv, GatewayIsBuilt, Answering
<1>2. PolicyInv /\ [Policy!Next]_Policy!vars => PolicyInv'
  <2> SUFFICES ASSUME PolicyInv, [Policy!Next]_Policy!vars PROVE Answering'
    BY GatewayStep DEF PolicyInv
  <2> USE DEF PolicyInv, Answering
  <2>1. CASE Policy!Build
    BY <2>1 DEF Policy!Build
  <2>2. CASE Policy!Ask
    <3>1. PICK q \in Traffic, p \in Page :
             request' = q /\ page' = p /\ reply' = Policy!Respond(q, p)
      BY <2>2 DEF Policy!Ask
    <3>2. state = "serving" /\ state' = state /\ gateway' = gateway
      BY <2>2 DEF Policy!Ask
    <3>3. Told(gateway, q, p, Policy!Respond(q, p))
      BY EveryAnswerIsTold
    <3>4. Told(gateway', request', page', reply')
      BY <3>1, <3>2, <3>3, Zenon
    <3>5. request' # None
      BY <3>1, PoliciesAssumption DEF Policy!PoliciesAssumption
    <3> QED
      BY <3>1, <3>2, <3>4, <3>5
  <2>3. CASE Policy!Answered
    BY <2>3 DEF Policy!Answered
  <2>4. CASE Policy!Redeploy
    BY <2>4 DEF Policy!Redeploy
  <2>5. CASE UNCHANGED Policy!vars
    BY <2>5 DEF Policy!vars
  <2> QED
    BY <2>1, <2>2, <2>3, <2>4, <2>5 DEF Policy!Next
<1> QED
  BY <1>1, <1>2, PTL DEF Policy!Spec

-----------------------------------------------------------------------------
(* CORS.                                                                   *)

\* An answer with a grant tells of an origin that is allowed.
LEMMA GrantedTo ==
    ASSUME NEW g, NEW q, NEW p, NEW a, Told(g, q, p, a), a.grant # Policy!NoGrant
    PROVE  /\ "cors" \in g.parts /\ q.origin # None /\ Policy!IsOriginAllowed(g, q.origin)
           /\ a.grant = Policy!Grant(g, q.origin) /\ a.vary = a.grant.vary
           /\ a.status = 204 => Policy!IsPreflight(g, q)
<1>1. a # Policy!Unhandled
  BY DEF Policy!Unhandled, Policy!NoReply
<1>2. CASE FromPreflight(g, q, a)
  BY <1>2 DEF FromPreflight, Policy!IsPreflight, Policy!Preflight
<1>3. CASE FromChain(g, q, p, a)
  <2>1. "cors" \in g.parts /\ q.origin # None /\ a.grant = Policy!GrantOf(g, q.origin)
    BY <1>3 DEF FromChain
  <2>2. Policy!IsOriginAllowed(g, q.origin) /\ a.grant = Policy!Grant(g, q.origin)
    BY <2>1 DEF Policy!GrantOf
  <2> QED
    BY <1>3, <2>1, <2>2 DEF FromChain
<1> QED
  BY <1>1, <1>2, <1>3 DEF Told

LEMMA GrantFields ==
    ASSUME NEW g, NEW origin
    PROVE  /\ Policy!Grant(g, origin).to = Policy!AllowOriginValue(g, origin)
           /\ Policy!Grant(g, origin).credentials = g.credentials
           /\ Policy!Grant(g, origin).vary = {"origin"}
<1> PICK to : to = Policy!AllowOriginValue(g, origin)
  BY Zenon
<1> PICK credentials : credentials = g.credentials
  BY Zenon
<1>1. Policy!Grant(g, origin) = [to |-> to, credentials |-> credentials, vary |-> {"origin"}]
  BY DEF Policy!Grant
<1> QED
  BY <1>1

\* A grant follows its origin, to the requests that come after a preflight too.
LEMMA GrantsStay == PolicyInv => Policy!GrantsStayWithTheirOrigin
<1> SUFFICES ASSUME PolicyInv, reply.grant # Policy!NoGrant
             PROVE  Policy!GrantsStayWithTheirOrigin
  BY DEF Policy!GrantsStayWithTheirOrigin
<1>1. /\ request \in Traffic /\ Told(gateway, request, page, reply)
  BY DEF PolicyInv, Answering, Policy!NoReply
<1>2. /\ "cors" \in gateway.parts /\ request.origin # None
      /\ Policy!IsOriginAllowed(gateway, request.origin)
      /\ reply.grant = Policy!Grant(gateway, request.origin) /\ reply.vary = reply.grant.vary
      /\ reply.status = 204 => Policy!IsPreflight(gateway, request)
  BY <1>1, GrantedTo
<1>3. request.origin \in Policy!Origin
  BY <1>1, <1>2, PoliciesAssumption DEF Policy!PoliciesAssumption, Policy!HttpRequest
<1>4. PICK origin : origin = request.origin
  BY Zenon
<1>5. /\ reply.grant.to = Policy!AllowOriginValue(gateway, origin)
      /\ reply.grant.credentials = gateway.credentials
      /\ reply.vary = {"origin"}
  BY <1>2, <1>4, GrantFields
<1>6. reply.grant.to \in {Policy!Everyone, origin}
  BY <1>5 DEF Policy!AllowOriginValue
<1>7. reply.grant.credentials => reply.grant.to # Policy!Everyone
  <2>1. origin # Policy!Everyone
    BY <1>3, <1>4 DEF Policy!Origin
  <2> QED
    BY <1>5, <2>1 DEF Policy!AllowOriginValue
<1>8. ASSUME NEW q \in Traffic, q.origin # None,
             "origin" \in reply.vary => q.origin = request.origin
      PROVE  reply.grant.to \in {Policy!Everyone, q.origin}
  BY <1>4, <1>5, <1>6, <1>8
<1>9. ASSUME reply.status = 204, NEW q \in Traffic, NEW p \in Page,
             q.origin = request.origin, q.method = request.wants, q.wants = None
      PROVE  Policy!Respond(q, p) = Policy!Unhandled \/ Policy!Respond(q, p).grant = reply.grant
  <2>1. PICK a : a = Policy!Respond(q, p)
    BY Zenon
  <2>2. Told(gateway, q, p, a)
    BY <2>1, EveryAnswerIsTold
  <2>3. ~FromPreflight(gateway, q, a)
    BY <1>9 DEF FromPreflight, Policy!IsPreflight
  <2>4. CASE FromChain(gateway, q, p, a)
    <3>1. a.grant = Policy!GrantOf(gateway, q.origin)
      BY <1>2, <1>9, <2>4 DEF FromChain
    <3>2. a.grant = reply.grant
      BY <1>2, <1>9, <3>1 DEF Policy!GrantOf
    <3> QED
      BY <2>1, <3>2
  <2> QED
    BY <2>1, <2>2, <2>3, <2>4 DEF Told
<1> QED
  BY <1>7, <1>8, <1>9, Zenon DEF Policy!GrantsStayWithTheirOrigin
-----------------------------------------------------------------------------
(* The stamps within a window.                                             *)

LEMMA Least ==
    ASSUME NEW S, S \subseteq Nat, S # {}
    PROVE  \E x \in S : \A y \in S : x <= y
<1> DEFINE R == StrictSubsetOrdering(Nat)
           F == FiniteSubsetsOf(Nat)
           U == {1..n : n \in S}
<1>1. IsWellFoundedOn(R, F) /\ U \subseteq F /\ U # {}
  <2>1. IsWellFoundedOn(R, F)
    BY FS_StrictSubsetOrderingWellFounded
  <2>2. \A n \in Nat : IsFiniteSet(1..n) /\ 1..n \subseteq Nat
    BY FS_Interval
  <2>3. U \subseteq F
    BY <2>2 DEF FiniteSubsetsOf
  <2> QED
    BY <2>1, <2>3
<1>2. \E u \in U : \A v \in U : <<v, u>> \notin R
  <2> HIDE DEF R, F, U
  <2> QED
    BY <1>1, WFMin
<1>3. PICK m \in S : \A v \in U : <<v, 1..m>> \notin R
  BY <1>2
<1>4. ASSUME NEW n \in S, n < m PROVE FALSE
  <2>1. n \in Nat /\ m \in Nat
    OBVIOUS
  <2>2. 1..n \subseteq 1..m /\ 1..n # 1..m
    BY <2>1, <1>4
  <2>3. <<1..n, 1..m>> \in R
    BY <2>2 DEF StrictSubsetOrdering
  <2> QED
    BY <1>3, <2>3
<1> QED
  BY <1>4


-----------------------------------------------------------------------------
(* The client's address.                                                   *)

\* The greatest position of a set of them.
LEMMA Greatest ==
    ASSUME NEW n \in Nat, NEW S, S \subseteq 1 .. n, S # {}
    PROVE  \E k \in S : \A j \in S : j <= k
<1> DEFINE T == {n - k : k \in S}
<1>1. T \subseteq Nat /\ T # {}
  <2>1. \A k \in S : n - k \in Nat
    OBVIOUS
  <2> QED
    BY <2>1, Zenon
<1>2. PICK x \in T : \A y \in T : x <= y
  <2> HIDE DEF T
  <2> QED
    BY <1>1, Least
<1>3. PICK k \in S : x = n - k
  OBVIOUS
<1>4. ASSUME NEW j \in S PROVE j <= k
  <2>1. n - j \in T
    BY Zenon
  <2>2. x <= n - j
    BY <1>2, <2>1, Zenon
  <2>3. j \in 1 .. n /\ k \in 1 .. n
    OBVIOUS
  <2> QED
    BY <1>3, <2>2, <2>3
<1> QED
  BY <1>4

LastForeign(chain, proxies, k) ==
    /\ k \in 1 .. Len(chain)
    /\ ~Policy!Trusts(proxies, chain[k])
    /\ \A j \in 1 .. Len(chain) : j > k => Policy!Trusts(proxies, chain[j])

\* The client is at the last position that no proxy of ours holds.
LEMMA ClientIsLast ==
    ASSUME NEW chain \in Seq(Address), NEW proxies, NEW k, LastForeign(chain, proxies, k)
    PROVE  Policy!ClientFromChain(chain, proxies) = chain[k]
<1> DEFINE open == {i \in DOMAIN chain : ~Policy!Trusts(proxies, chain[i])}
<1>1. open \subseteq Nat /\ k \in open /\ \A j \in open : j <= k
  BY DEF LastForeign
<1>2. (CHOOSE i \in open : \A j \in open : j <= i) = k
  <2> HIDE DEF open
  <2>1. PICK c : c = CHOOSE i \in open : \A j \in open : j <= i
    BY Zenon
  <2>2. c \in open /\ \A j \in open : j <= c
    BY <1>1, <2>1
  <2>3. c = k
    BY <1>1, <2>2
  <2> QED
    BY <2>1, <2>3, Zenon
<1> QED
  BY <1>1, <1>2, Zenon DEF Policy!ClientFromChain

LEMMA NoClient ==
    ASSUME NEW chain \in Seq(Address), NEW proxies,
           \A i \in 1 .. Len(chain) : Policy!Trusts(proxies, chain[i])
    PROVE  Policy!ClientFromChain(chain, proxies) = None
  BY DEF Policy!ClientFromChain

LEMMA LastExists ==
    ASSUME NEW chain \in Seq(Address), NEW proxies,
           NEW i \in 1 .. Len(chain), ~Policy!Trusts(proxies, chain[i])
    PROVE  \E k : LastForeign(chain, proxies, k)
<1> DEFINE open == {j \in 1 .. Len(chain) : ~Policy!Trusts(proxies, chain[j])}
<1>1. PICK k \in open : \A j \in open : j <= k
  <2>1. open \subseteq 1 .. Len(chain) /\ open # {} /\ Len(chain) \in Nat
    OBVIOUS
  <2> HIDE DEF open
  <2> QED
    BY <2>1, Greatest
<1>2. k \in 1 .. Len(chain) /\ ~Policy!Trusts(proxies, chain[k])
  OBVIOUS
<1>3. ASSUME NEW j \in 1 .. Len(chain), j > k PROVE Policy!Trusts(proxies, chain[j])
  BY <1>1, <1>3
<1> QED
  BY <1>2, <1>3 DEF LastForeign

\* What a sender writes in front of the chain does not count.
LEMMA LastInFront ==
    ASSUME NEW front \in Seq(Address), NEW chain \in Seq(Address), NEW proxies,
           NEW k, LastForeign(chain, proxies, k)
    PROVE  /\ LastForeign(front \o chain, proxies, Len(front) + k)
           /\ (front \o chain)[Len(front) + k] = chain[k]
<1> DEFINE whole == front \o chain
           n == Len(front)
           m == Len(chain)
<1>1. /\ n \in Nat /\ m \in Nat /\ whole \in Seq(Address) /\ Len(whole) = n + m
      /\ \A j \in 1 .. m : whole[n + j] = chain[j]
  OBVIOUS
<1>2. k \in 1 .. m /\ ~Policy!Trusts(proxies, chain[k])
      /\ \A j \in 1 .. m : j > k => Policy!Trusts(proxies, chain[j])
  BY DEF LastForeign
<1> HIDE DEF whole, n, m
<1>3. n + k \in 1 .. n + m /\ whole[n + k] = chain[k]
  BY <1>1, <1>2
<1>4. ASSUME NEW j \in 1 .. n + m, j > n + k PROVE Policy!Trusts(proxies, whole[j])
  <2>1. j - n \in 1 .. m /\ j - n > k /\ j = n + (j - n)
    BY <1>1, <1>2, <1>4
  <2>2. whole[j] = chain[j - n]
    BY <1>1, <2>1
  <2> QED
    BY <1>2, <2>1, <2>2
<1> QED
  BY <1>1, <1>2, <1>3, <1>4 DEF LastForeign, whole, n

\* Who the client is, with proxies that are trusted.
LEMMA ResolvedClient ==
    ASSUME NEW g, NEW q, q.chain \in Seq(Address), g.proxies # <<>>
    PROVE  /\ ~Policy!Trusts(g.proxies, q.connection) =>
                 Policy!ResolveClientIp(g, q) = q.connection
           /\ (\A i \in 1 .. Len(q.chain) : Policy!Trusts(g.proxies, q.chain[i])) =>
                 Policy!ResolveClientIp(g, q) = q.connection
           /\ \A k : /\ Policy!Trusts(g.proxies, q.connection)
                     /\ LastForeign(q.chain, g.proxies, k)
                     =>
                 Policy!ResolveClientIp(g, q) = q.chain[k]
<1> PICK chain : chain = q.chain
  BY Zenon
<1> PICK proxies : proxies = g.proxies
  BY Zenon
<1>1. ~Policy!Trusts(proxies, q.connection) => Policy!ResolveClientIp(g, q) = q.connection
  BY DEF Policy!ResolveClientIp
<1>2. ASSUME \A i \in 1 .. Len(chain) : Policy!Trusts(proxies, chain[i])
      PROVE  Policy!ResolveClientIp(g, q) = q.connection
  <2>1. Policy!ClientFromChain(chain, proxies) = None
    BY <1>2, NoClient
  <2> QED
    BY <2>1 DEF Policy!ResolveClientIp
<1>3. ASSUME Policy!Trusts(proxies, q.connection), NEW k, LastForeign(chain, proxies, k)
      PROVE  Policy!ResolveClientIp(g, q) = chain[k]
  <2>1. Policy!ClientFromChain(chain, proxies) = chain[k]
    BY <1>3, ClientIsLast
  <2>2. chain[k] # None
    BY <1>3, PoliciesAssumption DEF LastForeign, Policy!PoliciesAssumption
  <2> QED
    BY <1>3, <2>1, <2>2 DEF Policy!ResolveClientIp
<1> QED
  BY <1>1, <1>2, <1>3

LEMMA ClientIsVouched == PolicyInv => Policy!ClientIsVouchedFor
<1> SUFFICES ASSUME PolicyInv,
                    state = "serving", reply.client # None, gateway.proxies # <<>>
             PROVE  Policy!ClientIsVouchedFor
  BY DEF Policy!ClientIsVouchedFor
<1> DEFINE proxies == gateway.proxies
           hops == Append(request.chain, request.connection)
           foreign == {i \in DOMAIN hops : ~Policy!Trusts(proxies, hops[i])}
<1>1. request \in Policy!HttpRequest /\ Told(gateway, request, page, reply)
  BY PoliciesAssumption DEF PolicyInv, Answering, Policy!NoReply, Policy!PoliciesAssumption
<1>2. reply.client = Policy!ResolveClientIp(gateway, request)
  BY <1>1 DEF Told, Policy!Unhandled, Policy!NoReply, FromPreflight, FromChain
<1>3. request.chain \in Seq(Address) /\ request.connection \in Address
  BY <1>1 DEF Policy!HttpRequest
<1> PICK chain : chain = request.chain
  BY Zenon
<1> PICK connection : connection = request.connection
  BY Zenon
<1> PICK n : n = Len(chain)
  BY Zenon
<1>4. /\ hops = Append(chain, connection) /\ n \in Nat /\ Len(hops) = n + 1
      /\ DOMAIN hops = 1 .. n + 1
      /\ hops[n + 1] = connection /\ \A i \in 1 .. n : hops[i] = chain[i]
  BY <1>3
<1>5. CASE ~Policy!Trusts(proxies, connection)
  <2>1. reply.client = hops[n + 1]
    BY <1>2, <1>3, <1>4, <1>5, ResolvedClient
  <2>2. \E i \in DOMAIN hops :
          reply.client = hops[i] /\ \A j \in i + 1 .. Len(hops) : j \notin foreign
    <3>1. n + 1 \in DOMAIN hops /\ n + 1 + 1 .. Len(hops) = {}
      BY <1>4
    <3> HIDE DEF hops, foreign
    <3> QED
      BY <2>1, <3>1
  <2>3. ASSUME NEW q \in Traffic
        PROVE  Policy!ResolveClientIp(gateway, [request EXCEPT !.chain = q.chain \o @])
                 = reply.client
    <3>1. PICK r : r = [request EXCEPT !.chain = q.chain \o @]
      BY Zenon
    <3>2. q.chain \in Seq(Address)
      BY PoliciesAssumption DEF Policy!PoliciesAssumption, Policy!HttpRequest
    <3>3. r.chain = q.chain \o chain /\ r.connection = connection
      BY <1>1, <3>1 DEF Policy!HttpRequest
    <3>4. r.chain \in Seq(Address)
      BY <1>3, <3>2, <3>3
    <3>5. Policy!ResolveClientIp(gateway, r) = connection
      BY <1>5, <3>3, <3>4, ResolvedClient
    <3>6. reply.client = connection
      BY <1>4, <2>1
    <3> QED
      BY <3>1, <3>5, <3>6, Zenon
  <2> QED
    BY <2>2, <2>3, Zenon DEF Policy!ClientIsVouchedFor
<1>6. CASE /\ Policy!Trusts(proxies, connection)
          /\ \A i \in 1 .. n : Policy!Trusts(proxies, chain[i])
  <2>1. reply.client = hops[n + 1]
    BY <1>2, <1>3, <1>4, <1>6, ResolvedClient
  <2>2. foreign = {}
    <3>1. \A i \in 1 .. n + 1 : i = n + 1 \/ i \in 1 .. n
      BY <1>4
    <3> QED
      BY <1>4, <1>6, <3>1
  <2>3. \E i \in DOMAIN hops :
          reply.client = hops[i] /\ \A j \in i + 1 .. Len(hops) : j \notin foreign
    <3>1. n + 1 \in DOMAIN hops
      BY <1>4
    <3> HIDE DEF hops, foreign
    <3> QED
      BY <2>1, <2>2, <3>1
  <2> QED
    BY <2>2, <2>3, Zenon DEF Policy!ClientIsVouchedFor
<1>7. CASE /\ Policy!Trusts(proxies, connection)
          /\ \E i \in 1 .. n : ~Policy!Trusts(proxies, chain[i])
  <2>1. PICK k : LastForeign(chain, proxies, k)
    BY <1>3, <1>7, LastExists
  <2>2. k \in 1 .. n /\ \A j \in 1 .. n : j > k => Policy!Trusts(proxies, chain[j])
    BY <2>1 DEF LastForeign
  <2>3. reply.client = chain[k]
    BY <1>2, <1>3, <1>7, <2>1, ResolvedClient
  <2>4. \E i \in DOMAIN hops :
          reply.client = hops[i] /\ \A j \in i + 1 .. Len(hops) : j \notin foreign
    <3>1. k \in DOMAIN hops /\ reply.client = hops[k]
      BY <1>4, <2>2, <2>3
    <3>2. ASSUME NEW j \in k + 1 .. n + 1 PROVE j \notin foreign
      <4>1. CASE j = n + 1
        BY <1>4, <1>7, <4>1
      <4>2. CASE j # n + 1
        <5>1. j \in 1 .. n /\ j > k
          BY <1>4, <2>2, <4>2
        <5> QED
          BY <1>4, <2>2, <5>1
      <4> QED
        BY <4>1, <4>2
    <3> HIDE DEF hops, foreign
    <3> QED
      BY <1>4, <3>1, <3>2
  <2>5. ASSUME NEW q \in Traffic
        PROVE  Policy!ResolveClientIp(gateway, [request EXCEPT !.chain = q.chain \o @])
                 = reply.client
    <3>1. PICK r : r = [request EXCEPT !.chain = q.chain \o @]
      BY Zenon
    <3>2. q.chain \in Seq(Address)
      BY PoliciesAssumption DEF Policy!PoliciesAssumption, Policy!HttpRequest
    <3>3. r.chain = q.chain \o chain /\ r.connection = connection
      BY <1>1, <3>1 DEF Policy!HttpRequest
    <3>4. r.chain \in Seq(Address)
      BY <1>3, <3>2, <3>3
    <3>5. PICK m : LastForeign(r.chain, proxies, m) /\ r.chain[m] = chain[k]
      <4>1. PICK front : front = q.chain
        BY Zenon
      <4>2. chain \in Seq(Address) /\ front \in Seq(Address)
        BY <1>3, <3>2, <4>1
      <4>3. LastForeign(front \o chain, proxies, Len(front) + k)
        BY <2>1, <4>2, LastInFront, Zenon
      <4>4. (front \o chain)[Len(front) + k] = chain[k]
        BY <2>2, <4>2
      <4>5. r.chain = front \o chain
        BY <3>3, <4>1
      <4> QED
        BY <4>3, <4>4, <4>5, Zenon
    <3>6. Policy!ResolveClientIp(gateway, r) = chain[k]
      <4>1. Policy!ResolveClientIp(gateway, r) = r.chain[m]
        <5>1. Policy!Trusts(gateway.proxies, r.connection)
          BY <1>7, <3>3
        <5>2. LastForeign(r.chain, gateway.proxies, m)
          BY <3>5
        <5> QED
          BY <3>4, <5>1, <5>2, ResolvedClient, Zenon
      <4> QED
        BY <3>5, <4>1, Zenon
    <3> QED
      BY <2>3, <3>1, <3>6, Zenon
  <2> QED
    BY <2>4, <2>5, Zenon DEF Policy!ClientIsVouchedFor
<1> QED
  BY <1>5, <1>6, <1>7

-----------------------------------------------------------------------------
(* The version and the encoding.                                           *)

LEMMA PositionsAreNumbers == \A n : 1 .. n \subseteq Nat
  OBVIOUS

LEMMA NoPositions == 1 .. Len(<<>>) = {}
<1>1. Len(<<>>) = 0
  OBVIOUS
<1>2. 1 .. 0 = {}
  OBVIOUS
<1> QED
  BY <1>1, <1>2, Zenon

\* A strict policy serves what the only version named says.
LEMMA ServedAsNamed ==
    ASSUME NEW g, NEW q, NEW i \in 1 .. Len(g.strategies),
           q.version[g.strategies[i]] # "",
           \A j \in 1 .. Len(g.strategies) :
              q.version[g.strategies[j]] # "" =>
                 q.version[g.strategies[j]] = q.version[g.strategies[i]],
           g.strict, Policy!Negotiate(g, q) # Policy!Unsupported
    PROVE  /\ q.version[g.strategies[i]] \in DOMAIN ParsedVersion
           /\ Policy!Negotiate(g, q).version = ParsedVersion[q.version[g.strategies[i]]]
<1> DEFINE text(j) == q.version[g.strategies[j]]
           found == {j \in 1 .. Len(g.strategies) : text(j) # ""}
<1>1. found \subseteq Nat /\ i \in found /\ \A j \in found : text(j) = text(i)
  <2>1. 1 .. Len(g.strategies) \subseteq Nat
    BY PositionsAreNumbers, Zenon
  <2>2. found \subseteq 1 .. Len(g.strategies) /\ i \in found
    BY Zenon
  <2>3. \A j \in found : text(j) = text(i)
    BY Zenon
  <2> QED
    BY <2>1, <2>2, <2>3, Zenon
<1>2. PICK named : named = text(i)
  BY Zenon
<1>3. Policy!Extract(g, q) = named
  <2>1. PICK c : c = CHOOSE j \in found : \A k \in found : j <= k
    BY Zenon
  <2>2. c \in found
    <3> HIDE DEF found
    <3>1. \E j \in found : \A k \in found : j <= k
      BY <1>1, Least
    <3> QED
      BY <2>1, <3>1
  <2>3. Policy!Extract(g, q) = text(c)
    <3>1. found # {}
      BY <1>1
    <3> QED
      BY <2>1, <3>1, Zenon DEF Policy!Extract
  <2>4. text(c) = text(i)
    BY <1>1, <2>2, Zenon
  <2> QED
    BY <1>2, <2>3, <2>4, Zenon
<1>4. named # ""
  BY <1>2
<1>5. named \in DOMAIN ParsedVersion /\ ParsedVersion[named] \in g.supported
  BY <1>3, <1>4 DEF Policy!Negotiate
<1>6. Policy!Negotiate(g, q) = [version |-> ParsedVersion[named], isDefault |-> FALSE]
  BY <1>3, <1>5 DEF Policy!Negotiate
<1>7. PICK served : served = ParsedVersion[named]
  BY Zenon
<1>8. Policy!Negotiate(g, q).version = served
  <2>1. Policy!Negotiate(g, q) = [version |-> served, isDefault |-> FALSE]
    BY <1>6, <1>7, Zenon
  <2>2. [version |-> served, isDefault |-> FALSE].version = served
    OBVIOUS
  <2> QED
    BY <2>1, <2>2, Zenon
<1> QED
  BY <1>2, <1>5, <1>7, <1>8, Zenon

Accepting == Seq([token : STRING, q : 0 .. 10])

LEMMA MemberOfSequence ==
    ASSUME NEW E, NEW s \in Seq(E), NEW i \in 1 .. Len(s)
    PROVE  i \in Nat /\ s[i] \in E
  OBVIOUS

LEMMA WeightOf ==
    ASSUME NEW accept \in Accepting, NEW i \in 1 .. Len(accept)
    PROVE  i \in Nat /\ accept[i].q \in 0 .. 10
<1>1. accept[i] \in [token : STRING, q : 0 .. 10]
  BY MemberOfSequence, Zenon DEF Accepting
<1>2. i \in Nat
  BY MemberOfSequence, Zenon DEF Accepting
<1> QED
  BY <1>1, <1>2

\* Among some positions one is before all the others.
LEMMA FirstChoice ==
    ASSUME NEW accept \in Accepting, NEW S, S \subseteq 1 .. Len(accept), S # {}
    PROVE  \E i \in S : \A j \in S : Policy!Before(accept, i, j)
<1>1. \A i \in S : i \in Nat /\ accept[i].q \in 0 .. 10
  BY WeightOf
<1> DEFINE short == {10 - accept[i].q : i \in S}
<1>2. PICK m \in short : \A n \in short : m <= n
  <2>1. \A i \in S : 10 - accept[i].q \in Nat
    BY <1>1
  <2>2. short \subseteq Nat /\ short # {}
    BY <2>1, Zenon
  <2> HIDE DEF short
  <2> QED
    BY <2>2, Least
<1> DEFINE top == {i \in S : 10 - accept[i].q = m}
<1>3. PICK i \in top : \A j \in top : i <= j
  <2>1. top \subseteq Nat
    BY <1>1
  <2>2. top # {}
    BY <1>2, Zenon
  <2> HIDE DEF top
  <2> QED
    BY <2>1, <2>2, Least
<1>4. ASSUME NEW j \in S PROVE Policy!Before(accept, i, j)
  <2>1. 10 - accept[j].q \in short
    BY Zenon
  <2>2. m <= 10 - accept[j].q
    BY <1>2, <2>1, Zenon
  <2>3. i \in S /\ 10 - accept[i].q = m
    BY Zenon
  <2>4. accept[i].q \in 0 .. 10 /\ accept[j].q \in 0 .. 10
    BY <1>1, <2>3
  <2>5. CASE accept[i].q = accept[j].q
    <3>1. j \in top
      BY <2>3, <2>5, Zenon
    <3>2. i <= j
      BY <1>3, <3>1, Zenon
    <3> QED
      BY <2>5, <3>2 DEF Policy!Before
  <2>6. CASE accept[i].q # accept[j].q
    <3>1. accept[i].q > accept[j].q
      <4> PICK x : x = accept[i].q
        BY Zenon
      <4> PICK y : y = accept[j].q
        BY Zenon
      <4>1. 10 - x <= 10 - y /\ x # y
        BY <2>2, <2>3, <2>6
      <4>2. x \in 0 .. 10 /\ y \in 0 .. 10
        BY <2>4
      <4>3. x > y
        BY <4>1, <4>2
      <4> QED
        BY <4>3
    <3> QED
      BY <3>1 DEF Policy!Before
  <2> QED
    BY <2>5, <2>6
<1> QED
  BY <1>3, <1>4

Offering(accept, token) ==
    {i \in DOMAIN accept : accept[i].token = token /\ accept[i].q > 0}

\* The encoding of a response is one that the client prefers.
LEMMA SelectedAsPreferred ==
    ASSUME NEW g, NEW accept \in Accepting, Policy!Select(g, accept) # None
    PROVE  \/ Offering(accept, "*") # {}
           \/ \E i \in Offering(accept, Policy!Select(g, accept)) :
                 \A token \in Policy!ToSet(g.providers) : \A j \in Offering(accept, token) :
                    accept[j].q <= accept[i].q
<1> DEFINE known == {i \in Policy!Kept(accept) :
                       accept[i].token \in Policy!ToSet(g.providers) \cup {"*"}}
<1>1. g.providers # <<>> /\ known # {}
  BY DEF Policy!Select
<1>2. known \subseteq 1 .. Len(accept)
  BY DEF Policy!Kept, Accepting
<1>3. PICK first : first = CHOOSE i \in known : \A j \in known : Policy!Before(accept, i, j)
  BY Zenon
<1>4. first \in known /\ \A j \in known : Policy!Before(accept, first, j)
  <2>1. \E i \in known : \A j \in known : Policy!Before(accept, i, j)
    <3> HIDE DEF known
    <3> QED
      BY <1>1, <1>2, FirstChoice
  <2> HIDE DEF known
  <2> QED
    BY <1>3, <2>1
<1>5. Policy!Select(g, accept) =
        IF accept[first].token = "*" THEN g.providers[1] ELSE accept[first].token
  <2>1. Policy!Select(g, accept) =
          IF g.providers = <<>> \/ known = {} THEN None
          ELSE LET one == CHOOSE i \in known : \A j \in known : Policy!Before(accept, i, j)
               IN  IF accept[one].token = "*" THEN g.providers[1] ELSE accept[one].token
    BY DEF Policy!Select
  <2> HIDE DEF known
  <2> QED
    BY <1>1, <1>3, <2>1
<1>6. first \in DOMAIN accept /\ accept[first].q > 0
  BY <1>4 DEF Policy!Kept
<1>7. CASE accept[first].token = "*"
  BY <1>6, <1>7 DEF Offering
<1>8. CASE accept[first].token # "*"
  <2>1. Policy!Select(g, accept) = accept[first].token
    BY <1>5, <1>8
  <2>2. first \in Offering(accept, Policy!Select(g, accept))
    BY <1>6, <2>1 DEF Offering
  <2>3. ASSUME NEW token \in Policy!ToSet(g.providers), NEW j \in Offering(accept, token)
        PROVE  accept[j].q <= accept[first].q
    <3>1. j \in known
      BY DEF Offering, Policy!Kept
    <3>2. Policy!Before(accept, first, j)
      BY <1>4, <3>1, Zenon
    <3>3. accept[first].q \in 0 .. 10 /\ accept[j].q \in 0 .. 10
      <4>1. first \in 1 .. Len(accept) /\ j \in 1 .. Len(accept)
        BY <1>6 DEF Offering, Accepting
      <4> QED
        BY <4>1, WeightOf
    <3> QED
      BY <3>2, <3>3 DEF Policy!Before
  <2> QED
    BY <2>2, <2>3
<1> QED
  BY <1>7, <1>8

LEMMA NegotiatesAsAsked == PolicyInv => Policy!NegotiatedAsAsked
<1> SUFFICES ASSUME PolicyInv PROVE Policy!NegotiatedAsAsked
  OBVIOUS
<1>1. ASSUME reply.status = 200 \/ reply.encoding # None
      PROVE  request \in Policy!HttpRequest /\ FromChain(gateway, request, page, reply)
  BY <1>1, PoliciesAssumption DEF PolicyInv, Answering, Policy!NoReply,
        Policy!PoliciesAssumption, Told, Policy!Unhandled, FromPreflight
<1> DEFINE text(i) == request.version[gateway.strategies[i]]
           found == {i \in 1 .. Len(gateway.strategies) : text(i) # ""}
<1>2. ASSUME reply.status = 200, Policy!Configured("versioning"), gateway.strict,
             NEW i \in found, \A j \in found : text(j) = text(i)
      PROVE  text(i) \in DOMAIN ParsedVersion /\ reply.version = ParsedVersion[text(i)]
  <2>1. gateway.strategies # <<>>
    <3>2. i \in 1 .. Len(gateway.strategies)
      BY <1>2, Zenon
    <3> QED
      BY <3>2, NoPositions, Zenon
  <2>2. Policy!Negotiate(gateway, request) # Policy!Unsupported
        /\ reply.version = Policy!Negotiate(gateway, request).version
    BY <1>1, <1>2, <2>1 DEF FromChain, Policy!Configured
  <2>3. \A j \in 1 .. Len(gateway.strategies) : text(j) # "" => text(j) = text(i)
    BY <1>2
  <2>4. i \in 1 .. Len(gateway.strategies) /\ text(i) # ""
    BY <1>2
  <2>5. /\ text(i) \in DOMAIN ParsedVersion
        /\ Policy!Negotiate(gateway, request).version = ParsedVersion[text(i)]
    <3>1. gateway.strict
      BY <1>2
    <3> QED
      BY <2>2, <2>3, <2>4, <3>1, ServedAsNamed
  <2> QED
    BY <2>2, <2>5, Zenon
<1>3. ASSUME reply.encoding # None, reply.encoding # page.encoding
      PROVE  \/ Offering(request.accept, "*") # {}
             \/ \E i \in Offering(request.accept, reply.encoding) :
                  \A token \in Policy!ToSet(gateway.providers) :
                     \A j \in Offering(request.accept, token) :
                        request.accept[j].q <= request.accept[i].q
  <2>1. request.accept \in Accepting
    BY <1>1, <1>3 DEF Policy!HttpRequest, Accepting
  <2>2. reply.encoding = Policy!Select(gateway, request.accept)
    BY <1>1, <1>3 DEF FromChain, Policy!Encoding
  <2> QED
    BY <1>3, <2>1, <2>2, SelectedAsPreferred
<1> QED
  BY <1>2, <1>3, Zenon DEF Policy!NegotiatedAsAsked, Offering

-----------------------------------------------------------------------------
(* What a configuration is built into.                                     *)

IsSequence(s) == \E S : s \in Seq(S)

\* One member more, or none.
LEMMA Appended ==
    ASSUME NEW s, IsSequence(s), NEW r
    PROVE  /\ IsSequence(s \o <<r>>) /\ Len(s) \in Nat
           /\ Len(s \o <<r>>) = Len(s) + 1
           /\ \A i \in 1 .. Len(s) : (s \o <<r>>)[i] = s[i]
           /\ (s \o <<r>>)[Len(s) + 1] = r
           /\ s \o <<>> = s
<1>1. PICK S : s \in Seq(S)
  BY DEF IsSequence
<1> PICK T : T = S \cup {r}
  BY Zenon
<1>2. s \in Seq(T) /\ <<r>> \in Seq(T)
  BY <1>1
<1>3. s \o <<r>> \in Seq(T)
  BY <1>2
<1> QED
  BY <1>1, <1>2, <1>3 DEF IsSequence

\* A property of every member, and one of every two, after one more.
LEMMA AppendedMembers ==
    ASSUME NEW s, IsSequence(s), NEW r, NEW i \in 1 .. Len(s \o <<r>>)
    PROVE  \/ i \in 1 .. Len(s) /\ (s \o <<r>>)[i] = s[i]
           \/ i = Len(s) + 1 /\ (s \o <<r>>)[i] = r
<1>1. Len(s) \in Nat /\ Len(s \o <<r>>) = Len(s) + 1
  BY Appended
<1>2. i = Len(s) + 1 \/ i \in 1 .. Len(s)
  BY <1>1
<1> QED
  BY <1>2, Appended

\* Rules with these names, of which none holds a slot.
Rules(s, names) ==
    /\ IsSequence(s)
    /\ \A i \in 1 .. Len(s) : s[i].limit > 0 /\ s[i].name \in names /\ s[i].kind # "concurrent"
    /\ \A i, j \in 1 .. Len(s) : s[i].name = s[j].name => i = j

LEMMA QuotaRuleIs ==
    ASSUME NEW c, NEW name, NEW kind, NEW field, NEW period
    PROVE  \/ Policy!QuotaRule(c, name, kind, field, period) = <<>>
           \/ \E r : /\ Policy!QuotaRule(c, name, kind, field, period) = <<r>>
                     /\ r.limit > 0 /\ r.name = name /\ r.kind = kind
<1> PICK limit : limit = c[field]
  BY Zenon
<1> PICK scope : scope = Policy!QuotaScope(c)
  BY Zenon
<1> PICK r : r = [name |-> name, kind |-> kind, limit |-> limit,
                  period |-> period, scope |-> scope]
  BY Zenon
<1>1. Policy!QuotaRule(c, name, kind, field, period) = IF limit > 0 THEN <<r>> ELSE <<>>
  BY DEF Policy!QuotaRule, Policy!When
<1>2. r.limit = limit /\ r.name = name /\ r.kind = kind
  OBVIOUS
<1> QED
  BY <1>1, <1>2

LEMMA RulesGrow ==
    ASSUME NEW c, NEW s, NEW names, Rules(s, names),
           NEW name, name \notin names, NEW kind, kind # "concurrent", NEW field, NEW period
    PROVE  Rules(s \o Policy!QuotaRule(c, name, kind, field, period), names \cup {name})
<1>1. IsSequence(s)
  BY DEF Rules
<1>2. CASE Policy!QuotaRule(c, name, kind, field, period) = <<>>
  <2>1. s \o Policy!QuotaRule(c, name, kind, field, period) = s
    BY <1>1, <1>2, Appended
  <2> QED
    BY <2>1 DEF Rules
<1>3. ASSUME NEW r, Policy!QuotaRule(c, name, kind, field, period) = <<r>>,
             r.limit > 0, r.name = name, r.kind = kind
      PROVE  Rules(s \o <<r>>, names \cup {name})
  <2> PICK t : t = s \o <<r>>
    BY Zenon
  <2>1. IsSequence(t)
    BY <1>1, Appended
  <2>2. \A i \in 1 .. Len(t) : \/ i \in 1 .. Len(s) /\ t[i] = s[i]
                               \/ i = Len(s) + 1 /\ t[i] = r
    BY <1>1, AppendedMembers
  <2>3. ASSUME NEW i \in 1 .. Len(t)
        PROVE  t[i].limit > 0 /\ t[i].name \in names \cup {name} /\ t[i].kind # "concurrent"
    BY <1>3, <2>2 DEF Rules
  <2>4. ASSUME NEW i \in 1 .. Len(t), NEW j \in 1 .. Len(t), t[i].name = t[j].name
        PROVE  i = j
    BY <1>3, <2>2, <2>4 DEF Rules
  <2> QED
    BY <2>1, <2>3, <2>4 DEF Rules
<1> QED
  <2>1. CASE Policy!QuotaRule(c, name, kind, field, period) # <<>>
    <3>1. PICK r : /\ Policy!QuotaRule(c, name, kind, field, period) = <<r>>
                   /\ r.limit > 0 /\ r.name = name /\ r.kind = kind
      BY <2>1, QuotaRuleIs
    <3>2. Rules(s \o <<r>>, names \cup {name})
      BY <1>3, <3>1, Zenon
    <3> QED
      BY <3>1, <3>2, Zenon
  <2> QED
    BY <1>2, <2>1

\* The quota rules of any configuration.
RulesAsAssumed(rules) ==
    \A i, j \in DOMAIN rules :
       LET rule == rules[i]
       IN  /\ rule.limit > 0
           /\ i # j => rule.name # rules[j].name
           /\ rule.kind = "concurrent" => j <= i

LEMMA RulesAreBuilt == ASSUME NEW c PROVE RulesAsAssumed(Policy!BuildQuotaRules(c))
<1> DEFINE s1 == Policy!QuotaRule(c, "requests-per-minute", "requests",
                                    "quota_requests_per_minute", "minute")
           s2 == s1 \o Policy!QuotaRule(c, "requests-per-hour", "requests",
                                    "quota_requests_per_hour", "hour")
           s3 == s2 \o Policy!QuotaRule(c, "requests-per-day", "requests",
                                    "quota_requests_per_day", "day")
           s4 == s3 \o Policy!QuotaRule(c, "requests-per-month", "requests",
                                    "quota_requests_per_month", "month")
           s5 == s4 \o Policy!QuotaRule(c, "bandwidth-per-day", "bandwidth",
                                    "quota_bandwidth_bytes_per_day", "day")
           s6 == s5 \o Policy!QuotaRule(c, "max-payload", "payload",
                                    "quota_max_payload_bytes", "day")
           last == Policy!QuotaRule(c, "max-concurrent", "concurrent",
                                    "quota_max_concurrent_requests", "minute")
           n0 == {}
           n1 == n0 \cup {"requests-per-minute"}
           n2 == n1 \cup {"requests-per-hour"}
           n3 == n2 \cup {"requests-per-day"}
           n4 == n3 \cup {"requests-per-month"}
           n5 == n4 \cup {"bandwidth-per-day"}
           n6 == n5 \cup {"max-payload"}
<1>1. Rules(s1, n1)
  <2>1. CASE s1 = <<>>
    <3>1. Rules(<<>>, n1)
      <4>1. <<>> \in Seq({})
        OBVIOUS
      <4> QED
        BY <4>1, NoPositions DEF Rules, IsSequence
    <3> QED
      BY <2>1, <3>1, Zenon
  <2>2. ASSUME NEW r, s1 = <<r>>, r.limit > 0, r.name = "requests-per-minute", r.kind = "requests"
        PROVE  Rules(<<r>>, n1)
    <3>1. <<r>> \in Seq({r}) /\ Len(<<r>>) = 1 /\ <<r>>[1] = r
      OBVIOUS
    <3>2. \A i \in 1 .. 1 : i = 1
      OBVIOUS
    <3> QED
      BY <2>2, <3>1, <3>2 DEF Rules, IsSequence
  <2> HIDE DEF n1
  <2>3. \/ s1 = <<>>
        \/ \E r : /\ s1 = <<r>> /\ r.limit > 0
                  /\ r.name = "requests-per-minute" /\ r.kind = "requests"
    BY QuotaRuleIs
  <2> HIDE DEF s1
  <2> QED
    BY <2>1, <2>2, <2>3
<1>2. Rules(s2, n2)
  <2>1. "requests-per-hour" \notin n1 /\ "requests" # "concurrent"
    OBVIOUS
  <2> HIDE DEF s1, n1
  <2> QED
    BY <1>1, <2>1, RulesGrow
<1>3. Rules(s3, n3)
  <2>1. "requests-per-day" \notin n2 /\ "requests" # "concurrent"
    OBVIOUS
  <2> HIDE DEF s2, n2
  <2> QED
    BY <1>2, <2>1, RulesGrow
<1>4. Rules(s4, n4)
  <2>1. "requests-per-month" \notin n3 /\ "requests" # "concurrent"
    OBVIOUS
  <2> HIDE DEF s3, n3
  <2> QED
    BY <1>3, <2>1, RulesGrow
<1>5. Rules(s5, n5)
  <2>1. "bandwidth-per-day" \notin n4 /\ "bandwidth" # "concurrent"
    OBVIOUS
  <2> HIDE DEF s4, n4
  <2> QED
    BY <1>4, <2>1, RulesGrow
<1>6. Rules(s6, n6)
  <2>1. "max-payload" \notin n5 /\ "payload" # "concurrent"
    OBVIOUS
  <2> HIDE DEF s5, n5
  <2> QED
    BY <1>5, <2>1, RulesGrow
<1>7. "max-concurrent" \notin n6
  OBVIOUS
<1>8. Policy!BuildQuotaRules(c) = IF ~c.quotas_enabled THEN <<>> ELSE s6 \o last
  BY Zenon DEF Policy!BuildQuotaRules
<1>9. \/ last = <<>>
      \/ \E r : last = <<r>> /\ r.limit > 0 /\ r.name = "max-concurrent" /\ r.kind = "concurrent"
  BY QuotaRuleIs
<1> PICK s : s = s6
  BY Zenon
<1> PICK names : names = n6
  BY Zenon
<1>10. Rules(s, names) /\ "max-concurrent" \notin names
  BY <1>6, <1>7, Zenon
<1>11. Policy!BuildQuotaRules(c) = <<>> \/ Policy!BuildQuotaRules(c) = s \o last
  BY <1>8, Zenon
<1> HIDE DEF s1, s2, s3, s4, s5, s6, n0, n1, n2, n3, n4, n5, n6, last
<1>12. RulesAsAssumed(<<>>)
  BY DEF RulesAsAssumed
<1>13. RulesAsAssumed(s)
  <2>1. DOMAIN s = 1 .. Len(s)
    BY <1>10 DEF Rules, IsSequence
  <2> QED
    BY <1>10, <2>1 DEF Rules, RulesAsAssumed
<1>14. s \o <<>> = s
  BY <1>10, Appended DEF Rules
<1>15. ASSUME NEW r, r.limit > 0, r.name = "max-concurrent", r.kind = "concurrent"
       PROVE  RulesAsAssumed(s \o <<r>>)
  <2> PICK t : t = s \o <<r>>
    BY Zenon
  <2>1. IsSequence(s) /\ IsSequence(t) /\ Len(s) \in Nat
    BY <1>10, Appended DEF Rules
  <2>2. DOMAIN t = 1 .. Len(t)
    BY <2>1 DEF IsSequence
  <2>3. \A i \in 1 .. Len(t) : \/ i \in 1 .. Len(s) /\ t[i] = s[i]
                               \/ i = Len(s) + 1 /\ t[i] = r
    BY <2>1, AppendedMembers
  <2>4. ASSUME NEW i \in 1 .. Len(t), NEW j \in 1 .. Len(t)
        PROVE  /\ t[i].limit > 0
               /\ i # j => t[i].name # t[j].name
               /\ t[i].kind = "concurrent" => j <= i
    <3>1. t[i].limit > 0
      BY <1>10, <1>15, <2>3 DEF Rules
    <3>2. ASSUME i # j PROVE t[i].name # t[j].name
      BY <1>10, <1>15, <2>3, <3>2 DEF Rules
    <3>3. ASSUME t[i].kind = "concurrent" PROVE j <= i
      <4>1. i = Len(s) + 1
        BY <1>10, <2>3, <3>3 DEF Rules
      <4>2. j \in 1 .. Len(s) \/ j = Len(s) + 1
        BY <2>3
      <4> QED
        BY <2>1, <4>1, <4>2
    <3> QED
      BY <3>1, <3>2, <3>3
  <2> QED
    BY <2>2, <2>4 DEF RulesAsAssumed
<1> QED
  BY <1>9, <1>11, <1>12, <1>13, <1>14, <1>15

-----------------------------------------------------------------------------
(* The manifest.                                                           *)

\* Contracts with these names, each once: the gateway's, and those of the
\* parts done that can work.
Offers(s, able, done, names) ==
    /\ IsSequence(s)
    /\ \A i \in 1 .. Len(s) : s[i] \in names
    /\ \A i, j \in 1 .. Len(s) : s[i] = s[j] => i = j
    /\ IsFiniteSet(able \cap done)
    /\ Len(s) = 1 + Cardinality(able \cap done)

LEMMA OffersGrow ==
    ASSUME NEW s, NEW able, NEW done, NEW names, Offers(s, able, done, names),
           NEW part, part \notin done, NEW contract, contract \notin names,
           NEW condition, condition <=> part \in able
    PROVE  Offers(s \o Policy!When(condition, contract), able, done \cup {part},
                  names \cup {contract})
<1>1. IsSequence(s) /\ Len(s) = 1 + Cardinality(able \cap done) /\ IsFiniteSet(able \cap done)
  BY DEF Offers
<1>2. CASE part \notin able
  <2>1. Policy!When(condition, contract) = <<>>
    BY <1>2 DEF Policy!When
  <2>2. s \o Policy!When(condition, contract) = s
    BY <1>1, <2>1, Appended
  <2>3. able \cap (done \cup {part}) = able \cap done
    BY <1>2
  <2>4. Offers(s, able, done \cup {part}, names \cup {contract})
    BY <2>3 DEF Offers
  <2> QED
    BY <2>2, <2>4, Zenon
<1>3. CASE part \in able
  <2> PICK t : t = s \o <<contract>>
    BY Zenon
  <2>1. s \o Policy!When(condition, contract) = t
    BY <1>3 DEF Policy!When
  <2>2. IsSequence(t) /\ Len(t) = Len(s) + 1
    BY <1>1, Appended
  <2>3. \A i \in 1 .. Len(t) : \/ i \in 1 .. Len(s) /\ t[i] = s[i]
                               \/ i = Len(s) + 1 /\ t[i] = contract
    BY <1>1, AppendedMembers
  <2>4. \A i \in 1 .. Len(t) : t[i] \in names \cup {contract}
    BY <2>3 DEF Offers
  <2>5. ASSUME NEW i \in 1 .. Len(t), NEW j \in 1 .. Len(t), t[i] = t[j] PROVE i = j
    <3>1. \A k \in 1 .. Len(s) : s[k] # contract
      BY DEF Offers
    <3>2. CASE i \in 1 .. Len(s) /\ t[i] = s[i] /\ j \in 1 .. Len(s) /\ t[j] = s[j]
      BY <2>5, <3>2 DEF Offers
    <3> QED
      BY <2>3, <2>5, <3>1, <3>2
  <2>6. able \cap (done \cup {part}) = (able \cap done) \cup {part}
    BY <1>3
  <2>7. part \notin able \cap done
    OBVIOUS
  <2>8. /\ IsFiniteSet(able \cap (done \cup {part}))
        /\ Cardinality(able \cap (done \cup {part})) = Cardinality(able \cap done) + 1
    BY <1>1, <2>6, <2>7, FS_AddElement
  <2>9. Cardinality(able \cap done) \in Nat
    BY <1>1, FS_CardinalityType
  <2>10. Len(t) = 1 + Cardinality(able \cap (done \cup {part}))
    BY <1>1, <2>2, <2>8, <2>9
  <2>11. Offers(t, able, done \cup {part}, names \cup {contract})
    BY <2>2, <2>4, <2>5, <2>8, <2>10 DEF Offers
  <2> QED
    BY <2>1, <2>11, Zenon
<1> QED
  BY <1>2, <1>3

\* The parts that are a contract of their own.
Working == {"rate_limit", "quota", "audit", "validation", "idempotency", "compression"}
Able(g) == {part \in g.parts : part = "compression" => g.providers # <<>>}

LEMMA ServicesAreOffers ==
    ASSUME NEW g
    PROVE  \E names : Offers(Policy!Services(g), Able(g), Working, names)
<1> DEFINE s0 == <<"ApiGateway">>
           s1 == s0 \o Policy!When("rate_limit" \in g.parts, "RateLimiter")
           s2 == s1 \o Policy!When("quota" \in g.parts, "QuotaManager")
           s3 == s2 \o Policy!When("audit" \in g.parts, "ApiAudit")
           s4 == s3 \o Policy!When("validation" \in g.parts, "RequestValidator")
           s5 == s4 \o Policy!When("idempotency" \in g.parts, "IdempotencyManager")
           s6 == s5 \o Policy!When("compression" \in g.parts /\ g.providers # <<>>,
                                     "CompressionProvider")
           d0 == {}
           d1 == d0 \cup {"rate_limit"}
           d2 == d1 \cup {"quota"}
           d3 == d2 \cup {"audit"}
           d4 == d3 \cup {"validation"}
           d5 == d4 \cup {"idempotency"}
           d6 == d5 \cup {"compression"}
           n0 == {"ApiGateway"}
           n1 == n0 \cup {"RateLimiter"}
           n2 == n1 \cup {"QuotaManager"}
           n3 == n2 \cup {"ApiAudit"}
           n4 == n3 \cup {"RequestValidator"}
           n5 == n4 \cup {"IdempotencyManager"}
           n6 == n5 \cup {"CompressionProvider"}
<1>1. Policy!Services(g) = s6
  BY Zenon DEF Policy!Services
<1>2. d6 = Working
  BY DEF Working
<1>3. /\ \A part \in {"rate_limit", "quota", "audit", "validation", "idempotency"} :
            part \in g.parts <=> part \in Able(g)
      /\ ("compression" \in g.parts /\ g.providers # <<>>) <=> "compression" \in Able(g)
  BY DEF Able
<1>10. Offers(s0, Able(g), d0, n0)
  <2>1. IsSequence(s0) /\ Len(s0) = 1 /\ s0[1] = "ApiGateway" /\ \A i \in 1 .. 1 : i = 1
    <3>1. s0 \in Seq({"ApiGateway"})
      OBVIOUS
    <3>2. IsSequence(s0)
      BY <3>1, Zenon DEF IsSequence
    <3>3. Len(s0) = 1 /\ s0[1] = "ApiGateway"
      OBVIOUS
    <3>4. \A i \in 1 .. 1 : i = 1
      OBVIOUS
    <3> QED
      BY <3>2, <3>3, <3>4, Zenon
  <2>2. IsFiniteSet(Able(g) \cap d0) /\ Cardinality(Able(g) \cap d0) = 0
    <3>1. Able(g) \cap d0 = {}
      OBVIOUS
    <3> QED
      BY <3>1, FS_EmptySet
  <2> HIDE DEF s0, d0
  <2> QED
    BY <2>1, <2>2 DEF Offers
<1>11. Offers(s1, Able(g), d1, n1)
  <2>1. "rate_limit" \notin d0 /\ "RateLimiter" \notin n0
    OBVIOUS
  <2> HIDE DEF s0, d0, n0
  <2> QED
    BY <1>3, <1>10, <2>1, OffersGrow
<1>12. Offers(s2, Able(g), d2, n2)
  <2>1. "quota" \notin d1 /\ "QuotaManager" \notin n1
    OBVIOUS
  <2> HIDE DEF s1, d1, n1
  <2> QED
    BY <1>3, <1>11, <2>1, OffersGrow
<1>13. Offers(s3, Able(g), d3, n3)
  <2>1. "audit" \notin d2 /\ "ApiAudit" \notin n2
    OBVIOUS
  <2> HIDE DEF s2, d2, n2
  <2> QED
    BY <1>3, <1>12, <2>1, OffersGrow
<1>14. Offers(s4, Able(g), d4, n4)
  <2>1. "validation" \notin d3 /\ "RequestValidator" \notin n3
    OBVIOUS
  <2> HIDE DEF s3, d3, n3
  <2> QED
    BY <1>3, <1>13, <2>1, OffersGrow
<1>15. Offers(s5, Able(g), d5, n5)
  <2>1. "idempotency" \notin d4 /\ "IdempotencyManager" \notin n4
    OBVIOUS
  <2> HIDE DEF s4, d4, n4
  <2> QED
    BY <1>3, <1>14, <2>1, OffersGrow
<1>16. Offers(s6, Able(g), d6, n6)
  <2>1. "compression" \notin d5 /\ "CompressionProvider" \notin n5
    OBVIOUS
  <2> HIDE DEF s5, d5, n5
  <2> QED
    BY <1>3, <1>15, <2>1, OffersGrow
<1> HIDE DEF s6, d6, n6
<1> QED
  BY <1>1, <1>2, <1>16, Zenon

LEMMA EmptySequence == <<>> \in Seq({}) /\ DOMAIN <<>> = {}
  BY NoPositions

Alike(result) ==
    [specification |-> result, documentation |-> result, manifest |-> result,
     metadata |-> result, version |-> result, capabilities |-> result,
     dependencies |-> result, health |-> result]

LEMMA AllAlike ==
    \A result : \A section \in DOMAIN Alike(result) : Alike(result)[section] = result
  BY DEF Alike

\* What makes a module certified.
LEMMA FlawlessIsCertified ==
    ASSUME NEW m, m.slug, m.version, m.compatible, m.documented = TRUE,
           m.dependencies = <<>>, Policy!IsInjective(m.capabilities),
           Policy!IsInjective(m.configuration), Policy!IsInjective(m.services),
           Policy!IsInjective(m.checks), "" \notin Policy!ToSet(m.checks)
    PROVE  Policy!Certified(m)
<1>1. ~Policy!DeclaredTwice(m.dependencies) /\ m.id \notin Policy!ToSet(m.dependencies)
  <2>2. Policy!IsInjective(<<>>) /\ Policy!ToSet(<<>>) = {}
    <3>1. Policy!IsInjective(<<>>)
      BY EmptySequence, Zenon DEF Policy!IsInjective
    <3>2. Policy!ToSet(<<>>) = {}
      BY EmptySequence, Zenon DEF Policy!ToSet
    <3> QED
      BY <3>1, <3>2
  <2> QED
    BY <2>2 DEF Policy!DeclaredTwice
<1>2. Policy!Errors(m) = {}
  BY <1>1 DEF Policy!Errors, Policy!DeclaredTwice
<1>3. PICK errors : errors = Policy!Errors(m)
  BY Zenon
<1>4. Policy!Checks(m) =
        [specification |-> errors = {}, documentation |-> m.documented,
         manifest |-> "metadata" \notin errors, metadata |-> "metadata" \notin errors,
         version |-> "metadata" \notin errors, capabilities |-> "capabilities" \notin errors,
         dependencies |-> "dependencies" \notin errors, health |-> "health" \notin errors]
  BY <1>3, Zenon DEF Policy!Checks
<1>5. /\ (errors = {}) = TRUE /\ ("metadata" \notin errors) = TRUE
      /\ ("capabilities" \notin errors) = TRUE /\ ("dependencies" \notin errors) = TRUE
      /\ ("health" \notin errors) = TRUE
  BY <1>2, <1>3
<1>6. Policy!Checks(m) = Alike(TRUE)
  BY <1>4, <1>5 DEF Alike
<1>7. \A section \in DOMAIN Policy!Checks(m) : Policy!Checks(m)[section] = TRUE
  BY <1>6, AllAlike, Zenon
<1> QED
  BY <1>7, Zenon DEF Policy!Certified

LEMMA ManifestIsCertified == ASSUME NEW g PROVE Policy!Certified(Policy!BuildManifest(g))
<1> PICK services : services = Policy!Services(g)
  BY Zenon
<1>1. Policy!IsInjective(services)
  <2>1. PICK names : Offers(services, Able(g), Working, names)
    BY ServicesAreOffers
  <2>2. DOMAIN services = 1 .. Len(services)
    BY <2>1 DEF Offers, IsSequence
  <2> QED
    BY <2>1, <2>2, Zenon DEF Offers, Policy!IsInjective
<1> PICK m : m = Policy!BuildManifest(g)
  BY Zenon
<1> DEFINE capabilities == <<"api.protection", "api.rate-limit", "api.quota", "api.cors",
                             "api.versioning", "api.validation", "api.compression",
                             "api.idempotency", "api.audit">>
           configuration == <<"rate_limit_enabled", "rate_limit_requests", "rate_limit_algorithm",
                              "quotas_enabled", "cors_allow_origins", "versioning_supported",
                              "compression_enabled", "idempotency_enabled", "audit_enabled">>
           checks == <<"api.protection.ping">>
<1>2. Policy!IsInjective(capabilities)
  BY DEF Policy!IsInjective
<1>3. Policy!IsInjective(configuration)
  BY DEF Policy!IsInjective
<1>4. Policy!IsInjective(checks) /\ "" \notin Policy!ToSet(checks)
  <2>1. DOMAIN checks = {1} /\ checks[1] = "api.protection.ping"
    OBVIOUS
  <2> HIDE DEF checks
  <2> QED
    BY <2>1 DEF Policy!IsInjective, Policy!ToSet
<1> HIDE DEF capabilities, configuration, checks
<1>5. m = [id |-> "api-protection", slug |-> TRUE, version |-> TRUE, compatible |-> TRUE,
           dependencies |-> <<>>, documented |-> TRUE, capabilities |-> capabilities,
           configuration |-> configuration, services |-> services, checks |-> checks,
           events |-> Policy!API_PROTECTION_EVENTS]
  BY Zenon DEF Policy!BuildManifest, capabilities, configuration, checks
<1>6. /\ m.slug /\ m.version /\ m.compatible /\ m.documented = TRUE /\ m.dependencies = <<>>
      /\ m.capabilities = capabilities /\ m.configuration = configuration
      /\ m.services = services /\ m.checks = checks
  BY <1>5
<1>7. Policy!Certified(m)
  BY <1>1, <1>2, <1>3, <1>4, <1>6, FlawlessIsCertified
<1> QED
  BY <1>7, Zenon

LEMMA GatewayFields ==
    ASSUME NEW c
    PROVE  /\ Policy!ApiGateway(c).quotaRules = Policy!BuildQuotaRules(c)
           /\ Policy!ApiGateway(c).supported = Policy!SupportedVersions(c)
           /\ Policy!ApiGateway(c).parts = Policy!Parts(c)
  BY DEF Policy!ApiGateway

\* Whatever it is configured with, the module is built into what the rest
\* assumes.
LEMMA BuildsAsAssumed == GatewayIsBuilt => Policy!BuiltAsAssumed
<1> SUFFICES ASSUME GatewayIsBuilt, state = "serving" PROVE Policy!BuiltAsAssumed
  BY DEF Policy!BuiltAsAssumed
<1>1. PICK c : gateway = Policy!ApiGateway(c)
  BY Zenon DEF GatewayIsBuilt
<1>2. RulesAsAssumed(gateway.quotaRules)
  <2>1. gateway.quotaRules = Policy!BuildQuotaRules(c)
    BY <1>1, GatewayFields, Zenon
  <2> QED
    BY <2>1, RulesAreBuilt, Zenon
<1>3. gateway.supported # {}
  <2>1. gateway.supported = Policy!SupportedVersions(c)
    BY <1>1, GatewayFields, Zenon
  <2> QED
    BY <2>1 DEF Policy!SupportedVersions
<1>4. Policy!Certified(Policy!BuildManifest(gateway))
  BY ManifestIsCertified
<1>5. Len(Policy!Services(gateway)) =
        1 + Cardinality(gateway.parts \ ({"cors", "versioning"} \cup
                IF gateway.providers = <<>> THEN {"compression"} ELSE {}))
  <2>1. PICK names : Offers(Policy!Services(gateway), Able(gateway), Working, names)
    BY ServicesAreOffers
  <2>2. gateway.parts \subseteq Working \cup {"cors", "versioning"}
    <3>1. gateway.parts = Policy!Parts(c)
      BY <1>1, GatewayFields, Zenon
    <3>2. Policy!ToSet(Policy!MIDDLEWARE_ORDER) \subseteq Working \cup {"cors", "versioning"}
      BY DEF Policy!ToSet, Policy!MIDDLEWARE_ORDER, Working
    <3>3. Policy!Parts(c) \subseteq Policy!ToSet(Policy!MIDDLEWARE_ORDER)
      BY Zenon DEF Policy!Parts
    <3> QED
      BY <3>1, <3>2, <3>3
  <2>3. Able(gateway) \cap Working =
          gateway.parts \ ({"cors", "versioning"} \cup
              IF gateway.providers = <<>> THEN {"compression"} ELSE {})
    BY <2>2 DEF Able, Working
  <2> QED
    BY <2>1, <2>3, Zenon DEF Offers
<1>6. \A S : Policy!Cardinality(S) = Cardinality(S)
  BY DEF Policy!Cardinality, Policy!IsFiniteSet, Cardinality, IsFiniteSet
<1> QED
  BY <1>2, <1>3, <1>4, <1>5, <1>6, Zenon DEF Policy!BuiltAsAssumed, RulesAsAssumed

-----------------------------------------------------------------------------
(* The theorems.                                                           *)

\* Whatever the values, an application that starts is built into what the
\* other modules assume of it.
THEOREM BuildHolds == Policy!Spec => []BuiltAsAssumed
<1>1. Policy!Init => GatewayIsBuilt
  BY DEF Policy!Init, GatewayIsBuilt
<1>2. GatewayIsBuilt => BuiltAsAssumed
  BY BuildsAsAssumed DEF BuiltAsAssumed
<1> QED
  BY <1>1, <1>2, GatewayStep, PTL DEF Policy!Spec

\* The client of a request is the one that the trusted proxies vouch for.
THEOREM ClientHolds == Policy!Spec => []ClientIsVouchedFor
<1>1. PolicyInv => ClientIsVouchedFor
  BY ClientIsVouched DEF ClientIsVouchedFor
<1>2. Policy!Spec => []PolicyInv
  BY PolicyInvariant
<1> QED
  BY <1>1, <1>2, PTL

\* Versions and encodings are what the request asked for.
THEOREM NegotiationHolds == Policy!Spec => []NegotiatedAsAsked
<1>1. PolicyInv => NegotiatedAsAsked
  BY NegotiatesAsAsked DEF NegotiatedAsAsked
<1>2. Policy!Spec => []PolicyInv
  BY PolicyInvariant
<1> QED
  BY <1>1, <1>2, PTL

\* A grant of CORS is of the origin that was granted, and of no other.
THEOREM GrantHolds == Policy!Spec => []GrantsStayWithTheirOrigin
<1>1. PolicyInv => GrantsStayWithTheirOrigin
  BY GrantsStay DEF GrantsStayWithTheirOrigin
<1>2. Policy!Spec => []PolicyInv
  BY PolicyInvariant
<1> QED
  BY <1>1, <1>2, PTL
=============================================================================
