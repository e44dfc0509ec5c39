-------------------------------- MODULE Quota --------------------------------
(***************************************************************************)
(* Consumption quotas of one TEAF process: QuotaMiddleware in front of a   *)
(* QuotaManager over an InMemoryQuotaStore.                                *)
(*                                                                         *)
(* The in-memory store takes an asyncio.Lock around bodies that contain no *)
(* await, so no coroutine can run between the first rule of a consume()    *)
(* and its last one: consume() and release() are each one atomic step, and *)
(* the only suspension point is call_next, while a request is "running".   *)
(* One step reads the wall clock once; Tick lets it advance in between.    *)
(*                                                                         *)
(* Rules have distinct names (a store key starts with the rule's name), so *)
(* two rules never share a counter.                                        *)
(***************************************************************************)
EXTENDS Integers, FiniteSets

CONSTANTS
    Request,        \* slots a client sends requests from, one at a time
    Tenant,         \* values of the scope key (ProtectionScope)
    TenantOf,       \* TenantOf[r]: the scope key of r's requests
    Bytes,          \* Bytes[r]: request_bytes of r's requests
    NRules,         \* number of quota rules; rule 1 is evaluated first
    Kind,           \* Kind[i]: QuotaKind of rule i
    Limit,          \* Limit[i]: its limit
    Window,         \* Window[i]: period_seconds of its period, in ticks
    PurgeInterval,  \* _PURGE_INTERVAL_WRITES
    Resets,         \* the tenants support may call QuotaManager.reset for
    MaxTime         \* bound of the clock, in ticks

Rule == 1 .. NRules
QuotaKind == {"requests", "bandwidth", "payload", "concurrent"}

ASSUME QuotaAssumption ==
    /\ IsFiniteSet(Request)
    /\ TenantOf \in [Request -> Tenant]
    /\ Bytes \in [Request -> Nat]
    /\ NRules \in Nat
    /\ Kind \in [Rule -> QuotaKind]
    /\ Limit \in [Rule -> Nat]
    /\ Window \in [Rule -> Nat \ {0}]
    /\ PurgeInterval \in Nat \ {0}
    /\ NRules <= PurgeInterval
    /\ Resets \subseteq Tenant
    /\ MaxTime \in Nat

VARIABLES
    clock,      \* time.time(), in ticks
    entries,    \* InMemoryQuotaStore._entries
    writes,     \* InMemoryQuotaStore._writes_since_purge
    running,    \* the slots whose request is inside call_next
    admitted    \* history: what the admitted requests consumed, per key

vars == <<clock, entries, writes, running, admitted>>

-----------------------------------------------------------------------------
(* Keys and store entries.                                                 *)

Accumulates(i) == Kind[i] \in {"requests", "bandwidth"}
Concurrent(i) == Kind[i] = "concurrent"
Stored(i) == Kind[i] # "payload"

Key == Rule \X Tenant \X (0 .. MaxTime)

WindowIndex(i, now) == IF Accumulates(i) THEN now \div Window[i] ELSE 0

BuildQuotaKey(i, t, now) == <<i, t, WindowIndex(i, now)>>

KeyOf(i, r) == BuildQuotaKey(i, TenantOf[r], clock)

\* An entry is (total, expires_at); expires_at is positive, so 0 marks absence.
Entry == [total : Nat, expires : Nat]
NoEntry == [total |-> 0, expires |-> 0]

Live(e, now) == e.expires > now
Read(e, now) == IF Live(e, now) THEN e.total ELSE 0

\* What store.consume leaves: the first write of a window fixes its expiry.
Consumed(e, amount, ttl, now) ==
    [total   |-> Read(e, now) + amount,
     expires |-> IF Live(e, now) THEN e.expires ELSE now + ttl]

\* What store.release leaves: no expiry check, floored at 0, expiry kept.
Released(e, amount) ==
    [e EXCEPT !.total = IF e.total > amount THEN e.total - amount ELSE 0]

\* Mutant: the sweep clears the store.
PurgedEverything(f, now) == [k \in Key |-> NoEntry]

\* purge_expired: every expired entry goes.
Purged(f, now) == [k \in Key |-> IF Live(f[k], now) THEN f[k] ELSE NoEntry]

-----------------------------------------------------------------------------
(* QuotaManager.consume: rules in order, up to the first one that denies.  *)

Amount(i, r) == IF Kind[i] \in {"bandwidth", "payload"} THEN Bytes[r] ELSE 1

Admits(i, r) ==
    LET before == IF Stored(i) THEN Read(entries[KeyOf(i, r)], clock) ELSE 0
    IN  before + Amount(i, r) <= Limit[i]

\* The entry of rule i after it admitted r.
Charged(i, r) ==
    Consumed(entries[KeyOf(i, r)], Amount(i, r), Window[i], clock)

\* Mutant: a denial resets the counter instead of releasing the amount.
UndoneByReset(i, r) == NoEntry

\* The entry of rule i after it denied r: consumed, then released again.
Undone(i, r) == Released(Charged(i, r), Amount(i, r))

\* The keys of the first n rules for r, each with its entry after the rule.
Written(r, n, after) ==
    [k \in Key |-> IF /\ k[1] \in 1 .. n /\ Stored(k[1])
                      /\ k = KeyOf(k[1], r)
                   THEN after[k[1]] ELSE entries[k]]

\* n rules were consulted: each write counts towards the next sweep.
Persist(written, n) ==
    LET count == writes + Cardinality({i \in 1 .. n : Stored(i)})
    IN  IF count >= PurgeInterval
        THEN entries' = Purged(written, clock) /\ writes' = count - PurgeInterval
        ELSE entries' = written /\ writes' = count

-----------------------------------------------------------------------------
(* Actions.                                                                *)

Init ==
    /\ clock = 0
    /\ entries = [k \in Key |-> NoEntry]
    /\ writes = 0
    /\ running = {}
    /\ admitted = [k \in Key |-> 0]

\* dispatch: every rule admits the request, and call_next starts.
Accept(r) ==
    /\ r \notin running
    /\ \A i \in Rule : Admits(i, r)
    /\ Persist(Written(r, NRules, [i \in Rule |-> Charged(i, r)]), NRules)
    /\ running' = running \cup {r}
    /\ admitted' = [k \in Key |->
                      IF Stored(k[1]) /\ k = KeyOf(k[1], r)
                      THEN admitted[k] + Amount(k[1], r) ELSE admitted[k]]
    /\ UNCHANGED clock

\* dispatch: rule d is the first one to deny; the rules before it stay charged.
Reject(r, d) ==
    /\ r \notin running
    /\ \A i \in 1 .. d - 1 : Admits(i, r)
    /\ ~Admits(d, r)
    /\ Persist(Written(r, d, [i \in Rule |-> IF i = d THEN Undone(i, r)
                                             ELSE Charged(i, r)]), d)
    /\ UNCHANGED <<clock, running, admitted>>

\* Mutant: no finally, so a request whose endpoint raises releases nothing.
FinishWithoutFinally(r) ==
    /\ r \in running
    /\ running' = running \ {r}
    /\ \E raised \in BOOLEAN :
          entries' = [k \in Key |->
                        IF ~raised /\ Concurrent(k[1]) /\ k = KeyOf(k[1], r)
                        THEN Released(entries[k], 1) ELSE entries[k]]
    /\ UNCHANGED <<clock, writes, admitted>>

\* The finally of dispatch, reached by a return and by an exception alike.
Finish(r) ==
    /\ r \in running
    /\ running' = running \ {r}
    /\ entries' = [k \in Key |->
                     IF Concurrent(k[1]) /\ k = KeyOf(k[1], r)
                     THEN Released(entries[k], 1) ELSE entries[k]]
    /\ UNCHANGED <<clock, writes, admitted>>

\* QuotaManager.usage: peeking a key drops it when it has expired.
Usage(t) ==
    /\ entries' = [k \in Key |->
                     IF Stored(k[1]) /\ k = BuildQuotaKey(k[1], t, clock)
                        /\ ~Live(entries[k], clock)
                     THEN NoEntry ELSE entries[k]]
    /\ UNCHANGED <<clock, writes, running, admitted>>

\* QuotaManager.reset: support clears the current keys of a tenant.
Reset(t) ==
    /\ t \in Resets
    /\ entries' = [k \in Key |-> IF k = BuildQuotaKey(k[1], t, clock)
                                 THEN NoEntry ELSE entries[k]]
    /\ admitted' = [k \in Key |-> IF k = BuildQuotaKey(k[1], t, clock)
                                  THEN 0 ELSE admitted[k]]
    /\ UNCHANGED <<clock, writes, running>>

Tick ==
    /\ clock < MaxTime
    /\ clock' = clock + 1
    /\ UNCHANGED <<entries, writes, running, admitted>>

Next ==
    \/ \E r \in Request : Accept(r)
    \/ \E r \in Request, d \in Rule : Reject(r, d)
    \/ \E r \in Request : Finish(r)
    \/ \E t \in Tenant : Usage(t)
    \/ \E t \in Tenant : Reset(t)
    \/ Tick

Spec == Init /\ [][Next]_vars

-----------------------------------------------------------------------------
(* Properties.                                                             *)

InFlight(t) == Cardinality({r \in running : TenantOf[r] = t})

Counter(i, t) == Read(entries[BuildQuotaKey(i, t, clock)], clock)

\* Every variable stays in its range.
TypeOK ==
    /\ clock \in 0 .. MaxTime
    /\ entries \in [Key -> Entry]
    /\ writes \in 0 .. PurgeInterval - 1
    /\ running \in SUBSET Request
    /\ admitted \in [Key -> Nat]

\* No counter ever rests above its limit: a rejected consumption is undone in
\* the same step (_consume_rule), whatever order requests, expiries, releases
\* and resets come in.
StoredWithinLimit == \A k \in Key : entries[k].total <= Limit[k[1]]

\* What the admitted requests of a tenant consume in one window never exceeds
\* the quota, although the counter is dropped by a TTL that starts with the
\* first request of the window and not with the window itself.
AdmittedWithinQuota ==
    \A k \in Key : Accumulates(k[1]) => admitted[k] <= Limit[k[1]]

\* A concurrency counter never shows more requests than are in flight: what
\* consume() takes is given back by the finally of QuotaMiddleware.
NoPhantomRequests ==
    \A i \in Rule, t \in Tenant : Concurrent(i) => Counter(i, t) <= InFlight(t)

\* Until a period has passed since start-up, the concurrency quota admits no
\* more than its limit of simultaneous requests of a tenant nobody resets.
ConcurrencyLimitBeforeExpiry ==
    \A i \in Rule, t \in Tenant \ Resets :
        Concurrent(i) /\ clock < Window[i] => InFlight(t) <= Limit[i]

\* A rule that rejects a request leaves the consumption it shows unchanged.
RejectingRuleUncharged ==
    [][\A r \in Request, d \in Rule :
         Reject(r, d) => Counter(d, TenantOf[r])' = Counter(d, TenantOf[r])]_vars

=============================================================================
