------------------------------ MODULE RateLimit ------------------------------
(***************************************************************************)
(* Rate limiting in one TEAF process: RateLimitMiddleware in front of a    *)
(* RateLimiter over an InMemoryRateLimitStore, with the four algorithms.   *)
(*                                                                         *)
(* The store's asyncio.Lock is never contended (no body awaits anything),  *)
(* so acquire() and inspect() run without suspension: each is one step,    *)
(* and call_next, while a request is "running", is what separates them.    *)
(*                                                                         *)
(* The rules are those that apply to every request: endpoint and role      *)
(* filters only choose which rules a request meets. Their names differ, so *)
(* no two of them share a key. The clock does not go backwards. Bucket     *)
(* levels are kept in units of 1 / Window[i] requests, which makes exact   *)
(* integers of the floats of the code.                                     *)
(***************************************************************************)
EXTENDS Integers, Sequences, FiniteSets

CONSTANTS
    Request,        \* slots a client sends requests from, one at a time
    Client,         \* values of the scope key
    ClientOf,       \* ClientOf[r]: the scope key of r's requests
    NRules,         \* number of rules; rule 1 is evaluated first
    Algorithm,      \* Algorithm[i]: RateLimitAlgorithm of rule i
    Limit,          \* Limit[i]: requests per window
    Window,         \* Window[i]: window_seconds, in ticks
    Capacity,       \* Capacity[i]: burst, or limit without one
    Second,         \* ticks in one second
    PurgeInterval,  \* _PURGE_INTERVAL_WRITES
    MaxTime,        \* bound of the clock, in ticks
    MaxRefused      \* bound on the refusals a fixed window counts

Rule == 1 .. NRules
Key == Rule \X Client
RateLimitAlgorithm ==
    {"fixed_window", "sliding_window", "token_bucket", "leaky_bucket"}

ASSUME RateLimitAssumption ==
    /\ IsFiniteSet(Request)
    /\ ClientOf \in [Request -> Client]
    /\ NRules \in Nat
    /\ Algorithm \in [Rule -> RateLimitAlgorithm]
    /\ Limit \in [Rule -> Nat \ {0}]
    /\ Window \in [Rule -> Nat \ {0}]
    /\ Capacity \in [Rule -> Nat \ {0}]
    /\ Second \in Nat \ {0}
    /\ PurgeInterval \in Nat \ {0}
    /\ NRules <= PurgeInterval
    /\ MaxTime \in Nat
    /\ MaxRefused \in Nat

VARIABLES
    clock,      \* time.time(), in ticks
    entries,    \* InMemoryRateLimitStore._entries
    writes,     \* InMemoryRateLimitStore._writes_since_purge
    status,     \* status[r]: where the request of slot r is
    headers,    \* headers[r]: the last X-RateLimit-* and Retry-After of r
    accepted    \* history: when each client's requests were accepted

vars == <<clock, entries, writes, status, headers, accepted>>

-----------------------------------------------------------------------------
(* RateLimitState and the store.                                           *)

\* units and at hold count and window_start, or tokens and updated_at;
\* expires is positive in every entry, so 0 marks absence.
Entry == [units : Nat, at : Nat, stamps : Seq(Nat), expires : Nat]
NoEntry == [units |-> 0, at |-> 0, stamps |-> <<>>, expires |-> 0]

Live(e, now) == e.expires > now

Larger(a, b) == IF a > b THEN a ELSE b
Smaller(a, b) == IF a < b THEN a ELSE b
CeilDiv(a, b) == (a + b - 1) \div b

\* Mutant: the state lives for half of what the algorithm asks for.
TtlTooShort(i) ==
    IF Algorithm[i] \in {"fixed_window", "sliding_window"}
    THEN CeilDiv(Larger(Window[i], Second), 2)
    ELSE CeilDiv(Larger(Capacity[i] * Window[i], Second * Limit[i]), 2 * Limit[i])

\* ttl_seconds, in ticks: twice the window, or twice the time to fill up.
Ttl(i) ==
    IF Algorithm[i] \in {"fixed_window", "sliding_window"}
    THEN 2 * Larger(Window[i], Second)
    ELSE CeilDiv(2 * Larger(Capacity[i] * Window[i], Second * Limit[i]), Limit[i])

-----------------------------------------------------------------------------
(* The four algorithms: the state after a request of a given cost, whether *)
(* it is allowed, what remains, and the wait after a refusal in units of   *)
(* 1 / Rate(i) ticks.                                                      *)

Rate(i) == IF Algorithm[i] \in {"fixed_window", "sliding_window"} THEN 1 ELSE Limit[i]

WindowStart(i, now) == now - (now % Window[i])

Counted(i, e, now) ==
    IF Live(e, now) /\ e.at = WindowStart(i, now) THEN e.units ELSE 0

FixedWindow(i, e, now, cost) ==
    LET count == Counted(i, e, now) + cost
    IN  [allowed   |-> count <= Limit[i],
         state     |-> [units |-> count, at |-> WindowStart(i, now),
                        stamps |-> <<>>, expires |-> now + Ttl(i)],
         remaining |-> Larger(0, Limit[i] - count),
         wait      |-> WindowStart(i, now) + Window[i] - now]

\* The stamps that are still in the window. They are in order, so the others
\* come first.
Within(stamps, window, now) ==
    LET left == {j \in 1 .. Len(stamps) : stamps[j] + window <= now}
    IN  SubSeq(stamps, Cardinality(left) + 1, Len(stamps))

\* Mutant: a stamp leaves the window one tick early.
KeptTooBriefly(i, e, now) ==
    IF Live(e, now) THEN Within(e.stamps, Window[i], now + 1) ELSE <<>>

Kept(i, e, now) ==
    IF Live(e, now) THEN Within(e.stamps, Window[i], now) ELSE <<>>

SlidingWindow(i, e, now, cost) ==
    LET kept    == Kept(i, e, now)
        units   == Larger(1, cost)
        allowed == Len(kept) + units <= Limit[i]
        stamps  == IF allowed THEN kept \o [j \in 1 .. units |-> now] ELSE kept
        excess  == Len(kept) + units - Limit[i]
    IN  [allowed   |-> allowed,
         state     |-> [units |-> 0, at |-> now, stamps |-> stamps,
                        expires |-> now + Ttl(i)],
         remaining |-> Larger(0, Limit[i] - Len(stamps)),
         wait      |-> IF ~allowed /\ kept # <<>>
                       THEN kept[Smaller(excess, Len(kept))] + Window[i] - now
                       ELSE 0]

Full(i) == Capacity[i] * Window[i]

Tokens(i, e, now) ==
    IF Live(e, now) THEN Smaller(Full(i), e.units + (now - e.at) * Limit[i])
                    ELSE Full(i)

TokenBucket(i, e, now, cost) ==
    LET tokens  == Tokens(i, e, now)
        need    == cost * Window[i]
        allowed == tokens >= need
        left    == IF allowed THEN tokens - need ELSE tokens
    IN  [allowed   |-> allowed,
         state     |-> [units |-> left, at |-> now, stamps |-> <<>>,
                        expires |-> now + Ttl(i)],
         remaining |-> left \div Window[i],
         wait      |-> IF allowed THEN 0 ELSE need - left]

Level(i, e, now) ==
    IF Live(e, now) THEN Larger(0, e.units - (now - e.at) * Limit[i]) ELSE 0

LeakyBucket(i, e, now, cost) ==
    LET level   == Level(i, e, now)
        need    == cost * Window[i]
        allowed == level + need <= Full(i)
        after   == IF allowed THEN level + need ELSE level
    IN  [allowed   |-> allowed,
         state     |-> [units |-> after, at |-> now, stamps |-> <<>>,
                        expires |-> now + Ttl(i)],
         remaining |-> Larger(0, Full(i) - after) \div Window[i],
         wait      |-> IF allowed THEN 0 ELSE level + need - Full(i)]

Evaluate(i, e, now, cost) ==
    CASE Algorithm[i] = "fixed_window"   -> FixedWindow(i, e, now, cost)
      [] Algorithm[i] = "sliding_window" -> SlidingWindow(i, e, now, cost)
      [] Algorithm[i] = "token_bucket"   -> TokenBucket(i, e, now, cost)
      [] Algorithm[i] = "leaky_bucket"   -> LeakyBucket(i, e, now, cost)

\* Mutant: whole seconds, rounded down.
RetryAfterRoundedDown(i, wait) == Larger(1, wait \div (Rate(i) * Second))

\* Retry-After of a refusal: whole seconds, rounded up, at least one.
RetryAfter(i, wait) == Larger(1, CeilDiv(wait, Rate(i) * Second))

-----------------------------------------------------------------------------
(* RateLimiter.acquire, RateLimiter.inspect and the store's writes.        *)

KeyOf(i, r) == <<i, ClientOf[r]>>

Decision(i, r) == Evaluate(i, entries[KeyOf(i, r)], clock, 1)

\* get() drops an expired entry of the keys that r's rules read.
Got(r, n) ==
    [k \in Key |-> IF k[1] <= n /\ k[2] = ClientOf[r] /\ ~Live(entries[k], clock)
                   THEN NoEntry ELSE entries[k]]

\* A refusal is stored by a fixed window only.
PutAfter(i, r) == Decision(i, r).allowed \/ Algorithm[i] = "fixed_window"

\* The first n rules were evaluated; each put counts towards the next sweep.
Persist(r, n) ==
    LET put     == {i \in 1 .. n : PutAfter(i, r)}
        written == [k \in Key |-> IF k[1] \in put /\ k[2] = ClientOf[r]
                                  THEN Decision(k[1], r).state ELSE Got(r, n)[k]]
        count   == writes + Cardinality(put)
    IN  IF count >= PurgeInterval
        THEN /\ entries' = [k \in Key |-> IF Live(written[k], clock)
                                          THEN written[k] ELSE NoEntry]
             /\ writes' = count - PurgeInterval
        ELSE entries' = written /\ writes' = count

Headers == [remaining : Nat, refused : BOOLEAN, retry : Nat]
NoHeaders == [remaining |-> 0, refused |-> FALSE, retry |-> 0]

\* rate_limit_headers of a decision of rule i.
RateLimitHeaders(i, d) ==
    [remaining |-> d.remaining,
     refused   |-> ~d.allowed,
     retry     |-> IF d.allowed THEN 0 ELSE RetryAfter(i, d.wait)]

Inspected(i, r) == Evaluate(i, entries[KeyOf(i, r)], clock, 0)

\* The rule with the least remaining, the first of those on a tie.
Tightest(r) ==
    CHOOSE i \in Rule : \A j \in Rule :
        \/ Inspected(i, r).remaining < Inspected(j, r).remaining
        \/ Inspected(i, r).remaining = Inspected(j, r).remaining /\ i <= j

-----------------------------------------------------------------------------
(* Actions.                                                                *)

Init ==
    /\ clock = 0
    /\ entries = [k \in Key |-> NoEntry]
    /\ writes = 0
    /\ status = [r \in Request |-> "idle"]
    /\ headers = [r \in Request |-> NoHeaders]
    /\ accepted = [c \in Client |-> <<>>]

\* dispatch: every rule allows the request, and call_next starts.
Accept(r) ==
    /\ status[r] # "running"
    /\ \A i \in Rule : Decision(i, r).allowed
    /\ Persist(r, NRules)
    /\ status' = [status EXCEPT ![r] = "running"]
    /\ accepted' = [accepted EXCEPT ![ClientOf[r]] = Append(@, clock)]
    /\ UNCHANGED <<clock, headers>>

\* dispatch: rule d is the first to refuse; the rules before it stay charged.
Reject(r, d) ==
    /\ status[r] # "running"
    /\ Algorithm[d] = "fixed_window" =>
          Counted(d, entries[KeyOf(d, r)], clock) < Limit[d] + MaxRefused
    /\ \A i \in 1 .. d - 1 : Decision(i, r).allowed
    /\ ~Decision(d, r).allowed
    /\ Persist(r, d)
    /\ status' = [status EXCEPT ![r] = "rejected"]
    /\ headers' = [headers EXCEPT ![r] = RateLimitHeaders(d, Decision(d, r))]
    /\ UNCHANGED <<clock, accepted>>

\* call_next returned: inspect() at cost 0, and the headers of one rule.
Respond(r) ==
    /\ status[r] = "running"
    /\ status' = [status EXCEPT ![r] = "idle"]
    /\ headers' = [headers EXCEPT ![r] =
                     IF NRules = 0 THEN NoHeaders
                     ELSE RateLimitHeaders(Tightest(r), Inspected(Tightest(r), r))]
    /\ entries' = Got(r, NRules)
    /\ UNCHANGED <<clock, writes, accepted>>

\* call_next raised: the request ends without headers.
Fail(r) ==
    /\ status[r] = "running"
    /\ status' = [status EXCEPT ![r] = "idle"]
    /\ headers' = [headers EXCEPT ![r] = NoHeaders]
    /\ UNCHANGED <<clock, entries, writes, accepted>>

\* RateLimiter.reset.
Reset(c) ==
    /\ entries' = [k \in Key |-> IF k[2] = c THEN NoEntry ELSE entries[k]]
    /\ accepted' = [accepted EXCEPT ![c] = <<>>]
    /\ UNCHANGED <<clock, writes, status, headers>>

\* ApiProtectionModule.stop sweeps the store, whatever was written since.
PurgeExpired ==
    /\ entries' = [k \in Key |-> IF Live(entries[k], clock) THEN entries[k] ELSE NoEntry]
    /\ writes' = 0
    /\ UNCHANGED <<clock, status, headers, accepted>>

Tick ==
    /\ clock < MaxTime
    /\ clock' = clock + 1
    /\ UNCHANGED <<entries, writes, status, headers, accepted>>

Next ==
    \/ \E r \in Request : Accept(r) \/ Respond(r) \/ Fail(r)
    \/ \E r \in Request, d \in Rule : Reject(r, d)
    \/ \E c \in Client : Reset(c)
    \/ PurgeExpired
    \/ Tick

Spec == Init /\ [][Next]_vars

-----------------------------------------------------------------------------
(* The meters this limiter implements.                                     *)

\* The load that an entry of rule i stands for, as the algorithm would see it.
LoadOf(i, e, now) ==
    CASE Algorithm[i] = "fixed_window" -> Smaller(Limit[i], Counted(i, e, now))
      [] Algorithm[i] = "sliding_window" -> Kept(i, e, now)
      [] Algorithm[i] = "token_bucket" -> Full(i) - Tokens(i, e, now)
      [] Algorithm[i] = "leaky_bucket" -> Level(i, e, now)

Load(i, c) == LoadOf(i, entries[<<i, c>>], clock)

Meter == INSTANCE RateMeter WITH load <- [k \in Key |-> Load(k[1], k[2])]

-----------------------------------------------------------------------------
(* Properties.                                                             *)

\* Every variable stays in its range.
TypeOK ==
    /\ clock \in 0 .. MaxTime
    /\ entries \in [Key -> Entry]
    /\ writes \in 0 .. PurgeInterval - 1
    /\ status \in [Request -> {"idle", "running", "rejected"}]
    /\ headers \in [Request -> Headers]
    /\ accepted \in [Client -> Seq(0 .. MaxTime)]

\* The number of c's requests accepted from tick a to tick b.
AcceptedIn(c, a, b) ==
    Cardinality({j \in 1 .. Len(accepted[c]) : accepted[c][j] \in a .. b})

\* A fixed window lets at most Limit requests through in each aligned window,
\* and so at most twice as many in any interval of that length.
FixedWindowBound ==
    \A i \in Rule, c \in Client : Algorithm[i] = "fixed_window" =>
        \A a \in 0 .. clock :
            a % Window[i] = 0 => AcceptedIn(c, a, a + Window[i] - 1) <= Limit[i]

\* A sliding window never lets more than Limit requests through in any
\* interval of window_seconds (SlidingWindowAlgorithm, docstring).
SlidingWindowBound ==
    \A i \in Rule, c \in Client : Algorithm[i] = "sliding_window" =>
        \A a \in 0 .. clock : AcceptedIn(c, a, a + Window[i] - 1) <= Limit[i]

\* A bucket lets through, in any interval, its capacity and what flowed in or
\* out meanwhile: the burst and the sustained rate of TokenBucketAlgorithm and
\* LeakyBucketAlgorithm.
BucketBound ==
    \A i \in Rule, c \in Client :
        Algorithm[i] \in {"token_bucket", "leaky_bucket"} =>
            \A a \in 0 .. clock : \A b \in a .. clock :
                AcceptedIn(c, a, b) * Window[i] <= Full(i) + (b - a) * Limit[i]

\* The rule that refused a request would accept it once its Retry-After has
\* passed, were it left alone, and not a second earlier (retry_after_seconds).
RetryAfterIsExact ==
    [][\A r \in Request, d \in Rule :
         Reject(r, d) =>
           LET e     == entries'[KeyOf(d, r)]
               until == clock + headers'[r].retry * Second
           IN  /\ Evaluate(d, e, until, 1).allowed
               /\ \/ headers'[r].retry = 1
                  \/ ~Evaluate(d, e, until - Second, 1).allowed]_vars

\* The requests that rule i would still accept from c now.
Room(i, c) ==
    CASE Algorithm[i] = "fixed_window" -> Limit[i] - Load(i, c)
      [] Algorithm[i] = "sliding_window" -> Limit[i] - Len(Load(i, c))
      [] OTHER -> (Full(i) - Load(i, c)) \div Window[i]

\* What inspect() of rule i takes although its cost is 0: a sliding window
\* counts max(1, cost) requests.
Probe(i) == IF Algorithm[i] = "sliding_window" THEN 1 ELSE 0

\* X-RateLimit-Remaining of an accepted request promises no more requests than
\* any rule has left (docs/api/RATE-LIMITING.md, section 4), whatever other
\* requests did during call_next, and exactly what the tightest rule has left,
\* less the one that inspect() of a sliding window takes.
RemainingIsExact ==
    [][\A r \in Request : Respond(r) /\ Rule # {} =>
         /\ \A i \in Rule : headers'[r].remaining <= Room(i, ClientOf[r])
         /\ \E i \in Rule :
               headers'[r].remaining = Larger(0, Room(i, ClientOf[r]) - Probe(i))]_vars

\* Whatever requests overlap and whatever expires or is swept in between, no
\* algorithm lets more through than its rule says.
AdmittedWithinRate == FixedWindowBound /\ SlidingWindowBound /\ BucketBound

\* What the client is told of the limit, in a refusal or after call_next, is
\* true of the entries as they are at that moment.
AnswersAreExact == RetryAfterIsExact /\ RemainingIsExact

\* Lazy evaluation, expiry, sweeps and the counting of refusals are invisible:
\* each rule behaves as a meter that drains by itself and never forgets.
ImplementsMeter == Meter!Spec

=============================================================================
