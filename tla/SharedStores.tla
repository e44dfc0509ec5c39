---------------------------- MODULE SharedStores ----------------------------
(***************************************************************************)
(* One key of a store that several replicas share: a concurrency quota in  *)
(* RedisQuotaStore, or a fixed window in RedisRateLimitStore               *)
(* (api/providers/redis.py), over a CacheProvider (providers/cache).       *)
(*                                                                         *)
(* Each call of the provider is atomic, and between two calls of a request *)
(* the calls of others may fall: what one process does in a step of Quota  *)
(* or RateLimit takes several here. A call may raise, after it took effect *)
(* too, and a replica may stop: both end the request where it is. Time is  *)
(* in ticks, the same for the replicas and the store.                      *)
(***************************************************************************)
EXTENDS Integers, FiniteSets

CONSTANTS
    Request,   \* requests of the replicas, one key for all
    Limit,     \* limit of the rule
    Window,    \* its window, in ticks
    MaxTime,   \* bound on the clock
    MaxCount,  \* bound on what is counted: refusals and lost releases may add up
    MaxLost    \* bound on the quota requests lost

ASSUME SharedStoresAssumption ==
    /\ Limit \in Nat \ {0} /\ Window \in Nat \ {0} /\ MaxTime \in Nat
    /\ MaxCount \in Nat /\ MaxLost \in Nat

VARIABLES
    rule,        \* "quota" or "rate": what the key counts
    clock,
    entry,       \* what the cache holds under the key
    at,          \* at[r]: where request r is
    seen,        \* seen[r]: the count r read last, and the window it is of
    left,        \* left[r]: the remaining TTL r read, or None
    overlapped,  \* history: two requests were inside the store at once
    raced,       \* history: a release found no TTL, then a live counter
    lost,        \* history: quota requests that ended without their release
    accepted     \* history: accepted[w]: requests the fixed window w took, up to Limit + 1

vars == <<rule, clock, entry, at, seen, left, overlapped, raced, lost, accepted>>

-----------------------------------------------------------------------------
(* CacheProvider: set, get and ttl of one key.                             *)

Never == MaxTime + 2 * Window + 1   \* the expiry of a key without one
None == -1                          \* ttl() of such a key, and of none

Entry == [count : Nat, start : 0 .. MaxTime, expires : 0 .. Never]
Absent == [count |-> 0, start |-> 0, expires |-> 0]

Nothing == [count |-> 0, start |-> 0]

Live(e) == e.expires > clock

\* get: nothing once the key has expired.
Got == IF Live(entry) THEN entry ELSE Absent

\* set; a ttl of 0 deletes the key.
Set(count, start, ttl) ==
    [count |-> count, start |-> start,
     expires |-> IF ttl = None THEN Never ELSE clock + ttl]

\* ttl: None for no key, and for a key without expiry.
Ttl == IF ~Live(entry) \/ entry.expires = Never THEN None ELSE entry.expires - clock

-----------------------------------------------------------------------------

Inside == {"read", "denied", "releasing", "giving"}
Alone == \A r \in Request : at[r] \notin Inside
Running == {r \in Request : at[r] = "running"}

\* The window the count of an entry is of.
WindowStart(now) == now - (now % Window)
Counted(e) == IF rule = "quota" \/ e.start = WindowStart(clock) THEN e.count ELSE 0

Windows == {w \in 0 .. MaxTime : w % Window = 0}

TypeOK ==
    /\ rule \in {"quota", "rate"}
    /\ clock \in 0 .. MaxTime
    /\ entry \in Entry
    /\ \A r \in Request :
         /\ at[r] \in Inside \cup {"idle", "running"}
         /\ seen[r] \in [count : Nat, start : 0 .. MaxTime]
         /\ left[r] \in {None} \cup 1 .. Window
    /\ overlapped \in BOOLEAN /\ raced \in BOOLEAN
    /\ lost \in 0 .. MaxLost
    /\ accepted \in [Windows -> 0 .. Limit + 1]
    /\ rule = "rate" => Running = {} /\ lost = 0 /\ ~raced

Init ==
    /\ rule \in {"quota", "rate"}
    /\ clock = 0
    /\ entry = Absent
    /\ at = [r \in Request |-> "idle"]
    /\ seen = [r \in Request |-> Nothing]
    /\ left = [r \in Request |-> None]
    /\ overlapped = FALSE /\ raced = FALSE /\ lost = 0
    /\ accepted = [w \in Windows |-> 0]

Moved(r, to) == at' = [at EXCEPT ![r] = to]

\* peek of consume, and get of RateLimiter._evaluate.
Read(r) ==
    /\ at[r] = "idle"
    /\ Moved(r, "read")
    /\ seen' = [seen EXCEPT ![r] = [count |-> Counted(Got), start |-> WindowStart(clock)]]
    /\ overlapped' = (overlapped \/ ~Alone)
    /\ UNCHANGED <<rule, clock, entry, left, raced, lost, accepted>>

\* Mutant: a consumption that is denied is not given back.
DeniedKept == "idle"

Denied == "denied"

\* set of consume: the TTL starts anew with every consumption, a denied one too.
Consume(r) ==
    /\ rule = "quota" /\ at[r] = "read"
    /\ seen[r].count < MaxCount
    /\ entry' = Set(seen[r].count + 1, 0, Window)
    /\ Moved(r, IF seen[r].count + 1 <= Limit THEN "running" ELSE Denied)
    /\ seen' = [seen EXCEPT ![r] = Nothing]
    /\ UNCHANGED <<rule, clock, left, overlapped, raced, lost, accepted>>

\* release of a denied consumption, or in the finally of QuotaMiddleware: ttl,
Release(r) ==
    /\ at[r] \in {"denied", "running"}
    /\ Moved(r, "releasing")
    /\ left' = [left EXCEPT ![r] = Ttl]
    /\ overlapped' = (overlapped \/ \E s \in Request \ {r} : at[s] \in Inside)
    /\ UNCHANGED <<rule, clock, entry, seen, raced, lost, accepted>>

\* then peek,
PeekAgain(r) ==
    /\ at[r] = "releasing"
    /\ Moved(r, "giving")
    /\ seen' = [seen EXCEPT ![r].count = Got.count]
    /\ raced' = (raced \/ (left[r] = None /\ Got.count > 1))
    /\ UNCHANGED <<rule, clock, entry, left, overlapped, lost, accepted>>

\* Mutant: what is left of the counter is set without a TTL.
GiveBackForGood(r) ==
    /\ at[r] = "giving"
    /\ entry' = Set(IF seen[r].count > 0 THEN seen[r].count - 1 ELSE 0, 0, None)
    /\ Moved(r, "idle")
    /\ seen' = [seen EXCEPT ![r] = Nothing] /\ left' = [left EXCEPT ![r] = None]
    /\ UNCHANGED <<rule, clock, overlapped, raced, lost, accepted>>

\* then set, with the TTL that was left when it was read.
GiveBack(r) ==
    /\ at[r] = "giving"
    /\ entry' = Set(IF seen[r].count > 0 THEN seen[r].count - 1 ELSE 0, 0, left[r])
    /\ Moved(r, "idle")
    /\ seen' = [seen EXCEPT ![r] = Nothing] /\ left' = [left EXCEPT ![r] = None]
    /\ UNCHANGED <<rule, clock, overlapped, raced, lost, accepted>>

\* put of a fixed window, of what r is told after the get; refusals count too.
Put(r) ==
    /\ rule = "rate" /\ at[r] = "read"
    /\ seen[r].count < MaxCount
    /\ entry' = Set(seen[r].count + 1, seen[r].start, 2 * Window)
    /\ accepted' = IF seen[r].count + 1 <= Limit
                   THEN [accepted EXCEPT ![seen[r].start] = IF @ > Limit THEN @ ELSE @ + 1]
                   ELSE accepted
    /\ Moved(r, "idle")
    /\ seen' = [seen EXCEPT ![r] = Nothing]
    /\ UNCHANGED <<rule, clock, left, overlapped, raced, lost>>

\* A call raises before it took effect, or the replica stops: what the request
\* consumed is not given back.
Vanish(r) ==
    /\ at[r] # "idle"
    /\ lost < MaxLost
    /\ lost' = IF at[r] = "read" THEN lost ELSE lost + 1
    /\ Moved(r, "idle")
    /\ seen' = [seen EXCEPT ![r] = Nothing] /\ left' = [left EXCEPT ![r] = None]
    /\ UNCHANGED <<rule, clock, entry, overlapped, raced, accepted>>

\* reset of either store.
Reset ==
    /\ entry' = Absent
    /\ overlapped' = (overlapped \/ ~Alone)
    /\ accepted' = [w \in Windows |-> 0]
    /\ UNCHANGED <<rule, clock, at, seen, left, raced, lost>>

Tick ==
    /\ clock < MaxTime
    /\ clock' = clock + 1
    /\ UNCHANGED <<rule, entry, at, seen, left, overlapped, raced, lost, accepted>>

Next ==
    \/ \E r \in Request :
         Read(r) \/ Consume(r) \/ Release(r) \/ PeekAgain(r) \/ GiveBack(r)
         \/ Put(r) \/ Vanish(r)
    \/ Reset
    \/ Tick

Spec == Init /\ [][Next]_vars

-----------------------------------------------------------------------------
(* Properties.                                                             *)

\* While the requests of all replicas take the store in turns it counts as one
\* process does: a fixed window takes no more than its limit, and between two
\* requests the counter shows nobody that is not running, but for those a
\* crash or an error took away. With an overlap either may fail.
InTurnsItCountsRight ==
    ~overlapped =>
        /\ \A w \in Windows : accepted[w] <= Limit
        /\ (rule = "quota" /\ Alone) => Got.count <= Cardinality(Running) + lost

\* What a crash or a lost update leaves in a quota is forgotten, one window
\* after the last consumption; it stays for good only when a release read the
\* TTL of an expired key and then the counter of others.
LeaksExpire == (entry.count > 0 /\ entry.expires = Never) => raced
=============================================================================
