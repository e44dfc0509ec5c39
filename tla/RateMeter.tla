------------------------------ MODULE RateMeter ------------------------------
(***************************************************************************)
(* What a rate limiter promises, rule by rule and client by client: a      *)
(* meter that holds the load of the requests it let through and drains by  *)
(* itself as time passes. The load of a fixed window is dropped when the   *)
(* next window opens, a sliding window loses each request one window after *)
(* it came, and both buckets drain at Limit per Window. A request charges  *)
(* only rules that have room for it.                                       *)
(*                                                                         *)
(* Nothing here expires, is swept or is computed late: RateLimit, which    *)
(* does all that, is shown to implement this specification.                *)
(*                                                                         *)
(* The load of a bucket is in units of 1 / Window[i] requests.             *)
(***************************************************************************)
EXTENDS Integers, Sequences, FiniteSets

CONSTANTS
    NRules,         \* number of rules, in the order they are evaluated
    Algorithm,      \* Algorithm[i]: RateLimitAlgorithm of rule i
    Limit,          \* Limit[i]: requests per window
    Window,         \* Window[i]: window_seconds, in ticks
    Capacity,       \* Capacity[i]: burst, or limit without one
    Client,         \* values of the scope key
    MaxTime         \* bound of the clock

Rule == 1 .. NRules
Key == Rule \X Client

VARIABLES clock, load

vars == <<clock, load>>

Empty(i) == IF Algorithm[i] = "sliding_window" THEN <<>> ELSE 0

HasRoom(i, l) ==
    CASE Algorithm[i] = "fixed_window" -> l < Limit[i]
      [] Algorithm[i] = "sliding_window" -> Len(l) < Limit[i]
      [] OTHER -> l + Window[i] <= Capacity[i] * Window[i]

Charged(i, l) ==
    CASE Algorithm[i] = "fixed_window" -> l + 1
      [] Algorithm[i] = "sliding_window" -> Append(l, clock)
      [] OTHER -> l + Window[i]

\* The requests of the last window; those that left it are the first ones.
Within(stamps, window, now) ==
    LET left == {j \in 1 .. Len(stamps) : stamps[j] + window <= now}
    IN  SubSeq(stamps, Cardinality(left) + 1, Len(stamps))

Drained(i, l, now) ==
    CASE Algorithm[i] = "fixed_window" -> IF now % Window[i] = 0 THEN 0 ELSE l
      [] Algorithm[i] = "sliding_window" ->
            Within(l, Window[i], now)
      [] OTHER -> IF l > Limit[i] THEN l - Limit[i] ELSE 0

Init ==
    /\ clock = 0
    /\ load = [k \in Key |-> Empty(k[1])]

\* A request of client c charges the rules in R.
Charge(c, R) ==
    /\ \A i \in R : HasRoom(i, load[<<i, c>>])
    /\ load' = [k \in Key |-> IF k[1] \in R /\ k[2] = c
                              THEN Charged(k[1], load[k]) ELSE load[k]]
    /\ UNCHANGED clock

\* Support resets a client.
Forget(c) ==
    /\ load' = [k \in Key |-> IF k[2] = c THEN Empty(k[1]) ELSE load[k]]
    /\ UNCHANGED clock

Elapse ==
    /\ clock < MaxTime
    /\ clock' = clock + 1
    /\ load' = [k \in Key |-> Drained(k[1], load[k], clock + 1)]

Next ==
    \/ \E c \in Client, R \in SUBSET Rule : Charge(c, R)
    \/ \E c \in Client : Forget(c)
    \/ Elapse

Spec == Init /\ [][Next]_vars
=============================================================================
