--------------------------- MODULE RateLimitProofs ---------------------------
(***************************************************************************)
(* Proofs about RateLimit: for any rules of the four algorithms, any       *)
(* clients, overlaps, expiries and sweeps, each rule behaves as the meter  *)
(* of RateMeter and lets no more through than it says.                     *)
(***************************************************************************)
EXTENDS RateLimit, TLAPS, FiniteSetTheorems, WellFoundedInduction

-----------------------------------------------------------------------------
(* The inductive invariant.                                                *)

Sorted(s) == \A j, k \in 1 .. Len(s) : j <= k => s[j] <= s[k]
UpTo(s, now) == \A j \in 1 .. Len(s) : s[j] <= now

\* An entry of rule i that is there lives as long as the algorithm asks for,
\* and holds what the algorithm can have put in it.
Fits(i, e, now) ==
    /\ e \in Entry
    /\ \/ e.expires = 0
       \/ /\ e.at <= now /\ e.expires >= e.at + Ttl(i)
          /\ Algorithm[i] = "fixed_window" => e.at % Window[i] = 0
          /\ Algorithm[i] = "sliding_window" =>
                Sorted(e.stamps) /\ UpTo(e.stamps, e.at) /\ Len(e.stamps) <= Limit[i]
          /\ Algorithm[i] \in {"token_bucket", "leaky_bucket"} => e.units <= Full(i)

\* The load l of rule i covers what was accepted lately: of the acceptances s,
\* those of the open window, those of the last window, or all of them less
\* what drained since.
Covered(i, s, l, now) ==
    /\ Algorithm[i] = "fixed_window" =>
          \A n \in 1 .. Len(s) :
              s[n] >= WindowStart(i, now) => Len(s) - n + 1 <= l
    /\ Algorithm[i] = "sliding_window" =>
          \A n \in 1 .. Len(s) :
              s[n] + Window[i] > now =>
                  Len(s) - n < Len(l) /\ l[Len(l) - (Len(s) - n)] >= s[n]
    /\ Algorithm[i] \in {"token_bucket", "leaky_bucket"} =>
          \A n \in 1 .. Len(s) :
              (Len(s) - n + 1) * Window[i] <= l + (now - s[n]) * Limit[i]

\* What rule i let through ever: the request Limit later is of another window,
\* or a burst fits in the bucket and what drained meanwhile.
Spread(i, s) ==
    /\ Algorithm[i] = "fixed_window" =>
          \A n \in 1 .. Len(s) :
              n + Limit[i] <= Len(s) => s[n] < WindowStart(i, s[n + Limit[i]])
    /\ Algorithm[i] = "sliding_window" =>
          \A n \in 1 .. Len(s) :
              n + Limit[i] <= Len(s) => s[n] + Window[i] <= s[n + Limit[i]]
    /\ Algorithm[i] \in {"token_bucket", "leaky_bucket"} =>
          \A m, n \in 1 .. Len(s) :
              m <= n => (n - m + 1) * Window[i] <= Full(i) + (s[n] - s[m]) * Limit[i]

EntriesFit == \A i \in Rule, c \in Client : Fits(i, entries[<<i, c>>], clock)

HistoryCovered ==
    \A c \in Client :
        /\ Sorted(accepted[c]) /\ UpTo(accepted[c], clock)
        /\ \A i \in Rule : /\ Covered(i, accepted[c], Load(i, c), clock)
                           /\ Spread(i, accepted[c])

IInv == TypeOK /\ EntriesFit /\ HistoryCovered

-----------------------------------------------------------------------------
(* Arithmetic.                                                             *)

LEMMA CeilDivOf ==
    ASSUME NEW a \in Nat, NEW b \in Nat \ {0}
    PROVE  /\ CeilDiv(a, b) \in Nat
           /\ a <= CeilDiv(a, b) * b
           /\ (CeilDiv(a, b) - 1) * b < a
<1> DEFINE q == (a + b - 1) \div b
           m == (a + b - 1) % b
<1>1. q \in Nat /\ m \in 0 .. b - 1 /\ a + b - 1 = b * q + m
  OBVIOUS
<1> HIDE DEF q, m
<1>2. a <= q * b /\ (q - 1) * b < a
  BY <1>1
<1> QED
  BY <1>1, <1>2 DEF CeilDiv, q

LEMMA ProductsGrow ==
    ASSUME NEW a \in Nat, NEW b \in Nat, NEW c \in Nat, a <= b
    PROVE  a * c \in Nat /\ a * c <= b * c
OBVIOUS

LEMMA NextProduct ==
    ASSUME NEW a \in Int, NEW c \in Int
    PROVE  a * c \in Int /\ (a + 1) * c = a * c + c
OBVIOUS

LEMMA SmallProduct ==
    ASSUME NEW a \in Int, NEW c \in Int
    PROVE  a * c \in Int /\ (a = 1 => a * c = c) /\ (a = 0 => a * c = 0)
OBVIOUS

LEMMA ProductsReflect ==
    ASSUME NEW a \in Int, NEW b \in Int, NEW c \in Nat, a * c < b * c
    PROVE  a < b
<1>1. CASE a < b
  BY <1>1
<1>2. CASE a >= b
  <2>1. (a - b) * c >= 0
    BY <1>2
  <2> QED
    BY <2>1
<1> QED
  BY <1>1, <1>2

\* The parameters of a rule.
LEMMA Params ==
    ASSUME NEW i \in Rule
    PROVE  /\ Algorithm[i] \in RateLimitAlgorithm
           /\ Limit[i] \in Nat /\ Limit[i] >= 1
           /\ Window[i] \in Nat /\ Window[i] >= 1
           /\ Capacity[i] \in Nat /\ Capacity[i] >= 1
           /\ Full(i) \in Nat /\ Full(i) >= Window[i]
           /\ Second \in Nat /\ Second >= 1 /\ MaxTime \in Nat
<1>1. /\ Algorithm[i] \in RateLimitAlgorithm
      /\ Limit[i] \in Nat /\ Limit[i] >= 1
      /\ Window[i] \in Nat /\ Window[i] >= 1
      /\ Capacity[i] \in Nat /\ Capacity[i] >= 1
      /\ Second \in Nat /\ Second >= 1 /\ MaxTime \in Nat
  BY RateLimitAssumption
<1>2. Capacity[i] * Window[i] \in Nat /\ 1 * Window[i] <= Capacity[i] * Window[i]
  BY <1>1, ProductsGrow
<1> QED
  BY <1>1, <1>2 DEF Full

\* An entry outlives what it holds: two windows, or the time a bucket takes.
LEMMA TtlOf ==
    ASSUME NEW i \in Rule
    PROVE  /\ Ttl(i) \in Nat /\ Ttl(i) >= 1
           /\ Algorithm[i] \in {"fixed_window", "sliding_window"} => Ttl(i) >= 2 * Window[i]
           /\ Algorithm[i] \in {"token_bucket", "leaky_bucket"} => Ttl(i) * Limit[i] >= Full(i)
<1>1. CASE Algorithm[i] \in {"fixed_window", "sliding_window"}
  BY <1>1, Params DEF Ttl, Larger
<1>2. CASE Algorithm[i] \in {"token_bucket", "leaky_bucket"}
  <2> DEFINE a == 2 * Larger(Capacity[i] * Window[i], Second * Limit[i])
  <2>1. Second * Limit[i] \in Nat
    BY Params
  <2>2. a \in Nat /\ a >= Full(i) /\ a >= 1
    BY <2>1, Params DEF Larger, Full
  <2> HIDE DEF a
  <2>3. CeilDiv(a, Limit[i]) \in Nat /\ a <= CeilDiv(a, Limit[i]) * Limit[i]
    BY <2>2, CeilDivOf, Params
  <2>4. CeilDiv(a, Limit[i]) >= 1
    BY <2>2, <2>3, Params
  <2>5. Ttl(i) = CeilDiv(a, Limit[i])
    BY <1>2 DEF Ttl, a
  <2>6. Ttl(i) * Limit[i] >= Full(i)
    BY <2>2, <2>3, <2>5, Params
  <2> QED
    BY <1>2, <2>3, <2>4, <2>5, <2>6
<1> QED
  BY <1>1, <1>2, Params DEF RateLimitAlgorithm

LEMMA WindowStartOf ==
    ASSUME NEW i \in Rule, NEW t \in Nat
    PROVE  /\ WindowStart(i, t) \in Nat /\ WindowStart(i, t) % Window[i] = 0
           /\ WindowStart(i, t) <= t /\ t < WindowStart(i, t) + Window[i]
           /\ \A w \in Nat : (w % Window[i] = 0 /\ w <= t) => w <= WindowStart(i, t)
<1> DEFINE W == Window[i]
           q == t \div W
<1>1. W \in Nat /\ W >= 1
  BY Params
<1>2. WindowStart(i, t) = t - (t % W)
  BY DEF WindowStart
<1> HIDE DEF W
<1>3. q \in Nat /\ t % W \in 0 .. W - 1 /\ t = W * q + (t % W)
  BY <1>1
<1>4. WindowStart(i, t) = W * q /\ WindowStart(i, t) \in 0 .. t
  BY <1>1, <1>2, <1>3
<1>5. (W * q) % W = 0
  <2> HIDE DEF q
  <2> QED
    BY <1>1, <1>3
<1>6. ASSUME NEW w \in Nat, w % W = 0, w <= t PROVE w <= W * q
  <2> DEFINE e == w \div W
  <2>1. e \in Nat /\ w = W * e
    BY <1>1, <1>6
  <2>2. W * e < W * (q + 1)
    BY <1>1, <1>3, <1>6, <2>1
  <2>3. e < q + 1
    BY <1>1, <1>3, <2>1, <2>2
  <2>4. W * e <= W * q
    BY <1>1, <1>3, <2>1, <2>3
  <2> QED
    BY <2>1, <2>4
<1> QED
  BY <1>1, <1>3, <1>4, <1>5, <1>6 DEF W

LEMMA NoMultipleBetween ==
    ASSUME NEW w \in Nat, w >= 1, NEW a \in Nat, a % w = 0,
           NEW b \in Nat, b % w = 0, a < b, b < a + w
    PROVE  FALSE
<1> DEFINE p == a \div w
           q == b \div w
<1>1. p \in Nat /\ q \in Nat /\ a = w * p /\ b = w * q
  OBVIOUS
<1> HIDE DEF p, q
<1>2. w * p < w * q /\ w * q < w * (p + 1)
  BY <1>1
<1>3. p < q /\ q < p + 1
  BY <1>1, <1>2
<1> QED
  BY <1>1, <1>3

\* The next tick opens a window, or stays in the same one.
LEMMA NextWindow ==
    ASSUME NEW i \in Rule, NEW t \in Nat
    PROVE  WindowStart(i, t + 1) = IF (t + 1) % Window[i] = 0 THEN t + 1 ELSE WindowStart(i, t)
<1> DEFINE a == WindowStart(i, t)
           b == WindowStart(i, t + 1)
<1>1. /\ a \in Nat /\ a % Window[i] = 0 /\ a <= t
      /\ \A w \in Nat : (w % Window[i] = 0 /\ w <= t) => w <= a
  BY WindowStartOf
<1>2. /\ b \in Nat /\ b % Window[i] = 0 /\ b <= t + 1
      /\ \A w \in Nat : (w % Window[i] = 0 /\ w <= t + 1) => w <= b
  BY WindowStartOf
<1> HIDE DEF a, b
<1>3. CASE (t + 1) % Window[i] = 0
  <2>1. t + 1 <= b
    BY <1>2, <1>3
  <2> QED
    BY <1>2, <1>3, <2>1 DEF b
<1>4. CASE (t + 1) % Window[i] # 0
  <2>1. b # t + 1
    BY <1>2, <1>4
  <2>2. b <= a
    BY <1>1, <1>2, <2>1
  <2>3. a <= b
    BY <1>1, <1>2
  <2> QED
    BY <1>1, <1>2, <1>4, <2>2, <2>3 DEF a, b
<1> QED
  BY <1>3, <1>4

-----------------------------------------------------------------------------
(* The stamps within a window.                                             *)

LEMMA Least ==
    ASSUME NEW S, S \subseteq Nat, S # {}
    PROVE  \E x \in S : \A y \in S : x <= y
<1> DEFINE R == StrictSubsetOrdering(Nat)
           F == FiniteSubsetsOf(Nat)
           U == {1..n : n \in S}
<1>1. IsWellFoundedOn(R, F) /\ U \subseteq F /\ U # {}
  <2>1. IsWellFoundedOn(R, F)
    BY FS_StrictSubsetOrderingWellFounded
  <2>2. \A n \in Nat : IsFiniteSet(1..n) /\ 1..n \subseteq Nat
    BY FS_Interval
  <2>3. U \subseteq F
    BY <2>2 DEF FiniteSubsetsOf
  <2> QED
    BY <2>1, <2>3
<1>2. \E u \in U : \A v \in U : <<v, u>> \notin R
  <2> HIDE DEF R, F, U
  <2> QED
    BY <1>1, WFMin
<1>3. PICK m \in S : \A v \in U : <<v, 1..m>> \notin R
  BY <1>2
<1>4. ASSUME NEW n \in S, n < m PROVE FALSE
  <2>1. n \in Nat /\ m \in Nat
    OBVIOUS
  <2>2. 1..n \subseteq 1..m /\ 1..n # 1..m
    BY <2>1, <1>4
  <2>3. <<1..n, 1..m>> \in R
    BY <2>2 DEF StrictSubsetOrdering
  <2> QED
    BY <1>3, <2>3
<1> QED
  BY <1>4

\* t is s without its first n members.
Rest(t, s, n) ==
    /\ n \in 0 .. Len(s)
    /\ t \in Seq(Nat) /\ Len(t) = Len(s) - n
    /\ \A j \in 1 .. Len(t) : t[j] = s[j + n]

\* Stamps leave in the order they came.
LEMMA WithinOf ==
    ASSUME NEW s \in Seq(Nat), Sorted(s), NEW w \in Nat, NEW now \in Nat
    PROVE  \E n \in 0 .. Len(s) :
              /\ \A j \in 1 .. Len(s) : (s[j] + w <= now) <=> j <= n
              /\ Rest(Within(s, w, now), s, n)
<1> DEFINE D == {j \in 1 .. Len(s) + 1 : j = Len(s) + 1 \/ s[j] + w > now}
           left == {j \in 1 .. Len(s) : s[j] + w <= now}
<1>1. D \subseteq Nat /\ Len(s) + 1 \in D
  OBVIOUS
<1>2. PICK m \in D : \A j \in D : m <= j
  <2> HIDE DEF D
  <2> QED
    BY <1>1, Least
<1>3. m - 1 \in 0 .. Len(s)
  OBVIOUS
<1>4. ASSUME NEW j \in 1 .. Len(s) PROVE (s[j] + w <= now) <=> j <= m - 1
  <2>1. s[j] \in Nat
    OBVIOUS
  <2>2. j <= m - 1 => j \notin D
    BY <1>2
  <2>3. (j >= m /\ s[j] + w <= now) => FALSE
    <3> SUFFICES ASSUME j >= m, s[j] + w <= now PROVE FALSE
      OBVIOUS
    <3>1. m \in 1 .. Len(s) /\ s[m] \in Nat
      OBVIOUS
    <3>2. s[m] <= s[j]
      BY <3>1 DEF Sorted
    <3>3. s[m] + w > now
      BY <1>2, <3>1
    <3> QED
      BY <2>1, <3>1, <3>2, <3>3
  <2> QED
    BY <2>1, <2>2, <2>3
<1>5. left = 1 .. m - 1
  BY <1>3, <1>4
<1>6. Cardinality(left) = m - 1
  <2> HIDE DEF left
  <2> QED
    BY <1>3, <1>5, FS_Interval
<1>7. Within(s, w, now) = SubSeq(s, m, Len(s))
  <2>1. Within(s, w, now) = SubSeq(s, Cardinality(left) + 1, Len(s))
    BY DEF Within
  <2> HIDE DEF left
  <2> QED
    BY <1>3, <1>6, <2>1
<1>8. Rest(SubSeq(s, m, Len(s)), s, m - 1)
  BY <1>3 DEF Rest
<1> QED
  BY <1>3, <1>4, <1>7, <1>8

LEMMA SameRest ==
    ASSUME NEW s, NEW n, NEW t, NEW u, Rest(t, s, n), Rest(u, s, n)
    PROVE  t = u
<1>1. /\ t \in Seq(Nat) /\ u \in Seq(Nat) /\ Len(t) = Len(s) - n /\ Len(u) = Len(s) - n
      /\ \A j \in 1 .. Len(t) : t[j] = s[j + n]
      /\ \A j \in 1 .. Len(u) : u[j] = s[j + n]
  BY DEF Rest
<1>2. Len(t) = Len(u)
  BY <1>1
<1>3. \A j \in 1 .. Len(t) : t[j] = u[j]
  BY <1>1, <1>2, Zenon
<1> QED
  BY <1>1, <1>2, <1>3

LEMMA RestSorted ==
    ASSUME NEW s \in Seq(Nat), Sorted(s), NEW n, NEW t, Rest(t, s, n)
    PROVE  Sorted(t)
<1>1. \A j \in 1 .. Len(t) : j + n \in 1 .. Len(s) /\ t[j] = s[j + n]
  BY DEF Rest
<1>2. n \in Nat /\ Len(t) \in Nat
  BY DEF Rest
<1>3. ASSUME NEW j \in 1 .. Len(t), NEW k \in 1 .. Len(t), j <= k PROVE t[j] <= t[k]
  <2>1. j + n <= k + n
    BY <1>2, <1>3
  <2>2. s[j + n] <= s[k + n]
    BY <1>1, <2>1 DEF Sorted
  <2> QED
    BY <1>1, <2>2
<1> QED
  BY <1>3 DEF Sorted

LEMMA WithinAll ==
    ASSUME NEW s \in Seq(Nat), Sorted(s), NEW w \in Nat, NEW now \in Nat,
           \A j \in 1 .. Len(s) : s[j] + w > now
    PROVE  Within(s, w, now) = s
<1>1. PICK n \in 0 .. Len(s) : /\ \A j \in 1 .. Len(s) : (s[j] + w <= now) <=> j <= n
                               /\ Rest(Within(s, w, now), s, n)
  BY WithinOf
<1>2. n = 0
  <2>1. \A j \in 1 .. Len(s) : s[j] \in Nat
    OBVIOUS
  <2> QED
    BY <1>1, <2>1
<1>3. Rest(s, s, 0)
  BY DEF Rest
<1> QED
  BY <1>1, <1>2, <1>3, SameRest

\* What left the window needs not be looked at again later.
LEMMA WithinAgain ==
    ASSUME NEW s \in Seq(Nat), Sorted(s), NEW w \in Nat,
           NEW a \in Nat, NEW b \in Nat, a <= b
    PROVE  Within(Within(s, w, a), w, b) = Within(s, w, b)
<1> DEFINE t == Within(s, w, a)
           u == Within(t, w, b)
           v == Within(s, w, b)
<1>1. PICK n \in 0 .. Len(s) : /\ \A j \in 1 .. Len(s) : (s[j] + w <= a) <=> j <= n
                               /\ Rest(t, s, n)
  BY WithinOf
<1>2. t \in Seq(Nat) /\ Len(t) = Len(s) - n /\ \A j \in 1 .. Len(t) : t[j] = s[j + n]
  BY <1>1 DEF Rest
<1>3. Sorted(t)
  BY <1>1, RestSorted
<1> HIDE DEF t, v
<1>4. PICK p \in 0 .. Len(t) : /\ \A j \in 1 .. Len(t) : (t[j] + w <= b) <=> j <= p
                               /\ Rest(u, t, p)
  BY <1>2, <1>3, WithinOf
<1>5. PICK q \in 0 .. Len(s) : /\ \A j \in 1 .. Len(s) : (s[j] + w <= b) <=> j <= q
                               /\ Rest(v, s, q)
  BY WithinOf DEF v
<1>6. ASSUME NEW j \in 1 .. Len(s) PROVE (s[j] + w <= b) <=> j <= n + p
  <2>1. s[j] \in Nat
    OBVIOUS
  <2>2. CASE j <= n
    BY <1>1, <2>1, <2>2
  <2>3. CASE j > n
    <3>1. j - n \in 1 .. Len(t)
      BY <1>2, <2>3
    <3>2. t[j - n] = s[(j - n) + n] /\ (j - n) + n = j
      BY <1>2, <3>1
    <3>3. (t[j - n] + w <= b) <=> j - n <= p
      BY <1>4, <3>1
    <3>4. j - n <= p <=> j <= n + p
      BY <2>3
    <3> QED
      BY <3>2, <3>3, <3>4, Zenon
  <2> QED
    BY <2>2, <2>3
<1>7. n + p \in 0 .. Len(s)
  BY <1>2
<1>8. q = n + p
  <2>1. CASE q < n + p
    BY <1>5, <1>6, <1>7, <2>1
  <2>2. CASE q > n + p
    BY <1>5, <1>6, <1>7, <2>2
  <2> QED
    BY <1>7, <2>1, <2>2
<1>9. Rest(u, s, q)
  <2> HIDE DEF u
  <2>1. u \in Seq(Nat) /\ Len(u) = Len(t) - p /\ \A j \in 1 .. Len(u) : u[j] = t[j + p]
    BY <1>4 DEF Rest
  <2>2. Len(u) = Len(s) - q
    BY <1>2, <1>8, <2>1
  <2>3. ASSUME NEW j \in 1 .. Len(u) PROVE u[j] = s[j + q]
    <3>1. j + p \in 1 .. Len(t) /\ u[j] = t[j + p]
      BY <1>2, <1>4, <2>1
    <3>2. t[j + p] = s[j + p + n]
      BY <1>2, <3>1
    <3> QED
      BY <1>8, <3>1, <3>2
  <2> QED
    BY <2>1, <2>2, <2>3 DEF Rest
<1>10. u = v
  BY <1>5, <1>9, SameRest
<1> QED
  BY <1>10 DEF t, v

LEMMA SortedAppend ==
    ASSUME NEW s \in Seq(Nat), Sorted(s), NEW now \in Nat, UpTo(s, now)
    PROVE  /\ Append(s, now) \in Seq(Nat) /\ Len(Append(s, now)) = Len(s) + 1
           /\ \A j \in 1 .. Len(s) : Append(s, now)[j] = s[j]
           /\ Append(s, now)[Len(s) + 1] = now
           /\ Sorted(Append(s, now)) /\ UpTo(Append(s, now), now)
<1> DEFINE t == Append(s, now)
<1>1. t \in Seq(Nat) /\ Len(t) = Len(s) + 1 /\ t[Len(s) + 1] = now
  OBVIOUS
<1>2. \A j \in 1 .. Len(s) : t[j] = s[j] /\ s[j] \in Nat
  OBVIOUS
<1> HIDE DEF t
<1>3. UpTo(t, now)
  BY <1>1, <1>2 DEF UpTo
<1>4. ASSUME NEW j \in 1 .. Len(t), NEW k \in 1 .. Len(t), j <= k PROVE t[j] <= t[k]
  <2>1. CASE k <= Len(s)
    <3>1. j \in 1 .. Len(s) /\ k \in 1 .. Len(s)
      BY <1>4, <2>1
    <3> QED
      BY <1>2, <1>4, <3>1 DEF Sorted
  <2>2. CASE k = Len(s) + 1
    BY <1>1, <1>3, <2>2 DEF UpTo
  <2> QED
    BY <1>1, <2>1, <2>2
<1>5. Sorted(t)
  BY <1>4 DEF Sorted
<1> QED
  BY <1>1, <1>2, <1>3, <1>5 DEF t

-----------------------------------------------------------------------------
(* The load an entry stands for.                                           *)

\* What the meter holds after a charge at a given time.
Charge(i, l, now) ==
    CASE Algorithm[i] = "fixed_window" -> l + 1
      [] Algorithm[i] = "sliding_window" -> Append(l, now)
      [] OTHER -> l + Window[i]

LEMMA NothingFits ==
    ASSUME NEW i \in Rule, NEW now \in Nat
    PROVE  Fits(i, NoEntry, now)
BY DEF Fits, NoEntry, Entry

\* A dead entry is as good as none.
LEMMA DeadLoad ==
    ASSUME NEW i \in Rule, NEW e, NEW now \in Nat, ~Live(e, now)
    PROVE  LoadOf(i, e, now) = Meter!Empty(i)
<1>1. CASE Algorithm[i] = "fixed_window"
  BY <1>1, Params DEF LoadOf, Counted, Meter!Empty, Smaller
<1>2. CASE Algorithm[i] = "sliding_window"
  BY <1>2 DEF LoadOf, Kept, Meter!Empty
<1>3. CASE Algorithm[i] = "token_bucket"
  BY <1>3, Params DEF LoadOf, Tokens, Meter!Empty
<1>4. CASE Algorithm[i] = "leaky_bucket"
  BY <1>4 DEF LoadOf, Level, Meter!Empty
<1> QED
  BY <1>1, <1>2, <1>3, <1>4, Params DEF RateLimitAlgorithm

LEMMA NothingIsDead ==
    ASSUME NEW now \in Nat
    PROVE  ~Live(NoEntry, now)
BY DEF Live, NoEntry

\* What a live entry holds.
LEMMA LiveFits ==
    ASSUME NEW i \in Rule, NEW now \in Nat, NEW e, Fits(i, e, now), Live(e, now)
    PROVE  /\ e.units \in Nat /\ e.at \in Nat /\ e.stamps \in Seq(Nat) /\ e.expires \in Nat
           /\ e.at <= now /\ now < e.expires /\ e.expires >= e.at + Ttl(i)
           /\ Algorithm[i] = "fixed_window" => e.at % Window[i] = 0
           /\ Algorithm[i] = "sliding_window" =>
                Sorted(e.stamps) /\ UpTo(e.stamps, e.at) /\ Len(e.stamps) <= Limit[i]
           /\ Algorithm[i] \in {"token_bucket", "leaky_bucket"} => e.units <= Full(i)
BY DEF Fits, Live, Entry

\* Later the entry still fits.
LEMMA FitsLater ==
    ASSUME NEW i \in Rule, NEW now \in Nat, NEW t \in Nat, now <= t,
           NEW e, Fits(i, e, now)
    PROVE  Fits(i, e, t)
BY DEF Fits, Entry

LEMMA KeptOf ==
    ASSUME NEW i \in Rule, NEW now \in Nat, NEW e, Fits(i, e, now),
           Algorithm[i] = "sliding_window"
    PROVE  /\ Kept(i, e, now) \in Seq(Nat) /\ Sorted(Kept(i, e, now))
           /\ UpTo(Kept(i, e, now), now) /\ Len(Kept(i, e, now)) <= Limit[i]
           /\ \A j \in 1 .. Len(Kept(i, e, now)) : Kept(i, e, now)[j] + Window[i] > now
<1>1. CASE ~Live(e, now)
  BY <1>1, Params DEF Kept, Sorted, UpTo
<1>2. CASE Live(e, now)
  <2> DEFINE s == e.stamps
             t == Within(s, Window[i], now)
  <2>1. /\ s \in Seq(Nat) /\ Sorted(s) /\ UpTo(s, e.at) /\ Len(s) <= Limit[i]
        /\ e.at \in Nat /\ e.at <= now
    BY <1>2, LiveFits
  <2>2. Kept(i, e, now) = t
    BY <1>2 DEF Kept
  <2> HIDE DEF s
  <2>3. PICK n \in 0 .. Len(s) :
           /\ \A j \in 1 .. Len(s) : (s[j] + Window[i] <= now) <=> j <= n
           /\ Rest(t, s, n)
    BY <2>1, WithinOf, Params
  <2> HIDE DEF t
  <2>4. Sorted(t)
    BY <2>1, <2>3, RestSorted
  <2>5. t \in Seq(Nat) /\ Len(t) = Len(s) - n /\ \A j \in 1 .. Len(t) : t[j] = s[j + n]
    BY <2>3 DEF Rest
  <2>6. ASSUME NEW j \in 1 .. Len(t) PROVE t[j] <= now /\ t[j] + Window[i] > now
    <3>1. j + n \in 1 .. Len(s) /\ ~(j + n <= n) /\ t[j] = s[j + n]
      <4>1. Len(t) = Len(s) - n /\ t[j] = s[j + n]
        BY <2>5
      <4>2. j + n \in 1 .. Len(s) /\ ~(j + n <= n)
        BY <4>1
      <4> QED
        BY <4>1, <4>2
    <3>2. s[j + n] <= e.at
      BY <2>1, <3>1, Zenon DEF UpTo
    <3>3. ~(s[j + n] + Window[i] <= now)
      BY <2>3, <3>1, Zenon
    <3>4. PICK v \in Nat : v = s[j + n]
      BY <2>1, <3>1
    <3>5. v <= e.at /\ ~(v + Window[i] <= now) /\ t[j] = v /\ e.at \in Nat /\ e.at <= now
      BY <2>1, <3>1, <3>2, <3>3, <3>4, Zenon
    <3>6. Window[i] \in Nat
      BY Params
    <3> QED
      BY <3>5, <3>6
  <2>7. Len(t) <= Limit[i]
    BY <2>1, <2>5, Params
  <2> QED
    BY <2>2, <2>4, <2>5, <2>6, <2>7 DEF UpTo
<1> QED
  BY <1>1, <1>2

LEMMA CountedOf ==
    ASSUME NEW i \in Rule, NEW now \in Nat, NEW e, Fits(i, e, now)
    PROVE  Counted(i, e, now) \in Nat
BY LiveFits DEF Counted

LEMMA TokensOf ==
    ASSUME NEW i \in Rule, NEW now \in Nat, NEW e, Fits(i, e, now)
    PROVE  Tokens(i, e, now) \in 0 .. Full(i)
<1>1. CASE ~Live(e, now)
  BY <1>1, Params DEF Tokens
<1>2. CASE Live(e, now)
  <2>1. e.units \in Nat /\ now - e.at \in Nat
    BY <1>2, LiveFits
  <2>2. (now - e.at) * Limit[i] \in Nat
    BY <2>1, Params
  <2> QED
    BY <1>2, <2>1, <2>2, Params DEF Tokens, Smaller
<1> QED
  BY <1>1, <1>2

LEMMA LevelOf ==
    ASSUME NEW i \in Rule, NEW now \in Nat, NEW e, Fits(i, e, now),
           Algorithm[i] = "leaky_bucket"
    PROVE  Level(i, e, now) \in 0 .. Full(i)
<1>1. CASE ~Live(e, now)
  BY <1>1, Params DEF Level
<1>2. CASE Live(e, now)
  <2>1. e.units \in 0 .. Full(i) /\ now - e.at \in Nat
    BY <1>2, LiveFits, Params
  <2>2. (now - e.at) * Limit[i] \in Nat
    BY <2>1, Params
  <2> QED
    BY <1>2, <2>1, <2>2, Params DEF Level, Larger
<1> QED
  BY <1>1, <1>2

-----------------------------------------------------------------------------
(* An allowed request charges the load by one request.                     *)

\* d is what a rule decides, for a request that it lets through at now.
Admits(i, e, now, d) ==
    /\ Meter!HasRoom(i, LoadOf(i, e, now))
    /\ Fits(i, d.state, now) /\ Live(d.state, now)
    /\ LoadOf(i, d.state, now) = Charge(i, LoadOf(i, e, now), now)

LEMMA FixedWindowAdmits ==
    ASSUME NEW i \in Rule, NEW now \in Nat, NEW e, Fits(i, e, now),
           Algorithm[i] = "fixed_window", Counted(i, e, now) + 1 <= Limit[i]
    PROVE  Admits(i, e, now, FixedWindow(i, e, now, 1))
<1> DEFINE n == Counted(i, e, now)
           f == [units |-> n + 1, at |-> WindowStart(i, now), stamps |-> <<>>,
                 expires |-> now + Ttl(i)]
<1>1. FixedWindow(i, e, now, 1).state = f
  BY DEF FixedWindow
<1>2. n \in Nat /\ n < Limit[i]
  BY CountedOf, Params
<1>3. /\ WindowStart(i, now) \in Nat /\ WindowStart(i, now) <= now
      /\ WindowStart(i, now) % Window[i] = 0 /\ Ttl(i) \in Nat /\ Ttl(i) >= 1
  BY WindowStartOf, TtlOf
<1>4. LoadOf(i, e, now) = n
  BY <1>2, Params DEF LoadOf, Smaller
<1> HIDE DEF n
<1>5. Fits(i, f, now) /\ Live(f, now)
  BY <1>2, <1>3 DEF Fits, Entry, Live
<1>6. LoadOf(i, f, now) = n + 1
  <2>1. Counted(i, f, now) = n + 1
    BY <1>5 DEF Counted
  <2> QED
    BY <1>2, <2>1, Params DEF LoadOf, Smaller
<1> HIDE DEF f
<1>7. Meter!HasRoom(i, n)
  BY <1>2 DEF Meter!HasRoom
<1>8. Charge(i, n, now) = n + 1
  BY DEF Charge
<1> QED
  BY <1>1, <1>4, <1>5, <1>6, <1>7, <1>8 DEF Admits

LEMMA SlidingWindowAdmits ==
    ASSUME NEW i \in Rule, NEW now \in Nat, NEW e, Fits(i, e, now),
           Algorithm[i] = "sliding_window", Len(Kept(i, e, now)) + 1 <= Limit[i]
    PROVE  Admits(i, e, now, SlidingWindow(i, e, now, 1))
<1> DEFINE s == Kept(i, e, now)
           t == Append(s, now)
           f == [units |-> 0, at |-> now, stamps |-> t, expires |-> now + Ttl(i)]
<1>1. /\ s \in Seq(Nat) /\ Sorted(s) /\ UpTo(s, now) /\ Len(s) < Limit[i]
      /\ \A j \in 1 .. Len(s) : s[j] + Window[i] > now
  BY KeptOf, Params
<1>2. SlidingWindow(i, e, now, 1).state = f
  <2>1. Larger(1, 1) = 1
    BY DEF Larger
  <2>2. s \o [j \in 1 .. 1 |-> now] = t
    <3> HIDE DEF s
    <3>1. [j \in 1 .. 1 |-> now] = <<now>>
      OBVIOUS
    <3> QED
      BY <1>1, <3>1
  <2> QED
    BY <2>1, <2>2 DEF SlidingWindow
<1>3. LoadOf(i, e, now) = s
  BY DEF LoadOf
<1> HIDE DEF s
<1>4. /\ t \in Seq(Nat) /\ Len(t) = Len(s) + 1 /\ Sorted(t) /\ UpTo(t, now)
      /\ \A j \in 1 .. Len(s) : t[j] = s[j]
      /\ t[Len(s) + 1] = now
  BY <1>1, SortedAppend
<1>5. \A j \in 1 .. Len(t) : t[j] + Window[i] > now
  BY <1>1, <1>4, Params
<1> HIDE DEF t
<1>6. Fits(i, f, now) /\ Live(f, now)
  BY <1>1, <1>4, TtlOf, Params DEF Fits, Entry, Live
<1>7. LoadOf(i, f, now) = t
  <2>1. Within(t, Window[i], now) = t
    BY <1>4, <1>5, WithinAll, Params
  <2> QED
    BY <1>6, <2>1 DEF LoadOf, Kept
<1> HIDE DEF f
<1>8. Meter!HasRoom(i, s)
  BY <1>1 DEF Meter!HasRoom
<1>9. Charge(i, s, now) = t
  BY DEF Charge, t
<1> QED
  BY <1>2, <1>3, <1>6, <1>7, <1>8, <1>9 DEF Admits

LEMMA TokenBucketAdmits ==
    ASSUME NEW i \in Rule, NEW now \in Nat, NEW e, Fits(i, e, now),
           Algorithm[i] = "token_bucket", Tokens(i, e, now) >= Window[i]
    PROVE  Admits(i, e, now, TokenBucket(i, e, now, 1))
<1> DEFINE n == Tokens(i, e, now)
           f == [units |-> n - Window[i], at |-> now, stamps |-> <<>>,
                 expires |-> now + Ttl(i)]
<1>1. n \in 0 .. Full(i) /\ n - Window[i] \in 0 .. Full(i)
  BY TokensOf, Params
<1>2. TokenBucket(i, e, now, 1).state = f
  BY Params DEF TokenBucket
<1>3. LoadOf(i, e, now) = Full(i) - n
  BY DEF LoadOf
<1> HIDE DEF n
<1>4. Fits(i, f, now) /\ Live(f, now)
  BY <1>1, TtlOf, Params DEF Fits, Entry, Live
<1>5. LoadOf(i, f, now) = Full(i) - (n - Window[i])
  <2>1. Tokens(i, f, now) = Smaller(Full(i), n - Window[i] + (now - now) * Limit[i])
    BY <1>4 DEF Tokens
  <2>2. (now - now) * Limit[i] = 0
    BY Params
  <2> QED
    BY <1>1, <2>1, <2>2, Params DEF LoadOf, Smaller
<1> HIDE DEF f
<1>6. Meter!HasRoom(i, Full(i) - n)
  BY <1>1, Params DEF Meter!HasRoom, Full
<1>7. Charge(i, Full(i) - n, now) = Full(i) - n + Window[i]
  BY DEF Charge
<1>8. Full(i) - (n - Window[i]) = Full(i) - n + Window[i]
  BY <1>1, Params
<1> QED
  BY <1>2, <1>3, <1>4, <1>5, <1>6, <1>7, <1>8 DEF Admits

LEMMA LeakyBucketAdmits ==
    ASSUME NEW i \in Rule, NEW now \in Nat, NEW e, Fits(i, e, now),
           Algorithm[i] = "leaky_bucket", Level(i, e, now) + Window[i] <= Full(i)
    PROVE  Admits(i, e, now, LeakyBucket(i, e, now, 1))
<1> DEFINE n == Level(i, e, now)
           f == [units |-> n + Window[i], at |-> now, stamps |-> <<>>,
                 expires |-> now + Ttl(i)]
<1>1. n \in 0 .. Full(i) /\ n + Window[i] \in 0 .. Full(i)
  BY LevelOf, Params
<1>2. LeakyBucket(i, e, now, 1).state = f
  BY Params DEF LeakyBucket
<1>3. LoadOf(i, e, now) = n
  BY DEF LoadOf
<1> HIDE DEF n
<1>4. Fits(i, f, now) /\ Live(f, now)
  BY <1>1, TtlOf, Params DEF Fits, Entry, Live
<1>5. LoadOf(i, f, now) = n + Window[i]
  <2>1. Level(i, f, now) = Larger(0, f.units - (now - f.at) * Limit[i])
    BY <1>4 DEF Level
  <2>2. f.units = n + Window[i] /\ (now - f.at) * Limit[i] = 0
    BY Params
  <2> QED
    BY <1>1, <2>1, <2>2, Params DEF LoadOf, Larger
<1> HIDE DEF f
<1>6. Meter!HasRoom(i, n)
  BY <1>1, Params DEF Meter!HasRoom, Full
<1>7. Charge(i, n, now) = n + Window[i]
  BY DEF Charge
<1> QED
  BY <1>2, <1>3, <1>4, <1>5, <1>6, <1>7 DEF Admits

\* When a rule lets a request through.
LEMMA AllowedWhen ==
    ASSUME NEW i \in Rule, NEW now \in Nat, NEW e
    PROVE  LET allowed == Evaluate(i, e, now, 1).allowed
           IN  /\ Algorithm[i] = "fixed_window" =>
                    (allowed <=> Counted(i, e, now) + 1 <= Limit[i])
               /\ Algorithm[i] = "sliding_window" =>
                    (allowed <=> Len(Kept(i, e, now)) + 1 <= Limit[i])
               /\ Algorithm[i] = "token_bucket" =>
                    (allowed <=> Tokens(i, e, now) >= Window[i])
               /\ Algorithm[i] = "leaky_bucket" =>
                    (allowed <=> Level(i, e, now) + Window[i] <= Full(i))
<1>1. 1 * Window[i] = Window[i]
  BY Params
<1>2. ASSUME Algorithm[i] = "fixed_window"
      PROVE  Evaluate(i, e, now, 1).allowed <=> Counted(i, e, now) + 1 <= Limit[i]
  BY <1>2 DEF Evaluate, FixedWindow
<1>3. ASSUME Algorithm[i] = "sliding_window"
      PROVE  Evaluate(i, e, now, 1).allowed <=> Len(Kept(i, e, now)) + 1 <= Limit[i]
  BY <1>3 DEF Evaluate, SlidingWindow, Larger
<1>4. ASSUME Algorithm[i] = "token_bucket"
      PROVE  Evaluate(i, e, now, 1).allowed <=> Tokens(i, e, now) >= 1 * Window[i]
  BY <1>4 DEF Evaluate, TokenBucket
<1>5. ASSUME Algorithm[i] = "leaky_bucket"
      PROVE  Evaluate(i, e, now, 1).allowed <=> Level(i, e, now) + 1 * Window[i] <= Full(i)
  BY <1>5 DEF Evaluate, LeakyBucket
<1> QED
  BY <1>1, <1>2, <1>3, <1>4, <1>5

\* A rule lets a request through exactly when its meter has room.
LEMMA Allows ==
    ASSUME NEW i \in Rule, NEW now \in Nat, NEW e, Fits(i, e, now)
    PROVE  Evaluate(i, e, now, 1).allowed <=> Meter!HasRoom(i, LoadOf(i, e, now))
<1>1. CASE Algorithm[i] = "fixed_window"
  <2>1. LoadOf(i, e, now) = Smaller(Limit[i], Counted(i, e, now))
    BY <1>1 DEF LoadOf
  <2>2. Meter!HasRoom(i, LoadOf(i, e, now)) <=> Counted(i, e, now) + 1 <= Limit[i]
    BY <1>1, <2>1, CountedOf, Params DEF Smaller, Meter!HasRoom
  <2> QED
    BY <1>1, <2>2, AllowedWhen
<1>2. CASE Algorithm[i] = "sliding_window"
  <2>1. LoadOf(i, e, now) = Kept(i, e, now)
    BY <1>2 DEF LoadOf
  <2>2. Len(Kept(i, e, now)) \in Nat
    BY <1>2, KeptOf
  <2>3. Meter!HasRoom(i, LoadOf(i, e, now)) <=> Len(Kept(i, e, now)) + 1 <= Limit[i]
    BY <1>2, <2>1, <2>2, Params DEF Meter!HasRoom
  <2> QED
    BY <1>2, <2>3, AllowedWhen
<1>3. CASE Algorithm[i] = "token_bucket"
  <2>1. LoadOf(i, e, now) = Full(i) - Tokens(i, e, now)
    BY <1>3 DEF LoadOf
  <2>2. Tokens(i, e, now) \in 0 .. Full(i)
    BY TokensOf
  <2>3. Meter!HasRoom(i, LoadOf(i, e, now)) <=> LoadOf(i, e, now) + Window[i] <= Full(i)
    BY <1>3 DEF Meter!HasRoom, Full
  <2>4. Meter!HasRoom(i, LoadOf(i, e, now)) <=> Tokens(i, e, now) >= Window[i]
    BY <2>1, <2>2, <2>3, Params
  <2> QED
    BY <1>3, <2>4, AllowedWhen
<1>4. CASE Algorithm[i] = "leaky_bucket"
  <2>1. LoadOf(i, e, now) = Level(i, e, now)
    BY <1>4 DEF LoadOf
  <2>2. Meter!HasRoom(i, LoadOf(i, e, now)) <=> Level(i, e, now) + Window[i] <= Full(i)
    BY <1>4, <2>1 DEF Meter!HasRoom, Full
  <2> QED
    BY <1>4, <2>2, AllowedWhen
<1> QED
  BY <1>1, <1>2, <1>3, <1>4, Params DEF RateLimitAlgorithm

LEMMA AllowedAdmits ==
    ASSUME NEW i \in Rule, NEW now \in Nat, NEW e, Fits(i, e, now),
           Evaluate(i, e, now, 1).allowed
    PROVE  Admits(i, e, now, Evaluate(i, e, now, 1))
<1>1. CASE Algorithm[i] = "fixed_window"
  <2>1. Evaluate(i, e, now, 1) = FixedWindow(i, e, now, 1)
    BY <1>1 DEF Evaluate
  <2> QED
    BY <1>1, <2>1, AllowedWhen, FixedWindowAdmits
<1>2. CASE Algorithm[i] = "sliding_window"
  <2>1. Evaluate(i, e, now, 1) = SlidingWindow(i, e, now, 1)
    BY <1>2 DEF Evaluate
  <2> QED
    BY <1>2, <2>1, AllowedWhen, SlidingWindowAdmits
<1>3. CASE Algorithm[i] = "token_bucket"
  <2>1. Evaluate(i, e, now, 1) = TokenBucket(i, e, now, 1)
    BY <1>3 DEF Evaluate
  <2> QED
    BY <1>3, <2>1, AllowedWhen, TokenBucketAdmits
<1>4. CASE Algorithm[i] = "leaky_bucket"
  <2>1. Evaluate(i, e, now, 1) = LeakyBucket(i, e, now, 1)
    BY <1>4 DEF Evaluate
  <2> QED
    BY <1>4, <2>1, AllowedWhen, LeakyBucketAdmits
<1> QED
  BY <1>1, <1>2, <1>3, <1>4, Params DEF RateLimitAlgorithm

\* A refusal that a fixed window counts leaves its load what it was.
LEMMA RefusalIsNoLoad ==
    ASSUME NEW i \in Rule, NEW now \in Nat, NEW e, Fits(i, e, now),
           Algorithm[i] = "fixed_window", ~Evaluate(i, e, now, 1).allowed
    PROVE  LET f == Evaluate(i, e, now, 1).state
           IN  Fits(i, f, now) /\ Live(f, now) /\ LoadOf(i, f, now) = LoadOf(i, e, now)
<1> DEFINE n == Counted(i, e, now)
           f == [units |-> n + 1, at |-> WindowStart(i, now), stamps |-> <<>>,
                 expires |-> now + Ttl(i)]
<1>1. Evaluate(i, e, now, 1).state = f
  BY DEF Evaluate, FixedWindow
<1>2. ~(n + 1 <= Limit[i])
  BY DEF Evaluate, FixedWindow
<1>3. n \in Nat /\ n >= Limit[i]
  BY <1>2, CountedOf, Params
<1>4. /\ WindowStart(i, now) \in Nat /\ WindowStart(i, now) <= now
      /\ WindowStart(i, now) % Window[i] = 0 /\ Ttl(i) \in Nat /\ Ttl(i) >= 1
  BY WindowStartOf, TtlOf
<1>5. LoadOf(i, e, now) = Limit[i]
  BY <1>3, Params DEF LoadOf, Smaller
<1> HIDE DEF n
<1>6. Fits(i, f, now) /\ Live(f, now)
  BY <1>3, <1>4 DEF Fits, Entry, Live
<1>7. LoadOf(i, f, now) = Limit[i]
  <2>1. Counted(i, f, now) = n + 1
    BY <1>6 DEF Counted
  <2> QED
    BY <1>3, <2>1, Params DEF LoadOf, Smaller
<1> QED
  BY <1>1, <1>5, <1>6, <1>7

-----------------------------------------------------------------------------
(* A tick drains the load, though the entry stays as it is or expires.     *)

LEMMA FixedWindowDrains ==
    ASSUME NEW i \in Rule, NEW now \in Nat, NEW e, Fits(i, e, now),
           Algorithm[i] = "fixed_window"
    PROVE  Counted(i, e, now + 1) =
             IF (now + 1) % Window[i] = 0 THEN 0 ELSE Counted(i, e, now)
<1> DEFINE a == WindowStart(i, now)
           b == WindowStart(i, now + 1)
<1>1. b = IF (now + 1) % Window[i] = 0 THEN now + 1 ELSE a
  BY NextWindow
<1>2. a \in Nat /\ now < a + Window[i]
  BY WindowStartOf
<1>3. CASE ~Live(e, now)
  <2>1. ~Live(e, now + 1)
    BY <1>3 DEF Live, Fits, Entry
  <2> QED
    BY <1>3, <2>1 DEF Counted
<1>4. CASE Live(e, now)
  <2>1. e.at \in Nat /\ e.at <= now /\ e.expires \in Nat /\ e.expires >= e.at + Ttl(i)
    BY <1>4, LiveFits
  <2>2. e.at = a => Live(e, now + 1)
    BY <1>2, <2>1, TtlOf, Params DEF Live
  <2> HIDE DEF a, b
  <2>3. CASE (now + 1) % Window[i] = 0
    <3>1. e.at # b
      BY <1>1, <2>1, <2>3
    <3> QED
      BY <2>3, <3>1 DEF Counted, b
  <2>4. CASE (now + 1) % Window[i] # 0
    <3>1. b = a
      BY <1>1, <2>4
    <3>2. Counted(i, e, now) = IF e.at = a THEN e.units ELSE 0
      BY <1>4 DEF Counted, a
    <3>3. Counted(i, e, now + 1) = IF Live(e, now + 1) /\ e.at = b THEN e.units ELSE 0
      BY DEF Counted, b
    <3> QED
      BY <2>2, <2>4, <3>1, <3>2, <3>3
  <2> QED
    BY <2>3, <2>4
<1> QED
  BY <1>3, <1>4

LEMMA SlidingWindowDrains ==
    ASSUME NEW i \in Rule, NEW now \in Nat, NEW e, Fits(i, e, now),
           Algorithm[i] = "sliding_window"
    PROVE  Kept(i, e, now + 1) = Within(Kept(i, e, now), Window[i], now + 1)
<1>1. Within(<<>>, Window[i], now + 1) = <<>>
  <2>1. <<>> \in Seq(Nat) /\ Len(<<>>) = 0 /\ Sorted(<<>>)
    BY DEF Sorted
  <2>2. \A j \in 1 .. Len(<<>>) : <<>>[j] + Window[i] > now + 1
    BY <2>1
  <2>3. Window[i] \in Nat /\ now + 1 \in Nat
    BY Params
  <2> QED
    BY <2>1, <2>2, <2>3, WithinAll
<1>2. CASE ~Live(e, now)
  <2>1. ~Live(e, now + 1)
    BY <1>2 DEF Live, Fits, Entry
  <2> QED
    BY <1>1, <1>2, <2>1 DEF Kept
<1>3. CASE Live(e, now)
  <2> DEFINE s == e.stamps
  <2>1. /\ s \in Seq(Nat) /\ Sorted(s) /\ UpTo(s, e.at)
        /\ e.at \in Nat /\ e.expires \in Nat /\ e.expires >= e.at + Ttl(i)
    BY <1>3, LiveFits
  <2>2. Kept(i, e, now) = Within(s, Window[i], now)
    BY <1>3 DEF Kept
  <2> HIDE DEF s
  <2>3. Within(Kept(i, e, now), Window[i], now + 1) = Within(s, Window[i], now + 1)
    BY <2>1, <2>2, WithinAgain, Params
  <2>4. CASE Live(e, now + 1)
    BY <2>3, <2>4 DEF Kept, s
  <2>5. CASE ~Live(e, now + 1)
    <3>0. Window[i] \in Nat /\ Window[i] >= 1 /\ Ttl(i) \in Nat /\ Ttl(i) >= 2 * Window[i]
      BY TtlOf, Params
    <3>1. now + 1 >= e.at + 2 * Window[i]
      BY <2>1, <2>5, <3>0 DEF Live
    <3>2. PICK n \in 0 .. Len(s) :
             /\ \A j \in 1 .. Len(s) : (s[j] + Window[i] <= now) <=> j <= n
             /\ Rest(Within(s, Window[i], now), s, n)
      BY <2>1, WithinOf, Params
    <3>3. n = Len(s)
      <4>1. \A j \in 1 .. Len(s) : s[j] \in Nat /\ s[j] <= e.at
        BY <2>1 DEF UpTo
      <4>2. e.at + Window[i] <= now
        BY <2>1, <3>0, <3>1
      <4>3. ASSUME NEW j \in 1 .. Len(s) PROVE s[j] + Window[i] <= now
        <5>1. s[j] \in Nat /\ s[j] <= e.at /\ e.at \in Nat
          BY <2>1, <4>1
        <5> QED
          BY <3>0, <4>2, <5>1
      <4> QED
        BY <3>2, <4>3
    <3>4. Kept(i, e, now) = <<>>
      BY <2>2, <3>2, <3>3 DEF Rest
    <3> QED
      BY <1>1, <2>5, <3>4 DEF Kept
  <2> QED
    BY <2>4, <2>5
<1> QED
  BY <1>2, <1>3

\* A bucket whose entry has expired would be full, or empty, again.
LEMMA BucketsExpireSettled ==
    ASSUME NEW i \in Rule, NEW t \in Nat, NEW e, Fits(i, e, t), e.expires # 0,
           ~Live(e, t), Algorithm[i] \in {"token_bucket", "leaky_bucket"}
    PROVE  (t - e.at) * Limit[i] \in Nat /\ (t - e.at) * Limit[i] >= Full(i)
<1>1. e.at \in Nat /\ e.expires \in Nat /\ e.expires >= e.at + Ttl(i) /\ t >= e.expires
  BY DEF Fits, Entry, Live
<1>2. Ttl(i) <= t - e.at /\ Ttl(i) \in Nat /\ t - e.at \in Nat
  BY <1>1, TtlOf
<1>3. Ttl(i) * Limit[i] \in Nat /\ Ttl(i) * Limit[i] <= (t - e.at) * Limit[i]
  BY <1>2, ProductsGrow, Params
<1> QED
  BY <1>2, <1>3, TtlOf, Params

LEMMA TokenBucketDrains ==
    ASSUME NEW i \in Rule, NEW now \in Nat, NEW e, Fits(i, e, now),
           Algorithm[i] = "token_bucket"
    PROVE  Tokens(i, e, now + 1) = Smaller(Full(i), Tokens(i, e, now) + Limit[i])
<1>1. CASE ~Live(e, now)
  <2>1. ~Live(e, now + 1)
    BY <1>1 DEF Live, Fits, Entry
  <2> QED
    BY <1>1, <2>1, Params DEF Tokens, Smaller
<1>2. CASE Live(e, now)
  <2> DEFINE x == (now - e.at) * Limit[i]
             y == ((now + 1) - e.at) * Limit[i]
  <2>1. e.units \in 0 .. Full(i) /\ now - e.at \in Nat /\ e.at \in Nat /\ e.expires # 0
    BY <1>2, LiveFits, Params
  <2>2. x \in Nat /\ y = x + Limit[i]
    <3>1. ((now + 1) - e.at) = (now - e.at) + 1
      BY <2>1
    <3>2. ((now - e.at) + 1) * Limit[i] = (now - e.at) * Limit[i] + Limit[i]
      BY <2>1, NextProduct, Params
    <3>3. (now - e.at) * Limit[i] \in Nat
      BY <2>1, ProductsGrow, Params
    <3> QED
      BY <3>1, <3>2, <3>3
  <2>3. Tokens(i, e, now) = Smaller(Full(i), e.units + x)
    BY <1>2 DEF Tokens
  <2>4. CASE Live(e, now + 1)
    <3>1. Tokens(i, e, now + 1) = Smaller(Full(i), e.units + y)
      BY <2>4 DEF Tokens
    <3> HIDE DEF x, y
    <3> QED
      BY <2>1, <2>2, <2>3, <3>1, Params DEF Smaller
  <2>5. CASE ~Live(e, now + 1)
    <3>1. y >= Full(i)
      <4>1. Fits(i, e, now + 1) /\ now + 1 \in Nat
        BY FitsLater
      <4> HIDE DEF y
      <4>2. Algorithm[i] \in {"token_bucket", "leaky_bucket"}
        OBVIOUS
      <4> QED
        BY <2>1, <2>5, <4>1, <4>2, BucketsExpireSettled DEF y
    <3>2. x + Limit[i] >= Full(i)
      BY <2>2, <3>1
    <3>3. Tokens(i, e, now + 1) = Full(i)
      BY <2>5 DEF Tokens
    <3> HIDE DEF x, y
    <3> QED
      BY <2>1, <2>2, <2>3, <3>2, <3>3, Params DEF Smaller
  <2> QED
    BY <2>4, <2>5
<1> QED
  BY <1>1, <1>2

LEMMA LeakyBucketDrains ==
    ASSUME NEW i \in Rule, NEW now \in Nat, NEW e, Fits(i, e, now),
           Algorithm[i] = "leaky_bucket"
    PROVE  Level(i, e, now + 1) = Larger(0, Level(i, e, now) - Limit[i])
<1>1. CASE ~Live(e, now)
  <2>1. ~Live(e, now + 1)
    BY <1>1 DEF Live, Fits, Entry
  <2> QED
    BY <1>1, <2>1, Params DEF Level, Larger
<1>2. CASE Live(e, now)
  <2> DEFINE x == (now - e.at) * Limit[i]
             y == ((now + 1) - e.at) * Limit[i]
  <2>1. e.units \in 0 .. Full(i) /\ now - e.at \in Nat /\ e.at \in Nat /\ e.expires # 0
    BY <1>2, LiveFits, Params
  <2>2. x \in Nat /\ y = x + Limit[i]
    <3>1. ((now + 1) - e.at) = (now - e.at) + 1
      BY <2>1
    <3>2. ((now - e.at) + 1) * Limit[i] = (now - e.at) * Limit[i] + Limit[i]
      BY <2>1, NextProduct, Params
    <3>3. (now - e.at) * Limit[i] \in Nat
      BY <2>1, ProductsGrow, Params
    <3> QED
      BY <3>1, <3>2, <3>3
  <2>3. Level(i, e, now) = Larger(0, e.units - x)
    BY <1>2 DEF Level
  <2>4. CASE Live(e, now + 1)
    <3>1. Level(i, e, now + 1) = Larger(0, e.units - y)
      BY <2>4 DEF Level
    <3> HIDE DEF x, y
    <3> QED
      BY <2>1, <2>2, <2>3, <3>1, Params DEF Larger
  <2>5. CASE ~Live(e, now + 1)
    <3>1. y >= Full(i)
      <4>1. Fits(i, e, now + 1) /\ now + 1 \in Nat
        BY FitsLater
      <4> HIDE DEF y
      <4>2. Algorithm[i] \in {"token_bucket", "leaky_bucket"}
        OBVIOUS
      <4> QED
        BY <2>1, <2>5, <4>1, <4>2, BucketsExpireSettled DEF y
    <3>2. x + Limit[i] >= Full(i)
      BY <2>2, <3>1
    <3>3. Level(i, e, now + 1) = 0
      BY <2>5 DEF Level
    <3> HIDE DEF x, y
    <3> QED
      BY <2>1, <2>2, <2>3, <3>2, <3>3, Params DEF Larger
  <2> QED
    BY <2>4, <2>5
<1> QED
  BY <1>1, <1>2

LEMMA LoadDrains ==
    ASSUME NEW i \in Rule, NEW now \in Nat, NEW e, Fits(i, e, now)
    PROVE  LoadOf(i, e, now + 1) = Meter!Drained(i, LoadOf(i, e, now), now + 1)
<1>1. CASE Algorithm[i] = "fixed_window"
  BY <1>1, FixedWindowDrains, Params DEF LoadOf, Meter!Drained, Smaller
<1>2. CASE Algorithm[i] = "sliding_window"
  <2>1. \A l, t : Meter!Within(l, Window[i], t) = Within(l, Window[i], t)
    BY DEF Meter!Within, Within, Meter!Cardinality, Cardinality
  <2> QED
    BY <1>2, <2>1, SlidingWindowDrains DEF LoadOf, Meter!Drained
<1>3. CASE Algorithm[i] = "token_bucket"
  <2>1. /\ LoadOf(i, e, now) = Full(i) - Tokens(i, e, now)
        /\ LoadOf(i, e, now + 1) = Full(i) - Tokens(i, e, now + 1)
    BY <1>3 DEF LoadOf
  <2>2. Tokens(i, e, now) \in 0 .. Full(i)
    BY TokensOf
  <2>3. Tokens(i, e, now + 1) = Smaller(Full(i), Tokens(i, e, now) + Limit[i])
    BY <1>3, TokenBucketDrains
  <2>4. \A l : Meter!Drained(i, l, now + 1) = IF l > Limit[i] THEN l - Limit[i] ELSE 0
    BY <1>3 DEF Meter!Drained
  <2> QED
    BY <2>1, <2>2, <2>3, <2>4, Params DEF Smaller
<1>4. CASE Algorithm[i] = "leaky_bucket"
  <2>1. /\ LoadOf(i, e, now) = Level(i, e, now)
        /\ LoadOf(i, e, now + 1) = Level(i, e, now + 1)
    BY <1>4 DEF LoadOf
  <2>2. Level(i, e, now) \in 0 .. Full(i)
    BY <1>4, LevelOf
  <2>3. Level(i, e, now + 1) = Larger(0, Level(i, e, now) - Limit[i])
    BY <1>4, LeakyBucketDrains
  <2>4. \A l : Meter!Drained(i, l, now + 1) = IF l > Limit[i] THEN l - Limit[i] ELSE 0
    BY <1>4 DEF Meter!Drained
  <2> QED
    BY <2>1, <2>2, <2>3, <2>4, Params DEF Larger
<1> QED
  BY <1>1, <1>2, <1>3, <1>4, Params DEF RateLimitAlgorithm

LEMMA LoadTyped ==
    ASSUME NEW i \in Rule, NEW now \in Nat, NEW e, Fits(i, e, now)
    PROVE  /\ Algorithm[i] = "fixed_window" => LoadOf(i, e, now) \in 0 .. Limit[i]
           /\ Algorithm[i] = "sliding_window" =>
                /\ LoadOf(i, e, now) \in Seq(Nat) /\ Sorted(LoadOf(i, e, now))
                /\ UpTo(LoadOf(i, e, now), now) /\ Len(LoadOf(i, e, now)) <= Limit[i]
           /\ Algorithm[i] \in {"token_bucket", "leaky_bucket"} =>
                LoadOf(i, e, now) \in 0 .. Full(i)
<1>1. CASE Algorithm[i] = "fixed_window"
  BY <1>1, CountedOf, Params DEF LoadOf, Smaller
<1>2. CASE Algorithm[i] = "sliding_window"
  BY <1>2, KeptOf DEF LoadOf
<1>3. CASE Algorithm[i] = "token_bucket"
  BY <1>3, TokensOf, Params DEF LoadOf
<1>4. CASE Algorithm[i] = "leaky_bucket"
  BY <1>4, LevelOf, Params DEF LoadOf
<1> QED
  BY <1>1, <1>2, <1>3, <1>4, Params DEF RateLimitAlgorithm

-----------------------------------------------------------------------------
(* What the load covers of the requests that were accepted.                *)

\* A charge makes room for one more acceptance, and the load of a rule that
\* had room bounds how close the acceptances can lie.
LEMMA ChargeCovers ==
    ASSUME NEW i \in Rule, NEW now \in Nat, NEW e, Fits(i, e, now),
           NEW s \in Seq(Nat), Sorted(s), UpTo(s, now),
           Covered(i, s, LoadOf(i, e, now), now), Spread(i, s),
           Meter!HasRoom(i, LoadOf(i, e, now))
    PROVE  /\ Covered(i, Append(s, now), Charge(i, LoadOf(i, e, now), now), now)
           /\ Spread(i, Append(s, now))
<1> DEFINE l == LoadOf(i, e, now)
           m == Charge(i, l, now)
           t == Append(s, now)
<1>0. /\ Window[i] \in Nat /\ Window[i] >= 1 /\ Limit[i] \in Nat /\ Limit[i] >= 1
      /\ Full(i) \in Nat
      /\ Len(s) \in Nat /\ Len(t) = Len(s) + 1
  BY Params, SortedAppend
<1>1. /\ t \in Seq(Nat) /\ Len(t) = Len(s) + 1 /\ t[Len(s) + 1] = now
      /\ \A n \in 1 .. Len(s) : t[n] = s[n] /\ s[n] \in Nat /\ s[n] <= now
  BY SortedAppend DEF UpTo
<1>2. CASE Algorithm[i] = "fixed_window"
  <2>1. l \in Nat /\ l < Limit[i] /\ m = l + 1
    BY <1>2, LoadTyped, <1>0 DEF Meter!HasRoom, Charge
  <2>2. \A n \in 1 .. Len(s) : s[n] >= WindowStart(i, now) => Len(s) - n + 1 <= l
    BY <1>2 DEF Covered
  <2>3. \A n \in 1 .. Len(s) : n + Limit[i] <= Len(s) => s[n] < WindowStart(i, s[n + Limit[i]])
    BY <1>2 DEF Spread
  <2>4. WindowStart(i, now) \in Nat
    BY WindowStartOf
  <2> HIDE DEF l, m, t
  <2>5. ASSUME NEW n \in 1 .. Len(t), t[n] >= WindowStart(i, now)
        PROVE  Len(t) - n + 1 <= m
    <3>1. CASE n = Len(s) + 1
      BY <1>1, <2>1, <3>1
    <3>2. CASE n \in 1 .. Len(s)
      <4>1. Len(s) - n + 1 <= l
        BY <1>1, <2>2, <2>5, <3>2
      <4> QED
        BY <1>1, <2>1, <3>2, <4>1
    <3> QED
      BY <1>1, <3>1, <3>2
  <2>6. ASSUME NEW n \in 1 .. Len(t), n + Limit[i] <= Len(t)
        PROVE  t[n] < WindowStart(i, t[n + Limit[i]])
    <3>0. n \in 1 .. Len(s)
      BY <1>0, <2>6
    <3>1. n \in 1 .. Len(s) /\ t[n] = s[n] /\ s[n] \in Nat
      BY <1>1, <3>0
    <3>2. CASE n + Limit[i] = Len(s) + 1
      <4>1. t[n + Limit[i]] = now
        BY <1>1, <3>2
      <4>2. ~(Len(s) - n + 1 <= l)
        BY <2>1, <3>1, <3>2, <1>0
      <4> QED
        BY <2>2, <2>4, <3>1, <4>1, <4>2
    <3>3. CASE n + Limit[i] <= Len(s)
      <4>1. n + Limit[i] \in 1 .. Len(s)
        BY <3>1, <3>3, <1>0
      <4>2. t[n + Limit[i]] = s[n + Limit[i]]
        BY <1>1, <4>1
      <4> QED
        BY <2>3, <3>1, <3>3, <4>2
    <3> QED
      BY <1>0, <2>6, <3>2, <3>3
  <2> QED
    BY <1>2, <2>5, <2>6 DEF Covered, Spread, l, m, t
<1>3. CASE Algorithm[i] = "sliding_window"
  <2>1. /\ l \in Seq(Nat) /\ Sorted(l) /\ UpTo(l, now) /\ Len(l) < Limit[i]
        /\ m = Append(l, now)
    BY <1>3, LoadTyped, <1>0 DEF Meter!HasRoom, Charge
  <2>2. \A n \in 1 .. Len(s) :
           s[n] + Window[i] > now =>
               Len(s) - n < Len(l) /\ l[Len(l) - (Len(s) - n)] >= s[n]
    BY <1>3 DEF Covered
  <2>3. \A n \in 1 .. Len(s) : n + Limit[i] <= Len(s) => s[n] + Window[i] <= s[n + Limit[i]]
    BY <1>3 DEF Spread
  <2> HIDE DEF l, t
  <2>4. /\ Len(m) = Len(l) + 1 /\ m[Len(l) + 1] = now
        /\ \A j \in 1 .. Len(l) : m[j] = l[j]
    BY <2>1
  <2> HIDE DEF m
  <2>5. ASSUME NEW n \in 1 .. Len(t), t[n] + Window[i] > now
        PROVE  Len(t) - n < Len(m) /\ m[Len(m) - (Len(t) - n)] >= t[n]
    <3>1. CASE n = Len(s) + 1
      <4>1. Len(t) - n = 0 /\ Len(m) - (Len(t) - n) = Len(l) + 1
        BY <1>1, <2>1, <2>4, <3>1
      <4> QED
        BY <1>1, <2>1, <2>4, <3>1, <4>1
    <3>2. CASE n \in 1 .. Len(s)
      <4>1. Len(s) - n < Len(l) /\ l[Len(l) - (Len(s) - n)] >= s[n] /\ t[n] = s[n]
        BY <1>1, <2>2, <2>5, <3>2
      <4>2. /\ Len(l) - (Len(s) - n) \in 1 .. Len(l)
            /\ Len(m) - (Len(t) - n) = Len(l) - (Len(s) - n)
        BY <1>1, <2>1, <2>4, <3>2, <4>1
      <4>3. m[Len(m) - (Len(t) - n)] >= t[n]
        BY <2>4, <4>1, <4>2
      <4>4. Len(t) - n < Len(m)
        BY <1>1, <2>1, <2>4, <3>2, <4>1
      <4> QED
        BY <4>3, <4>4
    <3> QED
      BY <1>1, <3>1, <3>2
  <2>6. ASSUME NEW n \in 1 .. Len(t), n + Limit[i] <= Len(t)
        PROVE  t[n] + Window[i] <= t[n + Limit[i]]
    <3>0. n \in 1 .. Len(s)
      BY <1>0, <2>6
    <3>1. n \in 1 .. Len(s) /\ t[n] = s[n] /\ s[n] \in Nat
      BY <1>1, <3>0
    <3>2. CASE n + Limit[i] = Len(s) + 1
      <4>1. t[n + Limit[i]] = now
        BY <1>1, <3>2
      <4>2. ~(Len(s) - n < Len(l))
        BY <2>1, <3>1, <3>2, <1>0
      <4> QED
        BY <2>2, <3>1, <4>1, <4>2, <1>0
    <3>3. CASE n + Limit[i] <= Len(s)
      <4>1. n + Limit[i] \in 1 .. Len(s)
        BY <3>1, <3>3, <1>0
      <4>2. t[n + Limit[i]] = s[n + Limit[i]]
        BY <1>1, <4>1
      <4> QED
        BY <2>3, <3>1, <3>3, <4>2
    <3> QED
      BY <1>0, <2>6, <3>2, <3>3
  <2> QED
    BY <1>3, <2>5, <2>6 DEF Covered, Spread, l, m, t
<1>4. CASE Algorithm[i] \in {"token_bucket", "leaky_bucket"}
  <2>1. l \in Nat /\ m = l + Window[i]
    BY <1>4, LoadTyped, <1>0 DEF Charge
  <2>2. m <= Full(i)
    BY <1>4, <2>1 DEF Meter!HasRoom, Full
  <2>3. \A n \in 1 .. Len(s) : (Len(s) - n + 1) * Window[i] <= l + (now - s[n]) * Limit[i]
    BY <1>4 DEF Covered
  <2>4. \A p, n \in 1 .. Len(s) :
           p <= n => (n - p + 1) * Window[i] <= Full(i) + (s[n] - s[p]) * Limit[i]
    BY <1>4 DEF Spread
  <2> HIDE DEF l, m, t
  <2>5. ASSUME NEW n \in 1 .. Len(t)
        PROVE  (Len(t) - n + 1) * Window[i] <= m + (now - t[n]) * Limit[i]
    <3>1. CASE n = Len(s) + 1
      <4>1. Len(t) - n + 1 = 1 /\ now - t[n] = 0
        BY <1>1, <3>1
      <4>2. (Len(t) - n + 1) * Window[i] = Window[i] /\ (now - t[n]) * Limit[i] = 0
        <5>1. /\ Len(t) - n + 1 \in Int /\ now - t[n] \in Int
              /\ Window[i] \in Int /\ Limit[i] \in Int
          BY <4>1, <1>0
        <5> QED
          BY <4>1, <5>1, SmallProduct
      <4> QED
        BY <2>1, <4>2, <1>0
    <3>2. CASE n \in 1 .. Len(s)
      <4>1. (Len(s) - n + 1) * Window[i] <= l + (now - s[n]) * Limit[i]
        BY <2>3, <3>2
      <4>2. /\ Len(t) - n + 1 = (Len(s) - n + 1) + 1 /\ Len(s) - n + 1 \in Int
            /\ t[n] = s[n] /\ now - s[n] \in Int
        BY <1>1, <3>2
      <4>3. /\ ((Len(s) - n + 1) + 1) * Window[i] = (Len(s) - n + 1) * Window[i] + Window[i]
            /\ (Len(s) - n + 1) * Window[i] \in Int /\ (now - s[n]) * Limit[i] \in Int
        <5> DEFINE a == Len(s) - n + 1
                   b == now - s[n]
        <5>1. a \in Int /\ b \in Int /\ Window[i] \in Int /\ Limit[i] \in Int
          BY <4>2, <1>0
        <5> HIDE DEF a, b
        <5>2. a * Window[i] \in Int /\ (a + 1) * Window[i] = a * Window[i] + Window[i] /\ b * Limit[i] \in Int
          BY <5>1, NextProduct
        <5> QED
          BY <5>2 DEF a, b
      <4>4. (Len(t) - n + 1) * Window[i] = (Len(s) - n + 1) * Window[i] + Window[i]
        BY <4>2, <4>3
      <4> DEFINE a == (Len(s) - n + 1) * Window[i]
                 b == (now - s[n]) * Limit[i]
      <4>5. a \in Int /\ b \in Int /\ a <= l + b
        BY <4>1, <4>3, Zenon
      <4>6. (Len(t) - n + 1) * Window[i] = a + Window[i] /\ (now - t[n]) * Limit[i] = b
        BY <4>2, <4>4, Zenon
      <4> HIDE DEF a, b
      <4>7. a + Window[i] <= m + b
        BY <2>1, <4>5, <1>0
      <4> QED
        BY <4>6, <4>7, Zenon
    <3> QED
      BY <1>1, <3>1, <3>2
  <2>6. ASSUME NEW p \in 1 .. Len(t), NEW n \in 1 .. Len(t), p <= n
        PROVE  (n - p + 1) * Window[i] <= Full(i) + (t[n] - t[p]) * Limit[i]
    <3>1. CASE n = Len(s) + 1
      <4>1. (n - p + 1) * Window[i] <= m + (t[n] - t[p]) * Limit[i]
        BY <1>1, <2>5, <3>1
      <4>2. n - p + 1 \in Int /\ t[n] - t[p] \in Int
        BY <1>1, <3>1
      <4>3. (n - p + 1) * Window[i] \in Int /\ (t[n] - t[p]) * Limit[i] \in Int
        BY <4>2, <1>0, SmallProduct
      <4> QED
        BY <2>1, <2>2, <4>1, <4>3, <1>0
    <3>2. CASE n \in 1 .. Len(s)
      <4>1. p \in 1 .. Len(s) /\ t[n] = s[n] /\ t[p] = s[p]
        <5>1. p \in 1 .. Len(s)
          BY <2>6, <3>2
        <5> QED
          BY <1>1, <3>2, <5>1
      <4>2. (n - p + 1) * Window[i] <= Full(i) + (s[n] - s[p]) * Limit[i]
        BY <2>4, <2>6, <3>2, <4>1, Zenon
      <4> QED
        BY <4>1, <4>2, Zenon
    <3> QED
      BY <1>1, <3>1, <3>2
  <2> QED
    BY <1>4, <2>5, <2>6 DEF Covered, Spread, l, m, t
<1> QED
  BY <1>2, <1>3, <1>4, Params DEF RateLimitAlgorithm

\* A charge for a request that a later rule refused covers no less.
LEMMA ChargeKeepsCovered ==
    ASSUME NEW i \in Rule, NEW now \in Nat, NEW e, Fits(i, e, now),
           NEW s \in Seq(Nat), UpTo(s, now), Covered(i, s, LoadOf(i, e, now), now)
    PROVE  Covered(i, s, Charge(i, LoadOf(i, e, now), now), now)
<1> DEFINE l == LoadOf(i, e, now)
           m == Charge(i, l, now)
<1>0. /\ Window[i] \in Nat /\ Window[i] >= 1 /\ Limit[i] \in Nat /\ Limit[i] >= 1
      /\ Full(i) \in Nat
  BY Params
<1>1. \A n \in 1 .. Len(s) : s[n] \in Nat /\ s[n] <= now
  BY DEF UpTo
<1>2. CASE Algorithm[i] = "fixed_window"
  <2>1. l \in Nat /\ m = l + 1
    BY <1>2, LoadTyped, <1>0 DEF Charge
  <2>2. \A n \in 1 .. Len(s) : s[n] >= WindowStart(i, now) => Len(s) - n + 1 <= l
    BY <1>2 DEF Covered
  <2> HIDE DEF l, m
  <2>3. \A n \in 1 .. Len(s) : s[n] >= WindowStart(i, now) => Len(s) - n + 1 <= m
    BY <2>1, <2>2
  <2> QED
    BY <1>2, <2>3 DEF Covered, l, m
<1>3. CASE Algorithm[i] = "sliding_window"
  <2>1. l \in Seq(Nat) /\ Sorted(l) /\ UpTo(l, now) /\ m = Append(l, now)
    BY <1>3, LoadTyped DEF Charge
  <2>2. \A n \in 1 .. Len(s) :
           s[n] + Window[i] > now =>
               Len(s) - n < Len(l) /\ l[Len(l) - (Len(s) - n)] >= s[n]
    BY <1>3 DEF Covered
  <2> HIDE DEF l
  <2>3. /\ Len(m) = Len(l) + 1 /\ m[Len(l) + 1] = now
        /\ \A j \in 1 .. Len(l) : m[j] = l[j] /\ l[j] \in Nat
    BY <2>1
  <2> HIDE DEF m
  <2>4. ASSUME NEW n \in 1 .. Len(s), s[n] + Window[i] > now
        PROVE  Len(s) - n < Len(m) /\ m[Len(m) - (Len(s) - n)] >= s[n]
    <3> DEFINE k == Len(l) - (Len(s) - n)
    <3>1. Len(s) - n < Len(l) /\ l[k] >= s[n]
      BY <2>2, <2>4
    <3>2. k \in 1 .. Len(l) /\ Len(m) - (Len(s) - n) = k + 1
      BY <2>1, <2>3, <3>1
    <3> HIDE DEF k
    <3>3. m[k + 1] >= l[k]
      <4>1. CASE k = Len(l)
        BY <2>1, <2>3, <3>2, <4>1 DEF UpTo
      <4>2. CASE k < Len(l)
        <5>1. k + 1 \in 1 .. Len(l) /\ k <= k + 1
          BY <3>2, <4>2
        <5>2. l[k] <= l[k + 1]
          BY <2>1, <3>2, <5>1 DEF Sorted
        <5> QED
          BY <2>3, <3>2, <5>1, <5>2
      <4> QED
        BY <2>1, <3>2, <4>1, <4>2
    <3>4. m[k + 1] \in Nat /\ l[k] \in Nat /\ s[n] \in Nat
      <4>1. m \in Seq(Nat) /\ k + 1 \in 1 .. Len(m)
        BY <1>0, <2>1, <2>3, <3>2
      <4>2. m[k + 1] \in Nat
        BY <4>1
      <4>3. l[k] \in Nat
        BY <2>1, <3>2
      <4>4. s[n] \in Nat
        OBVIOUS
      <4> QED
        BY <4>2, <4>3, <4>4
    <3>5. m[k + 1] >= s[n]
      BY <3>1, <3>3, <3>4
    <3>6. Len(s) - n < Len(m)
      BY <2>1, <2>3, <3>1
    <3> QED
      BY <3>2, <3>5, <3>6
  <2> QED
    BY <1>3, <2>4 DEF Covered, l, m
<1>4. CASE Algorithm[i] \in {"token_bucket", "leaky_bucket"}
  <2>1. l \in Nat /\ m = l + Window[i]
    BY <1>4, LoadTyped, <1>0 DEF Charge
  <2>2. \A n \in 1 .. Len(s) : (Len(s) - n + 1) * Window[i] <= l + (now - s[n]) * Limit[i]
    BY <1>4 DEF Covered
  <2> HIDE DEF l, m
  <2>3. ASSUME NEW n \in 1 .. Len(s)
        PROVE  (Len(s) - n + 1) * Window[i] <= m + (now - s[n]) * Limit[i]
    <3>1. Len(s) - n + 1 \in Int /\ now - s[n] \in Int
      BY <1>1
    <3> DEFINE a == Len(s) - n + 1
               b == now - s[n]
    <3>2. a * Window[i] <= l + b * Limit[i]
      BY <2>2
    <3>3. a \in Int /\ b \in Int
      BY <3>1
    <3> HIDE DEF a, b
    <3>4. a * Window[i] \in Int /\ b * Limit[i] \in Int
      BY <3>3, <1>0, NextProduct
    <3>5. PICK x \in Int, y \in Int : x = a * Window[i] /\ y = b * Limit[i]
      BY <3>4
    <3>6. x <= l + y
      BY <3>2, <3>5, Zenon
    <3>7. x <= m + y
      BY <2>1, <3>6, <1>0
    <3> QED
      BY <3>5, <3>7, Zenon DEF a, b
  <2> QED
    BY <1>4, <2>3 DEF Covered, l, m
<1> QED
  BY <1>2, <1>3, <1>4, Params DEF RateLimitAlgorithm

\* What drains in a tick no longer has to be covered.
LEMMA DrainKeepsCovered ==
    ASSUME NEW i \in Rule, NEW now \in Nat, NEW e, Fits(i, e, now),
           NEW s \in Seq(Nat), UpTo(s, now), Covered(i, s, LoadOf(i, e, now), now)
    PROVE  Covered(i, s, LoadOf(i, e, now + 1), now + 1)
<1> DEFINE l == LoadOf(i, e, now)
           m == LoadOf(i, e, now + 1)
<1>0. /\ Window[i] \in Nat /\ Window[i] >= 1 /\ Limit[i] \in Nat /\ Limit[i] >= 1
      /\ Full(i) \in Nat
  BY Params
<1>1. \A n \in 1 .. Len(s) : s[n] \in Nat /\ s[n] <= now
  BY DEF UpTo
<1>2. m = Meter!Drained(i, l, now + 1)
  BY LoadDrains
<1>3. CASE Algorithm[i] = "fixed_window"
  <2>1. m = IF (now + 1) % Window[i] = 0 THEN 0 ELSE l
    BY <1>2, <1>3 DEF Meter!Drained
  <2>2. \A n \in 1 .. Len(s) : s[n] >= WindowStart(i, now) => Len(s) - n + 1 <= l
    BY <1>3 DEF Covered
  <2>3. WindowStart(i, now + 1) = IF (now + 1) % Window[i] = 0 THEN now + 1 ELSE WindowStart(i, now)
    BY NextWindow
  <2> HIDE DEF l, m
  <2>4. \A n \in 1 .. Len(s) : s[n] >= WindowStart(i, now + 1) => Len(s) - n + 1 <= m
    BY <1>1, <2>1, <2>2, <2>3
  <2> QED
    BY <1>3, <2>4 DEF Covered, l, m
<1>4. CASE Algorithm[i] = "sliding_window"
  <2>1. l \in Seq(Nat) /\ Sorted(l) /\ UpTo(l, now)
    BY <1>4, LoadTyped
  <2>2. \A n \in 1 .. Len(s) :
           s[n] + Window[i] > now =>
               Len(s) - n < Len(l) /\ l[Len(l) - (Len(s) - n)] >= s[n]
    BY <1>4 DEF Covered
  <2>3. m = Within(l, Window[i], now + 1)
    BY <1>4, SlidingWindowDrains DEF LoadOf
  <2> HIDE DEF l, m
  <2>4. PICK p \in 0 .. Len(l) :
           /\ \A j \in 1 .. Len(l) : (l[j] + Window[i] <= now + 1) <=> j <= p
           /\ Rest(m, l, p)
    <3>1. now + 1 \in Nat /\ Window[i] \in Nat
      BY <1>0
    <3> QED
      BY <2>1, <2>3, <3>1, WithinOf
  <2>5. Len(m) = Len(l) - p /\ \A j \in 1 .. Len(m) : m[j] = l[j + p]
    BY <2>4 DEF Rest
  <2>6. ASSUME NEW n \in 1 .. Len(s), s[n] + Window[i] > now + 1
        PROVE  Len(s) - n < Len(m) /\ m[Len(m) - (Len(s) - n)] >= s[n]
    <3> DEFINE k == Len(l) - (Len(s) - n)
    <3>1. Len(s) - n < Len(l) /\ l[k] >= s[n]
      BY <1>1, <2>2, <2>6, <1>0
    <3>2. k \in 1 .. Len(l) /\ Len(m) - (Len(s) - n) = k - p
      BY <2>1, <2>4, <2>5, <3>1
    <3> HIDE DEF k
    <3>3. l[k] \in Nat /\ s[n] \in Nat
      BY <2>1, <3>2
    <3>4. ~(l[k] + Window[i] <= now + 1)
      <4>1. l[k] >= s[n] /\ s[n] + Window[i] > now + 1 /\ Window[i] \in Nat
        BY <1>0, <2>6, <3>1
      <4> QED
        BY <3>3, <4>1
    <3>5. k > p
      BY <2>4, <3>2, <3>4
    <3>6. k - p \in 1 .. Len(m) /\ m[k - p] = l[k]
      BY <2>4, <2>5, <3>2, <3>5
    <3> QED
      BY <2>5, <3>1, <3>2, <3>6
  <2> QED
    BY <1>4, <2>6 DEF Covered, l, m
<1>5. CASE Algorithm[i] \in {"token_bucket", "leaky_bucket"}
  <2>1. l \in Nat
    <3>1. l \in 0 .. Full(i)
      BY <1>5, LoadTyped
    <3> QED
      BY <1>0, <3>1
  <2>2. m \in Nat /\ m >= l - Limit[i]
    <3>1. m = IF l > Limit[i] THEN l - Limit[i] ELSE 0
      BY <1>2, <1>5 DEF Meter!Drained
    <3> HIDE DEF l, m
    <3> QED
      BY <2>1, <3>1, <1>0
  <2>3. \A n \in 1 .. Len(s) : (Len(s) - n + 1) * Window[i] <= l + (now - s[n]) * Limit[i]
    BY <1>5 DEF Covered
  <2> HIDE DEF l, m
  <2>4. ASSUME NEW n \in 1 .. Len(s)
        PROVE  (Len(s) - n + 1) * Window[i] <= m + ((now + 1) - s[n]) * Limit[i]
    <3>1. /\ Len(s) - n + 1 \in Int /\ now - s[n] \in Int
          /\ (now + 1) - s[n] = (now - s[n]) + 1
      BY <1>1
    <3>2. /\ (Len(s) - n + 1) * Window[i] \in Int /\ (now - s[n]) * Limit[i] \in Int
          /\ ((now - s[n]) + 1) * Limit[i] = (now - s[n]) * Limit[i] + Limit[i]
      <4> DEFINE a == Len(s) - n + 1
                 b == now - s[n]
      <4>1. a \in Int /\ b \in Int /\ Window[i] \in Int /\ Limit[i] \in Int
        BY <3>1, <1>0
      <4> HIDE DEF a, b
      <4>2. a * Window[i] \in Int /\ b * Limit[i] \in Int /\ (b + 1) * Limit[i] = b * Limit[i] + Limit[i]
        BY <4>1, NextProduct
      <4> QED
        BY <4>2 DEF a, b
    <3>3. ((now + 1) - s[n]) * Limit[i] = (now - s[n]) * Limit[i] + Limit[i]
      BY <3>1, <3>2
    <3>4. (Len(s) - n + 1) * Window[i] <= l + (now - s[n]) * Limit[i]
      BY <2>3
    <3> DEFINE a == (Len(s) - n + 1) * Window[i]
               b == (now - s[n]) * Limit[i]
    <3>5. /\ a \in Int /\ b \in Int /\ a <= l + b
          /\ ((now + 1) - s[n]) * Limit[i] = b + Limit[i]
      BY <3>2, <3>3, <3>4, Zenon
    <3> HIDE DEF a, b
    <3>6. a <= m + (b + Limit[i])
      BY <2>1, <2>2, <3>5, <1>0
    <3> QED
      BY <3>5, <3>6, Zenon DEF a
  <2> QED
    BY <1>5, <2>4 DEF Covered, l, m
<1> QED
  BY <1>3, <1>4, <1>5, Params DEF RateLimitAlgorithm

-----------------------------------------------------------------------------
(* What the store holds after the rules were evaluated.                    *)

LEMMA Times ==
    /\ TypeOK => clock \in Nat /\ \A c \in Client : accepted[c] \in Seq(Nat)
    /\ Key = Rule \X Client
<1>1. ASSUME TypeOK, NEW c \in Client PROVE accepted[c] \in Seq(Nat)
  <2>1. accepted[c] \in Seq(0 .. MaxTime) /\ MaxTime \in Nat
    BY <1>1, RateLimitAssumption DEF TypeOK
  <2> QED
    BY <2>1
<1> QED
  BY <1>1, RateLimitAssumption DEF TypeOK, Key

LEMMA DecisionOf ==
    ASSUME TypeOK, EntriesFit, NEW r \in Request, NEW i \in Rule
    PROVE  /\ ClientOf[r] \in Client
           /\ Fits(i, entries[KeyOf(i, r)], clock) /\ clock \in Nat
           /\ Load(i, ClientOf[r]) = LoadOf(i, entries[KeyOf(i, r)], clock)
           /\ Decision(i, r) = Evaluate(i, entries[KeyOf(i, r)], clock, 1)
BY Times, RateLimitAssumption DEF EntriesFit, Load, Decision, KeyOf

\* What is put charges the rule, or counts a refusal.
LEMMA PutOf ==
    ASSUME TypeOK, EntriesFit, NEW r \in Request, NEW i \in Rule, PutAfter(i, r)
    PROVE  LET s == Decision(i, r).state
           IN  /\ Fits(i, s, clock) /\ Live(s, clock)
               /\ LoadOf(i, s, clock) =
                    IF Decision(i, r).allowed
                    THEN Charge(i, Load(i, ClientOf[r]), clock)
                    ELSE Load(i, ClientOf[r])
<1> DEFINE e == entries[KeyOf(i, r)]
<1>1. /\ Fits(i, e, clock) /\ clock \in Nat
      /\ Load(i, ClientOf[r]) = LoadOf(i, e, clock)
      /\ Decision(i, r) = Evaluate(i, e, clock, 1)
  BY DecisionOf
<1> HIDE DEF e
<1>2. PICK now \in Nat : now = clock
  BY <1>1
<1>3. CASE Decision(i, r).allowed
  <2>1. Admits(i, e, now, Evaluate(i, e, now, 1))
    BY <1>1, <1>2, <1>3, AllowedAdmits
  <2> QED
    BY <1>1, <1>2, <1>3, <2>1 DEF Admits
<1>4. CASE ~Decision(i, r).allowed
  <2>1. Algorithm[i] = "fixed_window"
    BY <1>4 DEF PutAfter
  <2> QED
    BY <1>1, <1>2, <1>4, <2>1, RefusalIsNoLoad
<1> QED
  BY <1>3, <1>4

\* The count of writes stays below the interval: one sweep suffices.
LEMMA PutsCounted ==
    ASSUME NEW n \in 0 .. NRules, NEW put \in SUBSET (1 .. n)
    PROVE  Cardinality(put) \in 0 .. PurgeInterval
<1>1. IsFiniteSet(1 .. n) /\ Cardinality(1 .. n) = n
  BY FS_Interval, RateLimitAssumption
<1>2. IsFiniteSet(put) /\ Cardinality(put) <= n
  BY <1>1, FS_Subset
<1> QED
  BY <1>2, FS_CardinalityType, RateLimitAssumption

\* After the first n rules: those that let the request through are charged;
\* what was dropped or swept made no difference.
LEMMA PersistEffect ==
    ASSUME TypeOK, EntriesFit, NEW r \in Request, NEW n \in 0 .. NRules, Persist(r, n)
    PROVE  /\ entries' \in [Key -> Entry] /\ writes' \in 0 .. PurgeInterval - 1
           /\ \A i \in Rule, c \in Client :
                /\ Fits(i, entries'[<<i, c>>], clock)
                /\ LoadOf(i, entries'[<<i, c>>], clock) =
                     IF i <= n /\ c = ClientOf[r] /\ Decision(i, r).allowed
                     THEN Charge(i, Load(i, c), clock) ELSE Load(i, c)
<1> DEFINE put == {i \in 1 .. n : PutAfter(i, r)}
           written == [k \in Key |-> IF k[1] \in put /\ k[2] = ClientOf[r]
                                     THEN Decision(k[1], r).state ELSE Got(r, n)[k]]
           count == writes + Cardinality(put)
<1>1. \/ /\ count >= PurgeInterval
         /\ entries' = [k \in Key |-> IF Live(written[k], clock)
                                      THEN written[k] ELSE NoEntry]
         /\ writes' = count - PurgeInterval
      \/ count < PurgeInterval /\ entries' = written /\ writes' = count
  <2>1. Cardinality(put) \in 0 .. PurgeInterval
    <3>1. put \in SUBSET (1 .. n)
      OBVIOUS
    <3> HIDE DEF put
    <3> QED
      BY <3>1, PutsCounted
  <2>2. count \in Nat /\ PurgeInterval \in Nat
    <3> HIDE DEF put
    <3> QED
      BY <2>1, RateLimitAssumption DEF TypeOK
  <2>3. IF count >= PurgeInterval
        THEN /\ entries' = [k \in Key |-> IF Live(written[k], clock)
                                          THEN written[k] ELSE NoEntry]
             /\ writes' = count - PurgeInterval
        ELSE entries' = written /\ writes' = count
    BY DEF Persist
  <2> HIDE DEF count, written
  <2> QED
    BY <2>2, <2>3
<1>2. writes' \in 0 .. PurgeInterval - 1
  <2>1. put \in SUBSET (1 .. n)
    OBVIOUS
  <2> HIDE DEF put, written
  <2>2. Cardinality(put) \in 0 .. PurgeInterval
    BY <2>1, PutsCounted
  <2> QED
    BY <1>1, <2>2, RateLimitAssumption DEF TypeOK
<1>3. ASSUME NEW i \in Rule, NEW c \in Client
      PROVE  /\ written[<<i, c>>] =
                  IF i \in put /\ c = ClientOf[r] THEN Decision(i, r).state
                  ELSE Got(r, n)[<<i, c>>]
             /\ \/ entries'[<<i, c>>] = written[<<i, c>>]
                \/ entries'[<<i, c>>] = NoEntry /\ ~Live(written[<<i, c>>], clock)
  <2>1. <<i, c>> \in Key
    BY DEF Key
  <2>2. written[<<i, c>>] =
          IF i \in put /\ c = ClientOf[r] THEN Decision(i, r).state
          ELSE Got(r, n)[<<i, c>>]
    <3> HIDE DEF put
    <3> QED
      BY <2>1
  <2> HIDE DEF written, put, count
  <2> QED
    BY <1>1, <2>1, <2>2
<1>4. ASSUME NEW i \in Rule, NEW c \in Client
      PROVE  /\ Fits(i, written[<<i, c>>], clock)
             /\ LoadOf(i, written[<<i, c>>], clock) =
                  IF i <= n /\ c = ClientOf[r] /\ Decision(i, r).allowed
                  THEN Charge(i, Load(i, c), clock) ELSE Load(i, c)
  <2>1. CASE i \in put /\ c = ClientOf[r]
    <3>1. PutAfter(i, r) /\ i <= n
      BY <2>1, RateLimitAssumption DEF Rule
    <3>2. written[<<i, c>>] = Decision(i, r).state
      BY <1>3, <2>1
    <3> HIDE DEF written, put
    <3> QED
      BY <2>1, <3>1, <3>2, PutOf
  <2>2. CASE ~(i \in put /\ c = ClientOf[r])
    <3>1. ~(i <= n /\ c = ClientOf[r] /\ Decision(i, r).allowed)
      BY <2>2, RateLimitAssumption DEF Rule, PutAfter
    <3>2. written[<<i, c>>] = Got(r, n)[<<i, c>>]
      BY <1>3, <2>2
    <3>3. \/ Got(r, n)[<<i, c>>] = entries[<<i, c>>]
          \/ Got(r, n)[<<i, c>>] = NoEntry /\ ~Live(entries[<<i, c>>], clock)
      BY DEF Got, Key
    <3>4. Fits(i, entries[<<i, c>>], clock) /\ Load(i, c) = LoadOf(i, entries[<<i, c>>], clock)
      BY DEF EntriesFit, Load
    <3>5. clock \in Nat
      BY Times
    <3> HIDE DEF written, put
    <3> QED
      BY <3>1, <3>2, <3>3, <3>4, <3>5, NothingFits, NothingIsDead, DeadLoad
  <2> QED
    BY <2>1, <2>2
<1>5. ASSUME NEW i \in Rule, NEW c \in Client
      PROVE  /\ Fits(i, entries'[<<i, c>>], clock)
             /\ LoadOf(i, entries'[<<i, c>>], clock) = LoadOf(i, written[<<i, c>>], clock)
  <2> HIDE DEF written
  <2>1. clock \in Nat
    BY Times
  <2> QED
    BY <1>3, <1>4, <2>1, NothingFits, NothingIsDead, DeadLoad
<1>6. entries' \in [Key -> Entry]
  <2>1. \E f : entries' = [k \in Key |-> f[k]]
    <3> HIDE DEF count
    <3>1. CASE entries' = [k \in Key |-> IF Live(written[k], clock)
                                         THEN written[k] ELSE NoEntry]
      BY <3>1
    <3>2. CASE entries' = written
      BY <3>2
    <3> QED
      BY <1>1, <3>1, <3>2
  <2>2. \A k \in Key : entries'[k] \in Entry
    <3> HIDE DEF written
    <3> QED
      BY <1>5 DEF Fits, Key
  <2> QED
    BY <2>1, <2>2
<1> HIDE DEF written, put, count
<1>7. ASSUME NEW i \in Rule, NEW c \in Client
      PROVE  LoadOf(i, entries'[<<i, c>>], clock) =
               IF i <= n /\ c = ClientOf[r] /\ Decision(i, r).allowed
               THEN Charge(i, Load(i, c), clock) ELSE Load(i, c)
  BY <1>4, <1>5
<1> QED
  BY <1>2, <1>5, <1>6, <1>7

-----------------------------------------------------------------------------
(* The headers.                                                            *)

LEMMA EvaluateTyped ==
    ASSUME NEW i \in Rule, NEW now \in Nat, NEW e, Fits(i, e, now), NEW cost \in {0, 1}
    PROVE  /\ Evaluate(i, e, now, cost).remaining \in Nat
           /\ Evaluate(i, e, now, cost).wait \in Int
<1>0. /\ Window[i] \in Nat /\ Window[i] >= 1 /\ Limit[i] \in Nat /\ Full(i) \in Nat
      /\ cost * Window[i] \in Nat /\ WindowStart(i, now) \in Nat
  <2>1. Window[i] \in Nat /\ cost \in Nat
    BY Params
  <2>2. cost * Window[i] \in Nat
    BY <2>1
  <2> QED
    BY <2>2, Params, WindowStartOf
<1>1. CASE Algorithm[i] = "fixed_window"
  <2> DEFINE n == Counted(i, e, now) + cost
  <2>1. n \in Nat
    BY CountedOf
  <2>2. /\ FixedWindow(i, e, now, cost).remaining = Larger(0, Limit[i] - n)
        /\ FixedWindow(i, e, now, cost).wait = WindowStart(i, now) + Window[i] - now
    BY DEF FixedWindow
  <2> HIDE DEF n
  <2> QED
    BY <1>0, <1>1, <2>1, <2>2 DEF Evaluate, Larger
<1>2. CASE Algorithm[i] = "sliding_window"
  <2> DEFINE d == SlidingWindow(i, e, now, cost)
             kept == Kept(i, e, now)
             units == Larger(1, cost)
             excess == Len(kept) + units - Limit[i]
  <2>1. kept \in Seq(Nat) /\ units = 1
    BY <1>2, KeptOf DEF Larger
  <2>2. d.remaining \in Nat
    <3> DEFINE stamps == IF Len(kept) + units <= Limit[i]
                         THEN kept \o [j \in 1 .. units |-> now] ELSE kept
    <3>1. Len(stamps) \in Nat
      <4>1. [j \in 1 .. 1 |-> now] = <<now>>
        OBVIOUS
      <4> HIDE DEF kept, units
      <4> QED
        BY <2>1, <4>1
    <3>2. d.remaining = Larger(0, Limit[i] - Len(stamps))
      BY DEF SlidingWindow
    <3> HIDE DEF stamps, d
    <3> QED
      BY <1>0, <3>1, <3>2 DEF Larger
  <2>3. d.wait \in Int
    <3>1. d.wait = IF ~(Len(kept) + units <= Limit[i]) /\ kept # <<>>
                   THEN kept[Smaller(excess, Len(kept))] + Window[i] - now ELSE 0
      BY DEF SlidingWindow
    <3> HIDE DEF d, kept, units
    <3>2. ASSUME ~(Len(kept) + units <= Limit[i]), kept # <<>>
          PROVE  Smaller(excess, Len(kept)) \in 1 .. Len(kept)
      <4>0. Len(kept) \in Nat /\ Len(kept) # 0
        BY <2>1, <3>2
      <4>1. Len(kept) \in Nat /\ Len(kept) # 0 /\ Limit[i] \in Nat /\ Limit[i] >= 1
        BY <4>0, Params
      <4>2. Len(kept) + 1 > Limit[i] /\ excess = Len(kept) + 1 - Limit[i]
        BY <2>1, <3>2, <4>1
      <4> HIDE DEF excess
      <4> QED
        BY <4>1, <4>2 DEF Smaller
    <3> HIDE DEF excess
    <3>3. CASE ~(Len(kept) + units <= Limit[i]) /\ kept # <<>>
      <4>1. kept[Smaller(excess, Len(kept))] \in Nat
        BY <2>1, <3>2, <3>3
      <4>2. d.wait = kept[Smaller(excess, Len(kept))] + Window[i] - now
        BY <3>1, <3>3, Zenon
      <4> QED
        BY <1>0, <4>1, <4>2
    <3> QED
      BY <3>1, <3>3
  <2> QED
    BY <1>2, <2>2, <2>3 DEF Evaluate
<1>3. CASE Algorithm[i] = "token_bucket"
  <2> DEFINE d == TokenBucket(i, e, now, cost)
             n == Tokens(i, e, now)
             need == cost * Window[i]
             left == IF n >= need THEN n - need ELSE n
  <2>1. n \in Nat
    BY <1>0, TokensOf
  <2>2. d.remaining = left \div Window[i] /\ d.wait = IF n >= need THEN 0 ELSE need - left
    BY DEF TokenBucket
  <2> HIDE DEF d, n, need
  <2>3. left \in Nat /\ need \in Nat
    BY <1>0, <2>1 DEF need
  <2> HIDE DEF left
  <2>4. left \div Window[i] \in Nat
    BY <1>0, <2>3
  <2> QED
    BY <1>3, <2>2, <2>3, <2>4 DEF Evaluate, d
<1>4. CASE Algorithm[i] = "leaky_bucket"
  <2> DEFINE d == LeakyBucket(i, e, now, cost)
             n == Level(i, e, now)
             need == cost * Window[i]
             after == IF n + need <= Full(i) THEN n + need ELSE n
  <2>1. n \in Nat
    BY <1>0, <1>4, LevelOf
  <2>2. /\ d.remaining = Larger(0, Full(i) - after) \div Window[i]
        /\ d.wait = IF n + need <= Full(i) THEN 0 ELSE n + need - Full(i)
    BY DEF LeakyBucket
  <2> HIDE DEF d, n, need
  <2>3. after \in Nat /\ need \in Nat
    BY <1>0, <2>1 DEF need
  <2> HIDE DEF after
  <2>4. Larger(0, Full(i) - after) \in Nat
    BY <1>0, <2>3 DEF Larger
  <2>5. Larger(0, Full(i) - after) \div Window[i] \in Nat
    BY <1>0, <2>4
  <2> QED
    BY <1>0, <1>4, <2>1, <2>2, <2>3, <2>5 DEF Evaluate, d
<1> QED
  BY <1>1, <1>2, <1>3, <1>4, Params DEF RateLimitAlgorithm

LEMMA RetryAfterTyped ==
    ASSUME NEW i \in Rule, NEW wait \in Int
    PROVE  RetryAfter(i, wait) \in Nat
<1> DEFINE b == Rate(i) * Second
<1>1. b \in Nat /\ b >= 1
  <2>1. Rate(i) \in Nat /\ Rate(i) >= 1
    BY Params DEF Rate
  <2>2. 1 * Second <= Rate(i) * Second /\ Rate(i) * Second \in Nat
    BY <2>1, ProductsGrow, Params
  <2> QED
    BY <2>2, Params
<1> HIDE DEF b
<1>2. CeilDiv(wait, b) \in Int
  BY <1>1 DEF CeilDiv
<1> QED
  BY <1>2 DEF RetryAfter, Larger, b

LEMMA HeadersTyped ==
    ASSUME NEW i \in Rule, NEW d, d.remaining \in Nat, d.wait \in Int
    PROVE  RateLimitHeaders(i, d) \in Headers
<1>1. RetryAfter(i, d.wait) \in Nat
  BY RetryAfterTyped
<1>2. PICK n \in Nat : n = IF d.allowed THEN 0 ELSE RetryAfter(i, d.wait)
  BY <1>1
<1>3. PICK b \in BOOLEAN : b = ~d.allowed
  BY Zenon
<1>4. RateLimitHeaders(i, d) = [remaining |-> d.remaining, refused |-> b, retry |-> n]
  BY <1>2, <1>3 DEF RateLimitHeaders
<1> QED
  BY <1>4 DEF Headers

\* There is a tightest rule.
LEMMA TightestOf ==
    ASSUME TypeOK, EntriesFit, NEW r \in Request, NRules > 0
    PROVE  /\ Tightest(r) \in Rule
           /\ \A j \in Rule : Inspected(Tightest(r), r).remaining <= Inspected(j, r).remaining
<1> DEFINE left(i) == Inspected(i, r).remaining
           Tight(i) == \A j \in Rule : left(i) < left(j) \/ (left(i) = left(j) /\ i <= j)
<1>1. ASSUME NEW i \in Rule PROVE left(i) \in Nat
  BY DecisionOf, EvaluateTyped DEF Inspected
<1> HIDE DEF left
<1>2. Rule \subseteq Nat /\ 1 \in Rule
  BY RateLimitAssumption DEF Rule
<1>3. PICK m \in {left(i) : i \in Rule} : \A y \in {left(i) : i \in Rule} : m <= y
  <2>1. {left(i) : i \in Rule} \subseteq Nat /\ {left(i) : i \in Rule} # {}
    BY <1>1, <1>2
  <2> QED
    BY <2>1, Least
<1>4. PICK t \in {i \in Rule : left(i) = m} : \A j \in {i \in Rule : left(i) = m} : t <= j
  <2>1. {i \in Rule : left(i) = m} \subseteq Nat /\ {i \in Rule : left(i) = m} # {}
    BY <1>2, <1>3
  <2> QED
    BY <2>1, Least
<1>5. Tight(t)
  <2> SUFFICES ASSUME NEW j \in Rule PROVE left(t) < left(j) \/ (left(t) = left(j) /\ t <= j)
    OBVIOUS
  <2>1. left(t) = m /\ m <= left(j) /\ left(t) \in Nat /\ left(j) \in Nat
    BY <1>1, <1>3, <1>4
  <2>2. left(j) = m => t <= j
    BY <1>4
  <2> QED
    BY <2>1, <2>2
<1>6. Tightest(r) = CHOOSE i \in Rule : Tight(i)
  BY DEF Tightest, left
<1>7. Tightest(r) \in Rule /\ Tight(Tightest(r))
  <2>1. t \in Rule
    BY <1>4
  <2> HIDE DEF Tight
  <2> QED
    BY <1>5, <1>6, <2>1
<1>8. ASSUME NEW j \in Rule PROVE left(Tightest(r)) <= left(j)
  BY <1>1, <1>7
<1> QED
  BY <1>7, <1>8 DEF left

-----------------------------------------------------------------------------
(* Every step keeps the invariant, and is a step of the meters.            *)

\* The loads of RateMeter.
LoadMap == [k \in Key |-> Load(k[1], k[2])]

\* A request of c charges the rules in R, the others keep their load.
Charges(c, R) ==
    /\ clock' = clock
    /\ \A i \in R : Meter!HasRoom(i, Load(i, c))
    /\ \A i \in Rule, x \in Client :
          Load(i, x)' = IF i \in R /\ x = c THEN Charge(i, Load(i, x), clock)
                        ELSE Load(i, x)

SameLoads == clock' = clock /\ \A i \in Rule, c \in Client : Load(i, c)' = Load(i, c)

LEMMA NothingAccepted ==
    ASSUME NEW i \in Rule, NEW l, NEW now
    PROVE  /\ Sorted(<<>>) /\ UpTo(<<>>, now)
           /\ Covered(i, <<>>, l, now) /\ Spread(i, <<>>)
<1>1. Len(<<>>) = 0
  OBVIOUS
<1>2. \A n : n \notin 1 .. 0
  OBVIOUS
<1> QED
  BY <1>1, <1>2 DEF Sorted, UpTo, Covered, Spread

LEMMA InitEstablishesInvariant == Init => IInv
<1> SUFFICES ASSUME Init PROVE IInv
  OBVIOUS
<1>1. TypeOK
  BY RateLimitAssumption DEF Init, TypeOK, NoEntry, Entry, NoHeaders, Headers
<1>2. EntriesFit
  BY NothingFits, Times DEF Init, EntriesFit, Key
<1>3. HistoryCovered
  <2> SUFFICES ASSUME NEW c \in Client
               PROVE  /\ Sorted(accepted[c]) /\ UpTo(accepted[c], clock)
                      /\ \A i \in Rule : /\ Covered(i, accepted[c], Load(i, c), clock)
                                         /\ Spread(i, accepted[c])
    BY DEF HistoryCovered
  <2>1. accepted[c] = <<>>
    BY DEF Init
  <2>2. Sorted(<<>>) /\ UpTo(<<>>, clock)
    BY DEF Sorted, UpTo
  <2> QED
    BY <2>1, <2>2, NothingAccepted
<1> QED
  BY <1>1, <1>2, <1>3 DEF IInv

LEMMA AcceptStep ==
    ASSUME IInv, NEW r \in Request, Accept(r)
    PROVE  IInv' /\ Charges(ClientOf[r], Rule)
<1> DEFINE c == ClientOf[r]
<1>1. /\ TypeOK /\ EntriesFit /\ HistoryCovered /\ clock \in Nat /\ clock' = clock
      /\ c \in Client /\ NRules \in 0 .. NRules
  BY Times, RateLimitAssumption DEF IInv, Accept
<1>2. \A i \in Rule : Decision(i, r).allowed /\ i <= NRules
  BY RateLimitAssumption DEF Accept, Rule
<1>3. Persist(r, NRules)
  BY DEF Accept
<1>4. /\ entries' \in [Key -> Entry] /\ writes' \in 0 .. PurgeInterval - 1
      /\ \A i \in Rule, x \in Client :
           /\ Fits(i, entries'[<<i, x>>], clock)
           /\ LoadOf(i, entries'[<<i, x>>], clock) =
                IF i <= NRules /\ x = ClientOf[r] /\ Decision(i, r).allowed
                THEN Charge(i, Load(i, x), clock) ELSE Load(i, x)
  BY <1>1, <1>3, PersistEffect
<1>5. \A i \in Rule, x \in Client :
        Load(i, x)' = IF i \in Rule /\ x = c THEN Charge(i, Load(i, x), clock) ELSE Load(i, x)
  BY <1>1, <1>2, <1>4 DEF Load
<1>6. \A i \in Rule : Meter!HasRoom(i, Load(i, c))
  BY <1>1, <1>2, DecisionOf, Allows
<1>7. accepted' = [accepted EXCEPT ![c] = Append(accepted[c], clock)]
  BY DEF Accept
<1>8. TypeOK'
  <2>1. accepted' \in [Client -> Seq(0 .. MaxTime)]
    <3>1. accepted[c] \in Seq(0 .. MaxTime) /\ clock \in 0 .. MaxTime
      BY <1>1 DEF TypeOK
    <3>2. Append(accepted[c], clock) \in Seq(0 .. MaxTime)
      BY <3>1
    <3> QED
      BY <1>1, <1>7, <3>2 DEF TypeOK
  <2> QED
    BY <1>1, <1>4, <2>1 DEF TypeOK, Accept
<1>9. EntriesFit'
  BY <1>1, <1>4 DEF EntriesFit
<1>10. HistoryCovered'
  <2> SUFFICES ASSUME NEW x \in Client
               PROVE  /\ Sorted(accepted'[x]) /\ UpTo(accepted'[x], clock')
                      /\ \A i \in Rule : /\ Covered(i, accepted'[x], Load(i, x)', clock')
                                         /\ Spread(i, accepted'[x])
    BY DEF HistoryCovered
  <2> DEFINE s == accepted[x]
  <2>1. /\ s \in Seq(Nat) /\ Sorted(s) /\ UpTo(s, clock)
        /\ \A i \in Rule : Covered(i, s, Load(i, x), clock) /\ Spread(i, s)
    BY <1>1, Times DEF HistoryCovered
  <2>2. \A i \in Rule : Fits(i, entries[<<i, x>>], clock) /\ Load(i, x) = LoadOf(i, entries[<<i, x>>], clock)
    BY <1>1 DEF EntriesFit, Load
  <2>3. CASE x = c
    <3>1. accepted'[x] = Append(s, clock)
      BY <1>1, <1>7, <2>3 DEF TypeOK
    <3> HIDE DEF s
    <3>2. Sorted(Append(s, clock)) /\ UpTo(Append(s, clock), clock)
      BY <1>1, <2>1, SortedAppend
    <3>3. ASSUME NEW i \in Rule
          PROVE  /\ Covered(i, Append(s, clock), Load(i, x)', clock)
                 /\ Spread(i, Append(s, clock))
      <4>1. Load(i, x)' = Charge(i, LoadOf(i, entries[<<i, x>>], clock), clock)
        BY <1>5, <2>2, <2>3
      <4>2. Meter!HasRoom(i, LoadOf(i, entries[<<i, x>>], clock))
        BY <1>6, <2>2, <2>3
      <4>3. Covered(i, s, LoadOf(i, entries[<<i, x>>], clock), clock)
        BY <2>1, <2>2
      <4> QED
        BY <1>1, <2>1, <2>2, <4>1, <4>2, <4>3, ChargeCovers
    <3> QED
      BY <1>1, <3>1, <3>2, <3>3
  <2>4. CASE x # c
    <3>1. accepted'[x] = s
      BY <1>1, <1>7, <2>4 DEF TypeOK
    <3>2. \A i \in Rule : Load(i, x)' = Load(i, x)
      BY <1>5, <2>4
    <3> QED
      BY <1>1, <2>1, <3>1, <3>2
  <2> QED
    BY <2>3, <2>4
<1> QED
  BY <1>1, <1>5, <1>6, <1>8, <1>9, <1>10 DEF IInv, Charges

LEMMA RejectStep ==
    ASSUME IInv, NEW r \in Request, NEW d \in Rule, Reject(r, d)
    PROVE  IInv' /\ Charges(ClientOf[r], 1 .. d - 1)
<1> DEFINE c == ClientOf[r]
<1>1. /\ TypeOK /\ EntriesFit /\ HistoryCovered /\ clock \in Nat /\ clock' = clock
      /\ accepted' = accepted /\ c \in Client /\ d \in 0 .. NRules /\ 1 .. d - 1 \subseteq Rule
  BY Times, RateLimitAssumption DEF IInv, Reject, Rule
<1>2. ~Decision(d, r).allowed /\ \A i \in 1 .. d - 1 : Decision(i, r).allowed
  BY DEF Reject
<1>3. Persist(r, d)
  BY DEF Reject
<1>4. /\ entries' \in [Key -> Entry] /\ writes' \in 0 .. PurgeInterval - 1
      /\ \A i \in Rule, x \in Client :
           /\ Fits(i, entries'[<<i, x>>], clock)
           /\ LoadOf(i, entries'[<<i, x>>], clock) =
                IF i <= d /\ x = ClientOf[r] /\ Decision(i, r).allowed
                THEN Charge(i, Load(i, x), clock) ELSE Load(i, x)
  BY <1>1, <1>3, PersistEffect
<1>5. ASSUME NEW i \in Rule, NEW x \in Client
      PROVE  Load(i, x)' = IF i \in 1 .. d - 1 /\ x = c
                           THEN Charge(i, Load(i, x), clock) ELSE Load(i, x)
  <2>1. (i <= d /\ Decision(i, r).allowed) <=> i \in 1 .. d - 1
    BY <1>2, RateLimitAssumption DEF Rule
  <2> QED
    BY <1>1, <1>4, <2>1 DEF Load
<1>6. \A i \in 1 .. d - 1 : Meter!HasRoom(i, Load(i, c))
  BY <1>1, <1>2, DecisionOf, Allows
<1>7. TypeOK'
  <2>1. headers' \in [Request -> Headers]
    <3>1. Decision(d, r).remaining \in Nat /\ Decision(d, r).wait \in Int
      BY <1>1, DecisionOf, EvaluateTyped
    <3>2. RateLimitHeaders(d, Decision(d, r)) \in Headers
      BY <3>1, HeadersTyped
    <3>3. headers' = [headers EXCEPT ![r] = RateLimitHeaders(d, Decision(d, r))]
      BY DEF Reject
    <3> QED
      BY <1>1, <3>2, <3>3 DEF TypeOK
  <2> QED
    BY <1>1, <1>4, <2>1 DEF TypeOK, Reject
<1>8. EntriesFit'
  BY <1>1, <1>4 DEF EntriesFit
<1>9. HistoryCovered'
  <2> SUFFICES ASSUME NEW x \in Client
               PROVE  /\ Sorted(accepted'[x]) /\ UpTo(accepted'[x], clock')
                      /\ \A i \in Rule : /\ Covered(i, accepted'[x], Load(i, x)', clock')
                                         /\ Spread(i, accepted'[x])
    BY DEF HistoryCovered
  <2>1. /\ accepted[x] \in Seq(Nat) /\ Sorted(accepted[x]) /\ UpTo(accepted[x], clock)
        /\ \A i \in Rule : Covered(i, accepted[x], Load(i, x), clock) /\ Spread(i, accepted[x])
    BY <1>1, Times DEF HistoryCovered
  <2>2. \A i \in Rule : Fits(i, entries[<<i, x>>], clock) /\ Load(i, x) = LoadOf(i, entries[<<i, x>>], clock)
    BY <1>1 DEF EntriesFit, Load
  <2>3. ASSUME NEW i \in Rule PROVE Covered(i, accepted[x], Load(i, x)', clock)
    <3>1. CASE i \in 1 .. d - 1 /\ x = c
      <4>1. Load(i, x)' = Charge(i, LoadOf(i, entries[<<i, x>>], clock), clock)
        BY <1>5, <2>2, <3>1
      <4>2. Covered(i, accepted[x], LoadOf(i, entries[<<i, x>>], clock), clock)
        BY <2>1, <2>2
      <4> QED
        BY <1>1, <2>1, <2>2, <4>1, <4>2, ChargeKeepsCovered
    <3>2. CASE ~(i \in 1 .. d - 1 /\ x = c)
      BY <1>5, <2>1, <3>2
    <3> QED
      BY <3>1, <3>2
  <2> QED
    BY <1>1, <2>1, <2>3
<1> QED
  BY <1>1, <1>5, <1>6, <1>7, <1>8, <1>9 DEF IInv, Charges

\* Steps that neither accept nor let time pass, and change no load.
LEMMA QuietStep ==
    ASSUME IInv, TypeOK', EntriesFit', accepted' = accepted, SameLoads
    PROVE  IInv'
<1>1. HistoryCovered'
  BY DEF IInv, HistoryCovered, SameLoads
<1> QED
  BY <1>1 DEF IInv

\* Dropping a dead entry changes no load.
LEMMA DroppingIsQuiet ==
    ASSUME IInv, clock' = clock, entries' \in [Key -> Entry],
           \A i \in Rule, c \in Client :
               \/ entries'[<<i, c>>] = entries[<<i, c>>]
               \/ entries'[<<i, c>>] = NoEntry /\ ~Live(entries[<<i, c>>], clock)
    PROVE  EntriesFit' /\ SameLoads
<1>1. clock \in Nat /\ \A i \in Rule, c \in Client : Fits(i, entries[<<i, c>>], clock)
  BY Times DEF IInv, EntriesFit
<1>2. ASSUME NEW i \in Rule, NEW c \in Client
      PROVE  /\ Fits(i, entries'[<<i, c>>], clock)
             /\ LoadOf(i, entries'[<<i, c>>], clock) = LoadOf(i, entries[<<i, c>>], clock)
  BY <1>1, NothingFits, NothingIsDead, DeadLoad
<1> QED
  BY <1>2 DEF EntriesFit, SameLoads, Load

LEMMA RespondStep ==
    ASSUME IInv, NEW r \in Request, Respond(r)
    PROVE  IInv' /\ SameLoads
<1>1. /\ TypeOK /\ EntriesFit /\ clock' = clock /\ accepted' = accepted /\ writes' = writes
      /\ entries' = Got(r, NRules)
  BY DEF IInv, Respond
<1>2. entries' \in [Key -> Entry]
  BY <1>1 DEF TypeOK, Got, NoEntry, Entry
<1>3. EntriesFit' /\ SameLoads
  BY <1>1, <1>2, DroppingIsQuiet DEF Got, Key
<1>4. headers' \in [Request -> Headers]
  <2>1. PICK h : headers' = [headers EXCEPT ![r] = h] /\
                 h = IF NRules = 0 THEN NoHeaders
                     ELSE RateLimitHeaders(Tightest(r), Inspected(Tightest(r), r))
    BY DEF Respond
  <2>2. h \in Headers
    <3>1. CASE NRules = 0
      BY <2>1, <3>1 DEF NoHeaders, Headers
    <3>2. CASE NRules # 0
      <4>1. NRules > 0
        BY <3>2, RateLimitAssumption
      <4>2. Tightest(r) \in Rule
        BY <1>1, <4>1, TightestOf
      <4>3. /\ Inspected(Tightest(r), r).remaining \in Nat
            /\ Inspected(Tightest(r), r).wait \in Int
        BY <1>1, <4>2, DecisionOf, EvaluateTyped DEF Inspected
      <4> QED
        BY <2>1, <3>2, <4>2, <4>3, HeadersTyped
    <3> QED
      BY <3>1, <3>2
  <2> QED
    BY <1>1, <2>1, <2>2 DEF TypeOK
<1>5. TypeOK'
  BY <1>1, <1>2, <1>4 DEF TypeOK, Respond
<1> QED
  BY <1>1, <1>3, <1>5, QuietStep

LEMMA FailStep ==
    ASSUME IInv, NEW r \in Request, Fail(r)
    PROVE  IInv' /\ SameLoads
<1>1. TypeOK'
  BY DEF IInv, TypeOK, Fail, NoHeaders, Headers
<1>2. EntriesFit' /\ SameLoads /\ accepted' = accepted
  BY DEF IInv, Fail, EntriesFit, SameLoads, Load
<1> QED
  BY <1>1, <1>2, QuietStep

LEMMA PurgeStep ==
    ASSUME IInv, PurgeExpired
    PROVE  IInv' /\ SameLoads
<1>1. /\ TypeOK /\ clock' = clock /\ accepted' = accepted
      /\ entries' = [k \in Key |-> IF Live(entries[k], clock) THEN entries[k] ELSE NoEntry]
  BY DEF IInv, PurgeExpired
<1>2. entries' \in [Key -> Entry]
  BY <1>1 DEF TypeOK, NoEntry, Entry
<1>3. EntriesFit' /\ SameLoads
  BY <1>1, <1>2, DroppingIsQuiet DEF Key
<1>4. TypeOK'
  BY <1>1, <1>2, RateLimitAssumption DEF TypeOK, PurgeExpired
<1> QED
  BY <1>1, <1>3, <1>4, QuietStep

\* A reset empties the loads of a client, and its history.
Empties(c) ==
    /\ clock' = clock
    /\ \A i \in Rule, x \in Client :
          Load(i, x)' = IF x = c THEN Meter!Empty(i) ELSE Load(i, x)

LEMMA ResetStep ==
    ASSUME IInv, NEW c \in Client, Reset(c)
    PROVE  IInv' /\ Empties(c)
<1>1. /\ TypeOK /\ EntriesFit /\ HistoryCovered /\ clock \in Nat /\ clock' = clock
      /\ entries' = [k \in Key |-> IF k[2] = c THEN NoEntry ELSE entries[k]]
      /\ accepted' = [accepted EXCEPT ![c] = <<>>]
  BY Times DEF IInv, Reset
<1>2. TypeOK'
  <2>1. entries' \in [Key -> Entry]
    BY <1>1 DEF TypeOK, NoEntry, Entry
  <2>2. accepted' \in [Client -> Seq(0 .. MaxTime)]
    BY <1>1 DEF TypeOK
  <2> QED
    BY <1>1, <2>1, <2>2 DEF TypeOK, Reset
<1>3. \A i \in Rule, x \in Client :
         entries'[<<i, x>>] = IF x = c THEN NoEntry ELSE entries[<<i, x>>]
  BY <1>1 DEF Key
<1>4. EntriesFit'
  <2>1. ASSUME NEW i \in Rule, NEW x \in Client PROVE Fits(i, entries'[<<i, x>>], clock)
    <3>1. Fits(i, entries[<<i, x>>], clock) /\ Fits(i, NoEntry, clock)
      BY <1>1, NothingFits DEF EntriesFit
    <3> QED
      BY <1>3, <3>1
  <2> QED
    BY <1>1, <2>1 DEF EntriesFit
<1>5. Empties(c)
  BY <1>1, <1>3, NothingIsDead, DeadLoad DEF Empties, Load
<1>6. HistoryCovered'
  <2> SUFFICES ASSUME NEW x \in Client
               PROVE  /\ Sorted(accepted'[x]) /\ UpTo(accepted'[x], clock')
                      /\ \A i \in Rule : /\ Covered(i, accepted'[x], Load(i, x)', clock')
                                         /\ Spread(i, accepted'[x])
    BY DEF HistoryCovered
  <2>1. CASE x = c
    <3>1. accepted'[x] = <<>>
      BY <1>1, <2>1 DEF TypeOK
    <3>2. Sorted(<<>>) /\ UpTo(<<>>, clock')
      BY DEF Sorted, UpTo
    <3> QED
      BY <3>1, <3>2, NothingAccepted
  <2>2. CASE x # c
    <3>1. accepted'[x] = accepted[x]
      BY <1>1, <2>2 DEF TypeOK
    <3>2. \A i \in Rule : Load(i, x)' = Load(i, x)
      BY <1>5, <2>2 DEF Empties
    <3> QED
      BY <1>1, <3>1, <3>2 DEF HistoryCovered
  <2> QED
    BY <2>1, <2>2
<1> QED
  BY <1>2, <1>4, <1>5, <1>6 DEF IInv

\* A tick drains every load.
Drains ==
    /\ clock < MaxTime /\ clock' = clock + 1
    /\ \A i \in Rule, c \in Client :
          Load(i, c)' = Meter!Drained(i, Load(i, c), clock + 1)

LEMMA TickStep ==
    ASSUME IInv, Tick
    PROVE  IInv' /\ Drains
<1>1. /\ TypeOK /\ EntriesFit /\ HistoryCovered /\ clock \in Nat /\ clock < MaxTime
      /\ clock' = clock + 1 /\ entries' = entries /\ accepted' = accepted
  BY Times DEF IInv, Tick
<1>2. TypeOK'
  BY <1>1, RateLimitAssumption DEF TypeOK, Tick
<1>3. PICK now \in Nat : now = clock
  BY <1>1
<1>4. \A i \in Rule, c \in Client :
         /\ Fits(i, entries[<<i, c>>], now)
         /\ Load(i, c) = LoadOf(i, entries[<<i, c>>], now)
         /\ Load(i, c)' = LoadOf(i, entries[<<i, c>>], now + 1)
  BY <1>1, <1>3 DEF EntriesFit, Load
<1>5. EntriesFit'
  <2>1. now + 1 \in Nat /\ now <= now + 1
    OBVIOUS
  <2>2. \A i \in Rule, c \in Client : Fits(i, entries[<<i, c>>], now + 1)
    BY <1>4, <2>1, FitsLater
  <2> QED
    BY <1>1, <1>3, <2>2 DEF EntriesFit
<1>6. Drains
  BY <1>1, <1>3, <1>4, LoadDrains DEF Drains
<1>7. HistoryCovered'
  <2> SUFFICES ASSUME NEW c \in Client
               PROVE  /\ Sorted(accepted[c]) /\ UpTo(accepted[c], now + 1)
                      /\ \A i \in Rule : /\ Covered(i, accepted[c], Load(i, c)', now + 1)
                                         /\ Spread(i, accepted[c])
    BY <1>1, <1>3 DEF HistoryCovered
  <2>1. /\ accepted[c] \in Seq(Nat) /\ Sorted(accepted[c]) /\ UpTo(accepted[c], now)
        /\ \A i \in Rule : Covered(i, accepted[c], Load(i, c), now) /\ Spread(i, accepted[c])
    BY <1>1, <1>3, Times DEF HistoryCovered
  <2>2. UpTo(accepted[c], now + 1)
    BY <2>1 DEF UpTo
  <2>3. ASSUME NEW i \in Rule PROVE Covered(i, accepted[c], Load(i, c)', now + 1)
    <3>1. Covered(i, accepted[c], LoadOf(i, entries[<<i, c>>], now), now)
      BY <1>4, <2>1
    <3> QED
      BY <1>4, <2>1, <3>1, DrainKeepsCovered
  <2> QED
    BY <2>1, <2>2, <2>3
<1> QED
  BY <1>2, <1>5, <1>6, <1>7 DEF IInv

\* What a step is to the meters.
MeterStep ==
    \/ \E c \in Client, R \in SUBSET Rule : Charges(c, R)
    \/ \E c \in Client : Empties(c)
    \/ Drains
    \/ SameLoads

LEMMA NextKeepsInvariant ==
    ASSUME IInv, [Next]_vars
    PROVE  IInv' /\ MeterStep
<1>1. ASSUME NEW r \in Request, Accept(r) PROVE IInv' /\ MeterStep
  <2>1. ClientOf[r] \in Client
    BY RateLimitAssumption
  <2> QED
    BY <1>1, <2>1, AcceptStep DEF MeterStep
<1>2. ASSUME NEW r \in Request, NEW d \in Rule, Reject(r, d) PROVE IInv' /\ MeterStep
  <2>1. ClientOf[r] \in Client /\ 1 .. d - 1 \subseteq Rule
    BY RateLimitAssumption DEF Rule
  <2> QED
    BY <1>2, <2>1, RejectStep DEF MeterStep
<1>3. ASSUME NEW r \in Request, Respond(r) PROVE IInv' /\ MeterStep
  BY <1>3, RespondStep DEF MeterStep
<1>4. ASSUME NEW r \in Request, Fail(r) PROVE IInv' /\ MeterStep
  BY <1>4, FailStep DEF MeterStep
<1>5. ASSUME NEW c \in Client, Reset(c) PROVE IInv' /\ MeterStep
  BY <1>5, ResetStep DEF MeterStep
<1>6. ASSUME PurgeExpired PROVE IInv' /\ MeterStep
  BY <1>6, PurgeStep DEF MeterStep
<1>7. ASSUME Tick PROVE IInv' /\ MeterStep
  BY <1>7, TickStep DEF MeterStep
<1>8. ASSUME UNCHANGED vars PROVE IInv' /\ MeterStep
  <2>1. TypeOK' /\ EntriesFit' /\ SameLoads /\ accepted' = accepted
    BY <1>8 DEF vars, IInv, TypeOK, EntriesFit, SameLoads, Load
  <2> QED
    BY <2>1, QuietStep DEF MeterStep
<1> QED
  BY <1>1, <1>2, <1>3, <1>4, <1>5, <1>6, <1>7, <1>8 DEF Next

-----------------------------------------------------------------------------
(* The meters.                                                             *)

LEMMA KeysArePairs ==
    ASSUME NEW k \in Key
    PROVE  k[1] \in Rule /\ k[2] \in Client /\ k = <<k[1], k[2]>>
BY DEF Key

LEMMA InitIsMeterInit == Init => Meter!Init
<1> SUFFICES ASSUME Init PROVE Meter!Init
  OBVIOUS
<1>1. clock = 0
  BY DEF Init
<1>2. ASSUME NEW k \in Key PROVE Load(k[1], k[2]) = Meter!Empty(k[1])
  <2>1. entries[<<k[1], k[2]>>] = NoEntry
    BY KeysArePairs DEF Init
  <2> QED
    BY <1>1, <2>1, KeysArePairs, NothingIsDead, DeadLoad DEF Load
<1>3. Meter!Key = Key
  BY DEF Meter!Key, Meter!Rule, Key, Rule
<1> QED
  BY <1>1, <1>2, <1>3 DEF Meter!Init

LEMMA MeterStepIsNext ==
    ASSUME MeterStep
    PROVE  [Meter!Next]_(Meter!vars)
<1>1. Meter!Key = Key /\ Meter!Rule = Rule
  BY DEF Meter!Key, Meter!Rule, Key, Rule
<1>2. ASSUME NEW c \in Client, NEW R \in SUBSET Rule, Charges(c, R) PROVE Meter!Charge(c, R)
  <2>1. \A i \in R : LoadMap[<<i, c>>] = Load(i, c)
    BY DEF LoadMap, Key
  <2>2. \A k \in Key : LoadMap[k] = Load(k[1], k[2])
    BY DEF LoadMap
  <2>3. \A i, l : Meter!Charged(i, l) = Charge(i, l, clock)
    BY DEF Meter!Charged, Charge
  <2>4. ASSUME NEW k \in Key
        PROVE  Load(k[1], k[2])' = IF k[1] \in R /\ k[2] = c
                                   THEN Meter!Charged(k[1], LoadMap[k]) ELSE LoadMap[k]
    BY <1>2, <2>2, <2>3, KeysArePairs DEF Charges
  <2>5. LoadMap' = [k \in Key |-> IF k[1] \in R /\ k[2] = c
                                  THEN Meter!Charged(k[1], LoadMap[k]) ELSE LoadMap[k]]
    BY <2>4 DEF LoadMap
  <2> QED
    BY <1>1, <1>2, <2>1, <2>5 DEF Charges, Meter!Charge, LoadMap
<1>3. ASSUME NEW c \in Client, Empties(c) PROVE Meter!Forget(c)
  <2>1. \A k \in Key : LoadMap[k] = Load(k[1], k[2])
    BY DEF LoadMap
  <2>2. ASSUME NEW k \in Key
        PROVE  Load(k[1], k[2])' = IF k[2] = c THEN Meter!Empty(k[1]) ELSE LoadMap[k]
    BY <1>3, <2>1, KeysArePairs DEF Empties
  <2>3. LoadMap' = [k \in Key |-> IF k[2] = c THEN Meter!Empty(k[1]) ELSE LoadMap[k]]
    BY <2>2 DEF LoadMap
  <2> QED
    BY <1>1, <1>3, <2>3 DEF Empties, Meter!Forget, LoadMap
<1>4. ASSUME Drains PROVE Meter!Elapse
  <2>1. \A k \in Key : LoadMap[k] = Load(k[1], k[2])
    BY DEF LoadMap
  <2>2. ASSUME NEW k \in Key
        PROVE  Load(k[1], k[2])' = Meter!Drained(k[1], LoadMap[k], clock + 1)
    BY <1>4, <2>1, KeysArePairs DEF Drains
  <2>3. LoadMap' = [k \in Key |-> Meter!Drained(k[1], LoadMap[k], clock + 1)]
    BY <2>2 DEF LoadMap
  <2> QED
    BY <1>1, <1>4, <2>3 DEF Drains, Meter!Elapse, LoadMap
<1>5. ASSUME SameLoads PROVE UNCHANGED Meter!vars
  <2>1. LoadMap' = LoadMap
    BY <1>5, KeysArePairs DEF SameLoads, LoadMap
  <2> QED
    BY <1>5, <2>1 DEF SameLoads, Meter!vars, LoadMap
<1> QED
  BY <1>1, <1>2, <1>3, <1>4, <1>5 DEF MeterStep, Meter!Next

-----------------------------------------------------------------------------
(* Counting what was accepted.                                             *)

\* The acceptances of an interval lie next to each other.
LEMMA AcceptedInOf ==
    ASSUME TypeOK, NEW c \in Client, NEW a \in Nat, NEW b \in Int
    PROVE  \/ AcceptedIn(c, a, b) = 0
           \/ \E lo, hi \in 1 .. Len(accepted[c]) :
                /\ lo <= hi /\ AcceptedIn(c, a, b) \in 0 .. hi - lo + 1
                /\ accepted[c][lo] \in a .. b /\ accepted[c][hi] \in a .. b
<1> DEFINE s == accepted[c]
           S == {j \in 1 .. Len(s) : s[j] \in a .. b}
<1>1. s \in Seq(Nat) /\ Len(s) \in Nat
  BY Times
<1>2. AcceptedIn(c, a, b) = Cardinality(S)
  BY DEF AcceptedIn
<1> HIDE DEF s
<1>3. CASE S = {}
  BY <1>2, <1>3, FS_EmptySet
<1>4. CASE S # {}
  <2> DEFINE T == {Len(s) - j : j \in S}
  <2>1. S \subseteq Nat /\ S \subseteq 1 .. Len(s) /\ T \subseteq Nat /\ T # {}
    BY <1>1, <1>4
  <2>2. PICK lo \in S : \A j \in S : lo <= j
    <3> HIDE DEF S, T
    <3> QED
      BY <1>4, <2>1, Least
  <2>3. PICK t \in T : \A u \in T : t <= u
    <3> HIDE DEF S, T
    <3> QED
      BY <2>1, Least
  <2>4. PICK hi \in S : t = Len(s) - hi
    BY <2>3
  <2>5. \A j \in S : j <= hi
    <3>1. \A j \in S : Len(s) - hi <= Len(s) - j
      BY <2>3, <2>4
    <3> HIDE DEF S, T
    <3> QED
      BY <1>1, <2>1, <3>1
  <2>6. S \subseteq lo .. hi
    <3> HIDE DEF S, T
    <3> QED
      BY <2>1, <2>2, <2>5
  <2>7. lo <= hi /\ lo \in Nat /\ hi \in Nat
    BY <2>1, <2>5
  <2> HIDE DEF S, T
  <2>8. IsFiniteSet(lo .. hi) /\ Cardinality(lo .. hi) = hi - lo + 1
    BY <2>7, FS_Interval
  <2>9. IsFiniteSet(S) /\ Cardinality(S) <= Cardinality(lo .. hi) /\ Cardinality(S) \in Nat
    BY <2>6, <2>8, FS_Subset, FS_CardinalityType
  <2>10. Cardinality(S) \in 0 .. hi - lo + 1
    BY <2>7, <2>8, <2>9
  <2>11. lo \in 1 .. Len(s) /\ hi \in 1 .. Len(s) /\ s[lo] \in a .. b /\ s[hi] \in a .. b
    BY DEF S
  <2> QED
    BY <1>2, <2>7, <2>10, <2>11 DEF s
<1> QED
  BY <1>3, <1>4

\* What of the history satisfies Spread is within the rate.
LEMMA SpreadIsWithinRate ==
    ASSUME IInv, NEW i \in Rule, NEW c \in Client, NEW a \in Nat, NEW b \in Int, a <= b + 1
    PROVE  /\ (Algorithm[i] = "fixed_window" /\ a % Window[i] = 0 /\ b = a + Window[i] - 1) =>
                AcceptedIn(c, a, b) <= Limit[i]
           /\ (Algorithm[i] = "sliding_window" /\ b = a + Window[i] - 1) =>
                AcceptedIn(c, a, b) <= Limit[i]
           /\ Algorithm[i] \in {"token_bucket", "leaky_bucket"} =>
                \/ AcceptedIn(c, a, b) = 0
                \/ AcceptedIn(c, a, b) * Window[i] <= Full(i) + (b - a) * Limit[i]
<1> DEFINE s == accepted[c]
           n == AcceptedIn(c, a, b)
<1>1. /\ s \in Seq(Nat) /\ Sorted(s) /\ Spread(i, s)
      /\ Window[i] \in Nat /\ Window[i] >= 1 /\ Limit[i] \in Nat /\ Limit[i] >= 1
      /\ Full(i) \in Nat
  BY Times, Params DEF IInv, HistoryCovered
<1>0. /\ Window[i] \in Nat /\ Window[i] >= 1 /\ Limit[i] \in Nat /\ Limit[i] >= 1
      /\ Len(s) \in Nat
  BY <1>1
<1>2. CASE n = 0
  BY <1>1, <1>2
<1>3. CASE n # 0
  <2>1. PICK lo, hi \in 1 .. Len(s) :
           /\ lo <= hi /\ n \in 0 .. hi - lo + 1 /\ s[lo] \in a .. b /\ s[hi] \in a .. b
    BY <1>3, AcceptedInOf DEF IInv
  <2> HIDE DEF s, n
  <2>2. lo \in Nat /\ hi \in Nat /\ s[lo] \in Nat /\ s[hi] \in Nat /\ n \in Nat
    BY <1>1, <2>1
  <2> DEFINE k == lo + Limit[i]
  <2>3. ASSUME ~(n <= Limit[i])
        PROVE  /\ k \in 1 .. Len(s) /\ k <= Len(s)
               /\ s[k] \in Nat /\ s[k] <= s[hi]
    <3>1. k <= hi /\ k >= 1 /\ k \in Nat
      BY <1>0, <2>1, <2>2, <2>3
    <3>2. k \in 1 .. Len(s) /\ hi \in 1 .. Len(s)
      BY <1>0, <2>1, <3>1
    <3> HIDE DEF k
    <3>3. s[k] \in Nat
      BY <1>1, <3>2
    <3>4. s[k] <= s[hi]
      BY <1>1, <3>1, <3>2 DEF Sorted
    <3> QED
      BY <1>0, <3>2, <3>3, <3>4
  <2>4. a <= s[lo] /\ s[hi] <= b
    BY <2>1
  <2>5. ASSUME Algorithm[i] = "fixed_window", a % Window[i] = 0, b = a + Window[i] - 1
        PROVE  n <= Limit[i]
    <3> SUFFICES ASSUME ~(n <= Limit[i]) PROVE FALSE
      OBVIOUS
    <3>1. k \in 1 .. Len(s) /\ k <= Len(s) /\ s[k] \in Nat /\ s[k] <= s[hi]
      BY <2>3
    <3>2. s[lo] < WindowStart(i, s[k])
      BY <1>1, <2>1, <2>5, <3>1 DEF Spread
    <3> HIDE DEF k
    <3>3. /\ WindowStart(i, s[k]) \in Nat /\ WindowStart(i, s[k]) % Window[i] = 0
          /\ WindowStart(i, s[k]) <= s[k]
      BY <3>1, WindowStartOf
    <3>4. PICK w \in Nat : w = WindowStart(i, s[k])
      BY <3>3
    <3>5. s[lo] < w /\ w <= s[k] /\ w % Window[i] = 0
      BY <3>2, <3>3, <3>4
    <3>6. a < w /\ w < a + Window[i]
      <4>1. b = a + Window[i] - 1
        BY <2>5
      <4>2. s[lo] < w /\ w <= s[k]
        BY <3>5
      <4>3. s[lo] \in Nat /\ s[k] \in Nat /\ a <= s[lo] /\ s[k] <= b
        BY <2>2, <2>4, <3>1
      <4>4. a < w
        BY <4>2, <4>3
      <4> QED
        BY <1>0, <4>1, <4>2, <4>3, <4>4
    <3> QED
      BY <1>0, <2>5, <3>5, <3>6, NoMultipleBetween
  <2>6. ASSUME Algorithm[i] = "sliding_window", b = a + Window[i] - 1
        PROVE  n <= Limit[i]
    <3> SUFFICES ASSUME ~(n <= Limit[i]) PROVE FALSE
      OBVIOUS
    <3>1. k \in 1 .. Len(s) /\ k <= Len(s) /\ s[k] \in Nat /\ s[k] <= s[hi]
      BY <2>3
    <3>2. s[lo] + Window[i] <= s[k]
      BY <1>1, <2>1, <2>6, <3>1 DEF Spread
    <3> HIDE DEF k
    <3>3. /\ s[lo] \in Nat /\ s[k] \in Nat /\ a <= s[lo] /\ s[k] <= s[hi] /\ s[hi] <= b
          /\ s[hi] \in Nat /\ b = a + Window[i] - 1
      BY <2>2, <2>4, <2>6, <3>1
    <3>4. PICK x \in Nat, y \in Nat, z \in Nat : x = s[lo] /\ y = s[k] /\ z = s[hi]
      BY <3>3
    <3>5. x + Window[i] <= y /\ a <= x /\ y <= z /\ z <= b /\ b = a + Window[i] - 1
      BY <3>2, <3>3, <3>4, Zenon
    <3> QED
      BY <1>0, <3>5
  <2>7. ASSUME Algorithm[i] \in {"token_bucket", "leaky_bucket"}
        PROVE  n * Window[i] <= Full(i) + (b - a) * Limit[i]
    <3>1. (hi - lo + 1) * Window[i] <= Full(i) + (s[hi] - s[lo]) * Limit[i]
      BY <1>1, <2>1, <2>7 DEF Spread
    <3>2. n <= hi - lo + 1 /\ hi - lo + 1 \in Nat
      BY <2>1, <2>2
    <3>3. n * Window[i] <= (hi - lo + 1) * Window[i] /\ n * Window[i] \in Nat
      BY <1>1, <2>2, <3>2, ProductsGrow
    <3>4. s[hi] - s[lo] \in Nat /\ b - a \in Nat /\ s[hi] - s[lo] <= b - a
      BY <1>1, <2>1, <2>2 DEF Sorted
    <3>5. (s[hi] - s[lo]) * Limit[i] <= (b - a) * Limit[i] /\ (s[hi] - s[lo]) * Limit[i] \in Nat
      <4> DEFINE p == s[hi] - s[lo]
                 q == b - a
      <4>1. p \in Nat /\ q \in Nat /\ p <= q /\ Limit[i] \in Nat
        BY <1>0, <3>4
      <4> HIDE DEF p, q
      <4>2. p * Limit[i] <= q * Limit[i] /\ p * Limit[i] \in Nat
        BY <4>1, ProductsGrow
      <4> QED
        BY <4>2 DEF p, q
    <3>6. (hi - lo + 1) * Window[i] \in Nat /\ (b - a) * Limit[i] \in Nat
      <4> DEFINE p == hi - lo + 1
                 q == b - a
      <4>1. p \in Nat /\ q \in Nat /\ Window[i] \in Nat /\ Limit[i] \in Nat
        BY <1>0, <3>2, <3>4
      <4> HIDE DEF p, q
      <4>2. p * Window[i] \in Nat /\ q * Limit[i] \in Nat
        BY <4>1, ProductsGrow
      <4> QED
        BY <4>2 DEF p, q
    <3> DEFINE x == n * Window[i]
               y == (hi - lo + 1) * Window[i]
               u == (s[hi] - s[lo]) * Limit[i]
               v == (b - a) * Limit[i]
    <3>7. /\ x \in Nat /\ y \in Nat /\ u \in Nat /\ v \in Nat
          /\ x <= y /\ y <= Full(i) + u /\ u <= v
      BY <3>1, <3>3, <3>5, <3>6, Zenon
    <3> HIDE DEF x, y, u, v
    <3>8. Full(i) \in Nat
      BY Params
    <3>9. x <= Full(i) + v
      BY <3>7, <3>8
    <3> QED
      BY <3>9, Zenon DEF x, v
  <2> QED
    BY <2>5, <2>6, <2>7 DEF n
<1> QED
  BY <1>2, <1>3

-----------------------------------------------------------------------------
(* The theorems.                                                           *)

LEMMA InvariantHolds == Spec => []IInv
<1> QED
  BY InitEstablishesInvariant, NextKeepsInvariant, PTL DEF Spec

\* Every variable stays in its range, for any rules, clients and requests; in
\* particular one sweep keeps the count of writes below the interval.
THEOREM TypeCorrect == Spec => []TypeOK
<1>1. IInv => TypeOK
  BY DEF IInv
<1> QED
  BY <1>1, InvariantHolds, PTL

\* Whatever overlaps, expires or is swept, no algorithm lets more through than
\* its rule says: in an aligned window, in any window, or in any interval.
THEOREM AdmissionsStayWithinRate == Spec => []AdmittedWithinRate
<1>1. IInv => AdmittedWithinRate
  <2> SUFFICES ASSUME IInv PROVE AdmittedWithinRate
    OBVIOUS
  <2>1. clock \in Nat /\ 0 .. clock \subseteq Nat
    BY Times DEF IInv
  <2>2. \A i \in Rule : Window[i] \in Nat /\ Window[i] >= 1
    BY Params
  <2>3. FixedWindowBound
    <3> SUFFICES ASSUME NEW i \in Rule, NEW c \in Client, Algorithm[i] = "fixed_window",
                        NEW a \in 0 .. clock, a % Window[i] = 0
                 PROVE  AcceptedIn(c, a, a + Window[i] - 1) <= Limit[i]
      BY DEF FixedWindowBound
    <3>1. a \in Nat /\ a + Window[i] - 1 \in Int /\ a <= a + Window[i] - 1 + 1
      BY <2>1, <2>2
    <3> QED
      BY <3>1, SpreadIsWithinRate
  <2>4. SlidingWindowBound
    <3> SUFFICES ASSUME NEW i \in Rule, NEW c \in Client, Algorithm[i] = "sliding_window",
                        NEW a \in 0 .. clock
                 PROVE  AcceptedIn(c, a, a + Window[i] - 1) <= Limit[i]
      BY DEF SlidingWindowBound
    <3>1. a \in Nat /\ a + Window[i] - 1 \in Int /\ a <= a + Window[i] - 1 + 1
      BY <2>1, <2>2
    <3> QED
      BY <3>1, SpreadIsWithinRate
  <2>5. BucketBound
    <3> SUFFICES ASSUME NEW i \in Rule, NEW c \in Client,
                        Algorithm[i] \in {"token_bucket", "leaky_bucket"},
                        NEW a \in 0 .. clock, NEW b \in a .. clock
                 PROVE  AcceptedIn(c, a, b) * Window[i] <= Full(i) + (b - a) * Limit[i]
      BY DEF BucketBound
    <3>1. a \in Nat /\ b \in Int /\ a <= b + 1 /\ b - a \in Nat
      BY <2>1
    <3>2. \/ AcceptedIn(c, a, b) = 0
          \/ AcceptedIn(c, a, b) * Window[i] <= Full(i) + (b - a) * Limit[i]
      BY <3>1, SpreadIsWithinRate
    <3>3. CASE AcceptedIn(c, a, b) = 0
      <4>1. 0 * Window[i] = 0
        BY <2>2
      <4>2. (b - a) * Limit[i] \in Nat
        BY <3>1, Params, ProductsGrow
      <4> QED
        BY <3>3, <4>1, <4>2, Params
    <3> QED
      BY <3>2, <3>3
  <2> QED
    BY <2>3, <2>4, <2>5 DEF AdmittedWithinRate
<1> QED
  BY <1>1, InvariantHolds, PTL

\* Each rule behaves, for each client, as a meter that drains by itself and
\* forgets nothing: every step of the limiter is a step of RateMeter or none.
THEOREM BehavesAsMeters == Spec => ImplementsMeter
<1>1. Init => Meter!Init
  BY InitIsMeterInit
<1>2. IInv /\ [Next]_vars => [Meter!Next]_(Meter!vars)
  BY NextKeepsInvariant, MeterStepIsNext
<1> QED
  BY <1>1, <1>2, InvariantHolds, PTL DEF Spec, Meter!Spec, ImplementsMeter

-----------------------------------------------------------------------------
(* What the client is told.                                                *)

\* An entry of rule i accepts a request at t exactly when what is missing at
\* now has drained by then.
AcceptsFrom(i, e, now, missing) ==
    \A t \in Nat : t >= now =>
        (Evaluate(i, e, t, 1).allowed <=> (t - now) * Rate(i) >= missing)

LEMMA FixedWindowReopens ==
    ASSUME NEW i \in Rule, NEW now \in Nat, NEW e, NEW f, Fits(i, e, now), Fits(i, f, now),
           LoadOf(i, f, now) = LoadOf(i, e, now),
           Algorithm[i] = "fixed_window", ~Evaluate(i, e, now, 1).allowed
    PROVE  /\ Evaluate(i, e, now, 1).wait \in Nat \ {0}
           /\ AcceptsFrom(i, f, now, Evaluate(i, e, now, 1).wait)
<1> DEFINE a == WindowStart(i, now)
<1>0. /\ a \in Nat /\ a <= now /\ now < a + Window[i] /\ a % Window[i] = 0
      /\ Window[i] \in Nat /\ Window[i] >= 1 /\ Limit[i] \in Nat /\ Limit[i] >= 1
      /\ Ttl(i) \in Nat /\ Ttl(i) >= 2 * Window[i]
  BY WindowStartOf, Params, TtlOf
<1>1. Evaluate(i, e, now, 1).wait = a + Window[i] - now
  BY DEF Evaluate, FixedWindow
<1>2. Counted(i, e, now) \in Nat /\ Counted(i, f, now) \in Nat
  BY CountedOf
<1>3. ~(Counted(i, e, now) + 1 <= Limit[i])
  BY AllowedWhen
<1>4. Counted(i, f, now) >= Limit[i]
  BY <1>0, <1>2, <1>3 DEF LoadOf, Smaller
<1>5. Live(f, now) /\ f.at = a /\ f.units = Counted(i, f, now)
  BY <1>0, <1>4 DEF Counted
<1>6. f.expires \in Nat /\ f.expires >= a + Ttl(i)
  BY <1>5, LiveFits
<1> HIDE DEF a
<1>7. ASSUME NEW t \in Nat, t >= now
      PROVE  Evaluate(i, f, t, 1).allowed <=> t >= a + Window[i]
  <2> DEFINE b == WindowStart(i, t)
  <2>1. /\ b \in Nat /\ b <= t /\ t < b + Window[i] /\ b % Window[i] = 0
        /\ a <= b
    <3>1. a \in Nat /\ a % Window[i] = 0 /\ a <= t
      BY <1>0, <1>7
    <3>2. /\ b \in Nat /\ b <= t /\ t < b + Window[i] /\ b % Window[i] = 0
          /\ \A w \in Nat : (w % Window[i] = 0 /\ w <= t) => w <= b
      BY WindowStartOf
    <3> QED
      BY <3>1, <3>2
  <2>2. Evaluate(i, f, t, 1).allowed <=> Counted(i, f, t) + 1 <= Limit[i]
    BY AllowedWhen
  <2>3. Counted(i, f, t) = IF Live(f, t) /\ f.at = b THEN f.units ELSE 0
    BY DEF Counted
  <2> HIDE DEF b
  <2>4. CASE t >= a + Window[i]
    <3>1. f.at # b
      BY <1>0, <1>5, <2>1, <2>4
    <3> QED
      BY <1>0, <2>2, <2>3, <2>4, <3>1
  <2>5. CASE ~(t >= a + Window[i])
    <3>1. ~(a < b)
      <4> SUFFICES ASSUME a < b PROVE FALSE
        OBVIOUS
      <4>1. b < a + Window[i]
        BY <1>0, <2>1, <2>5
      <4> QED
        BY <1>0, <2>1, <4>1, NoMultipleBetween
    <3>2. b = a
      BY <1>0, <2>1, <3>1
    <3>3. Live(f, t)
      BY <1>0, <1>6, <2>5 DEF Live
    <3>4. Counted(i, f, t) = f.units
      BY <1>5, <2>3, <3>2, <3>3
    <3> QED
      BY <1>0, <1>2, <1>4, <1>5, <2>2, <2>5, <3>4
  <2> QED
    BY <2>4, <2>5
<1>8. Rate(i) = 1
  BY DEF Rate
<1>9. Evaluate(i, e, now, 1).wait \in Nat \ {0}
  BY <1>0, <1>1
<1>10. ASSUME NEW t \in Nat, t >= now
       PROVE  (t - now) * Rate(i) >= Evaluate(i, e, now, 1).wait <=> t >= a + Window[i]
  <2>1. (t - now) * 1 = t - now
    BY <1>10
  <2> QED
    BY <1>0, <1>1, <1>8, <1>10, <2>1
<1> QED
  BY <1>7, <1>9, <1>10 DEF AcceptsFrom

LEMMA SlidingWindowReopens ==
    ASSUME NEW i \in Rule, NEW now \in Nat, NEW e, NEW f, Fits(i, e, now), Fits(i, f, now),
           LoadOf(i, f, now) = LoadOf(i, e, now),
           Algorithm[i] = "sliding_window", ~Evaluate(i, e, now, 1).allowed
    PROVE  /\ Evaluate(i, e, now, 1).wait \in Nat \ {0}
           /\ AcceptsFrom(i, f, now, Evaluate(i, e, now, 1).wait)
<1>0. /\ Window[i] \in Nat /\ Window[i] >= 1 /\ Limit[i] \in Nat /\ Limit[i] >= 1
      /\ Ttl(i) \in Nat /\ Ttl(i) >= 2 * Window[i]
  BY Params, TtlOf
<1>1. PICK k : k = Kept(i, e, now)
  BY Zenon
<1>2. /\ k \in Seq(Nat) /\ Sorted(k) /\ UpTo(k, now) /\ Len(k) <= Limit[i]
      /\ \A j \in 1 .. Len(k) : k[j] + Window[i] > now
  BY <1>1, KeptOf
<1>3. Kept(i, f, now) = k
  BY <1>1 DEF LoadOf
<1>4. Len(k) = Limit[i]
  <2>1. ~(Len(k) + 1 <= Limit[i])
    BY <1>1, AllowedWhen
  <2> QED
    BY <1>0, <1>2, <2>1
<1>5. k[1] \in Nat /\ k[1] <= now /\ k[1] + Window[i] > now /\ k # <<>> /\ 1 \in 1 .. Len(k)
  <2>1. 1 \in 1 .. Len(k)
    BY <1>0, <1>4
  <2> QED
    BY <1>2, <2>1 DEF UpTo
<1>6. Evaluate(i, e, now, 1).wait = k[1] + Window[i] - now
  <2>1. Larger(1, 1) = 1
    BY DEF Larger
  <2>2. Evaluate(i, e, now, 1) = SlidingWindow(i, e, now, 1)
    BY DEF Evaluate
  <2>3. SlidingWindow(i, e, now, 1).wait =
          IF ~(Len(k) + 1 <= Limit[i]) /\ k # <<>>
          THEN k[Smaller(Len(k) + 1 - Limit[i], Len(k))] + Window[i] - now ELSE 0
    BY <1>1, <2>1 DEF SlidingWindow
  <2>4. Smaller(Len(k) + 1 - Limit[i], Len(k)) = 1
    BY <1>0, <1>4 DEF Smaller
  <2>5. ~(Len(k) + 1 <= Limit[i])
    BY <1>0, <1>4
  <2> QED
    BY <1>5, <2>2, <2>3, <2>4, <2>5
<1>7. Live(f, now)
  BY <1>3, <1>5 DEF Kept
<1>8. PICK s : s = f.stamps
  BY Zenon
<1>9. /\ s \in Seq(Nat) /\ Sorted(s) /\ UpTo(s, f.at) /\ f.at \in Nat
      /\ f.expires \in Nat /\ f.expires >= f.at + Ttl(i)
      /\ k = Within(s, Window[i], now)
  BY <1>3, <1>7, <1>8, LiveFits DEF Kept
<1>10. k[1] <= f.at
  <2>1. PICK n \in 0 .. Len(s) : Rest(k, s, n)
    BY <1>0, <1>9, WithinOf
  <2>2. k[1] = s[1 + n] /\ 1 + n \in 1 .. Len(s)
    BY <1>5, <1>9, <2>1 DEF Rest
  <2> QED
    BY <1>9, <2>2 DEF UpTo
<1>11. ASSUME NEW t \in Nat, t >= now
       PROVE  Evaluate(i, f, t, 1).allowed <=> t >= k[1] + Window[i]
  <2>1. Evaluate(i, f, t, 1).allowed <=> Len(Kept(i, f, t)) + 1 <= Limit[i]
    BY AllowedWhen
  <2>2. CASE ~Live(f, t)
    <3>1. Kept(i, f, t) = <<>>
      BY <2>2 DEF Kept
    <3>2. Len(<<>>) + 1 <= Limit[i]
      BY <1>0
    <3>3. t >= k[1] + Window[i]
      BY <1>0, <1>5, <1>9, <1>10, <2>2 DEF Live
    <3> QED
      BY <2>1, <3>1, <3>2, <3>3
  <2>3. CASE Live(f, t)
    <3>1. Kept(i, f, t) = Within(s, Window[i], t)
      BY <1>8, <2>3 DEF Kept
    <3>2. Within(k, Window[i], t) = Within(s, Window[i], t)
      BY <1>0, <1>9, <1>11, WithinAgain
    <3>3. PICK n \in 0 .. Len(k) :
             /\ \A j \in 1 .. Len(k) : (k[j] + Window[i] <= t) <=> j <= n
             /\ Rest(Within(k, Window[i], t), k, n)
      BY <1>0, <1>2, WithinOf
    <3>4. Len(Kept(i, f, t)) = Limit[i] - n
      BY <1>4, <3>1, <3>2, <3>3 DEF Rest
    <3>5. (k[1] + Window[i] <= t) <=> 1 <= n
      BY <1>5, <3>3
    <3> QED
      BY <1>0, <1>4, <1>5, <2>1, <3>4, <3>5
  <2> QED
    BY <2>2, <2>3
<1>12. Rate(i) = 1
  BY DEF Rate
<1>13. Evaluate(i, e, now, 1).wait \in Nat \ {0}
  BY <1>0, <1>5, <1>6
<1>14. ASSUME NEW t \in Nat, t >= now
       PROVE  (t - now) * Rate(i) >= Evaluate(i, e, now, 1).wait <=> t >= k[1] + Window[i]
  <2>1. (t - now) * 1 = t - now
    BY <1>14
  <2> QED
    BY <1>0, <1>5, <1>6, <1>12, <1>14, <2>1
<1> QED
  BY <1>11, <1>13, <1>14 DEF AcceptsFrom

\* What drains from u to t, in two spans.
LEMMA SpansAdd ==
    ASSUME NEW u \in Nat, NEW now \in Nat, NEW t \in Nat, NEW c \in Nat, u <= now, now <= t
    PROVE  /\ (now - u) * c \in Nat /\ (t - now) * c \in Nat
           /\ (t - u) * c = (now - u) * c + (t - now) * c
<1> DEFINE x == now - u
           y == t - now
<1>1. x \in Nat /\ y \in Nat /\ t - u = x + y
  OBVIOUS
<1> HIDE DEF x, y
<1>2. (x + y) * c = x * c + y * c /\ x * c \in Nat /\ y * c \in Nat
  BY <1>1
<1> QED
  BY <1>1, <1>2 DEF x, y

LEMMA TokenBucketRefills ==
    ASSUME NEW i \in Rule, NEW now \in Nat, NEW e, NEW f, Fits(i, e, now), Fits(i, f, now),
           LoadOf(i, f, now) = LoadOf(i, e, now),
           Algorithm[i] = "token_bucket", ~Evaluate(i, e, now, 1).allowed
    PROVE  /\ Evaluate(i, e, now, 1).wait \in Nat \ {0}
           /\ AcceptsFrom(i, f, now, Evaluate(i, e, now, 1).wait)
<1>0. /\ Window[i] \in Nat /\ Window[i] >= 1 /\ Limit[i] \in Nat /\ Limit[i] >= 1
      /\ Full(i) \in Nat /\ Full(i) >= Window[i] /\ Rate(i) = Limit[i]
  BY Params DEF Rate
<1>1. PICK n : n = Tokens(i, e, now)
  BY Zenon
<1>2. n \in 0 .. Full(i) /\ n < Window[i]
  <2>1. ~(n >= Window[i])
    BY <1>1, AllowedWhen
  <2> QED
    BY <1>0, <1>1, <2>1, TokensOf
<1>3. Tokens(i, f, now) = n
  <2>1. Full(i) - Tokens(i, f, now) = Full(i) - n
    BY <1>1 DEF LoadOf
  <2>2. Tokens(i, f, now) \in 0 .. Full(i)
    BY TokensOf
  <2> QED
    BY <1>0, <1>2, <2>1, <2>2
<1>4. Evaluate(i, e, now, 1).wait = Window[i] - n
  <2>1. 1 * Window[i] = Window[i]
    BY <1>0
  <2>2. Evaluate(i, e, now, 1) = TokenBucket(i, e, now, 1)
    BY DEF Evaluate
  <2>3. TokenBucket(i, e, now, 1).wait =
          IF n >= Window[i] THEN 0 ELSE Window[i] - (IF n >= Window[i] THEN n - Window[i] ELSE n)
    BY <1>1, <2>1 DEF TokenBucket
  <2> QED
    BY <1>0, <1>2, <2>2, <2>3
<1>5. Live(f, now)
  BY <1>0, <1>2, <1>3 DEF Tokens
<1>6. /\ f.units \in Nat /\ f.units <= Full(i) /\ f.at \in Nat /\ f.at <= now
      /\ f.expires \in Nat /\ f.expires # 0
  BY <1>5, LiveFits
<1>7. /\ (now - f.at) * Limit[i] \in Nat /\ n = f.units + (now - f.at) * Limit[i]
  <2> DEFINE x == (now - f.at) * Limit[i]
  <2>1. x \in Nat
    BY <1>0, <1>6, SpansAdd
  <2>2. n = Smaller(Full(i), f.units + x)
    BY <1>3, <1>5 DEF Tokens
  <2> HIDE DEF x
  <2>3. n = f.units + x
    BY <1>0, <1>2, <1>6, <2>1, <2>2 DEF Smaller
  <2> QED
    BY <2>1, <2>3 DEF x
<1>8. ASSUME NEW t \in Nat, t >= now
      PROVE  Evaluate(i, f, t, 1).allowed <=> (t - now) * Limit[i] >= Window[i] - n
  <2> DEFINE x == (now - f.at) * Limit[i]
             y == (t - now) * Limit[i]
             z == (t - f.at) * Limit[i]
  <2>1. x \in Nat /\ y \in Nat /\ z = x + y
    BY <1>0, <1>6, <1>8, SpansAdd
  <2>2. n = f.units + x
    BY <1>7
  <2>3. Evaluate(i, f, t, 1).allowed <=> Tokens(i, f, t) >= Window[i]
    BY AllowedWhen
  <2>4. CASE ~Live(f, t)
    <3>1. Tokens(i, f, t) = Full(i)
      BY <2>4 DEF Tokens
    <3>2. z >= Full(i)
      <4>1. Fits(i, f, t)
        BY <1>8, FitsLater
      <4>2. Algorithm[i] \in {"token_bucket", "leaky_bucket"}
        OBVIOUS
      <4> HIDE DEF z
      <4> QED
        BY <1>6, <2>4, <4>1, <4>2, BucketsExpireSettled DEF z
    <3> HIDE DEF x, y, z
    <3>3. y >= Window[i] - n
      BY <1>0, <1>6, <2>1, <2>2, <3>2
    <3> QED
      BY <1>0, <2>3, <3>1, <3>3 DEF y
  <2>5. CASE Live(f, t)
    <3>1. Tokens(i, f, t) = Smaller(Full(i), f.units + z)
      BY <2>5 DEF Tokens
    <3> HIDE DEF x, y, z
    <3>2. Smaller(Full(i), f.units + z) >= Window[i] <=> y >= Window[i] - n
      BY <1>0, <1>6, <2>1, <2>2 DEF Smaller
    <3> QED
      BY <2>3, <3>1, <3>2 DEF y
  <2> QED
    BY <2>4, <2>5
<1>9. Evaluate(i, e, now, 1).wait \in Nat \ {0}
  BY <1>0, <1>2, <1>4
<1> QED
  BY <1>0, <1>4, <1>8, <1>9 DEF AcceptsFrom

LEMMA LeakyBucketLeaks ==
    ASSUME NEW i \in Rule, NEW now \in Nat, NEW e, NEW f, Fits(i, e, now), Fits(i, f, now),
           LoadOf(i, f, now) = LoadOf(i, e, now),
           Algorithm[i] = "leaky_bucket", ~Evaluate(i, e, now, 1).allowed
    PROVE  /\ Evaluate(i, e, now, 1).wait \in Nat \ {0}
           /\ AcceptsFrom(i, f, now, Evaluate(i, e, now, 1).wait)
<1>0. /\ Window[i] \in Nat /\ Window[i] >= 1 /\ Limit[i] \in Nat /\ Limit[i] >= 1
      /\ Full(i) \in Nat /\ Full(i) >= Window[i] /\ Rate(i) = Limit[i]
  BY Params DEF Rate
<1>1. PICK n : n = Level(i, e, now)
  BY Zenon
<1>2. n \in 0 .. Full(i) /\ n + Window[i] > Full(i)
  <2>1. ~(n + Window[i] <= Full(i))
    BY <1>1, AllowedWhen
  <2>2. n \in 0 .. Full(i)
    BY <1>1, LevelOf
  <2> QED
    BY <1>0, <2>1, <2>2
<1>3. Level(i, f, now) = n
  BY <1>1 DEF LoadOf
<1>4. Evaluate(i, e, now, 1).wait = n + Window[i] - Full(i)
  <2>1. 1 * Window[i] = Window[i]
    BY <1>0
  <2>2. Evaluate(i, e, now, 1) = LeakyBucket(i, e, now, 1)
    BY DEF Evaluate
  <2>3. LeakyBucket(i, e, now, 1).wait =
          IF n + Window[i] <= Full(i) THEN 0 ELSE n + Window[i] - Full(i)
    BY <1>1, <2>1 DEF LeakyBucket
  <2>4. ~(n + Window[i] <= Full(i))
    BY <1>0, <1>2
  <2> QED
    BY <2>2, <2>3, <2>4
<1>5. Live(f, now) /\ n > 0
  <2>1. n > 0
    BY <1>0, <1>2
  <2> QED
    BY <1>3, <2>1 DEF Level
<1>6. /\ f.units \in Nat /\ f.units <= Full(i) /\ f.at \in Nat /\ f.at <= now
      /\ f.expires \in Nat /\ f.expires # 0
  BY <1>5, LiveFits
<1>7. n = f.units - (now - f.at) * Limit[i]
  <2> DEFINE x == (now - f.at) * Limit[i]
  <2>1. x \in Nat
    BY <1>0, <1>6, SpansAdd
  <2>2. n = Larger(0, f.units - x)
    BY <1>3, <1>5 DEF Level
  <2> HIDE DEF x
  <2>3. n = f.units - x
    BY <1>2, <1>5, <1>6, <2>1, <2>2 DEF Larger
  <2> QED
    BY <2>3 DEF x
<1>8. ASSUME NEW t \in Nat, t >= now
      PROVE  Evaluate(i, f, t, 1).allowed <=> (t - now) * Limit[i] >= n + Window[i] - Full(i)
  <2> DEFINE x == (now - f.at) * Limit[i]
             y == (t - now) * Limit[i]
             z == (t - f.at) * Limit[i]
  <2>1. x \in Nat /\ y \in Nat /\ z = x + y
    BY <1>0, <1>6, <1>8, SpansAdd
  <2>2. n = f.units - x
    BY <1>7
  <2>3. Evaluate(i, f, t, 1).allowed <=> Level(i, f, t) + Window[i] <= Full(i)
    BY AllowedWhen
  <2>4. CASE ~Live(f, t)
    <3>1. Level(i, f, t) = 0
      BY <2>4 DEF Level
    <3>2. z >= Full(i)
      <4>1. Fits(i, f, t)
        BY <1>8, FitsLater
      <4>2. Algorithm[i] \in {"token_bucket", "leaky_bucket"}
        OBVIOUS
      <4> HIDE DEF z
      <4> QED
        BY <1>6, <2>4, <4>1, <4>2, BucketsExpireSettled DEF z
    <3> HIDE DEF x, y, z
    <3>3. y >= n + Window[i] - Full(i) /\ 0 + Window[i] <= Full(i)
      BY <1>0, <1>6, <2>1, <2>2, <3>2
    <3> QED
      BY <2>3, <3>1, <3>3 DEF y
  <2>5. CASE Live(f, t)
    <3>1. Level(i, f, t) = Larger(0, f.units - z)
      BY <2>5 DEF Level
    <3> HIDE DEF x, y, z
    <3>2. Larger(0, f.units - z) + Window[i] <= Full(i) <=> y >= n + Window[i] - Full(i)
      BY <1>0, <1>6, <2>1, <2>2 DEF Larger
    <3> QED
      BY <2>3, <3>1, <3>2 DEF y
  <2> QED
    BY <2>4, <2>5
<1>9. Evaluate(i, e, now, 1).wait \in Nat \ {0}
  BY <1>0, <1>2, <1>4
<1> QED
  BY <1>0, <1>4, <1>8, <1>9 DEF AcceptsFrom

LEMMA AcceptsWhenDrained ==
    ASSUME NEW i \in Rule, NEW now \in Nat, NEW e, NEW f, Fits(i, e, now), Fits(i, f, now),
           LoadOf(i, f, now) = LoadOf(i, e, now), ~Evaluate(i, e, now, 1).allowed
    PROVE  /\ Evaluate(i, e, now, 1).wait \in Nat \ {0}
           /\ AcceptsFrom(i, f, now, Evaluate(i, e, now, 1).wait)
<1>1. CASE Algorithm[i] = "fixed_window"
  BY <1>1, FixedWindowReopens
<1>2. CASE Algorithm[i] = "sliding_window"
  BY <1>2, SlidingWindowReopens
<1>3. CASE Algorithm[i] = "token_bucket"
  BY <1>3, TokenBucketRefills
<1>4. CASE Algorithm[i] = "leaky_bucket"
  BY <1>4, LeakyBucketLeaks
<1> QED
  BY <1>1, <1>2, <1>3, <1>4, Params DEF RateLimitAlgorithm

\* Retry-After is the least number of whole seconds, at least one, in which
\* what is missing drains.
LEMMA RetryAfterOf ==
    ASSUME NEW i \in Rule, NEW missing \in Nat \ {0}
    PROVE  LET n == RetryAfter(i, missing)
           IN  /\ n \in Nat /\ n >= 1
               /\ (n * Second) * Rate(i) >= missing
               /\ n = 1 \/ ~(((n - 1) * Second) * Rate(i) >= missing)
<1> DEFINE b == Rate(i) * Second
           m == CeilDiv(missing, b)
<1>0. Rate(i) \in Nat /\ Rate(i) >= 1 /\ Second \in Nat /\ Second >= 1
  BY Params DEF Rate
<1>1. b \in Nat \ {0}
  <2>1. 1 * Second <= Rate(i) * Second /\ Rate(i) * Second \in Nat
    BY <1>0, ProductsGrow
  <2> QED
    BY <1>0, <2>1
<1>2. \A k \in Nat : (k * Second) * Rate(i) = k * b
  BY <1>0
<1> HIDE DEF b
<1>3. m \in Nat /\ missing <= m * b /\ (m - 1) * b < missing
  BY <1>1, CeilDivOf
<1> HIDE DEF m
<1>4. m # 0
  <2> SUFFICES ASSUME m = 0 PROVE FALSE
    OBVIOUS
  <2>1. 0 * b = 0
    BY <1>1
  <2> QED
    BY <1>3, <2>1
<1>5. RetryAfter(i, missing) = m
  BY <1>3, <1>4 DEF RetryAfter, Larger, m, b
<1>6. m - 1 \in Nat
  BY <1>3, <1>4
<1>7. (m * Second) * Rate(i) = m * b /\ ((m - 1) * Second) * Rate(i) = (m - 1) * b
  BY <1>2, <1>3, <1>6
<1>8. m * b \in Nat /\ (m - 1) * b \in Nat
  BY <1>1, <1>3, <1>6
<1>9. /\ (m * Second) * Rate(i) >= missing
      /\ ~(((m - 1) * Second) * Rate(i) >= missing)
  <2> DEFINE x == m * b
             y == (m - 1) * b
  <2>1. x \in Nat /\ y \in Nat /\ missing <= x /\ y < missing
    BY <1>3, <1>8
  <2> HIDE DEF x, y
  <2>2. x >= missing /\ ~(y >= missing)
    BY <2>1
  <2> QED
    BY <1>7, <2>2 DEF x, y
<1> QED
  BY <1>3, <1>4, <1>5, <1>9

\* A refusal tells the client exactly when to come back.
LEMMA RefusalIsExact ==
    ASSUME IInv, NEW r \in Request, NEW d \in Rule, Reject(r, d)
    PROVE  /\ Evaluate(d, entries'[KeyOf(d, r)], clock + headers'[r].retry * Second, 1).allowed
           /\ \/ headers'[r].retry = 1
              \/ ~Evaluate(d, entries'[KeyOf(d, r)],
                           (clock + headers'[r].retry * Second) - Second, 1).allowed
<1>0. /\ TypeOK /\ EntriesFit /\ clock \in Nat /\ ClientOf[r] \in Client
      /\ d \in 0 .. NRules /\ Persist(r, d) /\ ~Decision(d, r).allowed
      /\ Fits(d, entries[KeyOf(d, r)], clock)
      /\ Load(d, ClientOf[r]) = LoadOf(d, entries[KeyOf(d, r)], clock)
      /\ Decision(d, r) = Evaluate(d, entries[KeyOf(d, r)], clock, 1)
  BY DecisionOf, RateLimitAssumption DEF IInv, Reject, Rule
<1>1. PICK e : e = entries[KeyOf(d, r)]
  BY Zenon
<1>2. PICK f : f = entries'[KeyOf(d, r)]
  BY Zenon
<1>3. Fits(d, f, clock) /\ LoadOf(d, f, clock) = LoadOf(d, e, clock)
  BY <1>0, <1>1, <1>2, PersistEffect DEF KeyOf
<1>4. ~Evaluate(d, e, clock, 1).allowed /\ Fits(d, e, clock)
  BY <1>0, <1>1
<1>5. PICK w : w = Evaluate(d, e, clock, 1).wait
  BY Zenon
<1>6. w \in Nat \ {0} /\ AcceptsFrom(d, f, clock, w)
  BY <1>0, <1>3, <1>4, <1>5, AcceptsWhenDrained
<1>7. PICK n : n = RetryAfter(d, w)
  BY Zenon
<1>8. headers'[r].retry = n
  <2>1. headers'[r] = RateLimitHeaders(d, Decision(d, r))
    BY <1>0 DEF Reject, TypeOK
  <2>2. RateLimitHeaders(d, Decision(d, r)).retry = RetryAfter(d, Decision(d, r).wait)
    BY <1>0 DEF RateLimitHeaders
  <2>3. Decision(d, r).wait = w
    BY <1>0, <1>1, <1>5
  <2> QED
    BY <1>7, <2>1, <2>2, <2>3
<1>9. /\ n \in Nat /\ n >= 1 /\ (n * Second) * Rate(d) >= w
      /\ n = 1 \/ ~(((n - 1) * Second) * Rate(d) >= w)
  BY <1>6, <1>7, RetryAfterOf
<1>10. Second \in Nat
  BY Params
<1>11. Evaluate(d, f, clock + n * Second, 1).allowed
  <2> DEFINE x == n * Second
  <2>1. x \in Nat /\ x * Rate(d) >= w
    BY <1>9, <1>10
  <2> HIDE DEF x
  <2>2. clock + x \in Nat /\ clock + x >= clock /\ (clock + x) - clock = x
    BY <1>0, <2>1
  <2> QED
    BY <1>6, <2>1, <2>2 DEF AcceptsFrom, x
<1>12. n = 1 \/ ~Evaluate(d, f, (clock + n * Second) - Second, 1).allowed
  <2> SUFFICES ASSUME n # 1 PROVE ~Evaluate(d, f, (clock + n * Second) - Second, 1).allowed
    OBVIOUS
  <2> DEFINE x == (n - 1) * Second
  <2>1. n - 1 \in Nat
    BY <1>9
  <2>2. x \in Nat
    BY <1>10, <2>1, ProductsGrow
  <2>3. ~(x * Rate(d) >= w)
    BY <1>9
  <2>4. n * Second - Second = x
    <3>1. (n - 1) * Second = n * Second - Second
      BY <1>9, <1>10
    <3> QED
      BY <3>1
  <2>5. n * Second \in Nat
    BY <1>9, <1>10, ProductsGrow
  <2> HIDE DEF x
  <2>6. (clock + n * Second) - Second = clock + x
    <3> DEFINE y == n * Second
    <3>1. y \in Nat /\ y - Second = x
      BY <2>4, <2>5
    <3> HIDE DEF y
    <3>2. (clock + y) - Second = clock + x
      BY <1>0, <1>10, <2>2, <3>1
    <3> QED
      BY <3>2 DEF y
  <2>7. clock + x \in Nat /\ clock + x >= clock /\ (clock + x) - clock = x
    BY <1>0, <2>2
  <2>8. ~Evaluate(d, f, clock + x, 1).allowed
    BY <1>6, <2>3, <2>7 DEF AcceptsFrom
  <2> QED
    BY <2>6, <2>8
<1>13. Evaluate(d, entries'[KeyOf(d, r)], clock + headers'[r].retry * Second, 1).allowed
  BY <1>2, <1>8, <1>11, Zenon
<1>14. \/ headers'[r].retry = 1
       \/ ~Evaluate(d, entries'[KeyOf(d, r)],
                    (clock + headers'[r].retry * Second) - Second, 1).allowed
  BY <1>2, <1>8, <1>12, Zenon
<1> QED
  BY <1>13, <1>14

\* The requests that rule i accepts on top of the load l.
RoomLeft(i, l) ==
    CASE Algorithm[i] = "fixed_window" -> Limit[i] - l
      [] Algorithm[i] = "sliding_window" -> Limit[i] - Len(l)
      [] OTHER -> (Full(i) - l) \div Window[i]

\* What inspect() reads off an entry.
LEMMA InspectionOf ==
    ASSUME NEW i \in Rule, NEW now \in Nat, NEW e, Fits(i, e, now)
    PROVE  /\ RoomLeft(i, LoadOf(i, e, now)) \in Nat
           /\ Evaluate(i, e, now, 0).remaining =
                Larger(0, RoomLeft(i, LoadOf(i, e, now)) - Probe(i))
<1>0. /\ Window[i] \in Nat /\ Window[i] >= 1 /\ Limit[i] \in Nat /\ Limit[i] >= 1
      /\ Full(i) \in Nat /\ 0 * Window[i] = 0
  BY Params
<1>1. CASE Algorithm[i] = "fixed_window"
  <2>1. PICK n \in Nat : n = Counted(i, e, now)
    BY CountedOf
  <2>2. RoomLeft(i, LoadOf(i, e, now)) = Limit[i] - Smaller(Limit[i], n)
    BY <1>1, <2>1 DEF RoomLeft, LoadOf
  <2>3. FixedWindow(i, e, now, 0).remaining = Larger(0, Limit[i] - (n + 0))
    BY <2>1 DEF FixedWindow
  <2>4. Evaluate(i, e, now, 0) = FixedWindow(i, e, now, 0) /\ Probe(i) = 0
    BY <1>1 DEF Evaluate, Probe
  <2> QED
    BY <1>0, <2>2, <2>3, <2>4 DEF Smaller, Larger
<1>2. CASE Algorithm[i] = "sliding_window"
  <2>1. PICK k : k = Kept(i, e, now)
    BY Zenon
  <2>2. k \in Seq(Nat) /\ Len(k) <= Limit[i] /\ Len(k) \in Nat
    <3>1. k \in Seq(Nat) /\ Len(k) <= Limit[i]
      BY <1>2, <2>1, KeptOf
    <3> QED
      BY <3>1
  <2>3. RoomLeft(i, LoadOf(i, e, now)) = Limit[i] - Len(k)
    BY <1>2, <2>1 DEF RoomLeft, LoadOf
  <2>4. Evaluate(i, e, now, 0) = SlidingWindow(i, e, now, 0) /\ Probe(i) = 1
    BY <1>2 DEF Evaluate, Probe
  <2> DEFINE stamps == IF Len(k) + 1 <= Limit[i] THEN k \o [j \in 1 .. 1 |-> now] ELSE k
  <2>5. SlidingWindow(i, e, now, 0).remaining = Larger(0, Limit[i] - Len(stamps))
    <3>1. Larger(1, 0) = 1
      BY DEF Larger
    <3> QED
      BY <2>1, <3>1 DEF SlidingWindow
  <2>6. Len(stamps) = IF Len(k) + 1 <= Limit[i] THEN Len(k) + 1 ELSE Len(k)
    <3>1. [j \in 1 .. 1 |-> now] = <<now>>
      OBVIOUS
    <3>2. Len(k \o <<now>>) = Len(k) + 1
      BY <2>2
    <3> QED
      BY <3>1, <3>2
  <2> HIDE DEF stamps
  <2> QED
    BY <1>0, <2>2, <2>3, <2>4, <2>5, <2>6 DEF Larger
<1>3. CASE Algorithm[i] = "token_bucket"
  <2>1. PICK n \in 0 .. Full(i) : n = Tokens(i, e, now)
    BY TokensOf
  <2>2. RoomLeft(i, LoadOf(i, e, now)) = (Full(i) - (Full(i) - n)) \div Window[i]
    BY <1>3, <2>1 DEF RoomLeft, LoadOf
  <2>3. Full(i) - (Full(i) - n) = n /\ n \in Nat
    BY <1>0
  <2>4. TokenBucket(i, e, now, 0).remaining = n \div Window[i]
    <3>1. TokenBucket(i, e, now, 0).remaining =
            (IF n >= 0 THEN n - 0 ELSE n) \div Window[i]
      BY <1>0, <2>1 DEF TokenBucket
    <3>2. (IF n >= 0 THEN n - 0 ELSE n) = n
      BY <2>3
    <3> QED
      BY <3>1, <3>2
  <2>5. Evaluate(i, e, now, 0) = TokenBucket(i, e, now, 0) /\ Probe(i) = 0
    BY <1>3 DEF Evaluate, Probe
  <2>6. PICK q \in Nat : q = n \div Window[i]
    BY <1>0, <2>3
  <2>7. RoomLeft(i, LoadOf(i, e, now)) = q /\ Evaluate(i, e, now, 0).remaining = q
    BY <2>2, <2>3, <2>4, <2>5, <2>6
  <2> QED
    BY <2>5, <2>6, <2>7 DEF Larger
<1>4. CASE Algorithm[i] = "leaky_bucket"
  <2>1. PICK n \in 0 .. Full(i) : n = Level(i, e, now)
    BY <1>4, LevelOf
  <2>2. RoomLeft(i, LoadOf(i, e, now)) = (Full(i) - n) \div Window[i]
    BY <1>4, <2>1 DEF RoomLeft, LoadOf
  <2>3. Full(i) - n \in Nat /\ n + 0 = n /\ n <= Full(i)
    BY <1>0
  <2>4. LeakyBucket(i, e, now, 0).remaining = (Full(i) - n) \div Window[i]
    <3>1. LeakyBucket(i, e, now, 0).remaining =
            Larger(0, Full(i) - (IF n + 0 <= Full(i) THEN n + 0 ELSE n)) \div Window[i]
      BY <1>0, <2>1 DEF LeakyBucket
    <3>2. Larger(0, Full(i) - (IF n + 0 <= Full(i) THEN n + 0 ELSE n)) = Full(i) - n
      BY <1>0, <2>3 DEF Larger
    <3> QED
      BY <3>1, <3>2
  <2>5. Evaluate(i, e, now, 0) = LeakyBucket(i, e, now, 0) /\ Probe(i) = 0
    BY <1>4 DEF Evaluate, Probe
  <2>6. PICK q \in Nat : q = (Full(i) - n) \div Window[i]
    BY <1>0, <2>3
  <2>7. RoomLeft(i, LoadOf(i, e, now)) = q /\ Evaluate(i, e, now, 0).remaining = q
    BY <2>2, <2>4, <2>5, <2>6
  <2> QED
    BY <2>5, <2>6, <2>7 DEF Larger
<1> QED
  BY <1>1, <1>2, <1>3, <1>4, Params DEF RateLimitAlgorithm

\* An accepted request is told what the tightest rule has left.
LEMMA RemainderIsExact ==
    ASSUME IInv, NEW r \in Request, Respond(r), Rule # {}
    PROVE  /\ \A i \in Rule : headers'[r].remaining <= Room(i, ClientOf[r])
           /\ \E i \in Rule :
                 headers'[r].remaining = Larger(0, Room(i, ClientOf[r]) - Probe(i))
<1>0. TypeOK /\ EntriesFit /\ NRules \in Nat /\ NRules # 0 /\ NRules > 0
  BY RateLimitAssumption DEF IInv, Rule
<1>1. ASSUME NEW i \in Rule
      PROVE  /\ Room(i, ClientOf[r]) \in Nat /\ Probe(i) \in {0, 1}
             /\ Inspected(i, r).remaining = Larger(0, Room(i, ClientOf[r]) - Probe(i))
  <2>1. PICK e : e = entries[KeyOf(i, r)]
    BY Zenon
  <2>2. Fits(i, e, clock) /\ clock \in Nat /\ Load(i, ClientOf[r]) = LoadOf(i, e, clock)
    BY <1>0, <2>1, DecisionOf
  <2>3. Room(i, ClientOf[r]) = RoomLeft(i, LoadOf(i, e, clock))
    BY <2>2 DEF Room, RoomLeft
  <2>4. Inspected(i, r) = Evaluate(i, e, clock, 0)
    BY <2>1 DEF Inspected
  <2>5. Probe(i) \in {0, 1}
    BY DEF Probe
  <2> QED
    BY <2>2, <2>3, <2>4, <2>5, InspectionOf
<1>2. PICK t \in Rule : t = Tightest(r) /\
         \A j \in Rule : Inspected(t, r).remaining <= Inspected(j, r).remaining
  BY <1>0, TightestOf
<1>3. headers'[r].remaining = Inspected(t, r).remaining
  BY <1>0, <1>2 DEF Respond, TypeOK, RateLimitHeaders
<1>4. ASSUME NEW i \in Rule PROVE Inspected(t, r).remaining <= Room(i, ClientOf[r])
  <2>1. /\ Inspected(i, r).remaining \in Nat /\ Inspected(t, r).remaining \in Nat
        /\ Inspected(i, r).remaining <= Room(i, ClientOf[r]) /\ Room(i, ClientOf[r]) \in Nat
    BY <1>1 DEF Larger
  <2>2. Inspected(t, r).remaining <= Inspected(i, r).remaining
    BY <1>2
  <2> QED
    BY <2>1, <2>2
<1> QED
  BY <1>1, <1>2, <1>3, <1>4

\* What the client is told is true, for any rules, clients, overlaps and
\* sweeps: Retry-After of a refusal names the first whole second at which the
\* rule that refused would accept, and X-RateLimit-Remaining of an accepted
\* request promises no more than any rule has left, and all the tightest has.
THEOREM AnswersHold == Spec => AnswersAreExact
<1>1. IInv /\ [Next]_vars =>
        [\A r \in Request, d \in Rule :
           Reject(r, d) =>
             LET e     == entries'[KeyOf(d, r)]
                 until == clock + headers'[r].retry * Second
             IN  /\ Evaluate(d, e, until, 1).allowed
                 /\ \/ headers'[r].retry = 1
                    \/ ~Evaluate(d, e, until - Second, 1).allowed]_vars
  BY RefusalIsExact
<1>2. IInv /\ [Next]_vars =>
        [\A r \in Request : Respond(r) /\ Rule # {} =>
           /\ \A i \in Rule : headers'[r].remaining <= Room(i, ClientOf[r])
           /\ \E i \in Rule :
                 headers'[r].remaining = Larger(0, Room(i, ClientOf[r]) - Probe(i))]_vars
  BY RemainderIsExact
<1> QED
  BY <1>1, <1>2, InvariantHolds, PTL
     DEF Spec, AnswersAreExact, RetryAfterIsExact, RemainingIsExact
=============================================================================
