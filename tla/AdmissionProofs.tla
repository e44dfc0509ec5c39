--------------------------- MODULE AdmissionProofs ---------------------------
(***************************************************************************)
(* Proofs about Quota, for any number of slots, tenants and rules, any     *)
(* limits and any periods; and about Gateway, for any requests, workers    *)
(* and traffic, any stages installed and any subscribers that raise.       *)
(***************************************************************************)
EXTENDS Admission, FiniteSetTheorems, SequenceTheorems, TLAPS

-----------------------------------------------------------------------------
(* Quota.                                                                  *)

\* What a sweep may do to an entry.
Swept(e, f) == f = e \/ (~Live(e, clock) /\ f = NoEntry)

-----------------------------------------------------------------------------
(* Arithmetic of windows.                                                  *)

\* The instant at which window w of rule i closes.
WindowEnd(i, w) == (w + 1) * Window[i]

\* An instant lies before the end of its own window, and that end is at most
\* one period away (build_quota_key, now // duration).
LEMMA WindowContainsNow ==
    ASSUME NEW c \in Nat, NEW d \in Nat \ {0}
    PROVE  /\ c \div d \in 0 .. c
           /\ c < ((c \div d) + 1) * d
           /\ ((c \div d) + 1) * d <= c + d
<1> DEFINE q == c \div d
<1>1. q \in Int /\ c = d * q + (c % d) /\ c % d \in 0 .. d - 1
  OBVIOUS
<1>2. q >= 0
  BY <1>1
<1>3. q <= c
  BY <1>1, <1>2
<1>4. (q + 1) * d = d * q + d
  BY <1>1
<1> QED
  BY <1>1, <1>2, <1>3, <1>4

-----------------------------------------------------------------------------
(* Store operators.                                                        *)

LEMMA NoEntryType == NoEntry \in Entry
BY DEF NoEntry, Entry

LEMMA ReadType ==
    ASSUME NEW e \in Entry, NEW now \in Nat
    PROVE  Read(e, now) \in Nat /\ Read(e, now) <= e.total
BY DEF Entry, Read, Live

LEMMA ConsumedType ==
    ASSUME NEW e \in Entry, NEW amount \in Nat, NEW ttl \in Nat, NEW now \in Nat
    PROVE  Consumed(e, amount, ttl, now) \in Entry
BY ReadType DEF Entry, Consumed, Live

\* A release never raises a counter and never moves its expiry.
LEMMA ReleasedType ==
    ASSUME NEW e \in Entry, NEW amount \in Nat
    PROVE  /\ Released(e, amount) \in Entry
           /\ Released(e, amount).total <= e.total
           /\ Released(e, amount).expires = e.expires
           /\ e.total >= amount => Released(e, amount).total = e.total - amount
           /\ e.total < amount => Released(e, amount).total = 0
BY DEF Entry, Released

LEMMA WindowIndexType ==
    ASSUME NEW i \in Rule, NEW now \in 0 .. MaxTime
    PROVE  WindowIndex(i, now) \in 0 .. MaxTime
<1>1. now \in Nat /\ now <= MaxTime /\ Window[i] \in Nat \ {0} /\ MaxTime \in Nat
  BY QuotaAssumption
<1>2. now \div Window[i] \in 0 .. now
  BY <1>1, WindowContainsNow
<1> QED
  BY <1>1, <1>2 DEF WindowIndex

LEMMA AmountType ==
    ASSUME NEW i \in Rule, NEW r \in Request
    PROVE  Amount(i, r) \in Nat
BY QuotaAssumption DEF Amount

LEMMA RulesOfKeys ==
    ASSUME NEW k \in Key
    PROVE  /\ k = <<k[1], k[2], k[3]>>
           /\ k[1] \in Rule /\ k[2] \in Tenant /\ k[3] \in 0 .. MaxTime
BY DEF Key

\* The store after a consume(): each entry is the written one, or was swept.
LEMMA PersistEntries ==
    ASSUME NEW w \in [Key -> Entry], NEW n \in 0 .. NRules, TypeOK,
           Persist(w, n)
    PROVE  /\ entries' \in [Key -> Entry]
           /\ writes' \in 0 .. PurgeInterval - 1
           /\ \A k \in Key : Swept(w[k], entries'[k])
<1> DEFINE touched == {i \in 1 .. n : Stored(i)}
<1>0. n \in Nat
  BY QuotaAssumption
<1>1. IsFiniteSet(1 .. n) /\ Cardinality(1 .. n) <= n
  <2>1. 1 \in Int /\ n \in Int
    BY <1>0
  <2>2. /\ IsFiniteSet(1 .. n)
        /\ Cardinality(1 .. n) = IF 1 > n THEN 0 ELSE n - 1 + 1
    BY <2>1, FS_Interval
  <2> QED
    BY <1>0, <2>2
<1>2. /\ Cardinality(touched) \in Nat
      /\ Cardinality(touched) <= n
  <2>1. touched \in SUBSET (1 .. n)
    OBVIOUS
  <2>2. IsFiniteSet(touched) /\ Cardinality(touched) <= Cardinality(1 .. n)
    BY <1>1, <2>1, FS_Subset
  <2>3. Cardinality(touched) \in Nat /\ Cardinality(1 .. n) \in Nat
    BY <1>1, <2>2, FS_CardinalityType
  <2> QED
    BY <1>1, <2>2, <2>3
<1>3. n <= PurgeInterval /\ PurgeInterval \in Nat /\ writes \in 0 .. PurgeInterval - 1
  BY QuotaAssumption DEF TypeOK
<1>4. writes' \in 0 .. PurgeInterval - 1
  BY <1>2, <1>3 DEF Persist
<1>5. CASE entries' = w
  BY <1>4, <1>5 DEF Swept
<1>6. CASE entries' = Purged(w, clock)
  <2>1. \A k \in Key : entries'[k] = IF Live(w[k], clock) THEN w[k] ELSE NoEntry
    BY <1>6 DEF Purged
  <2>2. entries' \in [Key -> Entry]
    BY <1>6, NoEntryType DEF Purged
  <2> QED
    BY <1>4, <2>1, <2>2 DEF Swept
<1> QED
  BY <1>5, <1>6 DEF Persist

-----------------------------------------------------------------------------
(* What each action does to one entry.                                     *)

\* The entries a consume() writes, before any sweep.
LEMMA WrittenType ==
    ASSUME NEW r \in Request, NEW n \in 0 .. NRules,
           NEW after \in [Rule -> Entry], TypeOK
    PROVE  Written(r, n, after) \in [Key -> Entry]
BY RulesOfKeys DEF Written, TypeOK

LEMMA ChargedType ==
    ASSUME NEW r \in Request, NEW i \in Rule, TypeOK
    PROVE  /\ KeyOf(i, r) \in Key
           /\ Charged(i, r) \in Entry
           /\ Undone(i, r) \in Entry
<1>1. KeyOf(i, r) \in Key
  <2>1. WindowIndex(i, clock) \in 0 .. MaxTime
    BY WindowIndexType DEF TypeOK
  <2> QED
    BY <2>1, QuotaAssumption DEF KeyOf, BuildQuotaKey, Key
<1>2. Charged(i, r) \in Entry
  BY <1>1, ConsumedType, AmountType, QuotaAssumption DEF Charged, TypeOK
<1> QED
  BY <1>1, <1>2, ReleasedType, AmountType DEF Undone

\* Undoing a consumption restores what the counter showed and keeps its expiry.
LEMMA UndoneRestores ==
    ASSUME NEW r \in Request, NEW i \in Rule, TypeOK
    PROVE  /\ Undone(i, r).total = Read(entries[KeyOf(i, r)], clock)
           /\ Undone(i, r).expires = Charged(i, r).expires
<1> DEFINE before == Read(entries[KeyOf(i, r)], clock)
           c == Charged(i, r)
<1>1. /\ c \in Entry /\ Amount(i, r) \in Nat
      /\ entries[KeyOf(i, r)] \in Entry /\ clock \in Nat
  BY ChargedType, AmountType, QuotaAssumption DEF TypeOK
<1>2. before \in Nat /\ c.total = before + Amount(i, r)
  BY <1>1, ReadType DEF Charged, Consumed
<1> HIDE DEF c, before
<1>3. c.total >= Amount(i, r) /\ c.total - Amount(i, r) = before
  BY <1>1, <1>2
<1>4. /\ Released(c, Amount(i, r)).total = before
      /\ Released(c, Amount(i, r)).expires = c.expires
  <2>1. ASSUME NEW a \in Nat, c.total >= a, c.total - a = before
        PROVE  Released(c, a).total = before /\ Released(c, a).expires = c.expires
    BY <1>1, <2>1, ReleasedType
  <2> QED
    BY <1>1, <1>3, <2>1
<1> QED
  BY <1>4 DEF Undone, c, before

\* After an admission, each entry is the charged one or the old one, or swept.
LEMMA AcceptEntries ==
    ASSUME NEW r \in Request, TypeOK, Accept(r)
    PROVE  /\ entries' \in [Key -> Entry]
           /\ writes' \in 0 .. PurgeInterval - 1
           /\ \A k \in Key :
                Swept(IF Stored(k[1]) /\ k = KeyOf(k[1], r)
                      THEN Charged(k[1], r) ELSE entries[k], entries'[k])
<1> DEFINE after == [i \in Rule |-> Charged(i, r)]
<1>1. after \in [Rule -> Entry]
  BY ChargedType
<1>2. NRules \in 0 .. NRules
  BY QuotaAssumption
<1>3. Written(r, NRules, after) \in [Key -> Entry]
  BY <1>1, <1>2, WrittenType
<1>4. Persist(Written(r, NRules, after), NRules)
  BY DEF Accept
<1>5. \A k \in Key : Written(r, NRules, after)[k] =
         IF Stored(k[1]) /\ k = KeyOf(k[1], r) THEN Charged(k[1], r) ELSE entries[k]
  BY RulesOfKeys DEF Written, Rule
<1> HIDE DEF after
<1> QED
  BY <1>2, <1>3, <1>4, <1>5, PersistEntries

\* After a denial by rule d, the same, with d undone and the later rules untouched.
LEMMA RejectEntries ==
    ASSUME NEW r \in Request, NEW d \in Rule, TypeOK, Reject(r, d)
    PROVE  /\ entries' \in [Key -> Entry]
           /\ writes' \in 0 .. PurgeInterval - 1
           /\ \A k \in Key :
                Swept(IF k[1] \in 1 .. d /\ Stored(k[1]) /\ k = KeyOf(k[1], r)
                      THEN (IF k[1] = d THEN Undone(d, r) ELSE Charged(k[1], r))
                      ELSE entries[k], entries'[k])
<1> DEFINE after == [i \in Rule |-> IF i = d THEN Undone(i, r) ELSE Charged(i, r)]
<1>1. after \in [Rule -> Entry]
  BY ChargedType
<1>2. d \in 0 .. NRules
  BY QuotaAssumption DEF Rule
<1>3. Written(r, d, after) \in [Key -> Entry]
  BY <1>1, <1>2, WrittenType
<1>4. Persist(Written(r, d, after), d)
  BY DEF Reject
<1>5. \A k \in Key : Written(r, d, after)[k] =
         IF k[1] \in 1 .. d /\ Stored(k[1]) /\ k = KeyOf(k[1], r)
         THEN (IF k[1] = d THEN Undone(d, r) ELSE Charged(k[1], r))
         ELSE entries[k]
  BY RulesOfKeys DEF Written
<1> HIDE DEF after
<1> QED
  BY <1>2, <1>3, <1>4, <1>5, PersistEntries

-----------------------------------------------------------------------------
(* Type correctness.                                                       *)

LEMMA InitTypeOK == Init => TypeOK
BY NoEntryType, QuotaAssumption DEF Init, TypeOK

LEMMA AcceptTypeOK ==
    ASSUME NEW r \in Request, TypeOK, Accept(r)
    PROVE  TypeOK'
<1>1. /\ entries' \in [Key -> Entry]
      /\ writes' \in 0 .. PurgeInterval - 1
  BY AcceptEntries
<1>2. admitted' \in [Key -> Nat]
  BY AmountType, RulesOfKeys DEF Accept, TypeOK
<1> QED
  BY <1>1, <1>2 DEF Accept, TypeOK

LEMMA RejectTypeOK ==
    ASSUME NEW r \in Request, NEW d \in Rule, TypeOK, Reject(r, d)
    PROVE  TypeOK'
<1>1. /\ entries' \in [Key -> Entry]
      /\ writes' \in 0 .. PurgeInterval - 1
  BY RejectEntries
<1> QED
  BY <1>1 DEF Reject, TypeOK

LEMMA FinishTypeOK ==
    ASSUME NEW r \in Request, TypeOK, Finish(r)
    PROVE  TypeOK'
<1>1. entries' \in [Key -> Entry]
  BY ReleasedType DEF Finish, TypeOK
<1> QED
  BY <1>1 DEF Finish, TypeOK

LEMMA NextTypeOK == TypeOK /\ [Next]_vars => TypeOK'
<1> SUFFICES ASSUME TypeOK, [Next]_vars PROVE TypeOK'
  OBVIOUS
<1>1. CASE \E r \in Request : Accept(r)
  BY <1>1, AcceptTypeOK
<1>2. CASE \E r \in Request, d \in Rule : Reject(r, d)
  BY <1>2, RejectTypeOK
<1>3. CASE \E r \in Request : Finish(r)
  BY <1>3, FinishTypeOK
<1>4. CASE \E t \in Tenant : Usage(t)
  BY <1>4, NoEntryType DEF Usage, TypeOK
<1>5. CASE \E t \in Tenant : Reset(t)
  BY <1>5, NoEntryType DEF Reset, TypeOK
<1>6. CASE Tick
  BY <1>6, QuotaAssumption DEF Tick, TypeOK
<1>7. CASE UNCHANGED vars
  BY <1>7 DEF vars, TypeOK
<1> QED
  BY <1>1, <1>2, <1>3, <1>4, <1>5, <1>6, <1>7 DEF Next

\* The variables of Quota keep their types: in particular the write counter
\* that triggers the sweep of the store never reaches the interval.
THEOREM TypeCorrect == Spec => []TypeOK
<1>1. Init => TypeOK
  BY InitTypeOK
<1>2. TypeOK /\ [Next]_vars => TypeOK'
  BY NextTypeOK
<1> QED
  BY <1>1, <1>2, PTL DEF Spec

-----------------------------------------------------------------------------
(* The accumulating quotas.                                                *)

\* Entry e and history a of key k: the counter respects its limit; it is stored
\* at least until its window closes; while the window is open it covers what
\* the admitted requests consumed.
Covered(k, e, a) ==
    /\ e.total <= Limit[k[1]]
    /\ Accumulates(k[1]) =>
         /\ e = NoEntry \/ e.expires >= WindowEnd(k[1], k[3])
         /\ clock < WindowEnd(k[1], k[3]) => a <= e.total
         /\ a <= Limit[k[1]]

WindowCovered == \A k \in Key : Covered(k, entries[k], admitted[k])

LEMMA KeyFacts ==
    ASSUME NEW k \in Key, TypeOK
    PROVE  /\ k[1] \in Rule /\ k[3] \in Nat /\ clock \in Nat
           /\ Limit[k[1]] \in Nat /\ Window[k[1]] \in Nat \ {0}
           /\ WindowEnd(k[1], k[3]) \in Nat
           /\ entries[k] \in Entry /\ admitted[k] \in Nat
<1>1. /\ k[1] \in Rule /\ k[3] \in Nat /\ clock \in Nat
      /\ Limit[k[1]] \in Nat /\ Window[k[1]] \in Nat \ {0}
      /\ entries[k] \in Entry /\ admitted[k] \in Nat
  BY RulesOfKeys, QuotaAssumption DEF TypeOK
<1> QED
  BY <1>1 DEF WindowEnd

\* A sweep only drops counters whose window has closed.
LEMMA SweptCovered ==
    ASSUME NEW k \in Key, NEW e \in Entry, NEW f, NEW a \in Nat, TypeOK,
           Covered(k, e, a), Swept(e, f)
    PROVE  Covered(k, f, a)
<1>1. NoEntry.total = 0
  BY DEF NoEntry
<1>2. CASE ~Live(e, clock) /\ f = NoEntry
  <2>1. ASSUME Accumulates(k[1]), clock < WindowEnd(k[1], k[3])
        PROVE  a <= 0
    BY <1>1, <1>2, <2>1, KeyFacts DEF Covered, Live, Entry
  <2> QED
    BY <1>1, <1>2, <2>1, KeyFacts DEF Covered
<1> QED
  BY <1>2 DEF Swept

\* While its window is open, an accumulating counter reads as it is stored.
LEMMA OpenWindowIsRead ==
    ASSUME NEW r \in Request, NEW i \in Rule, TypeOK, WindowCovered, Accumulates(i)
    PROVE  LET k == KeyOf(i, r)
           IN  /\ clock < WindowEnd(i, k[3])
               /\ WindowEnd(i, k[3]) <= clock + Window[i]
               /\ Read(entries[k], clock) = entries[k].total
<1> DEFINE k == KeyOf(i, r)
<1>1. k \in Key /\ k[1] = i /\ k[3] = clock \div Window[i]
  BY ChargedType DEF KeyOf, BuildQuotaKey, WindowIndex
<1>2. clock \in Nat /\ Window[i] \in Nat \ {0}
  BY QuotaAssumption DEF TypeOK
<1>3. /\ clock < WindowEnd(i, k[3])
      /\ WindowEnd(i, k[3]) <= clock + Window[i]
  BY <1>1, <1>2, WindowContainsNow DEF WindowEnd
<1>4. entries[k] = NoEntry \/ entries[k].expires >= WindowEnd(i, k[3])
  BY <1>1 DEF WindowCovered, Covered
<1>5. WindowEnd(i, k[3]) \in Int /\ entries[k] \in Entry
  BY <1>1, <1>2 DEF WindowEnd, TypeOK
<1>6. Read(entries[k], clock) = entries[k].total
  BY <1>2, <1>3, <1>4, <1>5 DEF Read, Live, NoEntry, Entry
<1> QED
  BY <1>3, <1>6

\* An admission adds the same amount to the counter and to the history.
LEMMA AcceptCovered ==
    ASSUME NEW r \in Request, TypeOK, WindowCovered, Accept(r)
    PROVE  WindowCovered'
<1> SUFFICES ASSUME NEW k \in Key
             PROVE  Covered(k, entries'[k], admitted'[k])
  BY DEF WindowCovered, Covered, Accept
<1> DEFINE i == k[1]
           hit == Stored(i) /\ k = KeyOf(i, r)
           e == IF hit THEN Charged(i, r) ELSE entries[k]
<1>1. /\ i \in Rule /\ k[3] \in Nat /\ clock \in Nat
      /\ Limit[i] \in Nat /\ Window[i] \in Nat \ {0}
      /\ entries[k] \in Entry /\ admitted[k] \in Nat
      /\ Amount(i, r) \in Nat
  BY KeyFacts, AmountType
<1>2. Swept(e, entries'[k]) /\ e \in Entry
  BY <1>1, AcceptEntries, ChargedType
<1>3. /\ admitted'[k] = IF hit THEN admitted[k] + Amount(i, r) ELSE admitted[k]
      /\ admitted'[k] \in Nat
  BY <1>1 DEF Accept, TypeOK
<1>4. Covered(k, e, admitted'[k])
  <2>1. CASE hit
    <3>1. Admits(i, r)
      BY <1>1 DEF Accept
    <3>2. /\ e.total = Read(entries[k], clock) + Amount(i, r)
          /\ e.expires = IF Live(entries[k], clock)
                         THEN entries[k].expires ELSE clock + Window[i]
          /\ Read(entries[k], clock) \in Nat
      BY <2>1, <1>1, ReadType DEF Charged, Consumed
    <3>3. e.total <= Limit[i]
      BY <2>1, <3>1, <3>2 DEF Admits
    <3>4. ASSUME Accumulates(i)
          PROVE  /\ e.expires >= WindowEnd(i, k[3])
                 /\ admitted'[k] <= e.total
      <4>1. /\ clock < WindowEnd(i, k[3])
            /\ WindowEnd(i, k[3]) <= clock + Window[i]
            /\ Read(entries[k], clock) = entries[k].total
        BY <1>1, <2>1, <3>4, OpenWindowIsRead
      <4>2. admitted[k] <= entries[k].total
        BY <3>4, <4>1 DEF WindowCovered, Covered
      <4>3. e.expires >= WindowEnd(i, k[3])
        <5>1. CASE Live(entries[k], clock)
          <6>1. entries[k] # NoEntry
            BY <5>1, <1>1 DEF Live, NoEntry
          <6> QED
            BY <3>2, <3>4, <5>1, <6>1 DEF WindowCovered, Covered
        <5>2. CASE ~Live(entries[k], clock)
          BY <3>2, <4>1, <5>2
        <5> QED
          BY <5>1, <5>2
      <4> QED
        BY <1>1, <1>3, <2>1, <3>2, <4>1, <4>2, <4>3
    <3>5. ASSUME Accumulates(i) PROVE admitted'[k] <= Limit[i]
      BY <1>1, <1>2, <1>3, <3>3, <3>4, <3>5 DEF Entry
    <3> QED
      BY <3>3, <3>4, <3>5 DEF Covered
  <2>2. CASE ~hit
    BY <1>3, <2>2 DEF WindowCovered
  <2> QED
    BY <2>1, <2>2
<1> HIDE DEF e, hit
<1> QED
  BY <1>2, <1>3, <1>4, SweptCovered

\* A denial charges the rules before it, which stay within their limits, and
\* undoes its own consumption; nothing is admitted.
LEMMA RejectCovered ==
    ASSUME NEW r \in Request, NEW d \in Rule, TypeOK, WindowCovered, Reject(r, d)
    PROVE  WindowCovered'
<1> SUFFICES ASSUME NEW k \in Key
             PROVE  Covered(k, entries'[k], admitted[k])
  BY DEF WindowCovered, Covered, Reject
<1> DEFINE i == k[1]
           hit == i \in 1 .. d /\ Stored(i) /\ k = KeyOf(i, r)
           e == IF hit THEN (IF i = d THEN Undone(d, r) ELSE Charged(i, r))
                       ELSE entries[k]
<1>1. /\ i \in Rule /\ k[3] \in Nat /\ clock \in Nat
      /\ Limit[i] \in Nat /\ Window[i] \in Nat \ {0}
      /\ entries[k] \in Entry /\ admitted[k] \in Nat
      /\ Amount(i, r) \in Nat
  BY KeyFacts, AmountType
<1>2. Swept(e, entries'[k]) /\ e \in Entry
  BY <1>1, RejectEntries, ChargedType
<1>3. Covered(k, e, admitted[k])
  <2>1. CASE hit
    <3>1. /\ Charged(i, r).total = Read(entries[k], clock) + Amount(i, r)
          /\ Charged(i, r).expires = IF Live(entries[k], clock)
                         THEN entries[k].expires ELSE clock + Window[i]
          /\ Read(entries[k], clock) \in Nat
          /\ Read(entries[k], clock) <= entries[k].total
          /\ Charged(i, r) \in Entry
      BY <2>1, <1>1, ReadType, ChargedType DEF Charged, Consumed
    <3>2. e.expires = Charged(i, r).expires
      BY <1>1, <2>1, UndoneRestores
    <3>3. /\ e.total >= Read(entries[k], clock)
          /\ e.total <= Limit[i]
      <4>1. CASE i = d
        <5>1. e.total = Read(entries[k], clock)
          BY <1>1, <2>1, <4>1, UndoneRestores
        <5>2. entries[k].total <= Limit[i]
          BY DEF WindowCovered, Covered
        <5> QED
          BY <1>1, <3>1, <5>1, <5>2 DEF Entry
      <4>2. CASE i # d
        <5>1. Admits(i, r)
          BY <1>1, <2>1, <4>2 DEF Reject, Rule
        <5> QED
          BY <1>1, <2>1, <3>1, <4>2, <5>1 DEF Admits
      <4> QED
        BY <4>1, <4>2
    <3>4. ASSUME Accumulates(i)
          PROVE  /\ e.expires >= WindowEnd(i, k[3])
                 /\ admitted[k] <= e.total
      <4>1. /\ clock < WindowEnd(i, k[3])
            /\ WindowEnd(i, k[3]) <= clock + Window[i]
            /\ Read(entries[k], clock) = entries[k].total
        BY <1>1, <2>1, <3>4, OpenWindowIsRead
      <4>2. admitted[k] <= entries[k].total
        BY <3>4, <4>1 DEF WindowCovered, Covered
      <4>3. e.expires >= WindowEnd(i, k[3])
        <5>1. CASE Live(entries[k], clock)
          <6>1. entries[k] # NoEntry
            BY <5>1, <1>1 DEF Live, NoEntry
          <6> QED
            BY <3>1, <3>2, <3>4, <5>1, <6>1 DEF WindowCovered, Covered
        <5>2. CASE ~Live(entries[k], clock)
          BY <3>1, <3>2, <4>1, <5>2
        <5> QED
          BY <5>1, <5>2
      <4>4. e.total \in Nat
        BY <1>2 DEF Entry
      <4> QED
        BY <1>1, <3>1, <3>3, <4>1, <4>2, <4>3, <4>4
    <3> QED
      BY <3>3, <3>4 DEF WindowCovered, Covered
  <2>2. CASE ~hit
    BY <2>2 DEF WindowCovered
  <2> QED
    BY <2>1, <2>2
<1> HIDE DEF e, hit
<1> QED
  BY <1>1, <1>2, <1>3, SweptCovered

\* Only concurrency counters are released, and they only go down.
LEMMA FinishCovered ==
    ASSUME NEW r \in Request, TypeOK, WindowCovered, Finish(r)
    PROVE  WindowCovered'
<1> SUFFICES ASSUME NEW k \in Key
             PROVE  Covered(k, entries'[k], admitted[k])
  BY DEF WindowCovered, Covered, Finish
<1>1. CASE Concurrent(k[1]) /\ k = KeyOf(k[1], r)
  <2>1. ~Accumulates(k[1])
    BY <1>1 DEF Concurrent, Accumulates
  <2>2. entries'[k] = Released(entries[k], 1)
    BY <1>1 DEF Finish
  <2>3. /\ entries'[k].total <= entries[k].total
        /\ entries'[k].total \in Nat /\ entries[k].total \in Nat
    BY <2>2, KeyFacts, ReleasedType DEF Entry
  <2> QED
    BY <2>1, <2>3, KeyFacts DEF WindowCovered, Covered
<1>2. CASE ~(Concurrent(k[1]) /\ k = KeyOf(k[1], r))
  BY <1>2 DEF Finish, WindowCovered
<1> QED
  BY <1>1, <1>2

\* The bound that every accumulating counter keeps is inductive.
LEMMA NextCovered == TypeOK /\ WindowCovered /\ [Next]_vars => WindowCovered'
<1> SUFFICES ASSUME TypeOK, WindowCovered, [Next]_vars PROVE WindowCovered'
  OBVIOUS
<1>1. CASE \E r \in Request : Accept(r)
  BY <1>1, AcceptCovered
<1>2. CASE \E r \in Request, d \in Rule : Reject(r, d)
  BY <1>2, RejectCovered
<1>3. CASE \E r \in Request : Finish(r)
  BY <1>3, FinishCovered
<1>4. ASSUME NEW t \in Tenant, Usage(t) PROVE WindowCovered'
  <2>1. \A k \in Key : Swept(entries[k], entries'[k])
    BY <1>4 DEF Usage, Swept
  <2>2. \A k \in Key : Covered(k, entries'[k], admitted[k])
    BY <2>1, KeyFacts, SweptCovered DEF WindowCovered
  <2> QED
    BY <1>4, <2>2 DEF Usage, WindowCovered, Covered
<1>5. ASSUME NEW t \in Tenant, Reset(t) PROVE WindowCovered'
  <2> SUFFICES ASSUME NEW k \in Key
               PROVE  Covered(k, entries'[k], admitted'[k])
    BY <1>5 DEF WindowCovered, Covered, Reset
  <2>1. CASE k = BuildQuotaKey(k[1], t, clock)
    <3>1. entries'[k] = NoEntry /\ admitted'[k] = 0 /\ NoEntry.total = 0
      BY <1>5, <2>1 DEF Reset, NoEntry
    <3> QED
      BY <3>1, KeyFacts DEF Covered
  <2>2. CASE k # BuildQuotaKey(k[1], t, clock)
    BY <1>5, <2>2 DEF Reset, WindowCovered
  <2> QED
    BY <2>1, <2>2
<1>6. CASE Tick
  BY <1>6, KeyFacts DEF Tick, WindowCovered, Covered
<1>7. CASE UNCHANGED vars
  BY <1>7 DEF vars, WindowCovered, Covered
<1> QED
  BY <1>1, <1>2, <1>3, <1>4, <1>5, <1>6, <1>7 DEF Next

LEMMA InitCovered == Init => WindowCovered
<1> SUFFICES ASSUME Init, NEW k \in Key
             PROVE  Covered(k, entries[k], admitted[k])
  BY DEF WindowCovered
<1>1. entries[k] = NoEntry /\ admitted[k] = 0 /\ NoEntry.total = 0
  BY DEF Init, NoEntry
<1> QED
  BY <1>1, KeyFacts, InitTypeOK DEF Covered

LEMMA AlwaysCovered == Spec => []WindowCovered
<1>1. Init => WindowCovered
  BY InitCovered
<1>2. TypeOK /\ WindowCovered /\ [Next]_vars => WindowCovered'
  BY NextCovered
<1> QED
  BY <1>1, <1>2, TypeCorrect, PTL DEF Spec

\* For any rules, limits and periods, what is admitted of a tenant in a window
\* of an accumulating quota stays within the quota: neither the expiry of the
\* counter nor the sweep forgets consumption while the window is open.
THEOREM QuotaHolds == Spec => []AdmittedWithinQuota
<1>1. WindowCovered => AdmittedWithinQuota
  BY DEF WindowCovered, Covered, AdmittedWithinQuota
<1> QED
  BY <1>1, AlwaysCovered, PTL

\* For any rules, no counter rests above its limit: a consumption that
\* overflows a quota is undone in the step that denies the request.
THEOREM CountersHold == Spec => []StoredWithinLimit
<1>1. WindowCovered => StoredWithinLimit
  BY DEF WindowCovered, Covered, StoredWithinLimit
<1> QED
  BY <1>1, AlwaysCovered, PTL

-----------------------------------------------------------------------------
(* The concurrency quotas.                                                 *)

Running(t) == {r \in running : TenantOf[r] = t}

LEMMA InFlightType ==
    ASSUME NEW t, TypeOK
    PROVE  IsFiniteSet(Running(t)) /\ InFlight(t) = Cardinality(Running(t))
           /\ InFlight(t) \in Nat
<1>1. Running(t) \in SUBSET Request
  BY DEF Running, TypeOK
<1>2. IsFiniteSet(Running(t))
  BY <1>1, FS_Subset, QuotaAssumption
<1>3. InFlight(t) = Cardinality(Running(t))
  BY DEF InFlight, Running
<1> QED
  BY <1>2, <1>3, FS_CardinalityType

\* A request that starts is one more in flight for its tenant only.
LEMMA StartInFlight ==
    ASSUME NEW r \in Request, NEW t, TypeOK, r \notin running,
           running' = running \cup {r}
    PROVE  InFlight(t)' = IF t = TenantOf[r] THEN InFlight(t) + 1 ELSE InFlight(t)
<1>1. /\ IsFiniteSet(Running(t)) /\ InFlight(t) = Cardinality(Running(t))
      /\ r \notin Running(t)
  BY InFlightType DEF Running
<1>2. InFlight(t)' = Cardinality(Running(t)')
  BY DEF InFlight, Running
<1>3. CASE t = TenantOf[r]
  <2>1. Running(t)' = Running(t) \cup {r}
    BY <1>3 DEF Running, TypeOK
  <2> QED
    BY <1>1, <1>2, <1>3, <2>1, FS_AddElement
<1>4. CASE t # TenantOf[r]
  <2>1. Running(t)' = Running(t)
    BY <1>4 DEF Running, TypeOK
  <2> QED
    BY <1>1, <1>2, <1>4, <2>1
<1> QED
  BY <1>3, <1>4

\* A request that finishes is one less in flight for its tenant only.
LEMMA FinishInFlight ==
    ASSUME NEW r \in Request, NEW t, TypeOK, Finish(r)
    PROVE  /\ InFlight(t)' = IF t = TenantOf[r] THEN InFlight(t) - 1 ELSE InFlight(t)
           /\ t = TenantOf[r] => InFlight(t) >= 1
<1>1. IsFiniteSet(Running(t)) /\ InFlight(t) = Cardinality(Running(t))
  BY InFlightType
<1>2. InFlight(t)' = Cardinality(Running(t)')
  BY DEF InFlight, Running
<1>3. CASE t = TenantOf[r]
  <2>1. Running(t)' = Running(t) \ {r} /\ r \in Running(t)
    BY <1>3 DEF Running, TypeOK, Finish
  <2>2. InFlight(t)' = InFlight(t) - 1
    BY <1>1, <1>2, <2>1, FS_RemoveElement
  <2>3. InFlight(t) \in Nat /\ InFlight(t) # 0
    BY <1>1, <2>1, InFlightType, FS_EmptySet
  <2> QED
    BY <1>3, <2>2, <2>3
<1>4. CASE t # TenantOf[r]
  <2>1. Running(t)' = Running(t)
    BY <1>4 DEF Running, TypeOK, Finish
  <2> QED
    BY <1>1, <1>2, <1>4, <2>1
<1> QED
  BY <1>3, <1>4

\* A denied request was not running and is not running.
LEMMA RejectInFlight ==
    ASSUME NEW r \in Request, NEW d \in Rule, NEW t, TypeOK, Reject(r, d)
    PROVE  InFlight(t)' = InFlight(t)
<1>1. Running(t)' = Running(t)
  BY DEF Running, TypeOK, Reject
<1> QED
  BY <1>1, InFlightType DEF InFlight, Running

LEMMA ConcurrentKey ==
    ASSUME NEW i \in Rule, NEW t \in Tenant, NEW r \in Request, TypeOK, Concurrent(i)
    PROVE  /\ <<i, t, 0>> \in Key /\ entries[<<i, t, 0>>] \in Entry
           /\ Stored(i) /\ Amount(i, r) = 1
           /\ BuildQuotaKey(i, t, clock) = <<i, t, 0>>
           /\ <<i, t, 0>> = KeyOf(i, r) <=> t = TenantOf[r]
<1>1. <<i, t, 0>> \in Key
  BY QuotaAssumption DEF Key
<1>2. BuildQuotaKey(i, t, clock) = <<i, t, 0>> /\ KeyOf(i, r) = <<i, TenantOf[r], 0>>
  BY DEF BuildQuotaKey, KeyOf, WindowIndex, Concurrent, Accumulates
<1>3. <<i, t, 0>> = <<i, TenantOf[r], 0>> <=> t = TenantOf[r]
  OBVIOUS
<1> QED
  BY <1>1, <1>2, <1>3 DEF Concurrent, Stored, Amount, TypeOK

\* Until its first period has passed, a concurrency counter is not dropped and
\* covers the requests in flight.
Counted ==
    \A i \in Rule, t \in Tenant \ Resets :
        Concurrent(i) /\ clock < Window[i] =>
            /\ entries[<<i, t, 0>>] = NoEntry \/ entries[<<i, t, 0>>].expires >= Window[i]
            /\ InFlight(t) <= entries[<<i, t, 0>>].total

LEMMA CountedIsRead ==
    ASSUME NEW i \in Rule, NEW t \in Tenant \ Resets, TypeOK, Counted, Concurrent(i),
           clock < Window[i], entries[<<i, t, 0>>] \in Entry
    PROVE  /\ Read(entries[<<i, t, 0>>], clock) = entries[<<i, t, 0>>].total
           /\ entries[<<i, t, 0>>] = NoEntry \/ Live(entries[<<i, t, 0>>], clock)
<1>1. clock \in Nat /\ Window[i] \in Nat
  BY QuotaAssumption DEF TypeOK
<1>2. entries[<<i, t, 0>>] = NoEntry \/ entries[<<i, t, 0>>].expires >= Window[i]
  BY DEF Counted
<1> QED
  BY <1>1, <1>2 DEF Read, Live, NoEntry, Entry

LEMMA AcceptCounted ==
    ASSUME NEW r \in Request, TypeOK, Counted, Accept(r)
    PROVE  Counted'
<1> SUFFICES ASSUME NEW i \in Rule, NEW t \in Tenant \ Resets, Concurrent(i), clock < Window[i]
             PROVE  /\ \/ entries'[<<i, t, 0>>] = NoEntry
                       \/ entries'[<<i, t, 0>>].expires >= Window[i]
                    /\ InFlight(t)' <= entries'[<<i, t, 0>>].total
  BY DEF Counted, Accept
<1> DEFINE k == <<i, t, 0>>
           mine == t = TenantOf[r]
           e == IF mine THEN Charged(i, r) ELSE entries[k]
<1>1. /\ k \in Key /\ k[1] = i /\ entries[k] \in Entry
      /\ Stored(i) /\ Amount(i, r) = 1 /\ (k = KeyOf(i, r) <=> mine)
      /\ clock \in Nat /\ Window[i] \in Nat \ {0} /\ InFlight(t) \in Nat
  BY ConcurrentKey, InFlightType, QuotaAssumption DEF TypeOK
<1>2. Swept(e, entries'[k])
  BY <1>1, AcceptEntries
<1>3. /\ entries[k] = NoEntry \/ entries[k].expires >= Window[i]
      /\ InFlight(t) <= entries[k].total
      /\ Read(entries[k], clock) = entries[k].total
  BY <1>1, CountedIsRead DEF Counted
<1>4. InFlight(t)' = IF mine THEN InFlight(t) + 1 ELSE InFlight(t)
  BY StartInFlight DEF Accept
<1>5. CASE mine
  <2>1. /\ e.total = entries[k].total + 1
        /\ e.expires = IF Live(entries[k], clock)
                       THEN entries[k].expires ELSE clock + Window[i]
        /\ entries[k].total \in Nat
    BY <1>1, <1>3, <1>5 DEF Charged, Consumed, Entry
  <2>2. e.expires >= Window[i]
    <3>1. CASE Live(entries[k], clock)
      <4>1. entries[k] # NoEntry
        BY <3>1, <1>1 DEF Live, NoEntry
      <4> QED
        BY <1>3, <2>1, <3>1, <4>1
    <3>2. CASE ~Live(entries[k], clock)
      BY <1>1, <2>1, <3>2
    <3> QED
      BY <3>1, <3>2
  <2>3. e \in Entry /\ Live(e, clock)
    BY <1>1, <1>5, <2>2, ChargedType DEF Live, Entry
  <2>4. entries'[k] = e
    BY <1>2, <2>3 DEF Swept
  <2> QED
    BY <1>1, <1>3, <1>4, <1>5, <2>1, <2>2, <2>4
<1>6. CASE ~mine
  <2>1. entries[k] = NoEntry \/ Live(entries[k], clock)
    BY <1>1, CountedIsRead
  <2>2. entries'[k] = entries[k]
    BY <1>2, <1>6, <2>1 DEF Swept
  <2> QED
    BY <1>3, <1>4, <1>6, <2>2
<1> QED
  BY <1>5, <1>6

LEMMA RejectCounted ==
    ASSUME NEW r \in Request, NEW d \in Rule, TypeOK, Counted, Reject(r, d)
    PROVE  Counted'
<1> SUFFICES ASSUME NEW i \in Rule, NEW t \in Tenant \ Resets, Concurrent(i), clock < Window[i]
             PROVE  /\ \/ entries'[<<i, t, 0>>] = NoEntry
                       \/ entries'[<<i, t, 0>>].expires >= Window[i]
                    /\ InFlight(t)' <= entries'[<<i, t, 0>>].total
  BY DEF Counted, Reject
<1> DEFINE k == <<i, t, 0>>
           hit == i \in 1 .. d /\ Stored(i) /\ k = KeyOf(i, r)
           e == IF hit THEN (IF i = d THEN Undone(d, r) ELSE Charged(i, r))
                       ELSE entries[k]
<1>1. /\ k \in Key /\ k[1] = i /\ entries[k] \in Entry
      /\ Amount(i, r) = 1
      /\ clock \in Nat /\ Window[i] \in Nat \ {0} /\ InFlight(t) \in Nat
  BY ConcurrentKey, InFlightType, QuotaAssumption DEF TypeOK
<1>2. Swept(e, entries'[k])
  BY <1>1, RejectEntries
<1>3. /\ entries[k] = NoEntry \/ entries[k].expires >= Window[i]
      /\ InFlight(t) <= entries[k].total
      /\ Read(entries[k], clock) = entries[k].total
      /\ entries[k] = NoEntry \/ Live(entries[k], clock)
  BY <1>1, CountedIsRead DEF Counted
<1>4. InFlight(t)' = InFlight(t)
  BY RejectInFlight
<1>5. CASE hit
  <2>1. /\ Charged(i, r).total = entries[k].total + 1
        /\ Charged(i, r).expires = IF Live(entries[k], clock)
                       THEN entries[k].expires ELSE clock + Window[i]
        /\ entries[k].total \in Nat
    BY <1>1, <1>3, <1>5 DEF Charged, Consumed, Entry
  <2>2. e.expires = Charged(i, r).expires /\ e.total >= entries[k].total
    BY <1>1, <1>3, <1>5, <2>1, UndoneRestores
  <2>3. Charged(i, r).expires >= Window[i]
    <3>1. CASE Live(entries[k], clock)
      <4>1. entries[k] # NoEntry
        BY <3>1, <1>1 DEF Live, NoEntry
      <4> QED
        BY <1>3, <2>1, <3>1, <4>1
    <3>2. CASE ~Live(entries[k], clock)
      BY <1>1, <2>1, <3>2
    <3> QED
      BY <3>1, <3>2
  <2>4. e \in Entry
    BY <1>5, ChargedType
  <2>5. entries'[k] = e
    BY <1>1, <1>2, <2>2, <2>3, <2>4 DEF Swept, Live, Entry
  <2> QED
    BY <1>1, <1>3, <1>4, <2>1, <2>2, <2>3, <2>4, <2>5 DEF Entry
<1>6. CASE ~hit
  <2>1. entries'[k] = entries[k]
    BY <1>2, <1>3, <1>6 DEF Swept
  <2> QED
    BY <1>3, <1>4, <2>1
<1> QED
  BY <1>5, <1>6

LEMMA FinishCounted ==
    ASSUME NEW r \in Request, TypeOK, Counted, Finish(r)
    PROVE  Counted'
<1> SUFFICES ASSUME NEW i \in Rule, NEW t \in Tenant \ Resets, Concurrent(i), clock < Window[i]
             PROVE  /\ \/ entries'[<<i, t, 0>>] = NoEntry
                       \/ entries'[<<i, t, 0>>].expires >= Window[i]
                    /\ InFlight(t)' <= entries'[<<i, t, 0>>].total
  BY DEF Counted, Finish
<1> DEFINE k == <<i, t, 0>>
           e == entries[k]
<1>1. /\ k \in Key /\ k[1] = i /\ e \in Entry
      /\ (k = KeyOf(i, r) <=> t = TenantOf[r])
      /\ InFlight(t) \in Nat
  BY ConcurrentKey, InFlightType
<1>2. /\ e = NoEntry \/ e.expires >= Window[i]
      /\ InFlight(t) <= e.total
  BY DEF Counted
<1>3. entries'[k] = IF t = TenantOf[r] THEN Released(e, 1) ELSE e
  BY <1>1 DEF Finish
<1>4. /\ InFlight(t)' = IF t = TenantOf[r] THEN InFlight(t) - 1 ELSE InFlight(t)
      /\ t = TenantOf[r] => InFlight(t) >= 1
  BY FinishInFlight
<1>5. CASE t = TenantOf[r]
  <2>1. e.total \in Nat /\ e.total >= 1
    BY <1>1, <1>2, <1>4, <1>5 DEF Entry
  <2>2. Released(e, 1).total = e.total - 1 /\ Released(e, 1).expires = e.expires
    BY <1>1, <2>1, ReleasedType
  <2>3. e # NoEntry
    BY <2>1 DEF NoEntry
  <2> QED
    BY <1>1, <1>2, <1>3, <1>4, <1>5, <2>1, <2>2, <2>3
<1>6. CASE t # TenantOf[r]
  BY <1>2, <1>3, <1>4, <1>6
<1> QED
  BY <1>5, <1>6

LEMMA NextCounted == TypeOK /\ Counted /\ [Next]_vars => Counted'
<1> SUFFICES ASSUME TypeOK, Counted, [Next]_vars PROVE Counted'
  OBVIOUS
<1>1. CASE \E r \in Request : Accept(r)
  BY <1>1, AcceptCounted
<1>2. CASE \E r \in Request, d \in Rule : Reject(r, d)
  BY <1>2, RejectCounted
<1>3. CASE \E r \in Request : Finish(r)
  BY <1>3, FinishCounted
<1>4. ASSUME NEW u \in Tenant, Usage(u) PROVE Counted'
  <2> SUFFICES ASSUME NEW i \in Rule, NEW t \in Tenant \ Resets, Concurrent(i), clock < Window[i]
               PROVE  entries'[<<i, t, 0>>] = entries[<<i, t, 0>>]
    BY <1>4 DEF Counted, Usage, InFlight
  <2>1. <<i, t, 0>> \in Key /\ entries[<<i, t, 0>>] \in Entry
    BY QuotaAssumption DEF Key, TypeOK
  <2>2. entries[<<i, t, 0>>] = NoEntry \/ Live(entries[<<i, t, 0>>], clock)
    BY <2>1, CountedIsRead
  <2> QED
    BY <1>4, <2>1, <2>2 DEF Usage
<1>5. ASSUME NEW u \in Tenant, Reset(u) PROVE Counted'
  <2> SUFFICES ASSUME NEW i \in Rule, NEW t \in Tenant \ Resets
               PROVE  entries'[<<i, t, 0>>] = entries[<<i, t, 0>>]
    BY <1>5 DEF Counted, Reset, InFlight
  <2>1. <<i, t, 0>> \in Key
    BY QuotaAssumption DEF Key
  <2>2. <<i, t, 0>> # BuildQuotaKey(i, u, clock)
    BY <1>5 DEF Reset, BuildQuotaKey
  <2> QED
    BY <1>5, <2>1, <2>2 DEF Reset
<1>6. CASE Tick
  <2>1. clock \in Nat /\ clock' = clock + 1 /\ \A i \in Rule : Window[i] \in Nat
    BY <1>6, QuotaAssumption DEF Tick, TypeOK
  <2> QED
    BY <1>6, <2>1 DEF Tick, Counted, InFlight
<1>7. CASE UNCHANGED vars
  BY <1>7 DEF vars, Counted, InFlight
<1> QED
  BY <1>1, <1>2, <1>3, <1>4, <1>5, <1>6, <1>7 DEF Next

LEMMA InitCounted == Init => Counted
<1> SUFFICES ASSUME Init, NEW i \in Rule, NEW t \in Tenant \ Resets
             PROVE  entries[<<i, t, 0>>] = NoEntry /\ InFlight(t) <= NoEntry.total
  BY DEF Counted
<1>1. <<i, t, 0>> \in Key
  BY QuotaAssumption DEF Key
<1>2. Running(t) = {}
  BY DEF Init, Running
<1>3. InFlight(t) = 0
  BY <1>2, InitTypeOK, InFlightType, FS_EmptySet
<1> QED
  BY <1>1, <1>3 DEF Init, NoEntry

\* For any rules and any order among them, the simultaneous requests of a
\* tenant nobody resets stay within every concurrency quota until the first
\* period of that quota has passed. (Afterwards they do not:
\* the counter expires with requests in flight.)
THEOREM ConcurrencyHoldsBeforeExpiry == Spec => []ConcurrencyLimitBeforeExpiry
<1>1. Init => Counted
  BY InitCounted
<1>2. TypeOK /\ Counted /\ [Next]_vars => Counted'
  BY NextCounted
<1>3. TypeOK /\ Counted /\ WindowCovered => ConcurrencyLimitBeforeExpiry
  <2> SUFFICES ASSUME TypeOK, Counted, WindowCovered,
                      NEW i \in Rule, NEW t \in Tenant \ Resets,
                      Concurrent(i), clock < Window[i]
               PROVE  InFlight(t) <= Limit[i]
    BY DEF ConcurrencyLimitBeforeExpiry
  <2> DEFINE k == <<i, t, 0>>
  <2>1. k \in Key /\ k[1] = i
    BY QuotaAssumption DEF Key
  <2>2. entries[k].total <= Limit[i] /\ InFlight(t) <= entries[k].total
    BY <2>1 DEF WindowCovered, Covered, Counted
  <2>3. entries[k].total \in Nat /\ Limit[i] \in Nat /\ InFlight(t) \in Nat
    BY <2>1, KeyFacts, InFlightType DEF Entry
  <2> QED
    BY <2>2, <2>3
<1> QED
  BY <1>1, <1>2, <1>3, TypeCorrect, AlwaysCovered, PTL DEF Spec

\* No rule is evaluated after a concurrency quota, as build_quota_rules orders
\* them: then nothing can deny a request that already holds a concurrency slot.
ConcurrentLast == \A i \in Rule : Concurrent(i) => i = NRules

\* Stored concurrency counters, expired or not, count requests in flight only.
NoPhantoms ==
    \A i \in Rule, t \in Tenant :
        Concurrent(i) => entries[<<i, t, 0>>].total <= InFlight(t)

LEMMA SweptTotal ==
    ASSUME NEW e \in Entry, NEW f, NEW n \in Nat, Swept(e, f), e.total <= n
    PROVE  f.total <= n
<1>1. NoEntry.total = 0
  BY DEF NoEntry
<1> QED
  BY <1>1 DEF Swept

LEMMA NextNoPhantoms ==
    ASSUME ConcurrentLast
    PROVE  TypeOK /\ NoPhantoms /\ [Next]_vars => NoPhantoms'
<1> SUFFICES ASSUME TypeOK, NoPhantoms, [Next]_vars,
                    NEW i \in Rule, NEW t \in Tenant, Concurrent(i)
             PROVE  entries'[<<i, t, 0>>].total <= InFlight(t)'
  BY DEF NoPhantoms
<1> DEFINE k == <<i, t, 0>>
<1>1. /\ k \in Key /\ k[1] = i /\ entries[k] \in Entry /\ InFlight(t) \in Nat
      /\ BuildQuotaKey(i, t, clock) = k /\ clock \in Nat
      /\ entries[k].total <= InFlight(t)
  <2>1. k \in Key /\ BuildQuotaKey(i, t, clock) = k
    BY QuotaAssumption DEF Key, BuildQuotaKey, WindowIndex, Concurrent, Accumulates
  <2> QED
    BY <2>1, InFlightType DEF NoPhantoms, TypeOK
<1>2. Read(entries[k], clock) <= InFlight(t) /\ Read(entries[k], clock) \in Nat
  BY <1>1, ReadType DEF Entry
<1>3. ASSUME NEW r \in Request, Accept(r)
      PROVE  entries'[k].total <= InFlight(t)'
  <2> DEFINE mine == t = TenantOf[r]
             e == IF mine THEN Charged(i, r) ELSE entries[k]
  <2>1. Stored(i) /\ Amount(i, r) = 1 /\ (k = KeyOf(i, r) <=> mine)
    BY ConcurrentKey
  <2>2. Swept(e, entries'[k])
    BY <1>1, <1>3, <2>1, AcceptEntries
  <2>3. InFlight(t)' = IF mine THEN InFlight(t) + 1 ELSE InFlight(t)
    BY <1>3, StartInFlight DEF Accept
  <2>4. e \in Entry /\ e.total <= InFlight(t)'
    BY <1>1, <1>2, <2>1, <2>3, ChargedType DEF Charged, Consumed
  <2>5. InFlight(t)' \in Nat
    BY <1>1, <2>3
  <2> HIDE DEF e, mine
  <2> QED
    BY <2>2, <2>4, <2>5, SweptTotal
<1>4. ASSUME NEW r \in Request, NEW d \in Rule, Reject(r, d)
      PROVE  entries'[k].total <= InFlight(t)'
  <2> DEFINE hit == i \in 1 .. d /\ Stored(i) /\ k = KeyOf(i, r)
             e == IF hit THEN (IF i = d THEN Undone(d, r) ELSE Charged(i, r))
                         ELSE entries[k]
  <2>1. Swept(e, entries'[k])
    BY <1>1, <1>4, RejectEntries
  <2>2. i \in 1 .. d => i = d
    BY QuotaAssumption DEF ConcurrentLast, Rule
  <2>3. e \in Entry /\ e.total <= InFlight(t)
    BY <1>1, <1>2, <2>2, ChargedType, UndoneRestores
  <2>4. InFlight(t)' = InFlight(t)
    BY <1>4, RejectInFlight
  <2> HIDE DEF e, hit
  <2> QED
    BY <1>1, <2>1, <2>3, <2>4, SweptTotal
<1>5. ASSUME NEW r \in Request, Finish(r)
      PROVE  entries'[k].total <= InFlight(t)'
  <2>1. k = KeyOf(i, r) <=> t = TenantOf[r]
    BY ConcurrentKey
  <2>2. entries'[k] = IF t = TenantOf[r] THEN Released(entries[k], 1) ELSE entries[k]
    BY <1>1, <1>5, <2>1 DEF Finish
  <2>3. /\ InFlight(t)' = IF t = TenantOf[r] THEN InFlight(t) - 1 ELSE InFlight(t)
        /\ t = TenantOf[r] => InFlight(t) >= 1
    BY <1>5, FinishInFlight
  <2>4. CASE t = TenantOf[r]
    <3>1. entries[k].total \in Nat /\ entries'[k] = Released(entries[k], 1)
      BY <1>1, <2>2, <2>4 DEF Entry
    <3>2. CASE entries[k].total >= 1
      <4>1. entries'[k].total = entries[k].total - 1
        <5>1. ASSUME NEW x \in Entry, x.total >= 1 PROVE Released(x, 1).total = x.total - 1
          BY <5>1, ReleasedType
        <5> QED
          BY <1>1, <3>1, <3>2, <5>1
      <4> QED
        BY <1>1, <2>3, <2>4, <3>1, <4>1
    <3>3. CASE entries[k].total < 1
      <4>1. entries'[k].total = 0
        <5>1. ASSUME NEW x \in Entry, x.total < 1 PROVE Released(x, 1).total = 0
          BY <5>1, ReleasedType
        <5> QED
          BY <1>1, <3>1, <3>3, <5>1
      <4> QED
        BY <1>1, <2>3, <2>4, <4>1
    <3> QED
      BY <3>1, <3>2, <3>3
  <2>5. CASE t # TenantOf[r]
    BY <1>1, <2>2, <2>3, <2>5
  <2> QED
    BY <2>4, <2>5
<1>6. ASSUME InFlight(t)' = InFlight(t), Swept(entries[k], entries'[k])
      PROVE  entries'[k].total <= InFlight(t)'
  BY <1>1, <1>6, SweptTotal
<1>7. CASE \E u \in Tenant : Usage(u)
  <2>1. InFlight(t)' = InFlight(t) /\ Swept(entries[k], entries'[k])
    BY <1>1, <1>7 DEF Usage, InFlight, Swept
  <2> QED
    BY <1>6, <2>1
<1>8. ASSUME NEW u \in Tenant, Reset(u) PROVE entries'[k].total <= InFlight(t)'
  <2>1. InFlight(t)' = InFlight(t) /\ (entries'[k] = NoEntry \/ entries'[k] = entries[k])
    BY <1>1, <1>8 DEF Reset, InFlight
  <2>2. NoEntry.total = 0
    BY DEF NoEntry
  <2> QED
    BY <1>1, <2>1, <2>2
<1>9. CASE Tick \/ UNCHANGED vars
  BY <1>1, <1>9 DEF Tick, vars, InFlight
<1> QED
  BY <1>3, <1>4, <1>5, <1>7, <1>8, <1>9 DEF Next

\* When no rule follows a concurrency quota, its counter never shows a request
\* that is not in flight: every slot that is taken is given back, through
\* rejections, expiries, sweeps and resets.
THEOREM SlotsAreReturned ==
    ASSUME ConcurrentLast
    PROVE  Spec => []NoPhantomRequests
<1>1. Init => NoPhantoms
  <2> SUFFICES ASSUME Init, NEW i \in Rule, NEW t \in Tenant
               PROVE  entries[<<i, t, 0>>].total <= InFlight(t)
    BY DEF NoPhantoms
  <2>1. <<i, t, 0>> \in Key
    BY QuotaAssumption DEF Key
  <2> QED
    BY <2>1, InitTypeOK, InFlightType DEF Init, NoEntry
<1>2. TypeOK /\ NoPhantoms /\ [Next]_vars => NoPhantoms'
  BY NextNoPhantoms
<1>3. TypeOK /\ NoPhantoms => NoPhantomRequests
  <2> SUFFICES ASSUME TypeOK, NoPhantoms, NEW i \in Rule, NEW t \in Tenant, Concurrent(i)
               PROVE  Counter(i, t) <= InFlight(t)
    BY DEF NoPhantomRequests
  <2> DEFINE k == <<i, t, 0>>
  <2>1. k \in Key /\ BuildQuotaKey(i, t, clock) = k
    BY QuotaAssumption DEF Key, BuildQuotaKey, WindowIndex, Concurrent, Accumulates
  <2>2. entries[k] \in Entry /\ clock \in Nat /\ InFlight(t) \in Nat
    BY <2>1, InFlightType DEF TypeOK
  <2>3. entries[k].total <= InFlight(t)
    BY DEF NoPhantoms
  <2>4. Read(entries[k], clock) <= entries[k].total
        /\ Read(entries[k], clock) \in Nat /\ entries[k].total \in Nat
    BY <2>2, ReadType DEF Entry
  <2> QED
    BY <2>1, <2>2, <2>3, <2>4 DEF Counter
<1> QED
  BY <1>1, <1>2, <1>3, TypeCorrect, PTL DEF Spec

-----------------------------------------------------------------------------
(* Rejections.                                                             *)

LEMMA SweptReads ==
    ASSUME NEW e \in Entry, NEW f, TypeOK, Swept(e, f)
    PROVE  Read(f, clock) = Read(e, clock)
<1>1. clock \in Nat
  BY QuotaAssumption DEF TypeOK
<1> QED
  BY <1>1 DEF Swept, Read, Live, NoEntry, Entry

LEMMA RejectKeepsCounter ==
    ASSUME NEW r \in Request, NEW d \in Rule, TypeOK, Reject(r, d)
    PROVE  Counter(d, TenantOf[r])' = Counter(d, TenantOf[r])
<1> DEFINE k == KeyOf(d, r)
           e == IF Stored(d) THEN Undone(d, r) ELSE entries[k]
<1>1. /\ k \in Key /\ k[1] = d /\ d \in 1 .. d /\ clock \in Nat
      /\ entries[k] \in Entry /\ Window[d] \in Nat \ {0}
  <2>1. k \in Key
    BY ChargedType
  <2>2. k[1] = d
    BY DEF KeyOf, BuildQuotaKey
  <2>3. d \in 1 .. d /\ clock \in Nat /\ Window[d] \in Nat \ {0}
    BY QuotaAssumption DEF Rule, TypeOK
  <2>4. entries[k] \in Entry
    BY <2>1 DEF TypeOK
  <2> QED
    BY <2>1, <2>2, <2>3, <2>4
<1>2. Swept(e, entries'[k])
  BY <1>1, RejectEntries
<1>3. e \in Entry /\ Read(e, clock) = Read(entries[k], clock)
  <2>1. CASE Stored(d)
    <3>1. /\ Undone(d, r).total = Read(entries[k], clock)
          /\ Undone(d, r).expires = Charged(d, r).expires
      BY UndoneRestores
    <3>2. Charged(d, r).expires > clock
      BY <1>1 DEF Charged, Consumed, Live, Entry
    <3> QED
      BY <2>1, <3>1, <3>2, ChargedType DEF Read, Live
  <2>2. CASE ~Stored(d)
    BY <1>1, <2>2
  <2> QED
    BY <2>1, <2>2
<1>4. Read(entries'[k], clock) = Read(entries[k], clock)
  BY <1>2, <1>3, SweptReads
<1>5. clock' = clock /\ KeyOf(d, r) = BuildQuotaKey(d, TenantOf[r], clock)
  BY DEF Reject, KeyOf
<1> QED
  BY <1>4, <1>5 DEF Counter, BuildQuotaKey, WindowIndex

\* For any rules, the rule that denies a request shows after the denial what it
\* showed before: the consumption that overflowed it is undone exactly, also
\* when it opened the window or triggered the sweep of the store.
THEOREM DenialIsUndone == Spec => RejectingRuleUncharged
<1>1. TypeOK =>
        [\A r \in Request, d \in Rule :
           Reject(r, d) => Counter(d, TenantOf[r])' = Counter(d, TenantOf[r])]_vars
  BY RejectKeepsCounter
<1> QED
  BY <1>1, TypeCorrect, PTL DEF RejectingRuleUncharged

-----------------------------------------------------------------------------
(* Gateway: the order of the chain.                                        *)

Rank(s) ==
    CASE s = "cors" -> 1 [] s = "audit" -> 2 [] s = "compression" -> 3
      [] s = "versioning" -> 4 [] s = "validation" -> 5 [] s = "rate_limit" -> 6
      [] s = "quota" -> 7 [] s = "idempotency" -> 8

\* A chain of the stages up to this rank, each at most once and in order.
Ordered(c, rank) ==
    /\ c \in Seq(Pipeline!Stage)
    /\ \A i \in DOMAIN c : Rank(c[i]) <= rank
    /\ \A i, j \in DOMAIN c : i < j => Rank(c[i]) < Rank(c[j])

Lists(c, s) == \E i \in DOMAIN c : c[i] = s

LEMMA RankOf ==
    /\ \A s \in Pipeline!Stage : Rank(s) \in 1 .. 8
    /\ Rank("cors") = 1 /\ Rank("audit") = 2 /\ Rank("compression") = 3
    /\ Rank("versioning") = 4 /\ Rank("validation") = 5 /\ Rank("rate_limit") = 6
    /\ Rank("quota") = 7 /\ Rank("idempotency") = 8
<1>1. /\ Rank("cors") = 1 /\ Rank("audit") = 2 /\ Rank("compression") = 3
      /\ Rank("versioning") = 4 /\ Rank("validation") = 5 /\ Rank("rate_limit") = 6
      /\ Rank("quota") = 7 /\ Rank("idempotency") = 8
  BY DEF Rank
<1> QED BY <1>1 DEF Pipeline!Stage

LEMMA Longer ==
    ASSUME NEW c, NEW rank \in Nat, Ordered(c, rank),
           NEW s \in Pipeline!Stage, Rank(s) = rank + 1
    PROVE  /\ Ordered(c \o Pipeline!Configured(s), rank + 1)
           /\ s \in Installed => Lists(c \o Pipeline!Configured(s), s)
           /\ \A t : Lists(c, t) => Lists(c \o Pipeline!Configured(s), t)
<1> DEFINE S == Pipeline!Stage
<1>1. /\ c \in Seq(S) /\ Len(c) \in Nat /\ DOMAIN c = 1 .. Len(c)
      /\ \A i \in 1 .. Len(c) : Rank(c[i]) \in Nat /\ Rank(c[i]) <= rank
  <2>1. c \in Seq(S) /\ Len(c) \in Nat /\ DOMAIN c = 1 .. Len(c)
    BY LenProperties DEF Ordered
  <2>2. \A i \in 1 .. Len(c) : c[i] \in S
    BY <2>1, ElementOfSeq
  <2> QED BY <2>1, <2>2, RankOf DEF Ordered
<1>2. CASE s \notin Installed
  <2>1. c \o Pipeline!Configured(s) = c
    BY <1>1, <1>2, ConcatEmptySeq DEF Pipeline!Configured
  <2> QED BY <1>1, <1>2, <2>1 DEF Ordered
<1>3. CASE s \in Installed
  <2> DEFINE d == c \o <<s>>
  <2>1. c \o Pipeline!Configured(s) = d
    BY <1>3 DEF Pipeline!Configured
  <2>2. /\ d \in Seq(S) /\ Len(d) = Len(c) + 1 /\ DOMAIN d = 1 .. (Len(c) + 1)
        /\ \A i \in 1 .. Len(c) : d[i] = c[i]
        /\ d[Len(c) + 1] = s
    <3>1. PICK e : e = <<s>>
      OBVIOUS
    <3>2. e \in Seq(S) /\ Len(e) = 1 /\ e[1] = s
      BY <3>1
    <3> HIDE DEF S
    <3>3. /\ c \o e \in Seq(S) /\ Len(c \o e) = Len(c) + Len(e)
          /\ \A i \in 1 .. Len(c) + Len(e) :
               (c \o e)[i] = IF i <= Len(c) THEN c[i] ELSE e[i - Len(c)]
      BY <1>1, <3>2, ConcatProperties
    <3>4. \A i \in 1 .. Len(c) : (c \o e)[i] = c[i]
      BY <1>1, <3>2, <3>3
    <3>5. (c \o e)[Len(c) + 1] = s
      BY <1>1, <3>2, <3>3
    <3>6. Len(c \o e) = Len(c) + 1 /\ DOMAIN (c \o e) = 1 .. (Len(c) + 1)
      BY <1>1, <3>2, <3>3, LenProperties
    <3> QED BY <3>1, <3>3, <3>4, <3>5, <3>6
  <2> HIDE DEF d
  <2>3. \A i \in DOMAIN d : i = Len(c) + 1 \/ i \in 1 .. Len(c)
    BY <1>1, <2>2
  <2>4. \A i \in DOMAIN d : Rank(d[i]) <= rank + 1
    BY <1>1, <2>2, <2>3
  <2>5. \A i, j \in DOMAIN d : i < j => Rank(d[i]) < Rank(d[j])
    <3> SUFFICES ASSUME NEW i \in DOMAIN d, NEW j \in DOMAIN d, i < j
                 PROVE  Rank(d[i]) < Rank(d[j])
      OBVIOUS
    <3>1. i \in 1 .. Len(c)
      BY <1>1, <2>2
    <3>2. CASE j = Len(c) + 1
      BY <3>1, <3>2, <1>1, <2>2
    <3>3. CASE j \in 1 .. Len(c)
      BY <3>1, <3>3, <1>1, <2>2 DEF Ordered
    <3> QED BY <3>2, <3>3, <2>3
  <2>6. Ordered(d, rank + 1)
    BY <2>2, <2>4, <2>5 DEF Ordered
  <2>7. Lists(d, s)
    BY <1>1, <2>2 DEF Lists
  <2>8. \A t : Lists(c, t) => Lists(d, t)
    BY <1>1, <2>2 DEF Lists
  <2> QED BY <2>1, <2>6, <2>7, <2>8
<1> QED BY <1>2, <1>3

\* The chain is in the order of the middlewares, and has the configured ones.
LEMMA ChainInOrder ==
    /\ Ordered(Pipeline!Chain, 8)
    /\ "audit" \in Installed => Lists(Pipeline!Chain, "audit")
<1> DEFINE c0 == <<>>
           c1 == Pipeline!Configured("cors")
           c2 == c1 \o Pipeline!Configured("audit")
           c3 == c2 \o Pipeline!Configured("compression")
           c4 == c3 \o Pipeline!Configured("versioning")
           c5 == c4 \o Pipeline!Configured("validation")
           c6 == c5 \o Pipeline!Configured("rate_limit")
           c7 == c6 \o Pipeline!Configured("quota")
           c8 == c7 \o Pipeline!Configured("idempotency")
<1>1. Ordered(c1, 1)
  <2>1. CASE "cors" \in Installed
    <3>1. PICK c : c = c1
      OBVIOUS
    <3>2. c = <<"cors">>
      BY <2>1, <3>1 DEF Pipeline!Configured
    <3>3. c \in Seq(Pipeline!Stage) /\ DOMAIN c = {1} /\ c[1] = "cors"
      BY <3>2 DEF Pipeline!Stage
    <3> QED BY <3>1, <3>3, RankOf DEF Ordered
  <2>2. CASE "cors" \notin Installed
    BY <2>2 DEF Ordered, Pipeline!Configured
  <2> QED BY <2>1, <2>2
<1> HIDE DEF c1
<1>2. Ordered(c2, 2) /\ ("audit" \in Installed => Lists(c2, "audit"))
  <2>1. "audit" \in Pipeline!Stage /\ Rank("audit") = 1 + 1 /\ 1 + 1 = 2
    BY RankOf DEF Pipeline!Stage
  <2> QED BY <1>1, <2>1, Longer
<1> HIDE DEF c2
<1>3. Ordered(c3, 3) /\ (Lists(c2, "audit") => Lists(c3, "audit"))
  <2>1. "compression" \in Pipeline!Stage /\ Rank("compression") = 2 + 1 /\ 2 + 1 = 3
    BY RankOf DEF Pipeline!Stage
  <2> QED BY <1>2, <2>1, Longer
<1> HIDE DEF c3
<1>4. Ordered(c4, 4) /\ (Lists(c3, "audit") => Lists(c4, "audit"))
  <2>1. "versioning" \in Pipeline!Stage /\ Rank("versioning") = 3 + 1 /\ 3 + 1 = 4
    BY RankOf DEF Pipeline!Stage
  <2> QED BY <1>3, <2>1, Longer
<1> HIDE DEF c4
<1>5. Ordered(c5, 5) /\ (Lists(c4, "audit") => Lists(c5, "audit"))
  <2>1. "validation" \in Pipeline!Stage /\ Rank("validation") = 4 + 1 /\ 4 + 1 = 5
    BY RankOf DEF Pipeline!Stage
  <2> QED BY <1>4, <2>1, Longer
<1> HIDE DEF c5
<1>6. Ordered(c6, 6) /\ (Lists(c5, "audit") => Lists(c6, "audit"))
  <2>1. "rate_limit" \in Pipeline!Stage /\ Rank("rate_limit") = 5 + 1 /\ 5 + 1 = 6
    BY RankOf DEF Pipeline!Stage
  <2> QED BY <1>5, <2>1, Longer
<1> HIDE DEF c6
<1>7. Ordered(c7, 7) /\ (Lists(c6, "audit") => Lists(c7, "audit"))
  <2>1. "quota" \in Pipeline!Stage /\ Rank("quota") = 6 + 1 /\ 6 + 1 = 7
    BY RankOf DEF Pipeline!Stage
  <2> QED BY <1>6, <2>1, Longer
<1> HIDE DEF c7
<1>8. Ordered(c8, 8) /\ (Lists(c7, "audit") => Lists(c8, "audit"))
  <2>1. "idempotency" \in Pipeline!Stage /\ Rank("idempotency") = 7 + 1 /\ 7 + 1 = 8
    BY RankOf DEF Pipeline!Stage
  <2> QED BY <1>7, <2>1, Longer
<1> HIDE DEF c8
<1>9. Pipeline!Chain = c8
  BY DEF Pipeline!Chain, c8, c7, c6, c5, c4, c3, c2, c1
<1> QED BY <1>2, <1>3, <1>4, <1>5, <1>6, <1>7, <1>8, <1>9

-----------------------------------------------------------------------------
(* Gateway: the invariant.                                                 *)

Flow == [phase : {"down", "up", "raise", "done"}, at : 0 .. Pipeline!Endpoint]

Outcomes == {"replayed", "failed", "rejected", "accepted"}

LogEntry == [executed : BOOLEAN, charged : SUBSET {"rate_limit", "quota"},
             audited : Seq(Outcomes), announced : Seq(Pipeline!Event),
             fault : Raising \cup {"none", "endpoint"}]

Recorded == [body : {"none", "b1", "b2"}, response : Pipeline!Response]

PipelineTyped ==
    /\ flow \in [Sender -> Flow]
    /\ sent \in [Sender -> Traffic]
    /\ response \in [Sender -> Pipeline!Response]
    /\ log \in [Sender -> LogEntry]
    /\ slots \in Int /\ slots <= MaxSlots
    /\ records \in [IdempotencyKey -> Recorded]
    /\ job \in [Worker -> BOOLEAN]

\* A request that is there is inside the quota stage.
Holds(f) ==
    \E i \in DOMAIN Pipeline!Chain :
        /\ Pipeline!Chain[i] = "quota"
        /\ \/ f.phase = "down" /\ f.at > i
           \/ f.phase \in {"up", "raise"} /\ f.at >= i

Holders == {r \in Sender : Holds(flow[r])}
Jobs == {w \in Worker : job[w]}

HoldsCount == slots = Cardinality(Holders) + Cardinality(Jobs)

\* On its way back, a request at n still has the audit before it.
Within(n) == \E i \in DOMAIN Pipeline!Chain : Pipeline!Chain[i] = "audit" /\ n >= i

Refusal(v) == v.by \in Pipeline!Stage /\ ~v.replayed

\* The response v was audited, and announced, as entry e has it.
AsAnswered(v, e) ==
    /\ Len(e.audited) = 1 /\ Len(e.announced) <= 1
    /\ e.fault \notin {"audit.recorded", "request.accepted"} =>
          e.audited = <<Pipeline!Outcome(v)>>
    /\ e.fault = "none" =>
          /\ Pipeline!Outcome(v) = "accepted" <=> e.announced = <<"request.accepted">>
          /\ Refusal(v) => e.announced = <<"request.rejected">>

\* A response on its way to the audit; an exception on its way to it.
Answering(v, e) ==
    /\ e.audited = <<>> /\ e.fault = "none"
    /\ IF Refusal(v)
       THEN e.announced = <<"request.rejected">> /\ v.size = "small"
            /\ v.status \in {"refused", "server_error"}
       ELSE e.announced = <<>>

Failing(e) ==
    /\ e.audited = <<>> /\ e.fault \notin {"none", "audit.recorded", "request.accepted"}
    /\ e.announced \in {<<>>, <<"request.rejected">>}

\* What is known of a request that is not a preflight, wherever it is.
Fits(f, q, v, e) ==
    ~(q.origin # "none" /\ q.preflight) =>
        /\ f.phase = "down" => e.audited = <<>> /\ e.announced = <<>> /\ e.fault = "none"
        /\ f.phase = "up" =>
             IF Within(f.at) THEN Answering(v, e) ELSE e.fault = "none" /\ AsAnswered(v, e)
        /\ f.phase = "raise" =>
             IF Within(f.at) THEN Failing(e)
             ELSE /\ Len(e.audited) = 1 /\ Len(e.announced) <= 1 /\ e.fault # "none"
                  /\ e.fault \notin {"audit.recorded", "request.accepted"} =>
                         e.audited = <<"failed">>
        /\ f.phase = "done" => v = Pipeline!NoResponse \/ AsAnswered(v, e)

AllFit == "audit" \in Installed =>
    \A r \in Sender : Fits(flow[r], sent[r], response[r], log[r])

PipelineInv == PipelineTyped /\ HoldsCount /\ AllFit

LEMMA ChainFacts ==
    /\ Pipeline!Chain \in Seq(Pipeline!Stage) /\ Len(Pipeline!Chain) \in Nat
    /\ DOMAIN Pipeline!Chain = 1 .. Len(Pipeline!Chain)
    /\ Pipeline!Endpoint = Len(Pipeline!Chain) + 1
    /\ \A i \in DOMAIN Pipeline!Chain : Pipeline!Chain[i] \in Pipeline!Stage
    /\ \A i, j \in DOMAIN Pipeline!Chain :
         Rank(Pipeline!Chain[i]) < Rank(Pipeline!Chain[j]) => i < j
    /\ \A i, j \in DOMAIN Pipeline!Chain : Pipeline!Chain[i] = Pipeline!Chain[j] => i = j
<1> DEFINE c == Pipeline!Chain
<1>1. Ordered(c, 8)
  BY ChainInOrder
<1>2. Pipeline!Endpoint = Len(c) + 1
  BY DEF Pipeline!Endpoint
<1> HIDE DEF c
<1>3. c \in Seq(Pipeline!Stage) /\ Len(c) \in Nat /\ DOMAIN c = 1 .. Len(c)
  BY <1>1, LenProperties DEF Ordered
<1>4. \A i \in DOMAIN c : c[i] \in Pipeline!Stage /\ Rank(c[i]) \in Nat
  BY <1>3, ElementOfSeq, RankOf
<1>5. ASSUME NEW i \in DOMAIN c, NEW j \in DOMAIN c
      PROVE  /\ Rank(c[i]) < Rank(c[j]) => i < j
             /\ c[i] = c[j] => i = j
  <2>1. i \in Nat /\ j \in Nat /\ Rank(c[i]) \in Nat /\ Rank(c[j]) \in Nat
    BY <1>3, <1>4
  <2>2. i < j => Rank(c[i]) < Rank(c[j])
    BY <1>1 DEF Ordered
  <2>3. j < i => Rank(c[j]) < Rank(c[i])
    BY <1>1 DEF Ordered
  <2>4. i = j => Rank(c[i]) = Rank(c[j])
    OBVIOUS
  <2>5. c[i] = c[j] => Rank(c[i]) = Rank(c[j])
    OBVIOUS
  <2> QED BY <2>1, <2>2, <2>3, <2>4, <2>5
<1> QED BY <1>2, <1>3, <1>4, <1>5 DEF c

\* A request goes on, back with a response, or out with an exception.
Goes(f, g) ==
    \/ f.phase = "down" /\ g.phase = "down" /\ g.at = f.at + 1
    \/ f.phase = "down" /\ g.phase \in {"up", "raise"} /\ g.at = f.at - 1
    \/ f.phase \in {"up", "raise"} /\ g.phase \in {"up", "raise"} /\ g.at = f.at - 1

LEMMA PastTheQuota ==
    ASSUME NEW f \in Flow, NEW g, f.at \in 1 .. Pipeline!Endpoint, Goes(f, g),
           \A i \in DOMAIN Pipeline!Chain : Pipeline!Chain[i] = "quota" => i # f.at
    PROVE  Holds(g) <=> Holds(f)
<1>1. f.at \in Nat /\ DOMAIN Pipeline!Chain \subseteq Nat
  BY ChainFacts
<1>2. CASE f.phase = "down" /\ g.phase = "down" /\ g.at = f.at + 1
  BY <1>1, <1>2 DEF Holds
<1>3. CASE f.phase = "down" /\ g.phase \in {"up", "raise"} /\ g.at = f.at - 1
  BY <1>1, <1>3 DEF Holds
<1>4. CASE f.phase \in {"up", "raise"} /\ g.phase \in {"up", "raise"} /\ g.at = f.at - 1
  BY <1>1, <1>4 DEF Holds
<1> QED BY <1>2, <1>3, <1>4 DEF Goes

LEMMA AtTheQuota ==
    ASSUME NEW f \in Flow, NEW g, f.at \in DOMAIN Pipeline!Chain,
           Pipeline!Chain[f.at] = "quota", Goes(f, g)
    PROVE  /\ f.phase = "down" => ~Holds(f) /\ (Holds(g) <=> g.phase = "down")
           /\ f.phase # "down" => Holds(f) /\ ~Holds(g)
<1>1. f.at \in Nat /\ DOMAIN Pipeline!Chain \subseteq Nat
  BY ChainFacts
<1>2. \A i \in DOMAIN Pipeline!Chain : Pipeline!Chain[i] = "quota" => i = f.at
  BY ChainFacts
<1>3. CASE f.phase = "down" /\ g.phase = "down" /\ g.at = f.at + 1
  BY <1>1, <1>2, <1>3 DEF Holds
<1>4. CASE f.phase = "down" /\ g.phase \in {"up", "raise"} /\ g.at = f.at - 1
  BY <1>1, <1>2, <1>4 DEF Holds
<1>5. CASE f.phase \in {"up", "raise"} /\ g.phase \in {"up", "raise"} /\ g.at = f.at - 1
  BY <1>1, <1>2, <1>5 DEF Holds
<1> QED BY <1>3, <1>4, <1>5 DEF Goes

\* The stages inside and outside of the audit.
LEMMA WithinTheAudit ==
    ASSUME "audit" \in Installed
    PROVE  /\ ~Within(0)
           /\ Within(Pipeline!Endpoint - 1)
           /\ \A p \in DOMAIN Pipeline!Chain :
                /\ Pipeline!Chain[p] \notin {"cors", "audit"} => Within(p) /\ Within(p - 1)
                /\ Pipeline!Chain[p] = "audit" => Within(p) /\ ~Within(p - 1)
                /\ Pipeline!Chain[p] = "cors" => ~Within(p) /\ ~Within(p - 1)
<1>1. PICK a \in DOMAIN Pipeline!Chain : Pipeline!Chain[a] = "audit"
  BY ChainInOrder DEF Lists
<1>2. \A i \in DOMAIN Pipeline!Chain : Pipeline!Chain[i] = "audit" <=> i = a
  BY <1>1, ChainFacts
<1>3. \A n : Within(n) <=> n >= a
  BY <1>1, <1>2 DEF Within
<1>4. a \in Nat /\ a >= 1 /\ a <= Len(Pipeline!Chain) /\ DOMAIN Pipeline!Chain \subseteq Nat
  BY <1>1, ChainFacts
<1>5. Pipeline!Endpoint - 1 >= a
  BY <1>4, ChainFacts
<1>6. ASSUME NEW p \in DOMAIN Pipeline!Chain
      PROVE  /\ Pipeline!Chain[p] \notin {"cors", "audit"} => Within(p) /\ Within(p - 1)
             /\ Pipeline!Chain[p] = "audit" => Within(p) /\ ~Within(p - 1)
             /\ Pipeline!Chain[p] = "cors" => ~Within(p) /\ ~Within(p - 1)
  <2>1. p \in Nat
    BY <1>4
  <2>2. CASE Pipeline!Chain[p] \notin {"cors", "audit"}
    <3>1. Pipeline!Chain[p] \in Pipeline!Stage \ {"cors", "audit"}
      BY <2>2, ChainFacts
    <3>2. Rank("audit") < Rank(Pipeline!Chain[p])
      BY <3>1, RankOf DEF Pipeline!Stage
    <3>3. a < p
      BY <3>2, <1>1, ChainFacts
    <3> QED BY <3>3, <2>1, <2>2, <1>3, <1>4
  <2>3. CASE Pipeline!Chain[p] = "audit"
    BY <2>1, <2>3, <1>2, <1>3, <1>4
  <2>4. CASE Pipeline!Chain[p] = "cors"
    <3>1. Rank(Pipeline!Chain[p]) < Rank("audit")
      BY <2>4, RankOf
    <3>2. p < a
      BY <3>1, <1>1, ChainFacts
    <3> QED BY <3>2, <2>1, <2>4, <1>3, <1>4
  <2> QED BY <2>2, <2>3, <2>4
<1> QED BY <1>3, <1>4, <1>5, <1>6

-----------------------------------------------------------------------------
(* Gateway: what the steps have in common.                                 *)

\* Request r is at f, with response v and history e.
Moves(r, f, v, e) ==
    /\ flow' = [flow EXCEPT ![r] = f]
    /\ response' = [response EXCEPT ![r] = v]
    /\ log' = [log EXCEPT ![r] = e]

LEMMA Settles ==
    ASSUME PipelineInv, NEW r \in Sender, NEW f \in Flow, NEW q \in Traffic,
           NEW v \in Pipeline!Response, NEW e \in LogEntry, Moves(r, f, v, e),
           sent' = [sent EXCEPT ![r] = q], job' = job,
           records' \in [IdempotencyKey -> Recorded], slots' <= MaxSlots,
           \/ slots' = slots /\ (Holds(f) <=> Holds(flow[r]))
           \/ slots' = slots + 1 /\ Holds(f) /\ ~Holds(flow[r])
           \/ slots' = slots - 1 /\ ~Holds(f) /\ Holds(flow[r]),
           "audit" \in Installed => Fits(f, q, v, e)
    PROVE  PipelineInv'
<1> USE DEF PipelineInv, Moves
<1>1. PipelineTyped'
  BY DEF PipelineTyped
<1>2. flow'[r] = f /\ \A s \in Sender \ {r} : flow'[s] = flow[s]
  BY DEF PipelineTyped
<1>3. IsFiniteSet(Sender) /\ IsFiniteSet(Holders) /\ IsFiniteSet(Jobs) /\ Jobs' = Jobs
  <2>1. IsFiniteSet(Sender) /\ IsFiniteSet(Worker)
    BY PipelineAssumption DEF Pipeline!GatewayAssumption, Pipeline!IsFiniteSet, IsFiniteSet
  <2>2. Holders \subseteq Sender /\ Jobs \subseteq Worker
    BY DEF Holders, Jobs
  <2>3. Jobs' = Jobs
    BY DEF Jobs
  <2> QED BY <2>1, <2>2, <2>3, FS_Subset
<1>4. Cardinality(Holders) \in Nat /\ Cardinality(Jobs) \in Nat
  BY <1>3, FS_CardinalityType
<1>5. HoldsCount'
  <2>1. CASE slots' = slots /\ (Holds(f) <=> Holds(flow[r]))
    <3>1. Holders' = Holders
      BY <2>1, <1>2 DEF Holders
    <3> QED BY <2>1, <3>1, <1>3 DEF HoldsCount
  <2>2. CASE slots' = slots + 1 /\ Holds(f) /\ ~Holds(flow[r])
    <3>1. Holders' = Holders \cup {r} /\ r \notin Holders
      BY <2>2, <1>2 DEF Holders
    <3>2. Cardinality(Holders') = Cardinality(Holders) + 1
      BY <3>1, <1>3, FS_AddElement
    <3> QED BY <2>2, <3>2, <1>3, <1>4 DEF HoldsCount
  <2>3. CASE slots' = slots - 1 /\ ~Holds(f) /\ Holds(flow[r])
    <3>1. Holders' = Holders \ {r} /\ r \in Holders
      BY <2>3, <1>2 DEF Holders
    <3>2. Cardinality(Holders') = Cardinality(Holders) - 1
      BY <3>1, <1>3, FS_RemoveElement
    <3> QED BY <2>3, <3>2, <1>3, <1>4 DEF HoldsCount
  <2> QED BY <2>1, <2>2, <2>3
<1>6. AllFit'
  <2> SUFFICES ASSUME "audit" \in Installed, NEW s \in Sender
               PROVE  Fits(flow'[s], sent'[s], response'[s], log'[s])
    BY DEF AllFit
  <2>1. CASE s = r
    BY <2>1 DEF PipelineTyped
  <2>2. CASE s # r
    <3>1. /\ flow'[s] = flow[s] /\ sent'[s] = sent[s]
          /\ response'[s] = response[s] /\ log'[s] = log[s]
      BY <2>2 DEF PipelineTyped
    <3> QED BY <3>1 DEF AllFit
  <2> QED BY <2>1, <2>2
<1> QED BY <1>1, <1>5, <1>6

\* The stage that a request is at.
LEMMA AtStage ==
    ASSUME PipelineInv, NEW r \in Sender, NEW s, NEW phase, Pipeline!At(r, s, phase)
    PROVE  /\ flow[r] \in Flow /\ flow[r].phase = phase
           /\ flow[r].at \in DOMAIN Pipeline!Chain /\ Pipeline!Chain[flow[r].at] = s
           /\ flow[r].at \in 1 .. Pipeline!Endpoint /\ flow[r].at # Pipeline!Endpoint
           /\ s \in Pipeline!Stage
<1>1. /\ flow[r].phase = phase /\ flow[r].at \in 1 .. Len(Pipeline!Chain)
      /\ Pipeline!Chain[flow[r].at] = s
  BY DEF Pipeline!At
<1> QED BY <1>1, ChainFacts DEF PipelineInv, PipelineTyped

LEMMA Entries ==
    ASSUME PipelineInv, NEW r \in Sender
    PROVE  /\ flow[r] \in Flow /\ sent[r] \in Traffic /\ response[r] \in Pipeline!Response
           /\ log[r] \in LogEntry /\ sent[r] \in Pipeline!Shape
           /\ "audit" \in Installed => Fits(flow[r], sent[r], response[r], log[r])
  BY PipelineAssumption DEF PipelineInv, PipelineTyped, AllFit, Pipeline!GatewayAssumption

\* Back with a response or an exception, past anything but a quota to give back.
LEMMA Back ==
    ASSUME PipelineInv, NEW r \in Sender, NEW phase \in {"up", "raise"},
           Pipeline!Leave(r, phase), flow[r].at \in 1 .. Pipeline!Endpoint,
           flow[r].phase = "down" \/
             /\ flow[r].phase \in {"up", "raise"}
             /\ \A i \in DOMAIN Pipeline!Chain : Pipeline!Chain[i] = "quota" => i # flow[r].at,
           NEW v \in Pipeline!Response, NEW e \in LogEntry,
           response' = [response EXCEPT ![r] = v], log' = [log EXCEPT ![r] = e],
           UNCHANGED <<sent, slots, job>>, records' \in [IdempotencyKey -> Recorded],
           "audit" \in Installed =>
               Fits([phase |-> phase, at |-> flow[r].at - 1], sent[r], v, e)
    PROVE  PipelineInv'
<1> DEFINE f == [phase |-> phase, at |-> flow[r].at - 1]
<1>1. flow' = [flow EXCEPT ![r] = f]
  BY DEF Pipeline!Leave
<1>2. flow[r] \in Flow /\ sent[r] \in Traffic
  BY Entries
<1>3. f \in Flow
  <2>1. flow[r].at - 1 \in 0 .. Pipeline!Endpoint
    BY ChainFacts
  <2> QED BY <2>1 DEF Flow
<1>4. Goes(flow[r], f)
  BY DEF Goes
<1>5. Holds(f) <=> Holds(flow[r])
  <2>1. CASE \A i \in DOMAIN Pipeline!Chain : Pipeline!Chain[i] = "quota" => i # flow[r].at
    BY <2>1, <1>2, <1>4, PastTheQuota
  <2>2. CASE \E i \in DOMAIN Pipeline!Chain : Pipeline!Chain[i] = "quota" /\ i = flow[r].at
    <3>1. ~Holds(flow[r]) /\ (Holds(f) <=> f.phase = "down")
      <4> HIDE DEF f
      <4> QED BY <2>2, <1>2, <1>4, AtTheQuota
    <3> QED BY <3>1
  <2> QED BY <2>1, <2>2
<1>6. slots' <= MaxSlots /\ sent' = [sent EXCEPT ![r] = sent[r]]
  BY DEF PipelineInv, PipelineTyped
<1> HIDE DEF f
<1> QED BY <1>1, <1>2, <1>3, <1>5, <1>6, Settles DEF Moves, f

LEMMA Onward ==
    ASSUME PipelineInv, NEW r \in Sender, NEW s \in Pipeline!Stage, s # "quota",
           Pipeline!At(r, s, "down"), Pipeline!CallNext(r),
           NEW e \in LogEntry, response' = response, log' = [log EXCEPT ![r] = e],
           UNCHANGED <<sent, slots, records, job>>,
           e.audited = log[r].audited, e.announced = log[r].announced, e.fault = log[r].fault
    PROVE  PipelineInv'
<1> DEFINE f == [phase |-> "down", at |-> flow[r].at + 1]
<1>1. /\ flow[r] \in Flow /\ flow[r].phase = "down" /\ flow[r].at \in DOMAIN Pipeline!Chain
      /\ Pipeline!Chain[flow[r].at] = s /\ flow[r].at \in 1 .. Pipeline!Endpoint
      /\ flow[r].at # Pipeline!Endpoint
  BY AtStage
<1>2. /\ sent[r] \in Traffic /\ response[r] \in Pipeline!Response
      /\ "audit" \in Installed => Fits(flow[r], sent[r], response[r], log[r])
  BY Entries
<1>3. flow' = [flow EXCEPT ![r] = f]
  <2>1. [flow[r] EXCEPT !.at = flow[r].at + 1] = f
    BY <1>1 DEF Flow
  <2>2. flow' = [flow EXCEPT ![r] = [flow[r] EXCEPT !.at = flow[r].at + 1]]
    BY DEF Pipeline!CallNext, PipelineInv, PipelineTyped
  <2> HIDE DEF f
  <2> QED BY <2>1, <2>2
<1>4. f \in Flow
  <2>1. flow[r].at + 1 \in 0 .. Pipeline!Endpoint
    BY <1>1, ChainFacts
  <2> QED BY <2>1 DEF Flow
<1>5. Holds(f) <=> Holds(flow[r])
  <2>1. Goes(flow[r], f)
    BY <1>1 DEF Goes
  <2>2. \A i \in DOMAIN Pipeline!Chain : Pipeline!Chain[i] = "quota" => i # flow[r].at
    BY <1>1
  <2> QED BY <1>1, <2>1, <2>2, PastTheQuota
<1>6. /\ slots' <= MaxSlots /\ sent' = [sent EXCEPT ![r] = sent[r]]
      /\ response' = [response EXCEPT ![r] = response[r]]
      /\ records' \in [IdempotencyKey -> Recorded]
  BY DEF PipelineInv, PipelineTyped
<1>7. "audit" \in Installed => Fits(f, sent[r], response[r], e)
  BY <1>1, <1>2 DEF Fits
<1> HIDE DEF f
<1> QED BY <1>2, <1>3, <1>4, <1>5, <1>6, <1>7, Settles DEF Moves

\* Inside of the audit.
Inner(p) ==
    /\ p \in 1 .. Pipeline!Endpoint
    /\ p \in DOMAIN Pipeline!Chain => Pipeline!Chain[p] \notin {"cors", "audit"}

LEMMA InnerIsWithin ==
    ASSUME NEW p, Inner(p), "audit" \in Installed
    PROVE  Within(p) /\ Within(p - 1)
<1>1. CASE p \in DOMAIN Pipeline!Chain
  BY <1>1, WithinTheAudit DEF Inner
<1>2. CASE p \notin DOMAIN Pipeline!Chain
  <2>1. p = Pipeline!Endpoint
    BY <1>2, ChainFacts DEF Inner
  <2>2. Within(p - 1)
    BY <2>1, WithinTheAudit
  <2>3. Within(p)
    <3>1. DOMAIN Pipeline!Chain \subseteq Nat /\ p \in Nat
      BY <2>1, ChainFacts
    <3> QED BY <2>2, <3>1 DEF Within
  <2> QED BY <2>2, <2>3
<1> QED BY <1>1, <1>2

IsPreflight(q) == q.origin # "none" /\ q.preflight

LEMMA InnerFits ==
    ASSUME NEW p, Inner(p), "audit" \in Installed, NEW q, NEW v, NEW e,
           NEW phase \in {"up", "raise"},
           ~IsPreflight(q) => IF phase = "up" THEN Answering(v, e) ELSE Failing(e)
    PROVE  Fits([phase |-> phase, at |-> p - 1], q, v, e)
  BY InnerIsWithin DEF Fits, IsPreflight

LEMMA InnerWas ==
    ASSUME PipelineInv, NEW r \in Sender, Inner(flow[r].at), "audit" \in Installed,
           ~IsPreflight(sent[r])
    PROVE  /\ flow[r].phase = "down" =>
                log[r].audited = <<>> /\ log[r].announced = <<>> /\ log[r].fault = "none"
           /\ flow[r].phase = "up" => Answering(response[r], log[r])
           /\ flow[r].phase = "raise" => Failing(log[r])
  BY Entries, InnerIsWithin DEF Fits, IsPreflight

Before == {"audit.recorded", "request.accepted"}

Statuses == {"none", "ok", "client_error", "server_error", "refused"}
Authors == Pipeline!Stage \cup {"endpoint", "server"}
Sizes == {"small", "large", "huge"}

LEMMA FreshTyped ==
    ASSUME NEW status \in Statuses, NEW by \in Authors, NEW size \in Sizes
    PROVE  /\ Pipeline!Fresh(status, by, size) \in Pipeline!Response
           /\ Pipeline!Fresh(status, by, size).by = by
           /\ Pipeline!Fresh(status, by, size).status = status
           /\ Pipeline!Fresh(status, by, size).size = size
           /\ ~Pipeline!Fresh(status, by, size).replayed
  BY DEF Pipeline!Fresh, Pipeline!NoResponse, Pipeline!Response, Statuses, Authors, Sizes

LEMMA AnnouncedTyped ==
    ASSUME NEW e \in LogEntry, NEW event \in Pipeline!Event
    PROVE  /\ Pipeline!Announced(e, event) \in LogEntry
           /\ Pipeline!Announced(e, event).audited = e.audited
           /\ Pipeline!Announced(e, event).fault = e.fault
           /\ Pipeline!Announced(e, event).announced = Append(e.announced, event)
           /\ e.announced = <<>> => Pipeline!Announced(e, event).announced = <<event>>
<1>1. e.announced \in Seq(Pipeline!Event)
  BY DEF LogEntry
<1>2. PICK a : a = Append(e.announced, event)
  OBVIOUS
<1>3. a \in Seq(Pipeline!Event) /\ (e.announced = <<>> => a = <<event>>)
  <2>1. a \in Seq(Pipeline!Event)
    BY <1>1, <1>2, AppendProperties
  <2>2. Append(<<>>, event) = <<event>>
    OBVIOUS
  <2> QED BY <2>1, <2>2, <1>2
<1>4. Pipeline!Announced(e, event) = [e EXCEPT !.announced = a]
  BY <1>2 DEF Pipeline!Announced
<1> QED BY <1>2, <1>3, <1>4 DEF LogEntry

LEMMA FaultTyped ==
    ASSUME NEW e \in LogEntry, NEW what \in Raising \cup {"endpoint"}
    PROVE  /\ [e EXCEPT !.fault = what] \in LogEntry
           /\ [e EXCEPT !.fault = what].fault = what
           /\ [e EXCEPT !.fault = what].audited = e.audited
           /\ [e EXCEPT !.fault = what].announced = e.announced
  BY DEF LogEntry

\* An inner stage, or the cors stage with a preflight, raises.
LEMMA RaiseStep ==
    ASSUME PipelineInv, NEW r \in Sender, NEW e \in LogEntry,
           NEW what \in Raising \cup {"endpoint"}, Pipeline!Raise(r, e, what),
           flow[r].at \in 1 .. Pipeline!Endpoint,
           flow[r].phase = "down" \/
             /\ flow[r].phase = "up"
             /\ \A i \in DOMAIN Pipeline!Chain : Pipeline!Chain[i] = "quota" => i # flow[r].at,
           UNCHANGED <<sent, slots, records, job>>,
           "audit" \in Installed /\ ~IsPreflight(sent[r]) =>
               /\ Inner(flow[r].at) /\ what \notin Before
               /\ e.audited = <<>> /\ e.announced \in {<<>>, <<"request.rejected">>}
    PROVE  PipelineInv'
<1> DEFINE g == [e EXCEPT !.fault = what]
<1>1. /\ g \in LogEntry /\ g.fault = what /\ g.audited = e.audited
      /\ g.announced = e.announced
  BY FaultTyped
<1>2. /\ Pipeline!Leave(r, "raise") /\ log' = [log EXCEPT ![r] = g]
      /\ response' = [response EXCEPT ![r] = response[r]]
      /\ records' \in [IdempotencyKey -> Recorded]
  BY DEF Pipeline!Raise, Pipeline!Write, PipelineInv, PipelineTyped
<1>3. what # "none"
  BY PipelineAssumption DEF Pipeline!GatewayAssumption, Pipeline!Event
<1> HIDE DEF g
<1>4. "audit" \in Installed /\ ~IsPreflight(sent[r]) => Failing(g)
  BY <1>1, <1>3 DEF Failing, Before
<1>5. "audit" \in Installed =>
        Fits([phase |-> "raise", at |-> flow[r].at - 1], sent[r], response[r], g)
  <2>1. CASE IsPreflight(sent[r])
    BY <2>1 DEF Fits, IsPreflight
  <2>2. CASE ~IsPreflight(sent[r])
    BY <2>2, <1>4, InnerFits
  <2> QED BY <2>1, <2>2
<1>6. response[r] \in Pipeline!Response
  BY Entries
<1>7. flow[r].phase = "down" \/
        /\ flow[r].phase \in {"up", "raise"}
        /\ \A i \in DOMAIN Pipeline!Chain : Pipeline!Chain[i] = "quota" => i # flow[r].at
  OBVIOUS
<1> QED BY <1>1, <1>2, <1>5, <1>6, <1>7, Back

\* A stage refuses on the way in: an inner one, or cors a preflight.
LEMMA RejectStep ==
    ASSUME PipelineInv, NEW r \in Sender, NEW e \in LogEntry, NEW by \in Pipeline!Stage,
           Pipeline!Reject(r, e, by), flow[r].phase = "down",
           flow[r].at \in 1 .. Pipeline!Endpoint, UNCHANGED <<sent, slots, records, job>>,
           "audit" \in Installed /\ ~IsPreflight(sent[r]) =>
               /\ Inner(flow[r].at)
               /\ e.audited = <<>> /\ e.announced = <<>> /\ e.fault = "none"
    PROVE  PipelineInv'
<1> DEFINE g == Pipeline!Announced(e, "request.rejected")
           v == Pipeline!Fresh("refused", by, "small")
<1>0. "request.rejected" \in Pipeline!Event
  BY DEF Pipeline!Event
<1>1. /\ g \in LogEntry /\ g.audited = e.audited /\ g.fault = e.fault
      /\ e.announced = <<>> => g.announced = <<"request.rejected">>
  BY <1>0, AnnouncedTyped
<1>2. /\ v \in Pipeline!Response /\ v.by = by /\ v.status = "refused"
      /\ v.size = "small" /\ ~v.replayed
  <2>1. "refused" \in Statuses /\ by \in Authors /\ "small" \in Sizes
    BY DEF Statuses, Authors, Sizes
  <2> QED BY <2>1, FreshTyped
<1>3. \/ Pipeline!Write(r, g) /\ Pipeline!Answer(r, v)
      \/ "request.rejected" \in Raising /\ Pipeline!Raise(r, g, "request.rejected")
  BY Zenon DEF Pipeline!Reject, Pipeline!MayRaise
<1> HIDE DEF g, v
<1>4. CASE Pipeline!Write(r, g) /\ Pipeline!Answer(r, v)
  <2>1. /\ Pipeline!Leave(r, "up") /\ log' = [log EXCEPT ![r] = g]
        /\ response' = [response EXCEPT ![r] = v]
        /\ records' \in [IdempotencyKey -> Recorded]
    BY <1>4 DEF Pipeline!Answer, Pipeline!Respond, Pipeline!Write, PipelineInv, PipelineTyped
  <2>2. "audit" \in Installed /\ ~IsPreflight(sent[r]) => Answering(v, g)
    BY <1>1, <1>2 DEF Answering, Refusal
  <2>3. "audit" \in Installed =>
          Fits([phase |-> "up", at |-> flow[r].at - 1], sent[r], v, g)
    <3>1. CASE IsPreflight(sent[r])
      BY <3>1 DEF Fits, IsPreflight
    <3>2. CASE ~IsPreflight(sent[r])
      BY <3>2, <2>2, InnerFits
    <3> QED BY <3>1, <3>2
  <2> QED BY <2>1, <2>3, <1>1, <1>2, Back
<1>5. CASE "request.rejected" \in Raising /\ Pipeline!Raise(r, g, "request.rejected")
  <2>1. "audit" \in Installed /\ ~IsPreflight(sent[r]) =>
           /\ Inner(flow[r].at) /\ "request.rejected" \notin Before
           /\ g.audited = <<>> /\ g.announced \in {<<>>, <<"request.rejected">>}
    BY <1>1 DEF Before
  <2> QED BY <2>1, <1>1, <1>5, RaiseStep
<1> QED BY <1>3, <1>4, <1>5

\* An answer on the way in, and a response changed on the way out.
LEMMA AnswerStep ==
    ASSUME PipelineInv, NEW r \in Sender, NEW v \in Pipeline!Response, NEW e \in LogEntry,
           Pipeline!Leave(r, "up"), response' = [response EXCEPT ![r] = v],
           log' = [log EXCEPT ![r] = e],
           flow[r].at \in 1 .. Pipeline!Endpoint,
           flow[r].phase = "down" \/
             /\ flow[r].phase = "up"
             /\ \A i \in DOMAIN Pipeline!Chain : Pipeline!Chain[i] = "quota" => i # flow[r].at,
           UNCHANGED <<sent, slots, job>>, records' \in [IdempotencyKey -> Recorded],
           "audit" \in Installed /\ ~IsPreflight(sent[r]) =>
               Inner(flow[r].at) /\ Answering(v, e)
    PROVE  PipelineInv'
<1>1. "audit" \in Installed =>
        Fits([phase |-> "up", at |-> flow[r].at - 1], sent[r], v, e)
  <2>1. CASE IsPreflight(sent[r])
    BY <2>1 DEF Fits, IsPreflight
  <2>2. CASE ~IsPreflight(sent[r])
    BY <2>2, InnerFits
  <2> QED BY <2>1, <2>2
<1>2. flow[r].phase = "down" \/
        /\ flow[r].phase \in {"up", "raise"}
        /\ \A i \in DOMAIN Pipeline!Chain : Pipeline!Chain[i] = "quota" => i # flow[r].at
  OBVIOUS
<1> QED BY <1>1, <1>2, Back

-----------------------------------------------------------------------------
(* Gateway: the steps.                                                     *)

\* Records, worker jobs and slots that a step leaves.
LEMMA Untouched ==
    ASSUME PipelineInv, records' = records
    PROVE  records' \in [IdempotencyKey -> Recorded]
  BY DEF PipelineInv, PipelineTyped

LEMMA ArriveStep ==
    ASSUME PipelineInv, NEW r \in Sender, Pipeline!Arrive(r)
    PROVE  PipelineInv'
<1> DEFINE f == [phase |-> "down", at |-> 1]
<1>1. PICK q \in Traffic : sent' = [sent EXCEPT ![r] = q]
  BY DEF Pipeline!Arrive
<1>2. Moves(r, f, Pipeline!NoResponse, Pipeline!NoEntry)
  BY DEF Moves, Pipeline!Arrive, Pipeline!Respond, Pipeline!Write
<1>3. f \in Flow
  <2>1. 1 \in 0 .. Pipeline!Endpoint
    BY ChainFacts
  <2> QED BY <2>1 DEF Flow
<1>4. Pipeline!NoResponse \in Pipeline!Response
  BY DEF Pipeline!NoResponse, Pipeline!Response
<1>5. Pipeline!NoEntry \in LogEntry
  BY DEF Pipeline!NoEntry, LogEntry
<1>6. ~Holds(f) /\ ~Holds(flow[r])
  <2>1. \A i \in DOMAIN Pipeline!Chain : i \in Nat /\ i >= 1
    BY ChainFacts
  <2>2. flow[r].phase = "done"
    BY DEF Pipeline!Arrive
  <2> QED BY <2>1, <2>2 DEF Holds
<1>7. Fits(f, q, Pipeline!NoResponse, Pipeline!NoEntry)
  BY DEF Fits, Pipeline!NoEntry
<1>8. slots' = slots /\ slots' <= MaxSlots /\ job' = job /\ records' = records
  BY DEF Pipeline!Arrive, PipelineInv, PipelineTyped
<1> HIDE DEF f
<1> QED BY <1>1, <1>2, <1>3, <1>4, <1>5, <1>6, <1>7, <1>8, Untouched, Settles

LEMMA LeavesStep ==
    ASSUME PipelineInv, NEW r \in Sender, Pipeline!Leaves(r)
    PROVE  PipelineInv'
<1> DEFINE f == [phase |-> "done", at |-> 0]
           u == Pipeline!Fresh("server_error", "server", "small")
           v == IF flow[r].phase = "raise" THEN u ELSE response[r]
<1>1. /\ flow[r] \in Flow /\ flow[r].at = 0 /\ flow[r].phase \in {"up", "raise"}
      /\ sent[r] \in Traffic /\ response[r] \in Pipeline!Response /\ log[r] \in LogEntry
      /\ "audit" \in Installed => Fits(flow[r], sent[r], response[r], log[r])
  BY Entries DEF Pipeline!Leaves, Pipeline!Server
<1>2. /\ u \in Pipeline!Response /\ u.by = "server" /\ u.status = "server_error"
      /\ ~u.replayed
  <2>1. "server_error" \in Statuses /\ "server" \in Authors /\ "small" \in Sizes
    BY DEF Statuses, Authors, Sizes
  <2> QED BY <2>1, FreshTyped
<1>3. flow' = [flow EXCEPT ![r] = f]
  <2>1. [flow[r] EXCEPT !.phase = "done"] = f
    BY <1>1 DEF Flow
  <2>2. flow' = [flow EXCEPT ![r] = [flow[r] EXCEPT !.phase = "done"]]
    BY DEF Pipeline!Leaves, PipelineInv, PipelineTyped
  <2> HIDE DEF f
  <2> QED BY <2>1, <2>2
<1>4. /\ response' = [response EXCEPT ![r] = v]
      /\ log' = [log EXCEPT ![r] = log[r]]
      /\ sent' = [sent EXCEPT ![r] = sent[r]]
      /\ slots' = slots /\ slots' <= MaxSlots /\ job' = job /\ records' = records
  <2> HIDE DEF u
  <2> QED BY DEF Pipeline!Leaves, Pipeline!Respond, Pipeline!Elsewhere, PipelineInv,
                 PipelineTyped, u
<1>5. f \in Flow
  <2>1. 0 \in 0 .. Pipeline!Endpoint
    BY ChainFacts
  <2> QED BY <2>1 DEF Flow
<1>6. ~Holds(f) /\ ~Holds(flow[r])
  <2>1. \A i \in DOMAIN Pipeline!Chain : i \in Nat /\ i >= 1
    BY ChainFacts
  <2> QED BY <1>1, <2>1 DEF Holds
<1> HIDE DEF u
<1>7. v \in Pipeline!Response
  BY <1>1, <1>2
<1>8. ASSUME "audit" \in Installed
      PROVE  Fits(f, sent[r], v, log[r])
  <2>1. ~Within(0)
    BY <1>8, WithinTheAudit
  <2>2. CASE IsPreflight(sent[r])
    BY <2>2 DEF Fits, IsPreflight
  <2>3. CASE ~IsPreflight(sent[r]) /\ flow[r].phase = "up"
    <3>1. AsAnswered(v, log[r])
      BY <1>1, <1>8, <2>1, <2>3 DEF Fits, IsPreflight
    <3> QED BY <3>1 DEF Fits
  <2>4. CASE ~IsPreflight(sent[r]) /\ flow[r].phase = "raise"
    <3>1. /\ Len(log[r].audited) = 1 /\ Len(log[r].announced) <= 1
          /\ log[r].fault # "none"
          /\ log[r].fault \notin {"audit.recorded", "request.accepted"} =>
                 log[r].audited = <<"failed">>
      BY <1>1, <1>8, <2>1, <2>4 DEF Fits, IsPreflight
    <3>2. v = u /\ Pipeline!Outcome(v) = "failed"
      BY <1>2, <2>4 DEF Pipeline!Outcome
    <3>3. AsAnswered(v, log[r])
      BY <3>1, <3>2 DEF AsAnswered
    <3> QED BY <3>3 DEF Fits
  <2> QED BY <1>1, <2>2, <2>3, <2>4
<1> HIDE DEF f, v
<1> QED BY <1>1, <1>3, <1>4, <1>5, <1>6, <1>7, <1>8, Untouched, Settles DEF Moves

LEMMA EndpointIsInner == Inner(Pipeline!Endpoint)
  BY ChainFacts DEF Inner

LEMMA ExecuteStep ==
    ASSUME PipelineInv, NEW r \in Sender, Pipeline!Execute(r)
    PROVE  PipelineInv'
<1> DEFINE e == [log[r] EXCEPT !.executed = TRUE]
<1>1. /\ flow[r].phase = "down" /\ flow[r].at = Pipeline!Endpoint
      /\ UNCHANGED <<sent, slots, records, job>> /\ flow[r].at \in 1 .. Pipeline!Endpoint
      /\ Inner(flow[r].at)
  BY EndpointIsInner DEF Pipeline!Execute, Pipeline!Elsewhere, Inner
<1>2. /\ e \in LogEntry /\ e.audited = log[r].audited /\ e.announced = log[r].announced
      /\ e.fault = log[r].fault
  BY Entries DEF LogEntry
<1>3. \/ /\ Pipeline!Write(r, e)
         /\ \/ \E size \in {"small", "large", "huge"} :
                 Pipeline!Answer(r, Pipeline!Fresh("ok", "endpoint", size))
            \/ \E status \in {"client_error", "server_error"} :
                 Pipeline!Answer(r, Pipeline!Fresh(status, "endpoint", "small"))
      \/ Pipeline!Raise(r, e, "endpoint")
  BY DEF Pipeline!Execute
<1> HIDE DEF e
<1>4. "audit" \in Installed /\ ~IsPreflight(sent[r]) =>
        e.audited = <<>> /\ e.announced = <<>> /\ e.fault = "none"
  BY <1>1, <1>2, InnerWas
<1>5. ASSUME NEW status \in {"ok", "client_error", "server_error"},
             NEW size \in {"small", "large", "huge"}, Pipeline!Write(r, e),
             Pipeline!Answer(r, Pipeline!Fresh(status, "endpoint", size))
      PROVE  PipelineInv'
  <2>1. PICK v : v = Pipeline!Fresh(status, "endpoint", size)
    OBVIOUS
  <2>2. v \in Pipeline!Response /\ v.by = "endpoint" /\ ~v.replayed
    <3>1. status \in Statuses /\ "endpoint" \in Authors /\ size \in Sizes
      BY DEF Statuses, Authors, Sizes
    <3> QED BY <2>1, <3>1, FreshTyped
  <2>3. /\ Pipeline!Leave(r, "up") /\ response' = [response EXCEPT ![r] = v]
        /\ log' = [log EXCEPT ![r] = e]
    BY <1>5, <2>1 DEF Pipeline!Answer, Pipeline!Respond, Pipeline!Write
  <2>4. ~Refusal(v)
    BY <2>2 DEF Refusal, Pipeline!Stage
  <2>5. "audit" \in Installed /\ ~IsPreflight(sent[r]) => Answering(v, e)
    BY <1>4, <2>4 DEF Answering
  <2> QED BY <1>1, <1>2, <2>2, <2>3, <2>5, Untouched, AnswerStep
<1>6. CASE Pipeline!Raise(r, e, "endpoint")
  BY <1>1, <1>2, <1>4, <1>6, RaiseStep DEF Before
<1> QED BY <1>3, <1>5, <1>6

\* Nothing but the quota counts slots.
NotQuota(n) == \A i \in DOMAIN Pipeline!Chain : Pipeline!Chain[i] = "quota" => i # n

LEMMA Pass ==
    ASSUME PipelineInv, NEW r \in Sender, NEW phase \in {"up", "raise"},
           Pipeline!Leave(r, phase), flow[r].phase = phase,
           flow[r].at \in DOMAIN Pipeline!Chain,
           Pipeline!Chain[flow[r].at] \notin {"audit", "quota"},
           UNCHANGED <<sent, slots, job>>, records' \in [IdempotencyKey -> Recorded],
           NEW v \in Pipeline!Response, response' = [response EXCEPT ![r] = v],
           log' = [log EXCEPT ![r] = log[r]],
           v.by = response[r].by, v.status = response[r].status,
           v.size = response[r].size, v.replayed = response[r].replayed,
           flow[r].phase = "raise" => v = response[r]
    PROVE  PipelineInv'
<1>1. /\ flow[r] \in Flow /\ sent[r] \in Traffic /\ response[r] \in Pipeline!Response
      /\ log[r] \in LogEntry /\ flow[r].at \in 1 .. Pipeline!Endpoint
      /\ "audit" \in Installed => Fits(flow[r], sent[r], response[r], log[r])
  BY Entries, ChainFacts
<1>2. /\ Answering(response[r], log[r]) => Answering(v, log[r])
      /\ AsAnswered(response[r], log[r]) => AsAnswered(v, log[r])
  <2>1. /\ Refusal(v) <=> Refusal(response[r])
        /\ Pipeline!Outcome(v) = Pipeline!Outcome(response[r])
    BY DEF Refusal, Pipeline!Outcome
  <2> QED BY <2>1 DEF Answering, AsAnswered
<1>3. ASSUME "audit" \in Installed
      PROVE  Fits([phase |-> phase, at |-> flow[r].at - 1], sent[r], v, log[r])
  <2>1. Within(flow[r].at) <=> Within(flow[r].at - 1)
    BY <1>3, WithinTheAudit
  <2> QED BY <1>1, <1>2, <1>3, <2>1 DEF Fits
<1>4. \A i \in DOMAIN Pipeline!Chain : Pipeline!Chain[i] = "quota" => i # flow[r].at
  OBVIOUS
<1> QED BY <1>1, <1>3, <1>4, Back

LEMMA UnwindStep ==
    ASSUME PipelineInv, NEW r \in Sender, Pipeline!Unwind(r)
    PROVE  PipelineInv'
<1>1. PICK s \in Pipeline!Stage \ {"audit", "quota"} : Pipeline!At(r, s, "raise")
  BY DEF Pipeline!Unwind
<1>2. /\ Pipeline!Leave(r, "raise") /\ UNCHANGED <<sent, slots, job, records>>
      /\ response' = [response EXCEPT ![r] = response[r]]
      /\ log' = [log EXCEPT ![r] = log[r]]
  BY DEF Pipeline!Unwind, Pipeline!Pass, Pipeline!Elsewhere, PipelineInv, PipelineTyped
<1> QED BY <1>1, <1>2, AtStage, Entries, Untouched, Pass

\* The steps of the stages: which stage, and what the guard says.
LEMMA Kept ==
    ASSUME PipelineInv, NEW r \in Sender
    PROVE  /\ response = [response EXCEPT ![r] = response[r]]
           /\ log = [log EXCEPT ![r] = log[r]]
           /\ sent = [sent EXCEPT ![r] = sent[r]]
  BY DEF PipelineInv, PipelineTyped

\* The history of a request on its way in.
LEMMA Going ==
    ASSUME PipelineInv, NEW r \in Sender, flow[r].phase = "down",
           "audit" \in Installed, ~IsPreflight(sent[r])
    PROVE  log[r].audited = <<>> /\ log[r].announced = <<>> /\ log[r].fault = "none"
  BY Entries DEF Fits, IsPreflight

LEMMA CorsInStep ==
    ASSUME PipelineInv, NEW r \in Sender, Pipeline!CorsIn(r)
    PROVE  PipelineInv'
<1>1. /\ flow[r].phase = "down" /\ flow[r].at \in 1 .. Pipeline!Endpoint
      /\ Pipeline!At(r, "cors", "down") /\ "cors" \in Pipeline!Stage
      /\ UNCHANGED <<sent, slots, records, job>> /\ log[r] \in LogEntry
  BY AtStage, Entries DEF Pipeline!CorsIn, Pipeline!Elsewhere
<1>2. CASE ~IsPreflight(sent[r])
  <2>1. Pipeline!CallNext(r) /\ response' = response /\ log' = log
    BY <1>2 DEF Pipeline!CorsIn, IsPreflight
  <2>2. log' = [log EXCEPT ![r] = log[r]]
    BY <2>1, Kept
  <2> QED BY <1>1, <2>1, <2>2, Onward
<1>3. CASE IsPreflight(sent[r]) /\ Pipeline!Reject(r, log[r], "cors")
  BY <1>1, <1>3, RejectStep
<1>4. CASE IsPreflight(sent[r]) /\ ~Pipeline!Reject(r, log[r], "cors")
  <2>1. PICK u : u = Pipeline!Fresh("ok", "cors", "small")
    OBVIOUS
  <2>2. u \in Pipeline!Response
    <3>1. "ok" \in Statuses /\ "cors" \in Authors /\ "small" \in Sizes
      BY DEF Statuses, Authors, Sizes, Pipeline!Stage
    <3> QED BY <2>1, <3>1, FreshTyped, Zenon
  <2>3. PICK v : v = [u EXCEPT !.cors = TRUE, !.vary = {"Origin"}]
    OBVIOUS
  <2>4. v \in Pipeline!Response
    BY <2>2, <2>3 DEF Pipeline!Response
  <2>5. Pipeline!Answer(r, v) /\ UNCHANGED log
    BY <1>4, <2>1, <2>3 DEF Pipeline!CorsIn, IsPreflight
  <2>6. /\ Pipeline!Leave(r, "up") /\ response' = [response EXCEPT ![r] = v]
        /\ log' = [log EXCEPT ![r] = log[r]]
    BY <2>5, Kept DEF Pipeline!Answer, Pipeline!Respond
  <2> QED BY <1>1, <1>4, <2>4, <2>6, Untouched, AnswerStep
<1> QED BY <1>2, <1>3, <1>4

LEMMA CorsOutStep ==
    ASSUME PipelineInv, NEW r \in Sender, Pipeline!CorsOut(r)
    PROVE  PipelineInv'
<1>1. /\ flow[r].phase = "up" /\ flow[r].at \in DOMAIN Pipeline!Chain
      /\ Pipeline!Chain[flow[r].at] \notin {"audit", "quota"}
      /\ UNCHANGED <<sent, slots, records, job>> /\ Pipeline!Leave(r, "up")
      /\ log' = [log EXCEPT ![r] = log[r]] /\ response[r] \in Pipeline!Response
  BY AtStage, Entries, Kept DEF Pipeline!CorsOut, Pipeline!Elsewhere
<1>2. PICK v : v = IF sent[r].origin = "allowed"
                   THEN [response[r] EXCEPT !.cors = TRUE, !.vary = {"Origin"}]
                   ELSE response[r]
  OBVIOUS
<1>3. /\ v \in Pipeline!Response /\ v.by = response[r].by /\ v.status = response[r].status
      /\ v.size = response[r].size /\ v.replayed = response[r].replayed
  BY <1>1, <1>2 DEF Pipeline!Response
<1>4. response' = [response EXCEPT ![r] = v]
  BY <1>2, Kept DEF Pipeline!CorsOut, Pipeline!Respond
<1> QED BY <1>1, <1>3, <1>4, Untouched, Pass

LEMMA GoInStep ==
    ASSUME PipelineInv, NEW r \in Sender, Pipeline!GoIn(r)
    PROVE  PipelineInv'
<1>1. PICK s \in {"audit", "compression"} : Pipeline!At(r, s, "down")
  BY DEF Pipeline!GoIn
<1>2. /\ Pipeline!CallNext(r) /\ response' = response /\ log[r] \in LogEntry
      /\ log' = [log EXCEPT ![r] = log[r]] /\ UNCHANGED <<sent, slots, records, job>>
  BY Kept, Entries DEF Pipeline!GoIn, Pipeline!Elsewhere
<1>3. s \in Pipeline!Stage /\ s # "quota"
  BY DEF Pipeline!Stage
<1> QED BY <1>1, <1>2, <1>3, Onward

\* A stage inside of the audit.
LEMMA InnerStage ==
    ASSUME PipelineInv, NEW r \in Sender, NEW s, NEW phase, Pipeline!At(r, s, phase),
           s \notin {"cors", "audit"}
    PROVE  Inner(flow[r].at)
  BY AtStage DEF Inner

LEMMA StampStep ==
    ASSUME PipelineInv, NEW r \in Sender, NEW s, s \notin {"audit", "quota"},
           Pipeline!At(r, s, "up"), NEW header \in {"X-API-Version", "X-RateLimit"},
           Pipeline!Stamp(r, header), Pipeline!Leave(r, "up"), UNCHANGED log,
           Pipeline!Elsewhere
    PROVE  PipelineInv'
<1>1. /\ flow[r].phase = "up" /\ flow[r].at \in DOMAIN Pipeline!Chain
      /\ Pipeline!Chain[flow[r].at] \notin {"audit", "quota"}
      /\ UNCHANGED <<sent, slots, records, job>>
      /\ log' = [log EXCEPT ![r] = log[r]] /\ response[r] \in Pipeline!Response
  BY AtStage, Entries, Kept DEF Pipeline!Elsewhere
<1>2. PICK v : v = [response[r] EXCEPT !.stamps = response[r].stamps \cup {header}]
  OBVIOUS
<1>3. /\ v \in Pipeline!Response /\ v.by = response[r].by /\ v.status = response[r].status
      /\ v.size = response[r].size /\ v.replayed = response[r].replayed
  BY <1>1, <1>2 DEF Pipeline!Response
<1>4. response' = [response EXCEPT ![r] = v]
  BY <1>2 DEF Pipeline!Stamp, Pipeline!Respond
<1> QED BY <1>1, <1>3, <1>4, Untouched, Pass

LEMMA VersioningInStep ==
    ASSUME PipelineInv, NEW r \in Sender, Pipeline!VersioningIn(r)
    PROVE  PipelineInv'
<1>1. /\ flow[r].phase = "down" /\ flow[r].at \in 1 .. Pipeline!Endpoint
      /\ Pipeline!At(r, "versioning", "down") /\ "versioning" \in Pipeline!Stage
      /\ UNCHANGED <<sent, slots, records, job>> /\ log[r] \in LogEntry
      /\ Inner(flow[r].at)
  BY AtStage, Entries, InnerStage DEF Pipeline!VersioningIn, Pipeline!Elsewhere
<1>2. CASE Pipeline!CallNext(r) /\ UNCHANGED <<response, log>>
  BY <1>1, <1>2, Kept, Onward
<1>3. CASE Pipeline!MayRaise(r, log[r], "version.negotiated")
  <2>1. "version.negotiated" \in Raising \cup {"endpoint"}
        /\ Pipeline!Raise(r, log[r], "version.negotiated")
    BY <1>3 DEF Pipeline!MayRaise
  <2> QED BY <1>1, <2>1, Going, RaiseStep DEF Before
<1>4. CASE Pipeline!Reject(r, log[r], "versioning")
  BY <1>1, <1>4, Going, RejectStep
<1> QED BY <1>2, <1>3, <1>4 DEF Pipeline!VersioningIn

LEMMA ValidationInStep ==
    ASSUME PipelineInv, NEW r \in Sender, Pipeline!ValidationIn(r)
    PROVE  PipelineInv'
<1>1. /\ flow[r].phase = "down" /\ flow[r].at \in 1 .. Pipeline!Endpoint
      /\ Pipeline!At(r, "validation", "down") /\ "validation" \in Pipeline!Stage
      /\ UNCHANGED <<sent, slots, records, job>> /\ log[r] \in LogEntry
      /\ Inner(flow[r].at)
  BY AtStage, Entries, InnerStage DEF Pipeline!ValidationIn, Pipeline!Elsewhere
<1>2. CASE Pipeline!CallNext(r) /\ UNCHANGED <<response, log>>
  BY <1>1, <1>2, Kept, Onward
<1>3. CASE Pipeline!Reject(r, log[r], "validation")
  BY <1>1, <1>3, Going, RejectStep
<1> QED BY <1>2, <1>3 DEF Pipeline!ValidationIn

LEMMA CompressionOutStep ==
    ASSUME PipelineInv, NEW r \in Sender, Pipeline!CompressionOut(r)
    PROVE  PipelineInv'
<1>1. /\ flow[r].phase = "up" /\ flow[r].at \in DOMAIN Pipeline!Chain
      /\ Pipeline!Chain[flow[r].at] = "compression"
      /\ Inner(flow[r].at) /\ flow[r].at \in 1 .. Pipeline!Endpoint
      /\ UNCHANGED <<sent, slots, records, job>>
      /\ log[r] \in LogEntry /\ response[r] \in Pipeline!Response
  BY AtStage, Entries, InnerStage DEF Pipeline!CompressionOut, Pipeline!Elsewhere
<1>2. CASE Pipeline!Pass(r, "up")
  <2>1. /\ Pipeline!Leave(r, "up") /\ log' = [log EXCEPT ![r] = log[r]]
        /\ response' = [response EXCEPT ![r] = response[r]]
    BY <1>2, Kept DEF Pipeline!Pass
  <2> QED BY <1>1, <2>1, Untouched, Pass
<1>3. CASE /\ Pipeline!Respond(r, [response[r] EXCEPT !.encoded = TRUE,
                                     !.vary = response[r].vary \cup {"Accept-Encoding"}])
           /\ Pipeline!Leave(r, "up") /\ UNCHANGED log
  <2>1. PICK u : u = [response[r] EXCEPT !.encoded = TRUE]
    OBVIOUS
  <2>2. /\ u \in Pipeline!Response /\ u.by = response[r].by /\ u.status = response[r].status
        /\ u.size = response[r].size /\ u.replayed = response[r].replayed
        /\ u.vary = response[r].vary
    BY <1>1, <2>1 DEF Pipeline!Response
  <2>3. PICK v : v = [u EXCEPT !.vary = response[r].vary \cup {"Accept-Encoding"}]
    OBVIOUS
  <2>4. /\ v \in Pipeline!Response /\ v.by = u.by /\ v.status = u.status
        /\ v.size = u.size /\ v.replayed = u.replayed
    BY <2>2, <2>3 DEF Pipeline!Response
  <2>5. response' = [response EXCEPT ![r] = v] /\ log' = [log EXCEPT ![r] = log[r]]
    BY <1>3, <2>1, <2>3, Kept DEF Pipeline!Respond
  <2> QED BY <1>1, <1>3, <2>2, <2>4, <2>5, Untouched, Pass
<1>4. CASE Pipeline!MayRaise(r, log[r], "request.compressed")
  <2>1. "request.compressed" \in Raising \cup {"endpoint"}
        /\ Pipeline!Raise(r, log[r], "request.compressed")
    BY <1>4 DEF Pipeline!MayRaise
  <2>2. "audit" \in Installed /\ ~IsPreflight(sent[r]) =>
           log[r].audited = <<>> /\ log[r].announced \in {<<>>, <<"request.rejected">>}
    BY <1>1, InnerWas DEF Answering
  <2> QED BY <1>1, <2>1, <2>2, RaiseStep DEF Before
<1> QED BY <1>2, <1>3, <1>4 DEF Pipeline!CompressionOut

LEMMA OutcomeTyped ==
    ASSUME NEW v
    PROVE  /\ Pipeline!Outcome(v) \in Outcomes
           /\ Refusal(v) /\ v.status \in {"refused", "server_error"} =>
                Pipeline!Outcome(v) \in {"failed", "rejected"}
  BY DEF Pipeline!Outcome, Outcomes, Refusal

LEMMA AuditedTyped ==
    ASSUME NEW e \in LogEntry, NEW outcome \in Outcomes
    PROVE  /\ Pipeline!Audited(e, outcome) \in LogEntry
           /\ Pipeline!Audited(e, outcome).fault = e.fault
           /\ Pipeline!Audited(e, outcome).announced = e.announced
           /\ e.audited = <<>> => Pipeline!Audited(e, outcome).audited = <<outcome>>
<1>1. e.audited \in Seq(Outcomes)
  BY DEF LogEntry
<1>2. PICK a : a = Append(e.audited, outcome)
  OBVIOUS
<1>3. a \in Seq(Outcomes) /\ (e.audited = <<>> => a = <<outcome>>)
  <2>1. a \in Seq(Outcomes)
    BY <1>1, <1>2, AppendProperties
  <2>2. Append(<<>>, outcome) = <<outcome>>
    OBVIOUS
  <2> QED BY <2>1, <2>2, <1>2
<1>4. Pipeline!Audited(e, outcome) = [e EXCEPT !.audited = a]
  BY <1>2 DEF Pipeline!Audited
<1> QED BY <1>3, <1>4 DEF LogEntry

\* Of the histories with one announcement.
LEMMA OneEvent ==
    /\ Len(<<>>) = 0 /\ \A x : Len(<<x>>) = 1
    /\ \A x : <<x>> # <<>>
    /\ <<"request.rejected">> # <<"request.accepted">>
  OBVIOUS

\* Out of the audit, with an entry written.
LEMMA OutOfTheAudit ==
    ASSUME PipelineInv, NEW r \in Sender, NEW phase \in {"up", "raise"},
           NEW was \in {"up", "raise"}, Pipeline!At(r, "audit", was),
           Pipeline!Leave(r, phase), NEW e \in LogEntry,
           log' = [log EXCEPT ![r] = e], UNCHANGED <<response, sent, slots, records, job>>,
           "audit" \in Installed /\ ~IsPreflight(sent[r]) =>
               IF phase = "up" THEN e.fault = "none" /\ AsAnswered(response[r], e)
               ELSE /\ Len(e.audited) = 1 /\ Len(e.announced) <= 1 /\ e.fault # "none"
                    /\ e.fault \notin {"audit.recorded", "request.accepted"} =>
                           e.audited = <<"failed">>
    PROVE  PipelineInv'
<1>1. /\ flow[r].at \in DOMAIN Pipeline!Chain /\ Pipeline!Chain[flow[r].at] = "audit"
      /\ flow[r].at \in 1 .. Pipeline!Endpoint /\ flow[r].phase = was
  BY AtStage
<1>2. "audit" \in Installed =>
        Fits([phase |-> phase, at |-> flow[r].at - 1], sent[r], response[r], e)
  BY <1>1, WithinTheAudit DEF Fits, IsPreflight
<1>3. /\ response' = [response EXCEPT ![r] = response[r]]
      /\ response[r] \in Pipeline!Response
  BY Kept, Entries
<1>4. flow[r].phase = "down" \/
        /\ flow[r].phase \in {"up", "raise"}
        /\ \A i \in DOMAIN Pipeline!Chain : Pipeline!Chain[i] = "quota" => i # flow[r].at
  BY <1>1
<1> QED BY <1>1, <1>2, <1>3, <1>4, Untouched, Back

\* At the audit, on the way out.
LEMMA AtTheAudit ==
    ASSUME PipelineInv, NEW r \in Sender, NEW phase, Pipeline!At(r, "audit", phase),
           "audit" \in Installed, ~IsPreflight(sent[r])
    PROVE  /\ phase = "up" => Answering(response[r], log[r])
           /\ phase = "raise" => Failing(log[r])
  BY AtStage, Entries, WithinTheAudit DEF Fits, IsPreflight

LEMMA AuditOutStep ==
    ASSUME PipelineInv, NEW r \in Sender, Pipeline!AuditOut(r)
    PROVE  PipelineInv'
<1>1. PICK o : o = Pipeline!Outcome(response[r])
  OBVIOUS
<1>2. PICK e : e = Pipeline!Audited(log[r], o)
  OBVIOUS
<1>3. PICK t : t = IF o = "accepted" THEN Pipeline!Announced(e, "request.accepted") ELSE e
  OBVIOUS
<1>4. /\ Pipeline!At(r, "audit", "up") /\ UNCHANGED <<sent, slots, records, job>>
      /\ \/ Pipeline!Write(r, t) /\ Pipeline!Leave(r, "up") /\ UNCHANGED response
         \/ Pipeline!MayRaise(r, e, "audit.recorded")
         \/ o = "accepted" /\ Pipeline!MayRaise(r, t, "request.accepted")
  BY <1>1, <1>2, <1>3 DEF Pipeline!AuditOut, Pipeline!Elsewhere
<1>5. o \in Outcomes /\ log[r] \in LogEntry
  BY <1>1, OutcomeTyped, Entries
<1>6. /\ e \in LogEntry /\ e.fault = log[r].fault /\ e.announced = log[r].announced
      /\ log[r].audited = <<>> => e.audited = <<o>>
  BY <1>2, <1>5, AuditedTyped
<1>7. "request.accepted" \in Pipeline!Event
  BY DEF Pipeline!Event
<1>8. /\ t \in LogEntry /\ t.fault = e.fault /\ t.audited = e.audited
      /\ o # "accepted" => t.announced = e.announced
      /\ o = "accepted" /\ e.announced = <<>> => t.announced = <<"request.accepted">>
  BY <1>3, <1>6, <1>7, AnnouncedTyped
<1>9. ASSUME "audit" \in Installed, ~IsPreflight(sent[r])
      PROVE  /\ e.audited = <<o>> /\ t.audited = <<o>>
             /\ t.fault = "none" /\ AsAnswered(response[r], t)
             /\ Len(e.announced) <= 1 /\ Len(t.announced) <= 1
             /\ Len(e.audited) = 1 /\ Len(t.audited) = 1
  <2>1. Answering(response[r], log[r])
    BY <1>4, <1>9, AtTheAudit
  <2>2. /\ e.audited = <<o>> /\ t.audited = <<o>> /\ t.fault = "none"
        /\ Len(e.audited) = 1 /\ Len(t.audited) = 1
    BY <2>1, <1>6, <1>8, OneEvent DEF Answering
  <2>3. CASE Refusal(response[r])
    <3>1. o \in {"failed", "rejected"}
      BY <2>1, <2>3, <1>1, OutcomeTyped DEF Answering
    <3>2. e.announced = <<"request.rejected">> /\ t.announced = <<"request.rejected">>
      BY <2>1, <2>3, <3>1, <1>6, <1>8 DEF Answering
    <3>3. Len(e.announced) <= 1 /\ Len(t.announced) <= 1
      BY <3>2, OneEvent
    <3>4. AsAnswered(response[r], t)
      BY <3>1, <3>2, <3>3, <2>2, <1>1, OneEvent DEF AsAnswered
    <3> QED BY <2>2, <3>3, <3>4
  <2>4. CASE ~Refusal(response[r])
    <3>1. /\ e.announced = <<>>
          /\ t.announced = IF o = "accepted" THEN <<"request.accepted">> ELSE <<>>
      BY <2>1, <2>4, <1>6, <1>8 DEF Answering
    <3>2. /\ Len(e.announced) <= 1 /\ Len(t.announced) <= 1
          /\ o = "accepted" <=> t.announced = <<"request.accepted">>
      BY <3>1, OneEvent
    <3>3. AsAnswered(response[r], t)
      BY <3>2, <2>2, <2>4, <1>1 DEF AsAnswered
    <3> QED BY <2>2, <3>2, <3>3
  <2> QED BY <2>3, <2>4
<1>10. CASE Pipeline!Write(r, t) /\ Pipeline!Leave(r, "up") /\ UNCHANGED response
  <2>1. log' = [log EXCEPT ![r] = t]
    BY <1>10 DEF Pipeline!Write
  <2> QED BY <2>1, <1>4, <1>8, <1>9, <1>10, OutOfTheAudit
<1>11. CASE Pipeline!MayRaise(r, e, "audit.recorded")
  <2>1. /\ "audit.recorded" \in Raising \cup {"endpoint"}
        /\ Pipeline!Raise(r, e, "audit.recorded")
    BY <1>11 DEF Pipeline!MayRaise
  <2>2. PICK g : g = [e EXCEPT !.fault = "audit.recorded"]
    OBVIOUS
  <2>3. /\ g \in LogEntry /\ g.fault = "audit.recorded" /\ g.audited = e.audited
        /\ g.announced = e.announced
    BY <2>1, <2>2, <1>6, FaultTyped
  <2>4. /\ Pipeline!Leave(r, "raise") /\ log' = [log EXCEPT ![r] = g]
        /\ UNCHANGED response
    BY <2>1, <2>2 DEF Pipeline!Raise, Pipeline!Write
  <2> QED BY <2>3, <2>4, <1>4, <1>9, OutOfTheAudit
<1>12. CASE o = "accepted" /\ Pipeline!MayRaise(r, t, "request.accepted")
  <2>1. /\ "request.accepted" \in Raising \cup {"endpoint"}
        /\ Pipeline!Raise(r, t, "request.accepted")
    BY <1>12 DEF Pipeline!MayRaise
  <2>2. PICK g : g = [t EXCEPT !.fault = "request.accepted"]
    OBVIOUS
  <2>3. /\ g \in LogEntry /\ g.fault = "request.accepted" /\ g.audited = t.audited
        /\ g.announced = t.announced
    BY <2>1, <2>2, <1>8, FaultTyped
  <2>4. /\ Pipeline!Leave(r, "raise") /\ log' = [log EXCEPT ![r] = g]
        /\ UNCHANGED response
    BY <2>1, <2>2 DEF Pipeline!Raise, Pipeline!Write
  <2> QED BY <2>3, <2>4, <1>4, <1>9, OutOfTheAudit
<1> QED BY <1>4, <1>10, <1>11, <1>12

LEMMA AuditUnwindsStep ==
    ASSUME PipelineInv, NEW r \in Sender, Pipeline!AuditUnwinds(r)
    PROVE  PipelineInv'
<1>1. PICK e : e = Pipeline!Audited(log[r], "failed")
  OBVIOUS
<1>2. /\ Pipeline!At(r, "audit", "raise") /\ UNCHANGED <<sent, slots, records, job>>
      /\ \/ Pipeline!Write(r, e) /\ Pipeline!Leave(r, "raise") /\ UNCHANGED response
         \/ Pipeline!MayRaise(r, e, "audit.recorded")
  BY <1>1 DEF Pipeline!AuditUnwinds, Pipeline!Elsewhere
<1>3. /\ e \in LogEntry /\ e.fault = log[r].fault /\ e.announced = log[r].announced
      /\ log[r].audited = <<>> => e.audited = <<"failed">>
  BY <1>1, Entries, AuditedTyped DEF Outcomes
<1>4. ASSUME "audit" \in Installed, ~IsPreflight(sent[r])
      PROVE  /\ e.audited = <<"failed">> /\ Len(e.audited) = 1
             /\ e.fault # "none" /\ Len(e.announced) <= 1
  <2>1. Failing(log[r])
    BY <1>2, <1>4, AtTheAudit
  <2>2. e.audited = <<"failed">> /\ e.fault # "none"
    BY <2>1, <1>3 DEF Failing
  <2>3. e.announced = <<>> \/ e.announced = <<"request.rejected">>
    BY <2>1, <1>3 DEF Failing
  <2>4. Len(e.audited) = 1
    BY <2>2, OneEvent
  <2>5. Len(e.announced) <= 1
    <3>1. CASE e.announced = <<>>
      BY <3>1, OneEvent
    <3>2. CASE e.announced = <<"request.rejected">>
      BY <3>2, OneEvent
    <3> QED BY <2>3, <3>1, <3>2
  <2> QED BY <2>2, <2>4, <2>5
<1>5. CASE Pipeline!Write(r, e) /\ Pipeline!Leave(r, "raise") /\ UNCHANGED response
  <2>1. log' = [log EXCEPT ![r] = e]
    BY <1>5 DEF Pipeline!Write
  <2> QED BY <2>1, <1>2, <1>3, <1>4, <1>5, OutOfTheAudit
<1>6. CASE Pipeline!MayRaise(r, e, "audit.recorded")
  <2>1. /\ "audit.recorded" \in Raising \cup {"endpoint"}
        /\ Pipeline!Raise(r, e, "audit.recorded")
    BY <1>6 DEF Pipeline!MayRaise
  <2>2. PICK g : g = [e EXCEPT !.fault = "audit.recorded"]
    OBVIOUS
  <2>3. /\ g \in LogEntry /\ g.fault = "audit.recorded" /\ g.audited = e.audited
        /\ g.announced = e.announced
    BY <2>1, <2>2, <1>3, FaultTyped
  <2>4. /\ Pipeline!Leave(r, "raise") /\ log' = [log EXCEPT ![r] = g]
        /\ UNCHANGED response
    BY <2>1, <2>2 DEF Pipeline!Raise, Pipeline!Write
  <2> QED BY <2>3, <2>4, <1>2, <1>4, OutOfTheAudit
<1> QED BY <1>2, <1>5, <1>6

\* A limiter on the way in: what it charged does not matter to the invariant.
LEMMA ChargedTyped ==
    ASSUME NEW e \in LogEntry, NEW by \in {"rate_limit", "quota"}
    PROVE  /\ Pipeline!Charged(e, by) \in LogEntry
           /\ Pipeline!Charged(e, by).audited = e.audited
           /\ Pipeline!Charged(e, by).announced = e.announced
           /\ Pipeline!Charged(e, by).fault = e.fault
  BY DEF Pipeline!Charged, LogEntry

LEMMA ExceededStep ==
    ASSUME PipelineInv, NEW r \in Sender, NEW by \in {"rate_limit", "quota"},
           NEW event \in Pipeline!Event \ Before, Pipeline!At(r, by, "down"),
           NEW e, e = Pipeline!Charged(log[r], by), Pipeline!Exceeded(r, e, by, event),
           UNCHANGED <<sent, slots, records, job>>
    PROVE  PipelineInv'
<1>1. /\ flow[r].phase = "down" /\ flow[r].at \in 1 .. Pipeline!Endpoint
      /\ by \in Pipeline!Stage /\ log[r] \in LogEntry /\ Inner(flow[r].at)
  BY AtStage, Entries, InnerStage
<1>2. /\ e \in LogEntry /\ e.audited = log[r].audited
      /\ e.announced = log[r].announced /\ e.fault = log[r].fault
  BY <1>1, ChargedTyped
<1>3. CASE Pipeline!Reject(r, e, by)
  BY <1>1, <1>2, <1>3, Going, RejectStep
<1>4. CASE Pipeline!MayRaise(r, e, event)
  <2>1. event \in Raising \cup {"endpoint"} /\ Pipeline!Raise(r, e, event)
    BY <1>4 DEF Pipeline!MayRaise
  <2> QED BY <1>1, <1>2, <2>1, Going, RaiseStep
<1> QED BY <1>3, <1>4 DEF Pipeline!Exceeded

LEMMA RateLimitInStep ==
    ASSUME PipelineInv, NEW r \in Sender, Pipeline!RateLimitIn(r)
    PROVE  PipelineInv'
<1>1. PICK e : e = Pipeline!Charged(log[r], "rate_limit")
  OBVIOUS
<1>2. /\ Pipeline!At(r, "rate_limit", "down") /\ UNCHANGED <<sent, slots, records, job>>
      /\ \/ Pipeline!CallNext(r) /\ Pipeline!Write(r, e) /\ UNCHANGED response
         \/ Pipeline!Exceeded(r, e, "rate_limit", "rate.limit.exceeded")
  BY <1>1 DEF Pipeline!RateLimitIn, Pipeline!Elsewhere
<1>3. /\ e \in LogEntry /\ e.audited = log[r].audited
      /\ e.announced = log[r].announced /\ e.fault = log[r].fault
  BY <1>1, Entries, ChargedTyped
<1>4. CASE Pipeline!CallNext(r) /\ Pipeline!Write(r, e) /\ UNCHANGED response
  <2>1. "rate_limit" \in Pipeline!Stage /\ log' = [log EXCEPT ![r] = e]
    BY <1>4 DEF Pipeline!Stage, Pipeline!Write
  <2> QED BY <1>2, <1>3, <1>4, <2>1, Onward
<1>5. CASE Pipeline!Exceeded(r, e, "rate_limit", "rate.limit.exceeded")
  <2>1. "rate.limit.exceeded" \in Pipeline!Event \ Before
    BY DEF Pipeline!Event, Before
  <2> QED BY <1>1, <1>2, <1>5, <2>1, ExceededStep
<1> QED BY <1>2, <1>4, <1>5

\* On the way in, past the quota: the slot is taken.
LEMMA QuotaInStep ==
    ASSUME PipelineInv, NEW r \in Sender, Pipeline!QuotaIn(r)
    PROVE  PipelineInv'
<1>1. PICK e : e = Pipeline!Charged(log[r], "quota")
  OBVIOUS
<1>2. /\ Pipeline!At(r, "quota", "down") /\ UNCHANGED <<sent, records, job>>
      /\ \/ /\ slots < MaxSlots /\ slots' = slots + 1
            /\ Pipeline!CallNext(r) /\ Pipeline!Write(r, e) /\ UNCHANGED response
         \/ Pipeline!Exceeded(r, e, "quota", "quota.exceeded") /\ UNCHANGED slots
  BY <1>1 DEF Pipeline!QuotaIn
<1>3. /\ e \in LogEntry /\ e.audited = log[r].audited
      /\ e.announced = log[r].announced /\ e.fault = log[r].fault
  BY <1>1, Entries, ChargedTyped
<1>4. CASE /\ slots < MaxSlots /\ slots' = slots + 1
           /\ Pipeline!CallNext(r) /\ Pipeline!Write(r, e) /\ UNCHANGED response
  <2> DEFINE f == [phase |-> "down", at |-> flow[r].at + 1]
  <2>1. /\ flow[r] \in Flow /\ flow[r].phase = "down" /\ flow[r].at \in DOMAIN Pipeline!Chain
        /\ Pipeline!Chain[flow[r].at] = "quota" /\ flow[r].at \in 1 .. Pipeline!Endpoint
        /\ flow[r].at # Pipeline!Endpoint
    BY <1>2, AtStage
  <2>2. /\ sent[r] \in Traffic /\ response[r] \in Pipeline!Response
        /\ "audit" \in Installed => Fits(flow[r], sent[r], response[r], log[r])
    BY Entries
  <2>3. flow' = [flow EXCEPT ![r] = f]
    <3>1. [flow[r] EXCEPT !.at = flow[r].at + 1] = f
      BY <2>1 DEF Flow
    <3>2. flow' = [flow EXCEPT ![r] = [flow[r] EXCEPT !.at = flow[r].at + 1]]
      BY <1>4 DEF Pipeline!CallNext, PipelineInv, PipelineTyped
    <3> HIDE DEF f
    <3> QED BY <3>1, <3>2
  <2>4. f \in Flow
    <3>1. flow[r].at + 1 \in 0 .. Pipeline!Endpoint
      BY <2>1, ChainFacts
    <3> QED BY <3>1 DEF Flow
  <2>5. Holds(f) /\ ~Holds(flow[r])
    <3>1. Goes(flow[r], f) /\ f.phase = "down"
      BY <2>1 DEF Goes
    <3> HIDE DEF f
    <3> QED BY <2>1, <3>1, AtTheQuota
  <2>6. /\ slots' <= MaxSlots /\ job' = job /\ records' = records
        /\ sent' = [sent EXCEPT ![r] = sent[r]]
        /\ response' = [response EXCEPT ![r] = response[r]]
        /\ log' = [log EXCEPT ![r] = e]
    <3>1. slots' <= MaxSlots
      BY <1>4, PipelineAssumption DEF Pipeline!GatewayAssumption, PipelineInv, PipelineTyped
    <3> QED BY <3>1, <1>2, <1>4, Kept DEF Pipeline!Write
  <2>7. "audit" \in Installed => Fits(f, sent[r], response[r], e)
    BY <2>1, <2>2, <1>3 DEF Fits
  <2> HIDE DEF f
  <2> QED BY <1>3, <1>4, <2>2, <2>3, <2>4, <2>5, <2>6, <2>7, Untouched, Settles DEF Moves
<1>5. CASE Pipeline!Exceeded(r, e, "quota", "quota.exceeded") /\ UNCHANGED slots
  <2>1. "quota.exceeded" \in Pipeline!Event \ Before
    BY DEF Pipeline!Event, Before
  <2> QED BY <1>1, <1>2, <1>5, <2>1, ExceededStep
<1> QED BY <1>2, <1>4, <1>5

\* On the way out: the slot is given back.
LEMMA QuotaOutStep ==
    ASSUME PipelineInv, NEW r \in Sender, Pipeline!QuotaOut(r)
    PROVE  PipelineInv'
<1>1. PICK phase \in {"up", "raise"} : Pipeline!At(r, "quota", phase) /\ Pipeline!Pass(r, phase)
  BY DEF Pipeline!QuotaOut
<1> DEFINE f == [phase |-> phase, at |-> flow[r].at - 1]
<1>2. /\ flow[r] \in Flow /\ flow[r].phase = phase /\ flow[r].at \in DOMAIN Pipeline!Chain
      /\ Pipeline!Chain[flow[r].at] = "quota" /\ flow[r].at \in 1 .. Pipeline!Endpoint
      /\ Inner(flow[r].at)
  BY <1>1, AtStage, InnerStage
<1>3. /\ sent[r] \in Traffic /\ response[r] \in Pipeline!Response /\ log[r] \in LogEntry
  BY Entries
<1>4. flow' = [flow EXCEPT ![r] = f]
  BY <1>1 DEF Pipeline!Pass, Pipeline!Leave
<1>5. f \in Flow
  <2>1. flow[r].at - 1 \in 0 .. Pipeline!Endpoint
    BY <1>2, ChainFacts
  <2> QED BY <2>1 DEF Flow
<1>6. ~Holds(f) /\ Holds(flow[r])
  <2>1. Goes(flow[r], f) /\ flow[r].phase # "down"
    BY <1>2 DEF Goes
  <2> HIDE DEF f
  <2> QED BY <1>2, <2>1, AtTheQuota
<1>7. /\ slots' = slots - 1 /\ slots' <= MaxSlots /\ job' = job /\ records' = records
      /\ sent' = [sent EXCEPT ![r] = sent[r]]
      /\ response' = [response EXCEPT ![r] = response[r]]
      /\ log' = [log EXCEPT ![r] = log[r]]
  <2>1. slots' = slots - 1 /\ slots' <= MaxSlots
    BY PipelineAssumption DEF Pipeline!GatewayAssumption, Pipeline!QuotaOut, PipelineInv,
                              PipelineTyped
  <2> QED BY <2>1, <1>1, Kept DEF Pipeline!QuotaOut, Pipeline!Pass
<1>8. ASSUME "audit" \in Installed
      PROVE  Fits(f, sent[r], response[r], log[r])
  <2>1. CASE IsPreflight(sent[r])
    BY <2>1 DEF Fits, IsPreflight
  <2>2. CASE ~IsPreflight(sent[r])
    <3>1. IF phase = "up" THEN Answering(response[r], log[r]) ELSE Failing(log[r])
      BY <1>2, <1>8, <2>2, InnerWas
    <3> QED BY <1>2, <1>8, <2>2, <3>1, InnerFits
  <2> QED BY <2>1, <2>2
<1> HIDE DEF f
<1> QED BY <1>3, <1>4, <1>5, <1>6, <1>7, <1>8, Untouched, Settles DEF Moves

LEMMA ValidationOutStep ==
    ASSUME PipelineInv, NEW r \in Sender, Pipeline!ValidationOut(r)
    PROVE  PipelineInv'
<1>1. /\ flow[r].phase = "up" /\ flow[r].at \in DOMAIN Pipeline!Chain
      /\ Pipeline!Chain[flow[r].at] = "validation"
      /\ Inner(flow[r].at) /\ flow[r].at \in 1 .. Pipeline!Endpoint
      /\ UNCHANGED <<sent, slots, records, job>>
      /\ log[r] \in LogEntry /\ response[r] \in Pipeline!Response
  BY AtStage, Entries, InnerStage DEF Pipeline!ValidationOut, Pipeline!Elsewhere
<1>2. CASE Pipeline!Pass(r, "up")
  <2>1. /\ Pipeline!Leave(r, "up") /\ log' = [log EXCEPT ![r] = log[r]]
        /\ response' = [response EXCEPT ![r] = response[r]]
    BY <1>2, Kept DEF Pipeline!Pass
  <2> QED BY <1>1, <2>1, Untouched, Pass
<1>3. CASE ~Pipeline!Pass(r, "up")
  <2>1. PICK t : t = Pipeline!Announced(log[r], "request.rejected")
    OBVIOUS
  <2>2. PICK v : v = Pipeline!Fresh("server_error", "validation", "small")
    OBVIOUS
  <2>3. /\ response[r].size = "huge"
        /\ \/ Pipeline!Write(r, t) /\ Pipeline!Answer(r, v)
           \/ Pipeline!MayRaise(r, t, "request.rejected")
    BY <1>3, <2>1, <2>2 DEF Pipeline!ValidationOut
  <2>4. "request.rejected" \in Pipeline!Event
    BY DEF Pipeline!Event
  <2>5. /\ t \in LogEntry /\ t.audited = log[r].audited /\ t.fault = log[r].fault
        /\ log[r].announced = <<>> => t.announced = <<"request.rejected">>
    BY <1>1, <2>1, <2>4, AnnouncedTyped
  <2>6. "server_error" \in Statuses /\ "validation" \in Authors /\ "small" \in Sizes
    BY DEF Statuses, Authors, Sizes, Pipeline!Stage
  <2>7. /\ v \in Pipeline!Response /\ v.by = "validation" /\ v.status = "server_error"
        /\ v.size = "small" /\ ~v.replayed
    BY <2>2, <2>6, FreshTyped
  <2>8. "audit" \in Installed /\ ~IsPreflight(sent[r]) =>
           /\ t.audited = <<>> /\ t.fault = "none"
           /\ t.announced = <<"request.rejected">>
    <3>1. SUFFICES ASSUME "audit" \in Installed, ~IsPreflight(sent[r])
                   PROVE  /\ t.audited = <<>> /\ t.fault = "none"
                          /\ t.announced = <<"request.rejected">>
      OBVIOUS
    <3>2. Answering(response[r], log[r])
      BY <1>1, <3>1, InnerWas
    <3>3. ~Refusal(response[r])
      BY <2>3, <3>2 DEF Answering
    <3> QED BY <2>5, <3>2, <3>3 DEF Answering
  <2>9. CASE Pipeline!Write(r, t) /\ Pipeline!Answer(r, v)
    <3>1. /\ Pipeline!Leave(r, "up") /\ log' = [log EXCEPT ![r] = t]
          /\ response' = [response EXCEPT ![r] = v]
      BY <2>9 DEF Pipeline!Write, Pipeline!Answer, Pipeline!Respond
    <3>2. "audit" \in Installed /\ ~IsPreflight(sent[r]) => Answering(v, t)
      BY <2>7, <2>8 DEF Answering, Refusal, Pipeline!Stage
    <3> QED BY <1>1, <2>5, <2>7, <3>1, <3>2, Untouched, AnswerStep
  <2>10. CASE Pipeline!MayRaise(r, t, "request.rejected")
    <3>1. "request.rejected" \in Raising \cup {"endpoint"}
          /\ Pipeline!Raise(r, t, "request.rejected")
      BY <2>10 DEF Pipeline!MayRaise
    <3> QED BY <1>1, <2>5, <2>8, <3>1, RaiseStep DEF Before
  <2> QED BY <2>3, <2>9, <2>10
<1> QED BY <1>2, <1>3

LEMMA IdempotencyInStep ==
    ASSUME PipelineInv, NEW r \in Sender, Pipeline!IdempotencyIn(r)
    PROVE  PipelineInv'
<1>1. /\ flow[r].phase = "down" /\ flow[r].at \in 1 .. Pipeline!Endpoint
      /\ Pipeline!At(r, "idempotency", "down") /\ "idempotency" \in Pipeline!Stage
      /\ UNCHANGED <<sent, slots, records, job>> /\ log[r] \in LogEntry
      /\ Inner(flow[r].at)
  BY AtStage, Entries, InnerStage DEF Pipeline!IdempotencyIn, Pipeline!Elsewhere
<1>2. CASE Pipeline!CallNext(r) /\ UNCHANGED <<response, log>>
  BY <1>1, <1>2, Kept, Onward
<1>3. CASE Pipeline!Reject(r, log[r], "idempotency")
  BY <1>1, <1>3, Going, RejectStep
<1>4. CASE Pipeline!MayRaise(r, log[r], "idempotency.detected")
  <2>1. "idempotency.detected" \in Raising \cup {"endpoint"}
        /\ Pipeline!Raise(r, log[r], "idempotency.detected")
    BY <1>4 DEF Pipeline!MayRaise
  <2> QED BY <1>1, <2>1, Going, RaiseStep DEF Before
<1>5. CASE /\ sent[r].key # NoKey /\ UNCHANGED log
           /\ Pipeline!Answer(r, [records[sent[r].key].response EXCEPT !.replayed = TRUE])
  <2>1. records[sent[r].key].response \in Pipeline!Response
    <3>1. sent[r].key \in IdempotencyKey
      BY <1>5, Entries DEF Pipeline!Shape
    <3> QED BY <3>1 DEF PipelineInv, PipelineTyped, Recorded
  <2>2. PICK v : v = [records[sent[r].key].response EXCEPT !.replayed = TRUE]
    OBVIOUS
  <2>3. v \in Pipeline!Response /\ v.replayed
    BY <2>1, <2>2 DEF Pipeline!Response
  <2>4. /\ Pipeline!Leave(r, "up") /\ log' = [log EXCEPT ![r] = log[r]]
        /\ response' = [response EXCEPT ![r] = v]
    BY <1>5, <2>2, Kept DEF Pipeline!Answer, Pipeline!Respond
  <2>5. "audit" \in Installed /\ ~IsPreflight(sent[r]) => Answering(v, log[r])
    BY <1>1, <2>3, Going DEF Answering, Refusal
  <2> QED BY <1>1, <2>3, <2>4, <2>5, Untouched, AnswerStep
<1> QED BY <1>2, <1>3, <1>4, <1>5 DEF Pipeline!IdempotencyIn

LEMMA IdempotencyOutStep ==
    ASSUME PipelineInv, NEW r \in Sender, Pipeline!IdempotencyOut(r)
    PROVE  PipelineInv'
<1>1. /\ flow[r].phase = "up" /\ flow[r].at \in DOMAIN Pipeline!Chain
      /\ Pipeline!Chain[flow[r].at] = "idempotency"
      /\ UNCHANGED <<sent, slots, job>> /\ Pipeline!Leave(r, "up")
      /\ log' = [log EXCEPT ![r] = log[r]] /\ response[r] \in Pipeline!Response
      /\ response' = [response EXCEPT ![r] = response[r]]
  BY AtStage, Entries, Kept DEF Pipeline!IdempotencyOut, Pipeline!Pass
<1>2. records' \in [IdempotencyKey -> Recorded]
  <2>1. records \in [IdempotencyKey -> Recorded]
    BY DEF PipelineInv, PipelineTyped
  <2>2. [body |-> sent[r].body, response |-> response[r]] \in Recorded
    BY <1>1, Entries DEF Recorded, Pipeline!Shape
  <2> QED BY <2>1, <2>2 DEF Pipeline!IdempotencyOut
<1> QED BY <1>1, <1>2, Pass

-----------------------------------------------------------------------------
(* Gateway: the workers, and the invariant.                                *)

LEMMA WorkerStep ==
    ASSUME PipelineInv, NEW w \in Worker, Pipeline!Evaluate(w) \/ Pipeline!Release(w)
    PROVE  PipelineInv'
<1>1. UNCHANGED <<flow, sent, response, log, records>>
  BY DEF Pipeline!Evaluate, Pipeline!Release
<1>2. PipelineTyped'
  <2>1. PipelineTyped /\ MaxSlots \in Nat
    BY PipelineAssumption DEF Pipeline!GatewayAssumption, PipelineInv
  <2>2. slots' \in Int /\ slots' <= MaxSlots
    BY <2>1 DEF Pipeline!Evaluate, Pipeline!Release, PipelineTyped
  <2>3. job' \in [Worker -> BOOLEAN]
    BY <2>1 DEF Pipeline!Evaluate, Pipeline!Release, PipelineTyped
  <2> QED BY <1>1, <2>1, <2>2, <2>3 DEF PipelineTyped
<1>3. AllFit'
  BY <1>1 DEF AllFit, PipelineInv
<1>4. Holders' = Holders
  BY <1>1 DEF Holders
<1>5. /\ IsFiniteSet(Jobs) /\ Cardinality(Jobs) \in Nat /\ Cardinality(Holders) \in Nat
      /\ job \in [Worker -> BOOLEAN] /\ slots \in Int
      /\ slots = Cardinality(Holders) + Cardinality(Jobs)
  <2>1. IsFiniteSet(Sender) /\ IsFiniteSet(Worker)
    BY PipelineAssumption DEF Pipeline!GatewayAssumption, Pipeline!IsFiniteSet, IsFiniteSet
  <2>2. Holders \subseteq Sender /\ Jobs \subseteq Worker
    BY DEF Holders, Jobs
  <2>3. IsFiniteSet(Jobs) /\ IsFiniteSet(Holders)
    BY <2>1, <2>2, FS_Subset
  <2> QED BY <2>3, FS_CardinalityType DEF PipelineInv, PipelineTyped, HoldsCount
<1>6. CASE Pipeline!Evaluate(w)
  <2>1. Jobs' = Jobs \cup {w} /\ w \notin Jobs /\ slots' = slots + 1
    BY <1>5, <1>6 DEF Pipeline!Evaluate, Jobs
  <2>2. Cardinality(Jobs') = Cardinality(Jobs) + 1
    BY <2>1, <1>5, FS_AddElement
  <2>3. HoldsCount'
    BY <2>1, <2>2, <1>4, <1>5 DEF HoldsCount
  <2> QED BY <2>3, <1>2, <1>3 DEF PipelineInv
<1>7. CASE Pipeline!Release(w)
  <2>1. Jobs' = Jobs \ {w} /\ w \in Jobs /\ slots' = slots - 1
    BY <1>5, <1>7 DEF Pipeline!Release, Jobs
  <2>2. Cardinality(Jobs') = Cardinality(Jobs) - 1
    BY <2>1, <1>5, FS_RemoveElement
  <2>3. HoldsCount'
    BY <2>1, <2>2, <1>4, <1>5 DEF HoldsCount
  <2> QED BY <2>3, <1>2, <1>3 DEF PipelineInv
<1> QED BY <1>6, <1>7

LEMMA PipelineStart ==
    ASSUME Pipeline!Init
    PROVE  PipelineInv
<1> USE DEF Pipeline!Init, Pipeline!Server
<1>1. PipelineTyped
  <2>1. Pipeline!NoResponse \in Pipeline!Response
    BY DEF Pipeline!NoResponse, Pipeline!Response
  <2>2. Pipeline!NoEntry \in LogEntry
    BY DEF Pipeline!NoEntry, LogEntry
  <2>3. Pipeline!NoRecord \in Recorded
    BY <2>1 DEF Pipeline!NoRecord, Recorded
  <2>4. [phase |-> "done", at |-> 0] \in Flow
    <3>1. 0 \in 0 .. Pipeline!Endpoint
      BY ChainFacts
    <3> QED BY <3>1 DEF Flow
  <2>5. MaxSlots \in Nat
    BY PipelineAssumption DEF Pipeline!GatewayAssumption
  <2> QED BY <2>1, <2>2, <2>3, <2>4, <2>5 DEF PipelineTyped
<1>2. HoldsCount
  <2>1. Holders = {} /\ Jobs = {}
    BY DEF Holders, Holds, Jobs
  <2> QED BY <2>1, FS_EmptySet DEF HoldsCount
<1>3. AllFit
  BY DEF AllFit, Fits
<1> QED BY <1>1, <1>2, <1>3 DEF PipelineInv

LEMMA PipelineStep ==
    ASSUME PipelineInv, [Pipeline!Next]_(Pipeline!vars)
    PROVE  PipelineInv'
<1>1. ASSUME NEW r \in Sender,
             \/ Pipeline!Arrive(r) \/ Pipeline!Leaves(r)
             \/ Pipeline!Execute(r) \/ Pipeline!Unwind(r)
      PROVE  PipelineInv'
  BY <1>1, ArriveStep, LeavesStep, ExecuteStep, UnwindStep
<1>2. ASSUME NEW r \in Sender,
             \/ Pipeline!CorsIn(r) \/ Pipeline!CorsOut(r) \/ Pipeline!GoIn(r)
             \/ Pipeline!AuditOut(r) \/ Pipeline!AuditUnwinds(r)
      PROVE  PipelineInv'
  BY <1>2, CorsInStep, CorsOutStep, GoInStep, AuditOutStep, AuditUnwindsStep
<1>3. ASSUME NEW r \in Sender,
             \/ Pipeline!CompressionOut(r) \/ Pipeline!VersioningIn(r)
             \/ Pipeline!ValidationIn(r) \/ Pipeline!ValidationOut(r)
      PROVE  PipelineInv'
  BY <1>3, CompressionOutStep, VersioningInStep, ValidationInStep, ValidationOutStep
<1>4. ASSUME NEW r \in Sender, Pipeline!VersioningOut(r)
      PROVE  PipelineInv'
  BY <1>4, StampStep DEF Pipeline!VersioningOut
<1>5. ASSUME NEW r \in Sender, Pipeline!RateLimitOut(r)
      PROVE  PipelineInv'
  BY <1>5, StampStep DEF Pipeline!RateLimitOut
<1>6. ASSUME NEW r \in Sender,
             \/ Pipeline!RateLimitIn(r) \/ Pipeline!QuotaIn(r) \/ Pipeline!QuotaOut(r)
             \/ Pipeline!IdempotencyIn(r) \/ Pipeline!IdempotencyOut(r)
      PROVE  PipelineInv'
  BY <1>6, RateLimitInStep, QuotaInStep, QuotaOutStep, IdempotencyInStep, IdempotencyOutStep
<1>7. ASSUME NEW w \in Worker, Pipeline!Evaluate(w) \/ Pipeline!Release(w)
      PROVE  PipelineInv'
  BY <1>7, WorkerStep
<1>8. CASE UNCHANGED Pipeline!vars
  <2>1. UNCHANGED pipelineVars
    BY <1>8 DEF Pipeline!vars, pipelineVars
  <2> QED BY <2>1 DEF pipelineVars, PipelineInv, PipelineTyped, HoldsCount, Holders, Jobs, AllFit
<1> QED BY <1>1, <1>2, <1>3, <1>4, <1>5, <1>6, <1>7, <1>8 DEF Pipeline!Next

LEMMA PipelineInvariant == Pipeline!Spec => []PipelineInv
<1>1. PipelineInv /\ [Pipeline!Next]_(Pipeline!vars) => PipelineInv'
  BY PipelineStep
<1> QED BY <1>1, PipelineStart, PTL DEF Pipeline!Spec

\* The slots of the concurrency quota are counted exactly: whatever the
\* stages, the subscribers and the endpoint do, a slot is taken when a request
\* or a worker is admitted, and given back once.
THEOREM SlotsCounted == Pipeline!Spec => []SlotsAreHeld
<1>1. PipelineInv => SlotsAreHeld
  <2> SUFFICES ASSUME PipelineInv
               PROVE  SlotsAreHeld
    OBVIOUS
  <2>1. {r \in Sender : Pipeline!InsideQuota(r)} = Holders
    BY DEF Pipeline!InsideQuota, Holders, Holds
  <2>2. {w \in Worker : job[w]} = Jobs
    BY DEF Jobs
  <2>3. slots = Cardinality(Holders) + Cardinality(Jobs)
    BY DEF PipelineInv, HoldsCount
  <2> QED BY <2>1, <2>2, <2>3
        DEF SlotsAreHeld, Pipeline!SlotsAreHeld, Pipeline!Quantify, Pipeline!Cardinality,
            Cardinality
<1> QED BY <1>1, PipelineInvariant, PTL

\* What a client was answered is what the audit wrote, once, and what was
\* announced, wherever in the chain the answer was made or replaced.
THEOREM AnswersAreAudited ==
    Pipeline!Spec => []("audit" \in Installed => AuditedAsAnswered)
<1>1. PipelineInv => ("audit" \in Installed => AuditedAsAnswered)
  <2> SUFFICES ASSUME PipelineInv, "audit" \in Installed, NEW r \in Sender,
                      flow[r].phase = "done", response[r] # Pipeline!NoResponse,
                      ~IsPreflight(sent[r])
               PROVE  AsAnswered(response[r], log[r])
    BY DEF AuditedAsAnswered, Pipeline!AuditedAsAnswered, Pipeline!Answered,
           Pipeline!Preflight, IsPreflight, AsAnswered, Refusal
  <2> QED BY Entries DEF Fits, IsPreflight
<1> QED BY <1>1, PipelineInvariant, PTL

\* Types of the chain; the counter of slots is never negative, nor over its
\* limit.
THEOREM PipelineTypeCorrect == Pipeline!Spec => []Pipeline!TypeOK
<1>1. PipelineInv => Pipeline!TypeOK
  <2> SUFFICES ASSUME PipelineInv
               PROVE  Pipeline!TypeOK
    OBVIOUS
  <2>1. PipelineTyped
    BY DEF PipelineInv
  <2>2. slots \in 0 .. MaxSlots
    <3>1. IsFiniteSet(Sender) /\ IsFiniteSet(Worker)
      BY PipelineAssumption DEF Pipeline!GatewayAssumption, Pipeline!IsFiniteSet, IsFiniteSet
    <3>2. Holders \subseteq Sender /\ Jobs \subseteq Worker
      BY DEF Holders, Jobs
    <3>3. Cardinality(Holders) \in Nat /\ Cardinality(Jobs) \in Nat
      BY <3>1, <3>2, FS_Subset, FS_CardinalityType
    <3>4. slots = Cardinality(Holders) + Cardinality(Jobs) /\ slots <= MaxSlots /\ slots \in Int
      BY DEF PipelineInv, PipelineTyped, HoldsCount
    <3>5. MaxSlots \in Nat
      BY PipelineAssumption DEF Pipeline!GatewayAssumption
    <3> QED BY <3>3, <3>4, <3>5
  <2>3. \A r \in Sender : flow[r].phase \in {"down", "up", "raise", "done"}
                          /\ flow[r].at \in 0 .. Pipeline!Endpoint
    BY <2>1 DEF PipelineTyped, Flow
  <2>4. \A r \in Sender :
          /\ log[r].executed \in BOOLEAN /\ log[r].charged \subseteq {"rate_limit", "quota"}
          /\ log[r].fault \in Raising \cup {"none", "endpoint"}
    BY <2>1 DEF PipelineTyped, LogEntry
  <2>5. \A k \in IdempotencyKey : records[k].body \in {"none", "b1", "b2"}
                                  /\ records[k].response \in Pipeline!Response
    BY <2>1 DEF PipelineTyped, Recorded
  <2> QED BY <2>1, <2>2, <2>3, <2>4, <2>5 DEF PipelineTyped, Pipeline!TypeOK, Pipeline!Server
<1> QED BY <1>1, PipelineInvariant, PTL
==============================================================================
