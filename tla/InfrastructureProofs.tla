------------------------ MODULE InfrastructureProofs ------------------------
(***************************************************************************)
(* Proofs about the components of Infrastructure, each for any values of   *)
(* its constants: SharedStores, Persistence, Observability and Framework.  *)
(***************************************************************************)
EXTENDS Infrastructure, FiniteSetTheorems, SequenceTheorems, TLAPS

-----------------------------------------------------------------------------
(* SharedStores.                                                           *)

\* Requests that hold a unit of the quota, on their way back with it too.
Claims == {r \in Request : at[r] \in {"running", "denied", "releasing", "giving"}}

Typed ==
    /\ at \in [Request -> Inside \cup {"idle", "running"}]
    /\ seen \in [Request -> [count : Nat, start : 0 .. MaxTime]]
    /\ left \in [Request -> {None} \cup 1 .. Window]
    /\ rule = "rate" => \A r \in Request : at[r] \in {"idle", "read"}
    /\ rule = "quota" => \A w \in Windows : accepted[w] = 0
    /\ IsFiniteSet(Claims)

\* A key expires one window after a consumption, two after a request of a
\* fixed window, or never, which only a release can cause.
ExpiresInTime ==
    \/ rule = "quota" /\ entry.expires = Never
    \/ rule = "quota" /\ entry.expires <= clock + Window
    \/ rule = "rate" /\ entry.expires <= clock + 2 * Window

\* A release that is about to write more than zero without a TTL has raced.
RacedBefore ==
    \A r \in Request :
        (at[r] = "giving" /\ left[r] = None /\ seen[r].count > 1) => raced

OneInside ==
    ~overlapped =>
        \A r, s \in Request : at[r] \in Inside /\ at[s] \in Inside => r = s

\* In turns, neither the counter nor what was read of it shows more than the
\* claims, and those a crash or an error took away.
QuotaCounts ==
    (~overlapped /\ rule = "quota") =>
        /\ Got.count <= Cardinality(Claims) + lost
        /\ \A r \in Request :
             at[r] \in {"read", "giving"} => seen[r].count <= Cardinality(Claims) + lost

\* count covers what the window at start took; nothing later was taken.
Covers(count, start) ==
    /\ start \in Windows /\ start <= clock
    /\ accepted[start] <= count
    /\ \A w \in Windows : w > start => accepted[w] = 0

\* In turns, the entry, and what was read of it, cover the window they are of,
\* and the entry outlives that window.
RateCounts ==
    (~overlapped /\ rule = "rate") =>
        /\ \A w \in Windows : accepted[w] <= Limit
        /\ Covers(entry.count, entry.start)
        /\ accepted[entry.start] > 0 => entry.expires >= entry.start + Window
        /\ \A r \in Request : at[r] = "read" => Covers(seen[r].count, seen[r].start)

IInv ==
    /\ TypeOK /\ Typed
    /\ ExpiresInTime /\ LeaksExpire /\ RacedBefore
    /\ OneInside /\ QuotaCounts /\ RateCounts

-----------------------------------------------------------------------------
(* Windows.                                                                *)

LEMMA WindowStartOf ==
    ASSUME NEW t \in 0 .. MaxTime
    PROVE  /\ WindowStart(t) \in Windows
           /\ WindowStart(t) <= t /\ t < WindowStart(t) + Window
           /\ \A w \in Windows : w <= t => w <= WindowStart(t)
<1> DEFINE q == t \div Window
<1>1. Window \in Nat /\ Window > 0 /\ t \in Nat /\ MaxTime \in Nat
  BY SharedStoresAssumption
<1>2. q \in Nat /\ t % Window \in 0 .. Window - 1 /\ t = Window * q + (t % Window)
  BY <1>1
<1>3. WindowStart(t) = Window * q /\ WindowStart(t) \in 0 .. t
  BY <1>1, <1>2 DEF WindowStart
<1>4. (Window * q) % Window = 0
  <2> HIDE DEF q
  <2> QED
    BY <1>1, <1>2
<1>5. ASSUME NEW w \in Windows, w <= t PROVE w <= Window * q
  <2> DEFINE e == w \div Window
  <2>1. w \in Nat /\ e \in Nat /\ w = Window * e
    BY <1>1 DEF Windows
  <2>2. Window * e < Window * (q + 1)
    BY <1>1, <1>2, <1>5, <2>1
  <2>3. e < q + 1
    BY <1>1, <1>2, <2>1, <2>2
  <2>4. Window * e <= Window * q
    BY <1>1, <1>2, <2>1, <2>3
  <2> QED
    BY <2>1, <2>4
<1> QED
  BY <1>1, <1>2, <1>3, <1>4, <1>5 DEF Windows

-----------------------------------------------------------------------------
(* Each action keeps the invariant.                                        *)

LEMMA Numbers ==
    /\ Window \in Nat /\ Window > 0 /\ Limit \in Nat /\ Limit > 0 /\ MaxTime \in Nat
    /\ Never = MaxTime + 2 * Window + 1 /\ Never \in Nat /\ None = -1
    /\ 0 \in Windows /\ Windows \subseteq 0 .. MaxTime
<1>1. Window \in Nat /\ Window > 0 /\ Limit \in Nat /\ Limit > 0 /\ MaxTime \in Nat
  BY SharedStoresAssumption
<1>2. 0 % Window = 0
  BY <1>1
<1> QED
  BY <1>1, <1>2 DEF Never, None, Windows

LEMMA GotCount ==
    ASSUME TypeOK
    PROVE  /\ Got \in Entry
           /\ Got = entry \/ Got = Absent
           /\ Got.count \in Nat /\ Got.count <= entry.count /\ entry.count \in Nat
           /\ entry.expires \in Nat /\ entry.start \in Nat /\ clock \in Nat
<1>1. Absent \in Entry
  BY Numbers DEF Absent, Entry
<1>2. entry.expires \in Nat /\ entry.start \in Nat /\ clock \in Nat
  BY Numbers DEF TypeOK, Entry
<1> QED
  BY <1>1, <1>2 DEF TypeOK, Got, Absent, Entry

LEMMA InitEstablishesInvariant == Init => IInv
<1> SUFFICES ASSUME Init PROVE IInv
  OBVIOUS
<1>1. TypeOK
  <2>1. Running = {} /\ Absent \in Entry
    BY Numbers DEF Init, Running, Absent, Entry
  <2>2. [w \in Windows |-> 0] \in [Windows -> 0 .. Limit + 1] /\ 0 \in 0 .. MaxLost /\ 0 \in 0 .. MaxTime
    BY SharedStoresAssumption
  <2>3. \A r \in Request : /\ at[r] \in Inside \cup {"idle", "running"}
                          /\ seen[r] \in [count : Nat, start : 0 .. MaxTime]
                          /\ left[r] \in {None} \cup 1 .. Window
    BY Numbers DEF Init, Nothing, Inside
  <2> QED
    BY <2>1, <2>2, <2>3 DEF Init, TypeOK
<1>2. Typed
  <2>1. Claims = {}
    BY DEF Init, Claims
  <2> QED
    BY <2>1, FS_EmptySet, Numbers DEF Init, Typed, Nothing, Inside
<1>3. ExpiresInTime /\ LeaksExpire /\ RacedBefore /\ OneInside
  BY Numbers DEF Init, ExpiresInTime, LeaksExpire, RacedBefore, OneInside, Absent, Inside
<1>4. QuotaCounts
  <2>1. Claims = {} /\ Cardinality({}) = 0
    BY FS_EmptySet DEF Init, Claims
  <2>2. Got.count = 0
    BY DEF Init, Got, Absent
  <2> QED
    BY <2>1, <2>2 DEF Init, QuotaCounts
<1>5. RateCounts
  BY Numbers DEF Init, RateCounts, Covers, Absent
<1> QED
  BY <1>1, <1>2, <1>3, <1>4, <1>5 DEF IInv

LEMMA ReadStep == ASSUME IInv, NEW r \in Request, Read(r) PROVE IInv'
<1> USE DEF Moved
<1>1. Got.count \in Nat /\ Counted(Got) \in Nat
  BY GotCount DEF IInv, Counted
<1>2. WindowStart(clock) \in Windows /\ WindowStart(clock) \in 0 .. MaxTime
  BY WindowStartOf, Numbers DEF IInv, TypeOK
<1>3. Claims' = Claims /\ Running' = Running
  BY DEF Read, Claims, Running, IInv, Typed
<1>4. Typed'
  BY <1>1, <1>2, <1>3 DEF Read, IInv, Typed, Inside
<1>5. TypeOK'
  BY <1>3, <1>4 DEF Read, IInv, TypeOK, Typed
<1>6. ExpiresInTime' /\ LeaksExpire'
  BY DEF Read, IInv, ExpiresInTime, LeaksExpire
<1>7. RacedBefore'
  BY DEF Read, IInv, Typed, RacedBefore
<1>8. OneInside'
  BY DEF Read, IInv, Typed, OneInside, Alone
<1>9. QuotaCounts'
  <2> SUFFICES ASSUME ~overlapped', rule = "quota" PROVE QuotaCounts'
    BY DEF Read, QuotaCounts
  <2>1. ~overlapped /\ seen'[r].count = Got.count
    BY DEF Read, IInv, Typed, Counted
  <2>2. Got' = Got
    BY DEF Read, Got, Live
  <2> QED
    BY <1>3, <2>1, <2>2 DEF Read, IInv, Typed, QuotaCounts
<1>10. RateCounts'
  <2> SUFFICES ASSUME ~overlapped', rule = "rate" PROVE RateCounts'
    BY DEF Read, RateCounts
  <2>1. ~overlapped
    BY DEF Read
  <2>2. /\ Covers(entry.count, entry.start)
        /\ accepted[entry.start] > 0 => entry.expires >= entry.start + Window
        /\ \A s \in Request : at[s] = "read" => Covers(seen[s].count, seen[s].start)
        /\ \A w \in Windows : accepted[w] <= Limit
    BY <2>1 DEF IInv, RateCounts
  <2>3. Covers(Counted(Got), WindowStart(clock))
    <3> DEFINE w == WindowStart(clock)
    <3>1. w \in Windows /\ w <= clock /\ clock < w + Window /\ entry.start <= w
      BY <2>2, WindowStartOf DEF IInv, TypeOK, Covers
    <3>2. \A v \in Windows : accepted[v] \in Nat /\ v \in Nat
      BY Numbers DEF IInv, TypeOK
    <3>3. entry.start \in Windows /\ accepted[entry.start] <= entry.count
      BY <2>2 DEF Covers
    <3>4. \A v \in Windows : v > w => accepted[v] = 0
      BY <2>2, <3>1, <3>2, <3>3 DEF Covers
    <3> HIDE DEF w
    <3>5. accepted[w] <= Counted(Got)
      <4>1. CASE entry.start < w
        BY <1>1, <2>2, <3>1, <3>2, <4>1 DEF Covers
      <4>2. CASE entry.start = w /\ Live(entry)
        BY <3>3, <4>2 DEF Got, Counted, w
      <4>3. CASE entry.start = w /\ ~Live(entry)
        <5>1. entry.expires \in Nat /\ clock \in Nat /\ w \in Nat
          BY <3>1, <3>2, GotCount DEF IInv
        <5>2. ~(accepted[w] > 0)
          BY <2>2, <3>1, <4>3, <5>1, Numbers DEF Live
        <5> QED
          BY <1>1, <3>1, <3>2, <5>2
      <4> QED
        BY <3>1, <3>2, <3>3, <4>1, <4>2, <4>3
    <3> QED
      BY <3>1, <3>4, <3>5 DEF Covers, w
  <2>4. seen'[r].count = Counted(Got) /\ seen'[r].start = WindowStart(clock)
    BY DEF Read, IInv, Typed
  <2>5. \A s \in Request : s # r => at'[s] = at[s] /\ seen'[s] = seen[s]
    BY DEF Read, IInv, Typed
  <2>6. UNCHANGED <<rule, clock, entry, accepted>>
    BY DEF Read
  <2>7. \A s \in Request : at'[s] = "read" => Covers(seen'[s].count, seen'[s].start)
    BY <2>2, <2>3, <2>4, <2>5
  <2> QED
    BY <2>2, <2>6, <2>7 DEF RateCounts, Covers
<1> QED
  BY <1>4, <1>5, <1>6, <1>7, <1>8, <1>9, <1>10 DEF IInv

LEMMA ConsumeStep == ASSUME IInv, NEW r \in Request, Consume(r) PROVE IInv'
<1> USE DEF Moved
<1>1. /\ rule = "quota" /\ at[r] = "read" /\ seen[r].count \in Nat /\ clock \in 0 .. MaxTime
      /\ \E to \in {"running", "denied"} : at' = [at EXCEPT ![r] = to]
      /\ UNCHANGED <<rule, clock, left, overlapped, raced, lost, accepted>>
      /\ seen' = [seen EXCEPT ![r] = [count |-> 0, start |-> 0]]
      /\ entry' = [count |-> seen[r].count + 1, start |-> 0, expires |-> clock + Window]
  <2>1. rule = "quota" /\ at[r] = "read" /\ seen[r].count \in Nat /\ clock \in 0 .. MaxTime
    BY DEF Consume, IInv, TypeOK, Typed
  <2>2. entry' = [count |-> seen[r].count + 1, start |-> 0, expires |-> clock + Window]
    BY Numbers DEF Consume, Set
  <2> QED
    BY <2>1, <2>2 DEF Consume, Denied, Nothing
<1>2. Claims' = Claims \cup {r} /\ r \notin Claims
  BY <1>1 DEF Claims, IInv, Typed
<1>3. IsFiniteSet(Claims') /\ Cardinality(Claims') = Cardinality(Claims) + 1 /\ Cardinality(Claims) \in Nat
  BY <1>2, FS_AddElement, FS_CardinalityType DEF IInv, Typed
<1>4. Typed'
  BY <1>1, <1>3, Numbers DEF IInv, Typed, Inside
<1>5. entry' \in Entry
  BY <1>1, Numbers DEF Entry
<1>6. TypeOK'
  BY <1>1, <1>4, <1>5 DEF IInv, TypeOK, Typed
<1>7. ExpiresInTime' /\ LeaksExpire'
  BY <1>1, Numbers DEF ExpiresInTime, LeaksExpire
<1>8. RacedBefore'
  BY <1>1 DEF IInv, Typed, RacedBefore
<1>9. OneInside'
  BY <1>1 DEF IInv, Typed, OneInside, Inside
<1>10. QuotaCounts'
  <2> SUFFICES ASSUME ~overlapped PROVE QuotaCounts'
    BY <1>1 DEF QuotaCounts
  <2>1. lost \in Nat /\ seen[r].count <= Cardinality(Claims) + lost
    BY <1>1 DEF IInv, TypeOK, QuotaCounts
  <2>2. Got'.count \in Nat /\ Got'.count <= seen[r].count + 1
    <3>1. Got' = entry' \/ Got'.count = 0
      BY DEF Got, Absent
    <3> QED
      BY <1>1, <3>1
  <2>3. Got'.count <= Cardinality(Claims') + lost'
    BY <1>1, <1>3, <2>1, <2>2
  <2>4. \A s \in Request : at'[s] \notin {"read", "giving"}
    BY <1>1 DEF IInv, Typed, OneInside, Inside
  <2> QED
    BY <2>3, <2>4 DEF QuotaCounts
<1>11. RateCounts'
  BY <1>1 DEF RateCounts
<1> QED
  BY <1>4, <1>6, <1>7, <1>8, <1>9, <1>10, <1>11 DEF IInv

LEMMA ReleaseStep == ASSUME IInv, NEW r \in Request, Release(r) PROVE IInv'
<1> USE DEF Moved
<1>1. rule = "quota"
  BY DEF Release, IInv, TypeOK, Typed
<1>2. Ttl \in {None} \cup 1 .. Window
  BY <1>1, Numbers DEF Ttl, Live, IInv, TypeOK, Entry, ExpiresInTime
<1>3. Claims' = Claims
  BY DEF Release, Claims, IInv, Typed
<1>4. Typed'
  BY <1>1, <1>2, <1>3 DEF Release, IInv, Typed, Inside
<1>5. TypeOK'
  BY <1>1, <1>4 DEF Release, IInv, TypeOK, Typed
<1>6. ExpiresInTime' /\ LeaksExpire'
  BY DEF Release, IInv, ExpiresInTime, LeaksExpire
<1>7. RacedBefore'
  BY DEF Release, IInv, Typed, RacedBefore
<1>8. OneInside'
  BY DEF Release, IInv, Typed, OneInside
<1>9. QuotaCounts'
  <2>1. Got' = Got
    BY DEF Release, Got, Live
  <2> QED
    BY <1>3, <2>1 DEF Release, IInv, Typed, QuotaCounts
<1>10. RateCounts'
  BY <1>1 DEF Release, RateCounts
<1> QED
  BY <1>4, <1>5, <1>6, <1>7, <1>8, <1>9, <1>10 DEF IInv

LEMMA PeekAgainStep == ASSUME IInv, NEW r \in Request, PeekAgain(r) PROVE IInv'
<1> USE DEF Moved
<1>1. rule = "quota" /\ Got.count \in Nat
  BY GotCount DEF PeekAgain, IInv, TypeOK, Typed
<1>2. Claims' = Claims
  BY DEF PeekAgain, Claims, IInv, Typed
<1>3. seen' \in [Request -> [count : Nat, start : 0 .. MaxTime]] /\ seen'[r].count = Got.count
  BY <1>1 DEF PeekAgain, IInv, Typed
<1>4. Typed'
  BY <1>1, <1>2, <1>3 DEF PeekAgain, IInv, Typed, Inside
<1>5. TypeOK'
  BY <1>1, <1>4 DEF PeekAgain, IInv, TypeOK, Typed
<1>6. ExpiresInTime' /\ LeaksExpire'
  BY DEF PeekAgain, IInv, ExpiresInTime, LeaksExpire
<1>7. RacedBefore'
  BY <1>3 DEF PeekAgain, IInv, Typed, RacedBefore
<1>8. OneInside'
  BY DEF PeekAgain, IInv, Typed, OneInside, Inside
<1>9. QuotaCounts'
  <2>1. Got' = Got
    BY DEF PeekAgain, Got, Live
  <2> QED
    BY <1>2, <1>3, <2>1 DEF PeekAgain, IInv, Typed, QuotaCounts
<1>10. RateCounts'
  BY <1>1 DEF PeekAgain, RateCounts
<1> QED
  BY <1>4, <1>5, <1>6, <1>7, <1>8, <1>9, <1>10 DEF IInv

LEMMA GiveBackStep == ASSUME IInv, NEW r \in Request, GiveBack(r) PROVE IInv'
<1> USE DEF Moved
<1> DEFINE count == IF seen[r].count > 0 THEN seen[r].count - 1 ELSE 0
<1>1. /\ rule = "quota" /\ at[r] = "giving" /\ seen[r].count \in Nat /\ clock \in 0 .. MaxTime
      /\ at' = [at EXCEPT ![r] = "idle"] /\ left[r] \in {None} \cup 1 .. Window
      /\ UNCHANGED <<rule, clock, overlapped, raced, lost, accepted>>
      /\ seen' = [seen EXCEPT ![r] = [count |-> 0, start |-> 0]]
      /\ left' = [left EXCEPT ![r] = None]
      /\ entry' = [count |-> count, start |-> 0,
                   expires |-> IF left[r] = None THEN Never ELSE clock + left[r]]
  BY DEF GiveBack, Nothing, Set, IInv, TypeOK, Typed
<1>2. Claims' = Claims \ {r} /\ r \in Claims
  BY <1>1 DEF Claims, IInv, Typed
<1>3. IsFiniteSet(Claims') /\ Cardinality(Claims') = Cardinality(Claims) - 1 /\ Cardinality(Claims') \in Nat
  BY <1>2, FS_RemoveElement, FS_CardinalityType DEF IInv, Typed
<1>4. Typed'
  BY <1>1, <1>3, Numbers DEF IInv, Typed, Inside
<1>5. entry' \in Entry
  BY <1>1, Numbers DEF Entry
<1>6. TypeOK'
  BY <1>1, <1>4, <1>5 DEF IInv, TypeOK, Typed
<1>7. ExpiresInTime'
  BY <1>1, Numbers DEF ExpiresInTime
<1>8. LeaksExpire'
  BY <1>1, Numbers DEF IInv, RacedBefore, LeaksExpire
<1>9. RacedBefore'
  BY <1>1 DEF IInv, Typed, RacedBefore
<1>10. OneInside'
  BY <1>1 DEF IInv, Typed, OneInside, Inside
<1>11. QuotaCounts'
  <2> SUFFICES ASSUME ~overlapped PROVE QuotaCounts'
    BY <1>1 DEF QuotaCounts
  <2>1. lost \in Nat /\ seen[r].count <= Cardinality(Claims) + lost
    BY <1>1 DEF IInv, TypeOK, QuotaCounts
  <2>2. count \in Nat /\ count <= Cardinality(Claims') + lost
    BY <1>1, <1>2, <1>3, <2>1, FS_CardinalityType DEF IInv, Typed
  <2>3. Got'.count <= Cardinality(Claims') + lost'
    <3>1. Got' = entry' \/ Got'.count = 0
      BY DEF Got, Absent
    <3> HIDE DEF count
    <3> QED
      BY <1>1, <1>3, <2>1, <2>2, <3>1
  <2>4. \A s \in Request : at'[s] \notin {"read", "giving"}
    BY <1>1 DEF IInv, Typed, OneInside, Inside
  <2> QED
    BY <2>3, <2>4 DEF QuotaCounts
<1>12. RateCounts'
  BY <1>1 DEF RateCounts
<1> QED
  BY <1>4, <1>6, <1>7, <1>8, <1>9, <1>10, <1>11, <1>12 DEF IInv

LEMMA PutStep == ASSUME IInv, NEW r \in Request, Put(r) PROVE IInv'
<1> USE DEF Moved
<1>1. /\ rule = "rate" /\ at[r] = "read" /\ clock \in 0 .. MaxTime
      /\ seen[r].count \in Nat /\ seen[r].start \in 0 .. MaxTime
      /\ at' = [at EXCEPT ![r] = "idle"]
      /\ UNCHANGED <<rule, clock, left, overlapped, raced, lost>>
      /\ seen' = [seen EXCEPT ![r] = [count |-> 0, start |-> 0]]
      /\ entry' = [count |-> seen[r].count + 1, start |-> seen[r].start,
                   expires |-> clock + 2 * Window]
  BY Numbers DEF Put, Nothing, Set, IInv, TypeOK, Typed
<1>2. accepted' \in [Windows -> 0 .. Limit + 1]
  <2>1. \A n \in 0 .. Limit + 1 : (IF n > Limit THEN n ELSE n + 1) \in 0 .. Limit + 1
    BY Numbers
  <2>2. accepted \in [Windows -> 0 .. Limit + 1]
    BY DEF IInv, TypeOK
  <2> QED
    BY <2>1, <2>2 DEF Put
<1>3. Claims' = Claims
  BY <1>1 DEF Claims, IInv, Typed
<1>4. Typed'
  BY <1>1, <1>3, Numbers DEF IInv, Typed, Inside
<1>5. entry' \in Entry
  BY <1>1, Numbers DEF Entry
<1>6. TypeOK'
  <2>1. Running' = {}
    BY <1>1 DEF Running, IInv, TypeOK, Typed
  <2> QED
    BY <1>1, <1>2, <1>4, <1>5, <2>1 DEF IInv, TypeOK, Typed
<1>7. ExpiresInTime' /\ LeaksExpire'
  BY <1>1, Numbers DEF ExpiresInTime, LeaksExpire
<1>8. RacedBefore'
  BY <1>1 DEF IInv, Typed, RacedBefore
<1>9. OneInside'
  BY <1>1 DEF IInv, Typed, OneInside, Inside
<1>10. QuotaCounts'
  BY <1>1 DEF QuotaCounts
<1>11. RateCounts'
  <2> SUFFICES ASSUME ~overlapped PROVE RateCounts'
    BY <1>1 DEF RateCounts
  <2> DEFINE w == seen[r].start
  <2>1. /\ w \in Windows /\ w <= clock /\ accepted[w] <= seen[r].count
        /\ \A v \in Windows : v > w => accepted[v] = 0
        /\ \A v \in Windows : accepted[v] <= Limit /\ accepted[v] \in Nat /\ v \in Nat
    BY <1>1, Numbers DEF IInv, TypeOK, RateCounts, Covers
  <2>2. /\ \A v \in Windows : v # w => accepted'[v] = accepted[v]
        /\ accepted'[w] = accepted[w] \/ (seen[r].count + 1 <= Limit /\ accepted'[w] = accepted[w] + 1)
    BY <2>1, Numbers DEF Put, IInv, TypeOK
  <2>3. \A s \in Request : at'[s] # "read"
    BY <1>1 DEF IInv, Typed, OneInside, Inside
  <2>4. accepted'[w] <= seen[r].count + 1 /\ accepted'[w] <= Limit
    BY <1>1, <2>1, <2>2, Numbers
  <2>5. entry'.count = seen[r].count + 1 /\ entry'.start = w /\ entry'.expires >= w + Window
    BY <1>1, <2>1, Numbers
  <2> HIDE DEF w
  <2>6. PICK v \in Windows, n \in Nat : v = w /\ n = seen[r].count + 1
    BY <1>1, <2>1
  <2>7. Covers(n, v)'
    BY <1>1, <2>1, <2>2, <2>4, <2>6 DEF Covers
  <2>8. \A u \in Windows : accepted'[u] <= Limit
    BY <2>1, <2>2, <2>4
  <2> QED
    BY <2>3, <2>5, <2>6, <2>7, <2>8 DEF RateCounts, Covers
<1> QED
  BY <1>4, <1>6, <1>7, <1>8, <1>9, <1>10, <1>11 DEF IInv

LEMMA VanishStep == ASSUME IInv, NEW r \in Request, Vanish(r) PROVE IInv'
<1> USE DEF Moved
<1>1. /\ UNCHANGED <<rule, clock, entry, overlapped, raced, accepted>> /\ at[r] # "idle"
      /\ at' = [at EXCEPT ![r] = "idle"] /\ left' = [left EXCEPT ![r] = None]
      /\ seen' = [seen EXCEPT ![r] = [count |-> 0, start |-> 0]]
      /\ lost \in Nat /\ lost' \in 0 .. MaxLost /\ MaxLost \in Nat
      /\ lost' = IF at[r] = "read" THEN lost ELSE lost + 1
  BY SharedStoresAssumption DEF Vanish, Nothing, IInv, TypeOK
<1>2. /\ at[r] = "read" => Claims' = Claims
      /\ at[r] # "read" => Claims' = Claims \ {r} /\ r \in Claims
      /\ Running' = Running \ {r}
  BY <1>1 DEF Claims, Running, IInv, Typed, Inside
<1>3. /\ IsFiniteSet(Claims') /\ Cardinality(Claims') \in Nat /\ Cardinality(Claims) \in Nat
      /\ Cardinality(Claims') + lost' = Cardinality(Claims) + lost
  <2>1. IsFiniteSet(Claims) /\ Cardinality(Claims) \in Nat
    BY FS_CardinalityType DEF IInv, Typed
  <2>2. CASE at[r] = "read"
    BY <1>1, <1>2, <2>1, <2>2
  <2>3. CASE at[r] # "read"
    <3>1. IsFiniteSet(Claims \ {r}) /\ Cardinality(Claims \ {r}) = Cardinality(Claims) - 1
      BY <1>2, <2>1, <2>3, FS_RemoveElement
    <3>2. Cardinality(Claims \ {r}) \in Nat
      BY <3>1, FS_CardinalityType
    <3>3. IsFiniteSet(Claims') /\ Cardinality(Claims') = Cardinality(Claims \ {r})
      BY <1>2, <2>3, <3>1
    <3>4. lost' = lost + 1
      BY <1>1, <2>3
    <3> QED
      BY <1>1, <2>1, <3>1, <3>2, <3>3, <3>4
  <2> QED
    BY <2>2, <2>3
<1>4. Typed'
  BY <1>1, <1>3, Numbers DEF IInv, Typed, Inside
<1>5. TypeOK'
  <2>1. rule = "rate" => at[r] = "read"
    BY <1>1 DEF IInv, Typed
  <2> QED
    BY <1>1, <1>2, <1>4, <2>1 DEF IInv, TypeOK, Typed
<1>6. ExpiresInTime' /\ LeaksExpire'
  BY <1>1 DEF IInv, ExpiresInTime, LeaksExpire
<1>7. RacedBefore'
  BY <1>1 DEF IInv, Typed, RacedBefore
<1>8. OneInside'
  BY <1>1 DEF IInv, Typed, OneInside, Inside
<1>9. QuotaCounts'
  <2>1. Got' = Got
    BY <1>1 DEF Got, Live
  <2> QED
    BY <1>1, <1>3, <2>1 DEF IInv, Typed, QuotaCounts
<1>10. RateCounts'
  BY <1>1 DEF IInv, Typed, RateCounts, Covers
<1> QED
  BY <1>4, <1>5, <1>6, <1>7, <1>8, <1>9, <1>10 DEF IInv

LEMMA ResetStep == ASSUME IInv, Reset PROVE IInv'
<1>1. /\ entry' = [count |-> 0, start |-> 0, expires |-> 0] /\ accepted' = [w \in Windows |-> 0]
      /\ UNCHANGED <<rule, clock, at, seen, left, raced, lost>> /\ clock \in 0 .. MaxTime
      /\ ~overlapped' => ~overlapped /\ \A r \in Request : at[r] \notin Inside
  BY DEF Reset, Absent, Alone, IInv, TypeOK
<1>2. Claims' = Claims /\ Running' = Running
  BY <1>1 DEF Claims, Running
<1>3. Typed'
  BY <1>1, <1>2 DEF IInv, Typed
<1>4. TypeOK'
  BY <1>1, <1>2, Numbers DEF Reset, IInv, TypeOK, Entry, Alone
<1>5. ExpiresInTime' /\ LeaksExpire' /\ RacedBefore' /\ OneInside'
  BY <1>1, Numbers DEF IInv, TypeOK, ExpiresInTime, LeaksExpire, RacedBefore, OneInside
<1>6. QuotaCounts'
  <2>1. Got'.count = 0
    BY <1>1 DEF Got, Absent
  <2>2. Cardinality(Claims) \in Nat /\ lost \in Nat
    BY FS_CardinalityType DEF IInv, TypeOK, Typed
  <2> QED
    BY <1>1, <1>2, <2>1, <2>2 DEF QuotaCounts, Inside
<1>7. RateCounts'
  BY <1>1, Numbers DEF RateCounts, Covers, Inside
<1> QED
  BY <1>3, <1>4, <1>5, <1>6, <1>7 DEF IInv

LEMMA TickStep == ASSUME IInv, Tick PROVE IInv'
<1>1. /\ UNCHANGED <<rule, entry, at, seen, left, overlapped, raced, lost, accepted>>
      /\ clock \in 0 .. MaxTime /\ clock' = clock + 1 /\ clock' \in 0 .. MaxTime
  BY Numbers DEF Tick, IInv, TypeOK
<1>2. Claims' = Claims /\ Running' = Running
  BY <1>1 DEF Claims, Running
<1>3. Typed'
  BY <1>1, <1>2 DEF IInv, Typed
<1>4. TypeOK'
  BY <1>1, <1>2 DEF IInv, TypeOK
<1>5. ExpiresInTime'
  BY <1>1, Numbers DEF IInv, TypeOK, Entry, ExpiresInTime
<1>6. LeaksExpire' /\ RacedBefore' /\ OneInside'
  BY <1>1 DEF IInv, LeaksExpire, RacedBefore, OneInside
<1>7. QuotaCounts'
  <2>1. Got'.count = Got.count \/ Got'.count = 0
    BY <1>1, GotCount DEF IInv, Got, Live, Absent
  <2>2. Cardinality(Claims) \in Nat /\ lost \in Nat
    BY FS_CardinalityType DEF IInv, TypeOK, Typed
  <2> QED
    BY <1>1, <1>2, <2>1, <2>2 DEF IInv, QuotaCounts
<1>8. RateCounts'
  <2>1. \A start \in Windows : start <= clock => start <= clock'
    BY <1>1, Numbers
  <2> QED
    BY <1>1, <2>1 DEF IInv, RateCounts, Covers
<1> QED
  BY <1>3, <1>4, <1>5, <1>6, <1>7, <1>8 DEF IInv

LEMMA NextKeepsInvariant == ASSUME IInv, [Next]_vars PROVE IInv'
<1>1. CASE Next
  BY <1>1, ReadStep, ConsumeStep, ReleaseStep, PeekAgainStep, GiveBackStep, PutStep, VanishStep,
     ResetStep, TickStep DEF Next
<1>2. CASE UNCHANGED vars
  BY <1>2 DEF vars, IInv, TypeOK, Typed, Claims, Running, ExpiresInTime, LeaksExpire, RacedBefore,
     OneInside, QuotaCounts, Got, Live, RateCounts, Covers
<1> QED
  BY <1>1, <1>2

-----------------------------------------------------------------------------
(* The theorems.                                                           *)

LEMMA InvariantHolds == Spec => []IInv
<1> QED
  BY InitEstablishesInvariant, NextKeepsInvariant, PTL DEF Spec

\* Every variable stays in its range: no TTL read or written is longer than a
\* window, and no count negative, for any limit, window and requests.
THEOREM TypeCorrect == Spec => []TypeOK
<1>1. IInv => TypeOK
  BY DEF IInv
<1> QED
  BY <1>1, InvariantHolds, PTL

\* Requests that take the store in turns are counted as by one process, for
\* any number of them, though each call may fall apart from the next, keys
\* expire between them and requests are lost.
THEOREM CountsRightInTurns == Spec => []InTurnsItCountsRight
<1>1. IInv => InTurnsItCountsRight
  <2> SUFFICES ASSUME IInv, ~overlapped
               PROVE  /\ \A w \in Windows : accepted[w] <= Limit
                      /\ (rule = "quota" /\ Alone) => Got.count <= Cardinality(Running) + lost
    BY DEF InTurnsItCountsRight
  <2>1. \A w \in Windows : accepted[w] <= Limit
    BY Numbers DEF IInv, TypeOK, Typed, RateCounts
  <2>2. Alone => Claims = Running
    BY DEF Alone, Claims, Running, Inside
  <2> QED
    BY <2>1, <2>2 DEF IInv, QuotaCounts
<1> QED
  BY <1>1, InvariantHolds, PTL

\* Only a release that raced with an expiry leaves a count that never expires.
THEOREM LeaksExpireUnlessRaced == Spec => []LeaksExpire
<1>1. IInv => LeaksExpire
  BY DEF IInv
<1> QED
  BY <1>1, InvariantHolds, PTL

-----------------------------------------------------------------------------
(* Persistence.                                                            *)

Places == {"new", "open", "working", "writing", "failing", "returning", "closed"}

\* The columns that a flush of unit u may write.
Delta(u) == {[by |-> u, deleted |-> FALSE], [by |-> u], [deleted |-> TRUE]}

Change == UNION {[unit : {u}, step : Nat, row : Row, change : Delta(u)] : u \in Unit}

ServicesTyped ==
    /\ shared \in BOOLEAN
    /\ work \in [Unit -> Work]
    /\ place \in [Unit -> Places]
    /\ step \in [Unit -> Nat \ {0}]
    /\ rows \in [Row -> [by : Unit \cup {0, NoValue}, deleted : BOOLEAN]]
    /\ pending \in [Services!Connection -> Seq(Change)]
    /\ flushed \in [Unit -> SUBSET Nat]
    /\ durable \in [Unit -> SUBSET Nat]
    /\ crowded \subseteq Unit

\* A unit that writes has found the entity that it updates or deletes.
WritesWhatItFound ==
    \A u \in Unit : place[u] = "writing" => Services!Doing(u, {"update", "delete"})

\* What is pending on a connection was flushed by a unit that uses it.
OwnConnection ==
    \A k \in Services!Connection : \A i \in DOMAIN pending[k] :
        Services!On(pending[k][i].unit) = k

\* Two units that use the one connection are crowded.
CrowdedTogether ==
    shared => \A u, v \in Unit :
        u # v /\ place[u] \in Services!InUse /\ place[v] \in Services!InUse =>
            u \in crowded /\ v \in crowded

\* Of a unit that is at p and did f: what is pending and what is durable.
Stands(p, pend, f, dur, done) ==
    /\ p \in {"new", "open"} => pend = {} /\ f = {} /\ dur = {}
    /\ p \in {"working", "writing", "failing"} => pend = f /\ dur = {}
    /\ p \in {"returning", "closed"} => pend = {} /\ (dur = {} \/ (dur = f /\ done))

Pended(u) == Services!Steps(u, pending[Services!On(u)])

UnitsStand ==
    \A u \in Unit : ~shared \/ u \notin crowded =>
        Stands(place[u], Pended(u), flushed[u], durable[u], step[u] > Len(work[u]))

\* A row is written on one connection at a time.
OneWriter ==
    \A k, l \in Services!Connection : k # l =>
        \A i \in DOMAIN pending[k], j \in DOMAIN pending[l] :
            pending[k][i].row # pending[l][j].row

\* An entity is only added where none was deleted.
AddedAfresh ==
    \A k \in Services!Connection : \A i \in DOMAIN pending[k] :
        LET c == pending[k][i] IN
        "by" \in DOMAIN c.change /\ "deleted" \in DOMAIN c.change =>
            ~rows[c.row].deleted

ServicesInv ==
    /\ ServicesTyped /\ WritesWhatItFound /\ OwnConnection
    /\ CrowdedTogether /\ UnitsStand /\ OneWriter /\ AddedAfresh

LEMMA InSteps ==
    ASSUME NEW u, NEW trail, NEW s
    PROVE  s \in Services!Steps(u, trail) <=>
               \E i \in DOMAIN trail : trail[i].unit = u /\ trail[i].step = s
  BY DEF Services!Steps, Services!ToSet

LEMMA NoSteps == ASSUME NEW u PROVE Services!Steps(u, <<>>) = {}
  BY InSteps

LEMMA MoreSteps ==
    ASSUME NEW S, NEW trail \in Seq(S), NEW e \in S, NEW u
    PROVE  Services!Steps(u, Append(trail, e)) =
               Services!Steps(u, trail) \cup (IF e.unit = u THEN {e.step} ELSE {})
<1> DEFINE longer == Append(trail, e)
<1>1. longer \in Seq(S) /\ Len(longer) = Len(trail) + 1 /\ Len(trail) \in Nat
  BY AppendProperties, LenProperties
<1>2. longer[Len(trail) + 1] = e /\ \A i \in 1 .. Len(trail) : longer[i] = trail[i]
  BY AppendProperties
<1>3. DOMAIN longer = 1 .. (Len(trail) + 1) /\ DOMAIN trail = 1 .. Len(trail)
  BY <1>1, LenProperties
<1> HIDE DEF longer
<1>4. ASSUME NEW s \in Services!Steps(u, longer)
      PROVE  s \in Services!Steps(u, trail) \/ (e.unit = u /\ s = e.step)
  <2>1. PICK i \in DOMAIN longer : longer[i].unit = u /\ longer[i].step = s
    BY <1>4, InSteps
  <2>2. CASE i = Len(trail) + 1
    BY <2>1, <2>2, <1>2
  <2>3. CASE i # Len(trail) + 1
    <3>1. i \in 1 .. Len(trail)
      BY <2>3, <1>1, <1>3
    <3> QED BY <3>1, <2>1, <1>2, <1>3, InSteps
  <2> QED BY <2>2, <2>3
<1>5. ASSUME NEW s \in Services!Steps(u, trail) PROVE s \in Services!Steps(u, longer)
  <2>1. PICK i \in DOMAIN trail : trail[i].unit = u /\ trail[i].step = s
    BY <1>5, InSteps
  <2>2. i \in DOMAIN longer /\ longer[i] = trail[i]
    BY <1>1, <1>2, <1>3
  <2> QED BY <2>1, <2>2, InSteps
<1>6. e.unit = u => e.step \in Services!Steps(u, longer)
  <2>1. Len(trail) + 1 \in DOMAIN longer
    BY <1>1, <1>3
  <2> QED BY <2>1, <1>2, InSteps
<1> QED BY <1>4, <1>5, <1>6 DEF longer

LEMMA OnItsConnection ==
    ASSUME ServicesTyped, NEW u \in Unit
    PROVE  /\ Services!On(u) \in Services!Connection
           /\ pending[Services!On(u)] \in Seq(Change)
  BY DEF ServicesTyped, Services!On, Services!Connection

LEMMA PendingTyped ==
    ASSUME ServicesTyped, NEW k \in Services!Connection, NEW i \in DOMAIN pending[k]
    PROVE  /\ pending[k][i] \in Change
           /\ pending[k][i].unit \in Unit /\ pending[k][i].row \in Row
           /\ pending[k][i].step \in Nat
           /\ pending[k][i].change \in Delta(pending[k][i].unit)
<1>1. pending[k] \in Seq(Change)
  BY DEF ServicesTyped
<1>2. pending[k][i] \in Change
  BY <1>1, LenProperties, ElementOfSeq
<1> QED BY <1>2 DEF Change

LEMMA NextOperation ==
    ASSUME ServicesTyped, NEW u \in Unit, step[u] <= Len(work[u])
    PROVE  /\ work[u][step[u]].op \in {"add", "update", "delete"}
           /\ work[u][step[u]].row \in Row
<1>1. work[u] \in Seq([op : {"add", "update", "delete"}, row : Row])
  BY ServicesAssumption DEF ServicesTyped, Services!PersistenceAssumption
<1>2. step[u] \in 1 .. Len(work[u])
  BY <1>1, LenProperties DEF ServicesTyped
<1>3. work[u][step[u]] \in [op : {"add", "update", "delete"}, row : Row]
  BY <1>1, <1>2, ElementOfSeq
<1> QED BY <1>3

LEMMA UnitsStart == Services!Init => ServicesInv
<1> SUFFICES ASSUME Services!Init PROVE ServicesInv
  OBVIOUS
<1> USE DEF Services!Init
<1>1. ServicesTyped
  <2>1. rows \in [Row -> [by : Unit \cup {0, NoValue}, deleted : BOOLEAN]]
    <3>1. rows \in [Row -> {Services!NoRow, Services!Stored}]
      OBVIOUS
    <3>2. {Services!NoRow, Services!Stored} \subseteq
              [by : Unit \cup {0, NoValue}, deleted : BOOLEAN]
      BY DEF Services!NoRow, Services!Stored
    <3>3. \A row \in Row : rows[row] \in [by : Unit \cup {0, NoValue}, deleted : BOOLEAN]
      BY <3>1, <3>2
    <3> QED BY <3>1, <3>3
  <2>2. pending \in [Services!Connection -> Seq(Change)]
    <3>1. <<>> \in Seq(Change)
      OBVIOUS
    <3> QED BY <3>1
  <2> QED BY <2>1, <2>2 DEF ServicesTyped, Places
<1>2. \A k \in Services!Connection : pending[k] = <<>>
  OBVIOUS
<1>3. OwnConnection /\ OneWriter /\ AddedAfresh
  BY <1>2 DEF OwnConnection, OneWriter, AddedAfresh
<1>4. \A u \in Unit : Pended(u) = {}
  BY <1>1, <1>2, OnItsConnection, NoSteps DEF Pended
<1>5. UnitsStand
  BY <1>4 DEF UnitsStand, Stands
<1>6. CrowdedTogether /\ WritesWhatItFound
  BY DEF CrowdedTogether, WritesWhatItFound, Services!InUse
<1> QED BY <1>1, <1>3, <1>5, <1>6 DEF ServicesInv

\* What another unit does with its connection while a unit is not crowded.
LEMMA Apart ==
    ASSUME ServicesInv, NEW u \in Unit, NEW v \in Unit, u # v,
           place[u] \in Services!InUse, ~shared \/ v \notin crowded
    PROVE  /\ Services!Steps(v, pending[Services!On(u)]) = {}
           /\ Services!On(v) # Services!On(u) \/ Pended(v) = {}
<1>1. CASE ~shared
  <2>1. Services!On(v) = v /\ Services!On(u) = u /\ u \in Services!Connection
    BY <1>1 DEF Services!On, Services!Connection
  <2>2. \A i \in DOMAIN pending[u] : pending[u][i].unit # v
    BY <1>1, <2>1 DEF ServicesInv, OwnConnection, Services!On
  <2> QED BY <2>1, <2>2, InSteps
<1>2. CASE shared
  <2>1. place[v] \notin Services!InUse
    BY <1>2 DEF ServicesInv, CrowdedTogether
  <2>2. place[v] \in {"new", "open", "closed"}
    BY <2>1 DEF ServicesInv, ServicesTyped, Places, Services!InUse
  <2>3. Pended(v) = {}
    BY <2>2 DEF ServicesInv, UnitsStand, Stands
  <2>4. Services!On(v) = Services!On(u)
    BY <1>2 DEF Services!On
  <2> QED BY <2>3, <2>4 DEF Pended
<1> QED BY <1>1, <1>2 DEF ServicesInv, ServicesTyped

\* The end of the transaction on the connection of u.
LEMMA ClearedConnection ==
    ASSUME ServicesInv, NEW u \in Unit, shared' = shared,
           pending' = [pending EXCEPT ![Services!On(u)] = <<>>],
           \A k \in Services!Connection \ {Services!On(u)} : \A i \in DOMAIN pending[k] :
               rows'[pending[k][i].row] = rows[pending[k][i].row]
    PROVE  /\ OwnConnection' /\ OneWriter' /\ AddedAfresh'
           /\ pending' \in [Services!Connection -> Seq(Change)]
           /\ Pended(u)' = {}
           /\ \A v \in Unit :
                Services!On(v) # Services!On(u) \/ Pended(v) = {} => Pended(v)' = Pended(v)
<1> DEFINE c == Services!On(u)
<1>1. pending'[c] = <<>> /\ \A k \in Services!Connection \ {c} : pending'[k] = pending[k]
  BY OnItsConnection DEF ServicesInv, ServicesTyped
<1>2. \A v : Services!On(v)' = Services!On(v)
  BY DEF Services!On
<1>3. \A v \in Unit : Services!On(v) \in Services!Connection
  BY OnItsConnection DEF ServicesInv
<1>4. pending' \in [Services!Connection -> Seq(Change)]
  <2>1. <<>> \in Seq(Change)
    OBVIOUS
  <2> QED BY <2>1 DEF ServicesInv, ServicesTyped
<1> HIDE DEF c
<1>5. OwnConnection'
  BY <1>1, <1>2 DEF ServicesInv, OwnConnection
<1>6. OneWriter'
  BY <1>1 DEF ServicesInv, OneWriter
<1>7. AddedAfresh'
  BY <1>1 DEF ServicesInv, AddedAfresh, c
<1>8. Pended(u)' = {}
  BY <1>1, <1>2, NoSteps DEF Pended, c
<1>9. ASSUME NEW v \in Unit, Services!On(v) # Services!On(u) \/ Pended(v) = {}
      PROVE  Pended(v)' = Pended(v)
  <2>1. CASE Services!On(v) = c
    BY <2>1, <1>1, <1>2, <1>9, NoSteps DEF Pended, c
  <2>2. CASE Services!On(v) # c
    BY <2>2, <1>1, <1>2, <1>3 DEF Pended
  <2> QED BY <2>1, <2>2
<1> QED BY <1>4, <1>5, <1>6, <1>7, <1>8, <1>9

\* What does not touch the connections.
LEMMA SameConnections ==
    ASSUME ServicesInv, UNCHANGED <<shared, rows, pending>>
    PROVE  /\ OwnConnection' /\ OneWriter' /\ AddedAfresh'
           /\ \A v \in Unit : Pended(v)' = Pended(v)
<1>1. \A v : Services!On(v)' = Services!On(v)
  BY DEF Services!On
<1>2. OwnConnection'
  BY <1>1 DEF ServicesInv, OwnConnection
<1>3. OneWriter' /\ AddedAfresh'
  BY DEF ServicesInv, OneWriter, AddedAfresh
<1>4. \A v \in Unit : Pended(v)' = Pended(v)
  BY <1>1 DEF Pended
<1> QED BY <1>2, <1>3, <1>4

LEMMA OpenStep ==
    ASSUME ServicesInv, NEW u \in Unit, Services!Open(u) PROVE ServicesInv'
<1> USE DEF Services!Open, ServicesInv
<1>1. ServicesTyped'
  BY DEF ServicesTyped, Places
<1>2. OwnConnection' /\ OneWriter' /\ AddedAfresh' /\ \A v \in Unit : Pended(v)' = Pended(v)
  BY SameConnections
<1>3. \A v \in Unit : place'[v] = IF v = u THEN "open" ELSE place[v]
  BY DEF ServicesTyped
<1>4. WritesWhatItFound'
  BY <1>3 DEF WritesWhatItFound, Services!Doing
<1>5. CrowdedTogether'
  BY <1>3 DEF CrowdedTogether, Services!InUse
<1>6. UnitsStand'
  <2> SUFFICES ASSUME NEW v \in Unit, ~shared \/ v \notin crowded
               PROVE  Stands(place'[v], Pended(v)', flushed[v], durable[v],
                             step[v] > Len(work[v]))
    BY DEF UnitsStand
  <2>1. Stands(place[v], Pended(v), flushed[v], durable[v], step[v] > Len(work[v]))
    BY DEF UnitsStand
  <2> QED BY <2>1, <1>2, <1>3 DEF Stands
<1> QED BY <1>1, <1>2, <1>4, <1>5, <1>6

LEMMA UsingCrowds ==
    ASSUME ServicesInv, NEW u \in Unit, Services!Using(u), shared' = shared,
           \A v \in Unit \ {u} : place'[v] = place[v]
    PROVE  CrowdedTogether' /\ crowded \subseteq crowded' /\ crowded' \subseteq Unit
<1> USE DEF ServicesInv
<1> DEFINE others == {v \in Unit \ {u} : place[v] \in Services!InUse}
<1>1. crowded' = IF others = {} THEN crowded ELSE crowded \cup others \cup {u}
  BY DEF Services!Using
<1>2. crowded \subseteq crowded' /\ crowded' \subseteq Unit
  BY <1>1 DEF ServicesTyped
<1>3. ASSUME shared, NEW v \in Unit, NEW w \in Unit, v # w,
             place'[v] \in Services!InUse, place'[w] \in Services!InUse
      PROVE  v \in crowded' /\ w \in crowded'
  <2>1. CASE v # u /\ w # u
    <3>1. place[v] \in Services!InUse /\ place[w] \in Services!InUse
      BY <2>1, <1>3
    <3> QED BY <3>1, <1>2, <1>3 DEF CrowdedTogether
  <2>2. CASE v = u
    <3>1. w \in others
      BY <2>2, <1>3
    <3> QED BY <3>1, <2>2, <1>1
  <2>3. CASE w = u
    <3>1. v \in others
      BY <2>3, <1>3
    <3> QED BY <3>1, <2>3, <1>1
  <2> QED BY <2>1, <2>2, <2>3
<1>4. CrowdedTogether'
  BY <1>3 DEF CrowdedTogether, Services!InUse
<1> QED BY <1>2, <1>4

LEMMA GetByIdStep ==
    ASSUME ServicesInv, NEW u \in Unit, Services!GetById(u) PROVE ServicesInv'
<1> USE DEF ServicesInv
<1> DEFINE found == place' = [place EXCEPT ![u] = "writing"] /\ UNCHANGED step
           missed == /\ place' = [place EXCEPT ![u] = "working"]
                     /\ step' = [step EXCEPT ![u] = @ + 1]
<1>1. /\ found \/ missed
      /\ place[u] \in {"open", "working"} /\ Services!Doing(u, {"update", "delete"})
      /\ Services!Using(u)
      /\ UNCHANGED <<shared, work, rows, pending, flushed, durable>>
  BY Zenon DEF Services!GetById
<1>2. OwnConnection' /\ OneWriter' /\ AddedAfresh' /\ \A v \in Unit : Pended(v)' = Pended(v)
  BY <1>1, SameConnections
<1>3. /\ \A v \in Unit \ {u} : place'[v] = place[v] /\ step'[v] = step[v]
      /\ place'[u] \in {"writing", "working"}
      /\ place'[u] = "writing" => step'[u] = step[u]
      /\ place' \in [Unit -> Places] /\ step' \in [Unit -> Nat \ {0}]
  <2>1. CASE found
    BY <2>1 DEF ServicesTyped, Places
  <2>2. CASE missed
    BY <2>2 DEF ServicesTyped, Places
  <2> QED BY <1>1, <2>1, <2>2
<1> HIDE DEF found, missed
<1>4. CrowdedTogether' /\ crowded \subseteq crowded' /\ crowded' \subseteq Unit
  BY <1>1, <1>3, UsingCrowds
<1>5. ServicesTyped'
  BY <1>1, <1>3, <1>4 DEF ServicesTyped, Services!Connection
<1>6. WritesWhatItFound'
  BY <1>1, <1>3 DEF WritesWhatItFound, Services!Doing
<1>7. UnitsStand'
  <2> SUFFICES ASSUME NEW v \in Unit, ~shared \/ v \notin crowded
               PROVE  Stands(place'[v], Pended(v)', flushed[v], durable[v],
                             step'[v] > Len(work[v]))
    BY <1>1, <1>4 DEF UnitsStand
  <2>1. Stands(place[v], Pended(v), flushed[v], durable[v], step[v] > Len(work[v]))
    BY DEF UnitsStand
  <2>2. CASE v = u
    BY <2>1, <2>2, <1>1, <1>2, <1>3 DEF Stands
  <2>3. CASE v # u
    BY <2>1, <2>3, <1>2, <1>3 DEF Stands
  <2> QED BY <2>2, <2>3
<1> QED BY <1>2, <1>4, <1>5, <1>6, <1>7

LEMMA RaisesStep ==
    ASSUME ServicesInv, NEW u \in Unit, Services!Raises(u) PROVE ServicesInv'
<1> USE DEF Services!Raises, ServicesInv
<1>1. ServicesTyped'
  BY DEF ServicesTyped, Places
<1>2. OwnConnection' /\ OneWriter' /\ AddedAfresh' /\ \A v \in Unit : Pended(v)' = Pended(v)
  BY SameConnections
<1>3. \A v \in Unit : place'[v] =
          IF v = u THEN (IF place[u] = "open" THEN "closed" ELSE "failing") ELSE place[v]
  BY DEF ServicesTyped
<1>4. WritesWhatItFound'
  BY <1>3 DEF WritesWhatItFound, Services!Doing
<1>5. CrowdedTogether'
  <2>1. \A v \in Unit : place'[v] \in Services!InUse => place[v] \in Services!InUse
    BY <1>3 DEF Services!InUse
  <2> QED BY <2>1 DEF CrowdedTogether, Services!InUse
<1>6. UnitsStand'
  <2> SUFFICES ASSUME NEW v \in Unit, ~shared \/ v \notin crowded
               PROVE  Stands(place'[v], Pended(v)', flushed[v], durable[v],
                             step[v] > Len(work[v]))
    BY DEF UnitsStand
  <2>1. Stands(place[v], Pended(v), flushed[v], durable[v], step[v] > Len(work[v]))
    BY DEF UnitsStand
  <2> QED BY <2>1, <1>2, <1>3 DEF Stands
<1> QED BY <1>1, <1>2, <1>4, <1>5, <1>6

\* The end of a transaction: u goes on to p, and all but the connection stays.
LEMMA EndsOf ==
    ASSUME ServicesInv, NEW u \in Unit, NEW p \in {"returning", "closed"},
           place' = [place EXCEPT ![u] = p],
           pending' = [pending EXCEPT ![Services!On(u)] = <<>>],
           UNCHANGED <<shared, work, step, flushed, crowded>>,
           place[u] \in Services!InUse
    PROVE  /\ WritesWhatItFound' /\ CrowdedTogether'
           /\ \A v \in Unit : place'[v] = IF v = u THEN p ELSE place[v]
           /\ /\ rows' \in [Row -> [by : Unit \cup {0, NoValue}, deleted : BOOLEAN]]
              /\ durable' \in [Unit -> SUBSET Nat]
              => ServicesTyped'
<1> USE DEF ServicesInv
<1>1. \A v \in Unit : place'[v] = IF v = u THEN p ELSE place[v]
  BY DEF ServicesTyped
<1>2. WritesWhatItFound'
  BY <1>1 DEF WritesWhatItFound, Services!Doing
<1>3. CrowdedTogether'
  <2>1. \A v \in Unit : place'[v] \in Services!InUse => place[v] \in Services!InUse
    BY <1>1
  <2> QED BY <2>1 DEF CrowdedTogether, Services!InUse
<1>4. place' \in [Unit -> Places]
  BY DEF ServicesTyped, Places
<1>5. pending' \in [Services!Connection -> Seq(Change)]
  <2>1. <<>> \in Seq(Change)
    OBVIOUS
  <2> QED BY <2>1 DEF ServicesTyped
<1> QED BY <1>1, <1>2, <1>3, <1>4, <1>5 DEF ServicesTyped, Services!Connection

LEMMA RolledBack ==
    ASSUME ServicesInv, NEW u \in Unit, NEW p \in {"returning", "closed"},
           place' = [place EXCEPT ![u] = p], Services!RollbackOf(u),
           UNCHANGED <<shared, work, step, flushed, crowded>>,
           place[u] \in Services!InUse
    PROVE  ServicesInv'
<1> USE DEF ServicesInv, Services!RollbackOf
<1>1. /\ WritesWhatItFound' /\ CrowdedTogether' /\ ServicesTyped'
      /\ \A v \in Unit : place'[v] = IF v = u THEN p ELSE place[v]
  BY EndsOf DEF ServicesTyped
<1>2. /\ OwnConnection' /\ OneWriter' /\ AddedAfresh' /\ Pended(u)' = {}
      /\ \A v \in Unit :
           Services!On(v) # Services!On(u) \/ Pended(v) = {} => Pended(v)' = Pended(v)
  BY ClearedConnection
<1>3. UnitsStand'
  <2> SUFFICES ASSUME NEW v \in Unit, ~shared \/ v \notin crowded
               PROVE  Stands(place'[v], Pended(v)', flushed[v], durable[v],
                             step[v] > Len(work[v]))
    BY DEF UnitsStand
  <2>1. Stands(place[v], Pended(v), flushed[v], durable[v], step[v] > Len(work[v]))
    BY DEF UnitsStand
  <2>2. CASE v = u
    BY <2>1, <2>2, <1>1, <1>2 DEF Stands, Services!InUse
  <2>3. CASE v # u
    <3>1. Pended(v)' = Pended(v)
      BY <2>3, <1>2, Apart
    <3> QED BY <3>1, <2>1, <2>3, <1>1 DEF Stands
  <2> QED BY <2>2, <2>3
<1> QED BY <1>1, <1>2, <1>3

LEMMA RollbackStep ==
    ASSUME ServicesInv, NEW u \in Unit, Services!Rollback(u) PROVE ServicesInv'
  BY RolledBack DEF Services!Rollback, Services!InUse

LEMMA ResetConnectionStep ==
    ASSUME ServicesInv, NEW u \in Unit, Services!Reset(u) PROVE ServicesInv'
  BY RolledBack DEF Services!Reset, Services!InUse

LEMMA CloseStep ==
    ASSUME ServicesInv, NEW u \in Unit, Services!Close(u) PROVE ServicesInv'
<1>1. CASE place[u] = "working"
  BY <1>1, RolledBack DEF Services!Close, Services!InUse
<1>2. CASE place[u] = "open"
  <2> USE <1>2 DEF Services!Close, ServicesInv
  <2>1. ServicesTyped'
    BY DEF ServicesTyped, Places
  <2>2. /\ OwnConnection' /\ OneWriter' /\ AddedAfresh'
        /\ \A v \in Unit : Pended(v)' = Pended(v)
    BY SameConnections
  <2>3. \A v \in Unit : place'[v] = IF v = u THEN "closed" ELSE place[v]
    BY DEF ServicesTyped
  <2>4. WritesWhatItFound'
    BY <2>3 DEF WritesWhatItFound, Services!Doing
  <2>5. CrowdedTogether'
    BY <2>3 DEF CrowdedTogether, Services!InUse
  <2>6. UnitsStand'
    <3> SUFFICES ASSUME NEW v \in Unit, ~shared \/ v \notin crowded
                 PROVE  Stands(place'[v], Pended(v)', flushed[v], durable[v],
                               step[v] > Len(work[v]))
      BY DEF UnitsStand
    <3>1. Stands(place[v], Pended(v), flushed[v], durable[v], step[v] > Len(work[v]))
      BY DEF UnitsStand
    <3> QED BY <3>1, <2>2, <2>3 DEF Stands
  <2> QED BY <2>1, <2>2, <2>4, <2>5, <2>6
<1> QED BY <1>1, <1>2 DEF Services!Close

LEMMA CrashStep == ASSUME ServicesInv, Services!Crash PROVE ServicesInv'
<1> USE DEF Services!Crash, ServicesInv
<1>1. ServicesTyped'
  <2>1. <<>> \in Seq(Change)
    OBVIOUS
  <2>2. pending' \in [Services!Connection -> Seq(Change)]
    BY <2>1
  <2> QED BY <2>2 DEF ServicesTyped, Places, Services!Connection
<1>2. \A k \in Services!Connection : pending'[k] = <<>>
  OBVIOUS
<1>3. OwnConnection' /\ OneWriter' /\ AddedAfresh'
  BY <1>2 DEF OwnConnection, OneWriter, AddedAfresh, Services!Connection
<1>4. WritesWhatItFound' /\ CrowdedTogether'
  BY DEF WritesWhatItFound, CrowdedTogether
<1>5. \A v \in Unit : Pended(v)' = {}
  <2>1. \A v \in Unit : Services!On(v)' \in Services!Connection
    BY DEF Services!On, Services!Connection
  <2> QED BY <2>1, <1>2, NoSteps DEF Pended
<1>6. UnitsStand'
  <2> SUFFICES ASSUME NEW v \in Unit
               PROVE  Stands(place'[v], Pended(v)', flushed[v], durable[v],
                             step[v] > Len(work[v]))
    BY DEF UnitsStand
  <2>1. Stands(place[v], Pended(v), flushed[v], durable[v], step[v] > Len(work[v]))
    BY DEF UnitsStand
  <2>2. place[v] \in Places
    BY DEF ServicesTyped
  <2> QED BY <2>1, <2>2, <1>5 DEF Stands, Places
<1> QED BY <1>1, <1>3, <1>4, <1>6

LEMMA Latest ==
    ASSUME NEW S, S \subseteq Nat, S # {}, NEW n \in Nat, S \subseteq 1 .. n
    PROVE  \E x \in S : \A y \in S : y <= x
<1> DEFINE R == StrictSubsetOrdering(Nat)
           F == FiniteSubsetsOf(Nat)
           U == {m .. n : m \in S}
<1>1. IsWellFoundedOn(R, F) /\ U \subseteq F /\ U # {}
  <2>1. \A m \in Nat : IsFiniteSet(m .. n) /\ m .. n \subseteq Nat
    BY FS_Interval
  <2>2. U \subseteq F
    BY <2>1 DEF FiniteSubsetsOf
  <2> QED BY <2>2, FS_StrictSubsetOrderingWellFounded
<1>2. \E u \in U : \A v \in U : <<v, u>> \notin R
  <2> HIDE DEF R, F, U
  <2> QED BY <1>1, WFMin
<1>3. PICK m \in S : \A v \in U : <<v, m .. n>> \notin R
  BY <1>2
<1>4. ASSUME NEW k \in S, k > m PROVE FALSE
  <2>1. k \in Nat /\ m \in Nat /\ k <= n /\ m <= n
    OBVIOUS
  <2>2. k .. n \subseteq m .. n /\ k .. n # m .. n
    <3>1. m \in m .. n /\ m \notin k .. n
      BY <2>1, <1>4
    <3>2. k .. n \subseteq m .. n
      BY <2>1, <1>4
    <3> QED BY <3>1, <3>2
  <2>3. <<k .. n, m .. n>> \in R
    <3>1. k .. n \in SUBSET Nat /\ m .. n \in SUBSET Nat
      BY <2>1
    <3> QED BY <2>2, <3>1 DEF StrictSubsetOrdering
  <2> QED BY <1>3, <2>3
<1>5. \A y \in S : y <= m
  BY <1>4
<1> QED BY <1>5

\* A column is what a pending change wrote, or as it was committed.
LEMMA ColumnIs ==
    ASSUME NEW S, NEW trail \in Seq(S), NEW row, NEW column
    PROVE  \/ /\ Services!Column(trail, row, column) = rows[row][column]
              /\ \A i \in DOMAIN trail :
                   ~(trail[i].row = row /\ column \in DOMAIN trail[i].change)
           \/ \E i \in DOMAIN trail :
                /\ trail[i].row = row /\ column \in DOMAIN trail[i].change
                /\ Services!Column(trail, row, column) = trail[i].change[column]
<1> DEFINE writing == {i \in DOMAIN trail :
                         trail[i].row = row /\ column \in DOMAIN trail[i].change}
           last == CHOOSE i \in writing : \A j \in writing : j <= i
<1>1. Services!Column(trail, row, column) =
        IF writing = {} THEN rows[row][column] ELSE trail[last].change[column]
  BY DEF Services!Column
<1>2. CASE writing = {}
  BY <1>1, <1>2
<1>3. CASE writing # {}
  <2>1. writing \subseteq 1 .. Len(trail) /\ Len(trail) \in Nat
    BY LenProperties
  <2>2. \E i \in writing : \A j \in writing : j <= i
    <3> HIDE DEF writing
    <3>1. writing \subseteq Nat
      BY <2>1
    <3> QED BY <3>1, <2>1, <1>3, Latest
  <2>3. last \in writing
    <3> HIDE DEF writing
    <3> QED BY <2>2
  <2> QED BY <1>1, <1>3, <2>3
<1> QED BY <1>2, <1>3

LEMMA DeltaIs ==
    ASSUME NEW u \in Unit, NEW d \in Delta(u)
    PROVE  /\ "by" \in DOMAIN d => d["by"] = u
           /\ "deleted" \in DOMAIN d => d["deleted"] \in BOOLEAN
           /\ "deleted" \in DOMAIN d /\ ~d["deleted"] => "by" \in DOMAIN d
<1>1. CASE d = [by |-> u, deleted |-> FALSE]
  BY <1>1
<1>2. CASE d = [by |-> u]
  BY <1>2
<1>3. CASE d = [deleted |-> TRUE]
  BY <1>3
<1> QED BY <1>1, <1>2, <1>3 DEF Delta

LEMMA AppliedTyped ==
    ASSUME ServicesTyped, NEW u \in Unit
    PROVE  Services!Visible(u) \in [Row -> [by : Unit \cup {0, NoValue}, deleted : BOOLEAN]]
<1>1. SUFFICES ASSUME NEW row \in Row
      PROVE  /\ Services!Column(pending[Services!On(u)], row, "by") \in Unit \cup {0, NoValue}
             /\ Services!Column(pending[Services!On(u)], row, "deleted") \in BOOLEAN
  BY DEF Services!Visible, Services!Applied
<1> DEFINE c == Services!On(u)
<1>2. c \in Services!Connection /\ pending[c] \in Seq(Change)
  BY OnItsConnection
<1>3. rows[row]["by"] \in Unit \cup {0, NoValue} /\ rows[row]["deleted"] \in BOOLEAN
  BY DEF ServicesTyped
<1> HIDE DEF c
<1>4. \A i \in DOMAIN pending[c] :
        /\ "by" \in DOMAIN pending[c][i].change => pending[c][i].change["by"] \in Unit
        /\ "deleted" \in DOMAIN pending[c][i].change =>
               pending[c][i].change["deleted"] \in BOOLEAN
  BY <1>2, PendingTyped, DeltaIs
<1>5. Services!Column(pending[c], row, "by") \in Unit \cup {0, NoValue}
  BY <1>2, <1>3, <1>4, ColumnIs
<1>6. Services!Column(pending[c], row, "deleted") \in BOOLEAN
  BY <1>2, <1>3, <1>4, ColumnIs
<1> QED BY <1>5, <1>6 DEF c

\* What is committed leaves a deleted row deleted.
LEMMA VisiblyDeleted ==
    ASSUME ServicesInv, NEW u \in Unit, NEW row \in Row, rows[row].deleted
    PROVE  Services!Visible(u)[row].deleted
<1> DEFINE c == Services!On(u)
<1>1. c \in Services!Connection /\ pending[c] \in Seq(Change) /\ ServicesTyped
  BY OnItsConnection DEF ServicesInv
<1>2. Services!Visible(u)[row].deleted = Services!Column(pending[c], row, "deleted")
  BY DEF Services!Visible, Services!Applied
<1> HIDE DEF c
<1>3. \A i \in DOMAIN pending[c] :
        pending[c][i].row = row /\ "deleted" \in DOMAIN pending[c][i].change =>
            pending[c][i].change["deleted"] = TRUE
  <2> SUFFICES ASSUME NEW i \in DOMAIN pending[c], pending[c][i].row = row,
                      "deleted" \in DOMAIN pending[c][i].change,
                      pending[c][i].change["deleted"] # TRUE
               PROVE  FALSE
    OBVIOUS
  <2>1. pending[c][i].unit \in Unit /\ pending[c][i].change \in Delta(pending[c][i].unit)
    BY <1>1, PendingTyped
  <2>2. "by" \in DOMAIN pending[c][i].change
    BY <2>1, DeltaIs
  <2> QED BY <2>2, <1>1 DEF ServicesInv, AddedAfresh
<1>4. rows[row]["deleted"] = TRUE
  BY <1>1 DEF ServicesTyped
<1> QED BY <1>1, <1>2, <1>3, <1>4, ColumnIs

LEMMA NotWritten ==
    ASSUME ServicesTyped, NEW u \in Unit, NEW row \in Row,
           \A i \in DOMAIN pending[Services!On(u)] : pending[Services!On(u)][i].row # row
    PROVE  Services!Visible(u)[row] = rows[row]
<1> DEFINE c == Services!On(u)
<1>1. c \in Services!Connection /\ pending[c] \in Seq(Change)
  BY OnItsConnection
<1>2. Services!Visible(u)[row] = [by |-> Services!Column(pending[c], row, "by"),
                                  deleted |-> Services!Column(pending[c], row, "deleted")]
  BY DEF Services!Visible, Services!Applied
<1>3. rows[row] = [by |-> rows[row]["by"], deleted |-> rows[row]["deleted"]]
  BY DEF ServicesTyped
<1>4. \A column : Services!Column(pending[c], row, column) = rows[row][column]
  BY <1>1, ColumnIs
<1> QED BY <1>2, <1>3, <1>4

LEMMA CommitStep ==
    ASSUME ServicesInv, NEW u \in Unit, Services!Commit(u) PROVE ServicesInv'
<1> USE DEF ServicesInv, Services!Commit, Services!CommitOf
<1> DEFINE c == Services!On(u)
<1>0. place[u] \in Services!InUse /\ c \in Services!Connection
  BY OnItsConnection DEF Services!InUse
<1>1. \A v \in Unit : durable'[v] = durable[v] \cup Services!Steps(v, pending[c])
  OBVIOUS
<1>2. \A v \in Unit : Services!Steps(v, pending[c]) \subseteq Nat
  BY <1>0, InSteps, PendingTyped
<1>3. durable' \in [Unit -> SUBSET Nat]
  BY <1>2 DEF ServicesTyped
<1>4. /\ WritesWhatItFound' /\ CrowdedTogether' /\ ServicesTyped'
      /\ \A v \in Unit : place'[v] = IF v = u THEN "returning" ELSE place[v]
  <2>1. rows' \in [Row -> [by : Unit \cup {0, NoValue}, deleted : BOOLEAN]]
    BY AppliedTyped
  <2> QED BY <2>1, <1>0, <1>3, EndsOf
<1>5. \A k \in Services!Connection \ {c} : \A i \in DOMAIN pending[k] :
          rows'[pending[k][i].row] = rows[pending[k][i].row]
  <2> SUFFICES ASSUME NEW k \in Services!Connection \ {c}, NEW i \in DOMAIN pending[k]
               PROVE  Services!Visible(u)[pending[k][i].row] = rows[pending[k][i].row]
    OBVIOUS
  <2>1. pending[k][i].row \in Row
    BY PendingTyped
  <2>2. \A j \in DOMAIN pending[c] : pending[c][j].row # pending[k][i].row
    BY <1>0 DEF OneWriter
  <2> QED BY <2>1, <2>2, NotWritten
<1>6. /\ OwnConnection' /\ OneWriter' /\ AddedAfresh' /\ Pended(u)' = {}
      /\ \A v \in Unit :
           Services!On(v) # Services!On(u) \/ Pended(v) = {} => Pended(v)' = Pended(v)
  BY <1>5, ClearedConnection
<1>7. UnitsStand'
  <2> SUFFICES ASSUME NEW v \in Unit, ~shared \/ v \notin crowded
               PROVE  Stands(place'[v], Pended(v)', flushed[v], durable'[v],
                             step[v] > Len(work[v]))
    BY DEF UnitsStand
  <2>1. Stands(place[v], Pended(v), flushed[v], durable[v], step[v] > Len(work[v]))
    BY DEF UnitsStand
  <2>2. CASE v = u
    <3>1. durable'[u] = durable[u] \cup Pended(u)
      BY <1>1 DEF Pended
    <3>2. Pended(u) = flushed[u] /\ durable[u] = {}
      BY <2>1, <2>2 DEF Stands
    <3> QED BY <3>1, <3>2, <2>2, <1>4, <1>6 DEF Stands
  <2>3. CASE v # u
    <3>1. Pended(v)' = Pended(v) /\ durable'[v] = durable[v]
      BY <2>3, <1>0, <1>1, <1>6, Apart
    <3> QED BY <3>1, <2>1, <2>3, <1>4 DEF Stands
  <2> QED BY <2>2, <2>3
<1> QED BY <1>4, <1>6, <1>7

LEMMA NoneDeletedThere ==
    ASSUME ServicesTyped, NEW u \in Unit, NEW row \in Row,
           Services!Visible(u)[row] = Services!NoRow
    PROVE  rows[row].deleted = FALSE
<1> DEFINE c == Services!On(u)
<1>1. c \in Services!Connection /\ pending[c] \in Seq(Change)
  BY OnItsConnection
<1>2. Services!Visible(u)[row] = [by |-> Services!Column(pending[c], row, "by"),
                                  deleted |-> Services!Column(pending[c], row, "deleted")]
  BY DEF Services!Visible, Services!Applied
<1>3. /\ Services!Column(pending[c], row, "by") = NoValue
      /\ Services!Column(pending[c], row, "deleted") = FALSE
  <2>1. Services!Visible(u)[row].by = NoValue /\ Services!Visible(u)[row].deleted = FALSE
    BY DEF Services!NoRow
  <2> QED BY <2>1, <1>2
<1> HIDE DEF c
<1>4. \A i \in DOMAIN pending[c] :
        /\ pending[c][i].unit \in Unit
        /\ pending[c][i].change \in Delta(pending[c][i].unit)
  BY <1>1, PendingTyped
<1>5. \A i \in DOMAIN pending[c] :
        ~(pending[c][i].row = row /\ "by" \in DOMAIN pending[c][i].change)
  <2>1. ~\E i \in DOMAIN pending[c] :
          /\ "by" \in DOMAIN pending[c][i].change
          /\ NoValue = pending[c][i].change["by"]
    BY <1>4, DeltaIs, ServicesAssumption DEF Services!PersistenceAssumption
  <2> QED BY <2>1, <1>1, <1>3, ColumnIs
<1>6. ~\E i \in DOMAIN pending[c] :
        /\ pending[c][i].row = row /\ "deleted" \in DOMAIN pending[c][i].change
        /\ FALSE = pending[c][i].change["deleted"]
  BY <1>4, <1>5, DeltaIs
<1> QED BY <1>1, <1>3, <1>6, ColumnIs

LEMMA Appended ==
    ASSUME NEW S, NEW s \in Seq(S), NEW e \in S, NEW i \in DOMAIN Append(s, e)
    PROVE  (i \in DOMAIN s /\ Append(s, e)[i] = s[i]) \/ Append(s, e)[i] = e
<1>1. /\ Len(Append(s, e)) = Len(s) + 1 /\ Append(s, e) \in Seq(S) /\ Len(s) \in Nat
      /\ \A j \in 1 .. Len(s) : Append(s, e)[j] = s[j]
      /\ Append(s, e)[Len(s) + 1] = e
  BY AppendProperties, LenProperties
<1>2. i \in 1 .. (Len(s) + 1) /\ DOMAIN s = 1 .. Len(s)
  BY <1>1, LenProperties
<1>3. CASE i = Len(s) + 1
  BY <1>1, <1>3
<1>4. CASE i # Len(s) + 1
  <2>1. i \in 1 .. Len(s)
    BY <1>1, <1>2, <1>4
  <2> QED BY <2>1, <1>1, <1>2
<1> QED BY <1>3, <1>4

LEMMA FlushStep ==
    ASSUME ServicesInv, NEW u \in Unit, Services!Flush(u) PROVE ServicesInv'
<1> USE DEF ServicesInv
<1> DEFINE c == Services!On(u)
           o == work[u][step[u]]
           e == [unit |-> u, step |-> step[u], row |-> o.row,
                 change |-> Services!Columns(u, o.op)]
<1>1. /\ IF Services!Doing(u, {"add"})
         THEN place[u] \in {"open", "working"} /\ Services!Visible(u)[o.row] = Services!NoRow
         ELSE place[u] = "writing"
      /\ Services!Unlocked(u, o.row)
      /\ pending' = [pending EXCEPT ![c] = Append(pending[c], e)]
      /\ flushed' = [flushed EXCEPT ![u] = @ \cup {step[u]}]
      /\ step' = [step EXCEPT ![u] = @ + 1]
      /\ place' = [place EXCEPT ![u] = "working"]
      /\ Services!Using(u)
      /\ UNCHANGED <<shared, work, rows, durable>>
  <2>1. c \in DOMAIN pending
    BY OnItsConnection DEF ServicesTyped
  <2> QED BY <2>1 DEF Services!Flush
<1>2. step[u] <= Len(work[u]) /\ place[u] \in {"open", "working", "writing"}
  BY <1>1 DEF WritesWhatItFound, Services!Doing
<1>3. o.row \in Row /\ o.op \in {"add", "update", "delete"}
  BY <1>2, NextOperation
<1>4. Services!Columns(u, o.op) \in Delta(u)
  BY <1>3 DEF Services!Columns, Delta
<1>5. e \in Change /\ e.unit = u /\ e.row = o.row /\ e.step = step[u]
  <2>1. step[u] \in Nat
    BY DEF ServicesTyped
  <2>2. e \in [unit : {u}, step : Nat, row : Row, change : Delta(u)]
    BY <2>1, <1>3, <1>4
  <2> QED BY <2>2 DEF Change
<1>6. c \in Services!Connection /\ pending[c] \in Seq(Change)
  BY OnItsConnection
<1>7. /\ pending'[c] = Append(pending[c], e)
      /\ \A k \in Services!Connection \ {c} : pending'[k] = pending[k]
      /\ \A v : Services!On(v)' = Services!On(v)
      /\ Services!Connection' = Services!Connection
  BY <1>1, <1>6 DEF ServicesTyped, Services!On, Services!Connection
<1>8. "by" \in DOMAIN e.change /\ "deleted" \in DOMAIN e.change => ~rows[e.row].deleted
  <2>1. CASE o.op = "add"
    <3>1. Services!Visible(u)[o.row] = Services!NoRow
      BY <2>1, <1>1, <1>2 DEF Services!Doing
    <3> QED BY <3>1, <1>3, <1>5, NoneDeletedThere
  <2>2. CASE o.op = "update"
    <3>1. DOMAIN e.change = {"by"}
      BY <2>2 DEF Services!Columns
    <3> QED BY <3>1
  <2>3. CASE o.op = "delete"
    <3>1. DOMAIN e.change = {"deleted"}
      BY <2>3 DEF Services!Columns
    <3> QED BY <3>1
  <2> QED BY <1>3, <2>1, <2>2, <2>3
<1>9. \A k \in Services!Connection \ {c} : \A i \in DOMAIN pending[k] : pending[k][i].row # e.row
  BY <1>1, <1>5 DEF Services!Unlocked, Services!ToSet
<1>10. \A v \in Unit : Pended(v)' = Pended(v) \cup (IF v = u THEN {step[u]} ELSE {})
  <2> SUFFICES ASSUME NEW v \in Unit
               PROVE  Pended(v)' = Pended(v) \cup (IF v = u THEN {step[u]} ELSE {})
    OBVIOUS
  <2>1. CASE Services!On(v) = c
    <3>1. Services!Steps(v, Append(pending[c], e)) =
            Services!Steps(v, pending[c]) \cup (IF e.unit = v THEN {e.step} ELSE {})
      <4> HIDE DEF e, c
      <4> QED BY <1>5, <1>6, MoreSteps
    <3>2. Pended(v) = Services!Steps(v, pending[c])
      BY <2>1 DEF Pended
    <3>3. Pended(v)' = Services!Steps(v, Append(pending[c], e))
      <4> HIDE DEF e, c
      <4> QED BY <2>1, <1>7 DEF Pended
    <3> QED BY <3>1, <3>2, <3>3, <1>5
  <2>2. CASE Services!On(v) # c
    <3>1. Services!On(v) \in Services!Connection
      BY OnItsConnection
    <3>2. Pended(v)' = Pended(v)
      BY <3>1, <2>2, <1>7 DEF Pended
    <3> QED BY <3>2, <2>2
  <2> QED BY <2>1, <2>2
<1>11. /\ \A v \in Unit \ {u} : /\ place'[v] = place[v] /\ step'[v] = step[v]
                                /\ flushed'[v] = flushed[v]
       /\ place'[u] = "working" /\ flushed'[u] = flushed[u] \cup {step[u]}
       /\ place' \in [Unit -> Places] /\ step' \in [Unit -> Nat \ {0}]
       /\ flushed' \in [Unit -> SUBSET Nat]
  BY <1>1 DEF ServicesTyped, Places
<1> HIDE DEF c, e, o
<1>12. CrowdedTogether' /\ crowded \subseteq crowded' /\ crowded' \subseteq Unit
  BY <1>1, <1>11, UsingCrowds
<1>13. ServicesTyped'
  <2>1. pending' \in [Services!Connection -> Seq(Change)]
    <3>1. Append(pending[c], e) \in Seq(Change)
      BY <1>5, <1>6, AppendProperties
    <3> QED BY <3>1, <1>1 DEF ServicesTyped
  <2> QED BY <2>1, <1>1, <1>7, <1>11, <1>12 DEF ServicesTyped
<1>14. WritesWhatItFound'
  BY <1>1, <1>11 DEF WritesWhatItFound, Services!Doing
<1>15. \A k \in Services!Connection : \A i \in DOMAIN pending'[k] :
         \/ i \in DOMAIN pending[k] /\ pending'[k][i] = pending[k][i]
         \/ k = c /\ pending'[k][i] = e
  BY <1>5, <1>6, <1>7, Appended
<1>16. OwnConnection'
  <2> SUFFICES ASSUME NEW k \in Services!Connection, NEW i \in DOMAIN pending'[k]
               PROVE  Services!On(pending'[k][i].unit) = k
    BY <1>7 DEF OwnConnection
  <2>1. CASE i \in DOMAIN pending[k] /\ pending'[k][i] = pending[k][i]
    BY <2>1 DEF OwnConnection
  <2>2. CASE k = c /\ pending'[k][i] = e
    BY <2>2, <1>5 DEF c
  <2> QED BY <2>1, <2>2, <1>15
<1>17. OneWriter'
  <2> SUFFICES ASSUME NEW k \in Services!Connection, NEW l \in Services!Connection, k # l,
                      NEW i \in DOMAIN pending'[k], NEW j \in DOMAIN pending'[l]
               PROVE  pending'[k][i].row # pending'[l][j].row
    BY <1>7 DEF OneWriter
  <2>1. CASE /\ i \in DOMAIN pending[k] /\ pending'[k][i] = pending[k][i]
             /\ j \in DOMAIN pending[l] /\ pending'[l][j] = pending[l][j]
    BY <2>1 DEF OneWriter
  <2>2. CASE /\ k = c /\ pending'[k][i] = e
             /\ j \in DOMAIN pending[l] /\ pending'[l][j] = pending[l][j]
    BY <2>2, <1>9
  <2>3. CASE /\ l = c /\ pending'[l][j] = e
             /\ i \in DOMAIN pending[k] /\ pending'[k][i] = pending[k][i]
    BY <2>3, <1>9
  <2> QED BY <1>15, <2>1, <2>2, <2>3
<1>18. AddedAfresh'
  BY <1>1, <1>7, <1>8, <1>15 DEF AddedAfresh
<1>19. UnitsStand'
  <2> SUFFICES ASSUME NEW v \in Unit, ~shared \/ v \notin crowded
               PROVE  Stands(place'[v], Pended(v)', flushed'[v], durable[v],
                             step'[v] > Len(work[v]))
    BY <1>1, <1>12 DEF UnitsStand
  <2>1. Stands(place[v], Pended(v), flushed[v], durable[v], step[v] > Len(work[v]))
    BY DEF UnitsStand
  <2>2. CASE v = u
    BY <2>1, <2>2, <1>2, <1>10, <1>11 DEF Stands
  <2>3. CASE v # u
    BY <2>1, <2>3, <1>10, <1>11 DEF Stands
  <2> QED BY <2>2, <2>3
<1> QED BY <1>12, <1>13, <1>14, <1>16, <1>17, <1>18, <1>19

LEMMA ServicesStep == ServicesInv /\ [Services!Next]_servicesVars => ServicesInv'
<1> SUFFICES ASSUME ServicesInv, [Services!Next]_servicesVars PROVE ServicesInv'
  OBVIOUS
<1>1. ASSUME NEW u \in Unit,
             \/ Services!Open(u) \/ Services!GetById(u) \/ Services!Flush(u)
             \/ Services!Raises(u) \/ Services!Commit(u) \/ Services!Rollback(u)
             \/ Services!Reset(u) \/ Services!Close(u)
      PROVE  ServicesInv'
  BY <1>1, OpenStep, GetByIdStep, FlushStep, RaisesStep, CommitStep, RollbackStep,
     ResetConnectionStep, CloseStep
<1>2. CASE Services!Crash
  BY <1>2, CrashStep
<1>3. CASE UNCHANGED servicesVars
  <2> USE <1>3 DEF servicesVars, ServicesInv
  <2>1. ServicesTyped'
    BY DEF ServicesTyped, Services!Connection
  <2>2. /\ OwnConnection' /\ OneWriter' /\ AddedAfresh'
        /\ \A v \in Unit : Pended(v)' = Pended(v)
    BY SameConnections
  <2>3. WritesWhatItFound' /\ CrowdedTogether'
    BY DEF WritesWhatItFound, CrowdedTogether, Services!Doing, Services!InUse
  <2>4. UnitsStand'
    BY <2>2 DEF UnitsStand
  <2> QED BY <2>1, <2>2, <2>3, <2>4
<1> QED BY <1>1, <1>2, <1>3 DEF Services!Next

LEMMA ServicesInvariant == Services!Spec => []ServicesInv
<1>1. ServicesInv /\ [Services!Next]_Services!vars => ServicesInv'
  BY ServicesStep DEF servicesVars, Services!vars
<1> QED BY <1>1, UnitsStart, PTL DEF Services!Spec

\* A unit of work is committed as a whole or not at all: on a connection of
\* its own always, on the shared one when no other unit overlapped it.
THEOREM UnitsCommitAsAWhole == Services!Spec => []UnitsAreWhole
<1>1. ServicesInv => UnitsAreWhole
  <2> SUFFICES ASSUME ServicesInv, NEW u \in Unit, ~shared \/ u \notin crowded
               PROVE  durable[u] = {} \/ (durable[u] = flushed[u] /\ step[u] > Len(work[u]))
    BY DEF UnitsAreWhole, Services!UnitsAreWhole
  <2>1. Stands(place[u], Pended(u), flushed[u], durable[u], step[u] > Len(work[u]))
    BY DEF ServicesInv, UnitsStand
  <2>2. place[u] \in Places
    BY DEF ServicesInv, ServicesTyped
  <2> QED BY <2>1, <2>2 DEF Stands, Places
<1> QED BY <1>1, ServicesInvariant, PTL

LEMMA RowsChangeByCommit ==
    ASSUME ServicesInv, [Services!Next]_servicesVars
    PROVE  rows' = rows \/ \E u \in Unit : rows' = Services!Visible(u)
<1>1. ASSUME NEW u \in Unit,
             \/ Services!Open(u) \/ Services!GetById(u) \/ Services!Flush(u)
             \/ Services!Raises(u) \/ Services!Rollback(u)
             \/ Services!Reset(u) \/ Services!Close(u)
      PROVE  rows' = rows
  <2>1. CASE Services!Open(u) \/ Services!GetById(u) \/ Services!Flush(u) \/ Services!Raises(u)
    BY <2>1 DEF Services!Open, Services!GetById, Services!Flush, Services!Raises
  <2>2. CASE Services!Rollback(u) \/ Services!Reset(u) \/ Services!Close(u)
    BY <2>2 DEF Services!Rollback, Services!Reset, Services!Close, Services!RollbackOf
  <2> QED BY <1>1, <2>1, <2>2
<1>2. ASSUME NEW u \in Unit, Services!Commit(u) PROVE rows' = Services!Visible(u)
  BY <1>2 DEF Services!Commit, Services!CommitOf
<1>3. Services!Crash \/ UNCHANGED servicesVars => rows' = rows
  BY DEF Services!Crash, servicesVars
<1> QED BY <1>1, <1>2, <1>3 DEF Services!Next

\* A deleted entity stays deleted, whichever units interleave: an update does
\* not write the mark, and nothing is added where one was deleted.
THEOREM DeletedEntitiesStayDeleted == Services!Spec => DeletedStaysDeleted
<1>1. ServicesInv /\ [Services!Next]_servicesVars => [Services!StaysDeleted]_servicesVars
  <2> SUFFICES ASSUME ServicesInv, [Services!Next]_servicesVars,
                      NEW row \in Row, rows[row].deleted
               PROVE  rows'[row].deleted
    BY DEF Services!StaysDeleted
  <2> QED BY RowsChangeByCommit, VisiblyDeleted
<1>2. ServicesInv /\ [Services!Next]_Services!vars => [Services!StaysDeleted]_servicesVars
  BY <1>1 DEF servicesVars, Services!vars
<1> QED BY <1>2, ServicesInvariant, PTL DEF Services!Spec, DeletedStaysDeleted

-----------------------------------------------------------------------------
(* Observability.                                                          *)

Context == [correlation : {NoValue, "id"}, trace : Nat \cup {NoValue}, span : Nat \cup {NoValue}]
OpenSpans == Seq([span : Nat, before : Context])
TaskState == [context : Context, inherited : Context, open : OpenSpans]
Span == [trace : Nat, status : {"unset", "ok", "error"}, ended : BOOLEAN]

TracesTyped ==
    /\ traced \in BOOLEAN
    /\ stage \in {"arrived", "starting", "calling", "inside", "answered", "finished",
                  "leaving", "failed", "done"}
    /\ stage \in {"starting", "finished", "leaving"} => traced
    /\ task \in [DOMAIN task -> TaskState]
    /\ "server" \in DOMAIN task
    /\ stage \in {"arrived", "starting", "calling"} => DOMAIN task = {"server"}
    /\ stage \in {"inside", "answered"} => "app" \in DOMAIN task
    /\ spans \in Seq(Span)
    /\ raised \in {NoValue, "endpoint", "subscriber"}
    /\ answer \in Status \cup {NoValue}
    /\ measured \in BOOLEAN

\* A context names no span, or one of these and its trace.
Rooted(c, sp) ==
    \/ c.span = NoValue /\ c.trace = NoValue
    \/ c.span \in 1 .. Len(sp) /\ c.trace = sp[c.span].trace

\* Each open span of a task was entered from the one before it, the first from
\* the context that the task started with; the context is that of the last.
Nested(tk, sp) ==
    /\ Rooted(tk.context, sp) /\ Rooted(tk.inherited, sp)
    /\ \A i \in DOMAIN tk.open :
         /\ tk.open[i].span \in 1 .. Len(sp)
         /\ Rooted(tk.open[i].before, sp)
         /\ tk.open[i].before.span =
                IF i = 1 THEN tk.inherited.span ELSE tk.open[i - 1].span
    /\ tk.context.span =
           IF tk.open = <<>> THEN tk.inherited.span ELSE tk.open[Len(tk.open)].span

TasksNest == \A t \in DOMAIN task : Nested(task[t], spans)

Correlated == \A t \in DOMAIN task \ {"server"} : task[t].context.correlation = "id"

\* Behind the middleware no task but that of the request has its span open.
SpanOfTheRequest ==
    traced =>
        /\ stage # "arrived" => Len(spans) >= 1
        /\ \A t \in DOMAIN task \ {"server"} : \A i \in DOMAIN task[t].open :
               task[t].open[i].span # 1

StartedEvent == [name |-> "trace.started", status |-> NoValue]
FinishedEvent == [name |-> "trace.finished", status |-> answer]
RecordedEvent == [name |-> "metric.recorded", status |-> NoValue]

\* How far a traced request is, what was published and what its span says.
RequestIsTraced ==
    /\ stage = "arrived" => spans = <<>> /\ events = <<>> /\ task["server"].open = <<>>
    /\ stage \in {"starting", "calling", "inside", "answered"} =>
         Len(task["server"].open) = 1 /\ task["server"].open[1].span = 1
    /\ stage = "starting" => events = <<>>
    /\ stage \in {"calling", "inside", "answered"} => events = <<StartedEvent>>
    /\ stage \in {"arrived", "starting", "calling", "inside"} =>
         answer = NoValue /\ raised = NoValue
    /\ stage \notin {"leaving", "failed", "done"} => ~measured
    /\ stage = "answered" =>
         (answer \in Status /\ raised = NoValue) \/ (answer = NoValue /\ raised = "endpoint")
    /\ stage \in {"finished", "leaving", "failed", "done"} =>
         spans[1].ended /\ (spans[1].status = "error" <=> (answer = NoValue \/ answer >= 500))
    /\ stage = "finished" =>
         answer \in Status /\ raised = NoValue /\ events = <<StartedEvent, FinishedEvent>>
    /\ stage = "leaving" =>
         /\ answer \in Status /\ raised = NoValue /\ measured
         /\ events = <<StartedEvent, FinishedEvent, RecordedEvent>>
    /\ stage = "failed" /\ raised # "subscriber" =>
         answer = NoValue /\ ~measured /\ events = <<StartedEvent, FinishedEvent>>
    /\ stage = "done" /\ raised # "subscriber" =>
         /\ reply.status = IF answer = NoValue THEN 500 ELSE answer
         /\ measured <=> answer # NoValue
         /\ SubSeq(events, 1, 2) = <<StartedEvent, FinishedEvent>>

TracesInv ==
    /\ TracesTyped /\ TasksNest /\ Correlated /\ SpanOfTheRequest
    /\ traced => RequestIsTraced

LEMMA RootedStays ==
    ASSUME NEW c, NEW sp, NEW longer, Len(sp) \in Nat, Len(longer) \in Nat,
           Len(sp) <= Len(longer), \A i \in 1 .. Len(sp) : longer[i].trace = sp[i].trace,
           Rooted(c, sp)
    PROVE  Rooted(c, longer)
  BY DEF Rooted

LEMMA NestedStays ==
    ASSUME NEW tk, NEW sp, NEW longer, Len(sp) \in Nat, Len(longer) \in Nat,
           Len(sp) <= Len(longer), \A i \in 1 .. Len(sp) : longer[i].trace = sp[i].trace,
           Nested(tk, sp)
    PROVE  Nested(tk, longer)
<1>1. \A c : Rooted(c, sp) => Rooted(c, longer)
  BY RootedStays
<1>2. \A n : n \in 1 .. Len(sp) => n \in 1 .. Len(longer)
  OBVIOUS
<1> QED BY <1>1, <1>2 DEF Nested

\* A span entered from the context, and the span left.
LEMMA NestedEnters ==
    ASSUME NEW tk \in TaskState, NEW sp \in Seq(Span), NEW s \in Span, NEW new \in TaskState,
           Nested(tk, sp), NoValue \notin Nat,
           s.trace = IF tk.context.span = NoValue THEN Len(sp) + 1 ELSE tk.context.trace,
           new.inherited = tk.inherited,
           new.context.span = Len(sp) + 1, new.context.trace = s.trace,
           new.open = Append(tk.open, [span |-> Len(sp) + 1, before |-> tk.context])
    PROVE  Nested(new, Append(sp, s))
<1> DEFINE o == [span |-> Len(sp) + 1, before |-> tk.context]
           more == Append(sp, s)
<1>1. /\ Len(sp) \in Nat /\ Len(more) = Len(sp) + 1 /\ more[Len(sp) + 1] = s
      /\ \A i \in 1 .. Len(sp) : more[i] = sp[i]
  BY AppendProperties, LenProperties
<1>2. /\ tk.open \in OpenSpans /\ Len(tk.open) \in Nat /\ DOMAIN tk.open = 1 .. Len(tk.open)
  BY LenProperties DEF TaskState, OpenSpans
<1>3. o \in [span : Nat, before : Context]
  BY <1>1 DEF TaskState
<1>4. /\ Len(new.open) = Len(tk.open) + 1 /\ DOMAIN new.open = 1 .. (Len(tk.open) + 1)
      /\ new.open[Len(tk.open) + 1] = o /\ new.open # <<>>
      /\ \A i \in 1 .. Len(tk.open) : new.open[i] = tk.open[i]
  BY <1>2, <1>3, AppendProperties, LenProperties DEF OpenSpans
<1> HIDE DEF more
<1>5. Nested(tk, more)
  BY <1>1, NestedStays
<1>6. Rooted(new.context, more)
  BY <1>1 DEF Rooted
<1>7. /\ o.span = Len(sp) + 1 /\ o.before = tk.context
      /\ o.before.span = IF tk.open = <<>> THEN tk.inherited.span
                         ELSE tk.open[Len(tk.open)].span
  BY DEF Nested
<1>8. tk.open = <<>> <=> Len(tk.open) = 0
  BY <1>2, EmptySeq DEF OpenSpans
<1> HIDE DEF o
<1>9. ASSUME NEW i \in DOMAIN new.open
      PROVE  /\ new.open[i].span \in 1 .. Len(more)
             /\ Rooted(new.open[i].before, more)
             /\ new.open[i].before.span =
                    IF i = 1 THEN new.inherited.span ELSE new.open[i - 1].span
  <2>1. CASE i = Len(tk.open) + 1
    <3>1. i = 1 <=> tk.open = <<>>
      BY <2>1, <1>2, <1>8
    <3>2. i # 1 => new.open[i - 1] = tk.open[Len(tk.open)]
      BY <2>1, <1>2, <1>4
    <3>3. new.open[i] = o
      BY <2>1, <1>4
    <3>4. o.span \in 1 .. Len(more)
      BY <1>1, <1>7
    <3>5. Rooted(o.before, more)
      BY <1>5, <1>7 DEF Nested
    <3> QED BY <3>1, <3>2, <3>3, <3>4, <3>5, <1>7
  <2>2. CASE i # Len(tk.open) + 1
    <3>1. i \in 1 .. Len(tk.open) /\ (i # 1 => i - 1 \in 1 .. Len(tk.open))
      BY <2>2, <1>2, <1>4
    <3>2. new.open[i] = tk.open[i] /\ (i # 1 => new.open[i - 1] = tk.open[i - 1])
      BY <3>1, <1>4
    <3> QED BY <3>1, <3>2, <1>2, <1>5 DEF Nested
  <2> QED BY <2>1, <2>2
<1>10. new.context.span = IF new.open = <<>> THEN new.inherited.span
                          ELSE new.open[Len(new.open)].span
  BY <1>4, <1>7
<1>11. Rooted(new.inherited, more)
  BY <1>5 DEF Nested
<1> QED BY <1>6, <1>9, <1>10, <1>11 DEF Nested, more

LEMMA ShorterSeq ==
    ASSUME NEW S, NEW s \in Seq(S), s # <<>>
    PROVE  /\ Len(s) \in Nat \ {0} /\ DOMAIN s = 1 .. Len(s)
           /\ SubSeq(s, 1, Len(s) - 1) \in Seq(S)
           /\ Len(SubSeq(s, 1, Len(s) - 1)) = Len(s) - 1
           /\ DOMAIN SubSeq(s, 1, Len(s) - 1) = 1 .. (Len(s) - 1)
           /\ \A i \in 1 .. (Len(s) - 1) : SubSeq(s, 1, Len(s) - 1)[i] = s[i]
<1>1. Len(s) \in Nat \ {0} /\ DOMAIN s = 1 .. Len(s)
  BY LenProperties, EmptySeq
<1> DEFINE n == Len(s) - 1
           r == SubSeq(s, 1, n)
<1>2. n \in Nat /\ \A i \in 1 .. n : s[i] \in S
  BY <1>1, ElementOfSeq
<1> HIDE DEF n
<1>3. /\ r \in Seq(S) /\ Len(r) = IF 1 <= n THEN n - 1 + 1 ELSE 0
      /\ \A i \in 1 .. n - 1 + 1 : r[i] = s[1 + i - 1]
  BY <1>2, SubSeqProperties
<1>4. Len(r) = n /\ \A i \in 1 .. n : r[i] = s[i]
  BY <1>2, <1>3
<1>5. DOMAIN r = 1 .. n
  BY <1>3, <1>4, LenProperties
<1> QED BY <1>1, <1>3, <1>4, <1>5 DEF n

LEMMA NestedLeaves ==
    ASSUME NEW tk \in TaskState, NEW sp, NEW new \in TaskState, Nested(tk, sp),
           tk.open # <<>>, new.inherited = tk.inherited,
           new.context.span = tk.open[Len(tk.open)].before.span,
           new.context.trace = tk.open[Len(tk.open)].before.trace,
           new.open = SubSeq(tk.open, 1, Len(tk.open) - 1)
    PROVE  Nested(new, sp)
<1>1. tk.open \in OpenSpans
  BY DEF TaskState
<1>2. PICK n : n = Len(tk.open)
  OBVIOUS
<1>3. PICK r : r = new.open
  OBVIOUS
<1>4. /\ n \in Nat \ {0} /\ DOMAIN tk.open = 1 .. n
      /\ r \in OpenSpans /\ Len(r) = n - 1 /\ DOMAIN r = 1 .. (n - 1)
      /\ \A i \in 1 .. (n - 1) : r[i] = tk.open[i]
  <2>1. \A S : \A os \in Seq(S) : os # <<>> =>
          LET q == SubSeq(os, 1, Len(os) - 1) IN
          /\ Len(os) \in Nat \ {0} /\ DOMAIN os = 1 .. Len(os)
          /\ q \in Seq(S) /\ Len(q) = Len(os) - 1 /\ DOMAIN q = 1 .. (Len(os) - 1)
          /\ \A i \in 1 .. (Len(os) - 1) : q[i] = os[i]
    BY ShorterSeq, Zenon
  <2>2. r = SubSeq(tk.open, 1, Len(tk.open) - 1)
    BY <1>3
  <2> QED BY <2>1, <2>2, <1>1, <1>2, Zenon DEF OpenSpans
<1>5. n \in 1 .. n /\ (n # 1 => n - 1 \in 1 .. (n - 1) /\ n - 1 \in 1 .. n)
  BY <1>4
<1>6. r = <<>> <=> n = 1
  <2>1. r = <<>> <=> Len(r) = 0
    BY <1>4, EmptySeq DEF OpenSpans
  <2>2. Len(r) = 0 <=> n = 1
    BY <1>4
  <2> QED BY <2>1, <2>2
<1>7. Rooted(new.context, sp)
  <2>1. Rooted(tk.open[n].before, sp)
    BY <1>4, <1>5 DEF Nested
  <2> QED BY <2>1, <1>2 DEF Rooted
<1>8. ASSUME NEW i \in 1 .. (n - 1)
      PROVE  /\ r[i].span \in 1 .. Len(sp)
             /\ Rooted(r[i].before, sp)
             /\ r[i].before.span = IF i = 1 THEN tk.inherited.span ELSE r[i - 1].span
  <2>1. i \in 1 .. n /\ (i # 1 => i - 1 \in 1 .. (n - 1))
    BY <1>4
  <2>2. r[i] = tk.open[i] /\ (i # 1 => r[i - 1] = tk.open[i - 1])
    BY <2>1, <1>4
  <2> QED BY <2>1, <2>2, <1>4 DEF Nested
<1>9. new.context.span = IF r = <<>> THEN tk.inherited.span ELSE r[Len(r)].span
  <2>1. tk.open[n].before.span = IF n = 1 THEN tk.inherited.span ELSE tk.open[n - 1].span
    BY <1>4, <1>5 DEF Nested
  <2>2. n # 1 => r[Len(r)] = tk.open[n - 1]
    BY <1>4, <1>5
  <2> QED BY <2>1, <2>2, <1>2, <1>6
<1>10. Rooted(new.inherited, sp)
  BY DEF Nested
<1>11. new.open = r
  BY <1>3
<1> QED BY <1>4, <1>7, <1>8, <1>9, <1>10, <1>11 DEF Nested

LEMMA EnteringASpan ==
    ASSUME TracesTyped, TasksNest, NEW t \in DOMAIN task, Traces!Entered(t)
    PROVE  /\ spans' \in Seq(Span) /\ Len(spans) \in Nat /\ Len(spans') = Len(spans) + 1
           /\ \A i \in 1 .. Len(spans) : spans'[i] = spans[i]
           /\ task' \in [DOMAIN task' -> TaskState] /\ DOMAIN task' = DOMAIN task
           /\ \A s \in DOMAIN task \ {t} : task'[s] = task[s]
           /\ task'[t].context.correlation = task[t].context.correlation
           /\ task[t].open \in OpenSpans
           /\ task'[t].open =
                Append(task[t].open, [span |-> Len(spans) + 1, before |-> task[t].context])
           /\ [span |-> Len(spans) + 1, before |-> task[t].context] \in
                [span : Nat, before : Context]
           /\ TasksNest'
<1> DEFINE c == task[t].context
           id == Len(spans) + 1
           trace == IF c.span = NoValue THEN id ELSE c.trace
           s == [trace |-> trace, status |-> "unset", ended |-> FALSE]
           o == [span |-> id, before |-> c]
           inside == [c EXCEPT !.trace = trace, !.span = id]
           first == [task EXCEPT ![t].context = inside]
<1>1. /\ spans' = Append(spans, s)
      /\ task' = [first EXCEPT ![t].open = Append(@, o)]
  BY Zenon DEF Traces!Entered
<1>2. /\ task[t] \in TaskState /\ c \in Context /\ Len(spans) \in Nat /\ id \in Nat
      /\ task[t].open \in OpenSpans
  BY LenProperties DEF TracesTyped, TaskState
<1>3. trace \in Nat
  <2>1. Nested(task[t], spans)
    BY DEF TasksNest
  <2>2. \A i \in 1 .. Len(spans) : spans[i].trace \in Nat
    <3>1. \A i \in 1 .. Len(spans) : spans[i] \in Span
      BY ElementOfSeq DEF TracesTyped
    <3> QED BY <3>1 DEF Span
  <2> QED BY <2>1, <2>2, <1>2 DEF Nested, Rooted
<1>4. s \in Span
  BY <1>3 DEF Span
<1>5. /\ spans' \in Seq(Span) /\ Len(spans') = Len(spans) + 1
      /\ \A i \in 1 .. Len(spans) : spans'[i] = spans[i]
  BY <1>1, <1>4, AppendProperties DEF TracesTyped
<1>6. /\ inside \in Context /\ inside.correlation = c.correlation
      /\ inside.trace = trace /\ inside.span = id
  BY <1>2, <1>3 DEF Context
<1> HIDE DEF trace, inside
<1>7. /\ first \in [DOMAIN task -> TaskState] /\ first[t].context = inside
      /\ first[t].open = task[t].open /\ first[t].inherited = task[t].inherited
      /\ \A r \in DOMAIN task \ {t} : first[r] = task[r]
  BY <1>2, <1>6 DEF TracesTyped, TaskState
<1>8. o \in [span : Nat, before : Context]
  BY <1>2
<1> HIDE DEF first, o
<1>9. Append(first[t].open, o) \in OpenSpans
  BY <1>2, <1>7, <1>8, AppendProperties DEF OpenSpans
<1>10. /\ task' \in [DOMAIN task -> TaskState] /\ DOMAIN task' = DOMAIN task
       /\ \A r \in DOMAIN task \ {t} : task'[r] = task[r]
       /\ task'[t].open = Append(task[t].open, o) /\ task'[t].context = inside
       /\ task'[t].inherited = task[t].inherited
  BY <1>1, <1>7, <1>9 DEF TaskState
<1>11. TasksNest'
  <2> SUFFICES ASSUME NEW r \in DOMAIN task PROVE Nested(task'[r], spans')
    BY <1>10 DEF TasksNest
  <2>0. Nested(task[r], spans) /\ spans \in Seq(Span)
    BY DEF TasksNest, TracesTyped
  <2>1. CASE r # t
    <3>1. Len(spans') \in Nat /\ Len(spans) <= Len(spans')
      BY <1>2, <1>5
    <3> QED BY <2>0, <2>1, <3>1, <1>2, <1>5, <1>10, NestedStays
  <2>2. CASE r = t
    <3>1. s.trace = IF task[t].context.span = NoValue THEN Len(spans) + 1
                    ELSE task[t].context.trace
      BY DEF trace
    <3>2. task'[t] \in TaskState
      BY <1>10
    <3>3. NoValue \notin Nat
      BY TracesAssumption DEF Traces!ObservabilityAssumption
    <3>4. task'[t].open = Append(task[t].open, [span |-> Len(spans) + 1, before |-> task[t].context])
      BY <1>10 DEF o
    <3>5. task'[t].context.span = Len(spans) + 1 /\ task'[t].context.trace = s.trace
      BY <1>6, <1>10
    <3> HIDE DEF s, id, c
    <3> QED BY <3>1, <3>2, <3>3, <3>4, <3>5, <2>0, <2>2, <1>1, <1>2, <1>4, <1>10, NestedEnters
  <2> QED BY <2>1, <2>2
<1>12. task'[t].context.correlation = task[t].context.correlation
  BY <1>6, <1>10
<1> QED BY <1>2, <1>5, <1>8, <1>10, <1>11, <1>12 DEF o

LEMMA LeavingASpan ==
    ASSUME TracesTyped, TasksNest, NEW t \in DOMAIN task, task[t].open # <<>>,
           NEW status \in {"unset", "ok", "error"},
           spans' = Traces!Ended(t, status), task' = Traces!Left(t)
    PROVE  LET n == task[t].open[Len(task[t].open)].span IN
           /\ Len(task[t].open) \in DOMAIN task[t].open
           /\ spans' \in Seq(Span) /\ Len(spans) \in Nat /\ Len(spans') = Len(spans)
           /\ n \in 1 .. Len(spans) /\ spans'[n].ended /\ spans'[n].status = status
           /\ \A i \in 1 .. Len(spans) \ {n} : spans'[i] = spans[i]
           /\ task' \in [DOMAIN task' -> TaskState] /\ DOMAIN task' = DOMAIN task
           /\ \A s \in DOMAIN task \ {t} : task'[s] = task[s]
           /\ task'[t].context.correlation = task[t].context.correlation
           /\ \A i \in DOMAIN task'[t].open :
                i \in DOMAIN task[t].open /\ task'[t].open[i] = task[t].open[i]
           /\ TasksNest'
<1> DEFINE os == task[t].open
           n == os[Len(os)].span
           b == os[Len(os)].before
           c == task[t].context
           outside == [c EXCEPT !.trace = b.trace, !.span = b.span]
           rest == SubSeq(os, 1, Len(os) - 1)
           first == [task EXCEPT ![t].context = outside]
<1>1. /\ task[t] \in TaskState /\ c \in Context /\ Len(spans) \in Nat /\ os \in OpenSpans
      /\ spans \in Seq(Span) /\ Nested(task[t], spans)
  BY LenProperties DEF TracesTyped, TaskState, TasksNest
<1>2. Len(os) \in Nat /\ Len(os) # 0 /\ DOMAIN os = 1 .. Len(os) /\ Len(os) \in DOMAIN os
  BY <1>1, LenProperties, EmptySeq DEF OpenSpans
<1>3. os[Len(os)] \in [span : Nat, before : Context] /\ b \in Context
  <2>1. os[Len(os)] \in [span : Nat, before : Context]
    BY <1>1, <1>2, ElementOfSeq DEF OpenSpans
  <2> QED BY <2>1
<1>4. n \in 1 .. Len(spans)
  BY <1>1, <1>2 DEF Nested
<1>5. /\ spans' = [spans EXCEPT ![n] = [@ EXCEPT !.status = status, !.ended = TRUE]]
      /\ task' = [first EXCEPT ![t].open = Traces!Front(@)]
  BY Zenon DEF Traces!Ended, Traces!Left, Traces!Before, Traces!Last
<1>6. spans[n] \in Span
  BY <1>1, <1>4, ElementOfSeq
<1>7. /\ [spans[n] EXCEPT !.status = status, !.ended = TRUE] \in Span
      /\ [spans[n] EXCEPT !.status = status, !.ended = TRUE].trace = spans[n].trace
      /\ [spans[n] EXCEPT !.status = status, !.ended = TRUE].status = status
      /\ [spans[n] EXCEPT !.status = status, !.ended = TRUE].ended = TRUE
  BY <1>6 DEF Span
<1>8. outside \in Context /\ outside.correlation = c.correlation
      /\ outside.trace = b.trace /\ outside.span = b.span
  BY <1>1, <1>3 DEF Context
<1>9. rest \in OpenSpans /\ \A i \in DOMAIN rest : i \in DOMAIN os /\ rest[i] = os[i]
  <2>1. /\ DOMAIN rest = 1 .. (Len(os) - 1) /\ rest \in OpenSpans
        /\ \A i \in 1 .. (Len(os) - 1) : rest[i] = os[i]
    BY <1>1, ShorterSeq DEF OpenSpans
  <2> QED BY <2>1, <1>2
<1> HIDE DEF outside
<1>10. /\ first \in [DOMAIN task -> TaskState] /\ first[t].context = outside
       /\ first[t].open = os /\ first[t].inherited = task[t].inherited
       /\ \A r \in DOMAIN task \ {t} : first[r] = task[r]
  BY <1>1, <1>8 DEF TracesTyped, TaskState
<1> HIDE DEF first
<1>11. Traces!Front(first[t].open) = rest
  BY <1>10 DEF Traces!Front
<1> HIDE DEF rest
<1>12. /\ task' \in [DOMAIN task -> TaskState] /\ DOMAIN task' = DOMAIN task
       /\ \A r \in DOMAIN task \ {t} : task'[r] = task[r]
       /\ task'[t].open = rest /\ task'[t].context = outside
       /\ task'[t].inherited = task[t].inherited
  <2>1. task' = [first EXCEPT ![t].open = rest]
    BY <1>5, <1>11, <1>10
  <2> QED BY <2>1, <1>9, <1>10 DEF TaskState
<1>13. /\ spans' \in Seq(Span) /\ Len(spans') = Len(spans)
       /\ spans'[n].ended /\ spans'[n].status = status
       /\ \A i \in 1 .. Len(spans) : spans'[i].trace = spans[i].trace
       /\ \A i \in 1 .. Len(spans) \ {n} : spans'[i] = spans[i]
  <2> HIDE DEF n
  <2> DEFINE e == [spans[n] EXCEPT !.status = status, !.ended = TRUE]
  <2>0. e \in Span /\ e.trace = spans[n].trace /\ e.status = status /\ e.ended = TRUE
    BY <1>7
  <2>1. spans' = [spans EXCEPT ![n] = e]
    BY <1>5
  <2> HIDE DEF e
  <2>2. /\ spans' \in Seq(Span) /\ Len(spans') = Len(spans)
        /\ \A i \in 1 .. Len(spans) : spans'[i] = IF i = n THEN e ELSE spans[i]
    BY <2>0, <2>1, <1>1, <1>4, ExceptSeq
  <2> QED BY <2>0, <2>2, <1>4
<1>14. TasksNest'
  <2> SUFFICES ASSUME NEW r \in DOMAIN task PROVE Nested(task'[r], spans')
    BY <1>12 DEF TasksNest
  <2>1. Nested(task'[r], spans)
    <3>1. CASE r # t
      BY <3>1, <1>12 DEF TasksNest
    <3>2. CASE r = t
      <4>1. task'[t] \in TaskState
        BY <1>12
      <4>2. task'[t].open = SubSeq(task[t].open, 1, Len(task[t].open) - 1)
        BY <1>12 DEF rest
      <4>3. /\ task'[t].context.span = task[t].open[Len(task[t].open)].before.span
            /\ task'[t].context.trace = task[t].open[Len(task[t].open)].before.trace
        BY <1>8, <1>12
      <4> QED BY <3>2, <4>1, <4>2, <4>3, <1>1, <1>12, NestedLeaves
    <3> QED BY <3>1, <3>2
  <2> QED BY <2>1, <1>1, <1>13, NestedStays
<1>15. task'[t].context.correlation = task[t].context.correlation
  BY <1>8, <1>12
<1> QED BY <1>1, <1>2, <1>4, <1>9, <1>12, <1>13, <1>14, <1>15

LEMMA NoValueIsNone ==
    NoValue \notin Nat /\ NoValue \notin {"endpoint", "subscriber"} /\ Status \subseteq Nat
  BY TracesAssumption DEF Traces!ObservabilityAssumption

LEMMA TracesStart == Traces!Init => TracesInv
<1> SUFFICES ASSUME Traces!Init PROVE TracesInv
  OBVIOUS
<1> USE DEF Traces!Init, Traces!Begun, Traces!NoContext
<1>1. /\ DOMAIN task = {"server"}
      /\ task["server"].open = <<>>
      /\ task["server"].context.span = NoValue /\ task["server"].context.trace = NoValue
      /\ task["server"].inherited = task["server"].context
  OBVIOUS
<1>2. TracesTyped
  <2>1. Traces!Begun(Traces!NoContext) \in TaskState
    <3>1. <<>> \in OpenSpans
      BY DEF OpenSpans
    <3> QED BY <3>1 DEF TaskState, Context
  <2>2. spans \in Seq(Span)
    OBVIOUS
  <2> QED BY <2>1, <2>2, <1>1 DEF TracesTyped
<1>3. TasksNest
  BY <1>1 DEF TasksNest, Nested, Rooted
<1>4. Correlated /\ SpanOfTheRequest
  BY <1>1 DEF Correlated, SpanOfTheRequest
<1>5. RequestIsTraced
  BY <1>1 DEF RequestIsTraced
<1> QED BY <1>2, <1>3, <1>4, <1>5 DEF TracesInv

\* What touches neither the spans nor the tasks.
LEMMA SameSpans ==
    ASSUME TracesInv, UNCHANGED <<traced, task, spans>>, stage # "arrived"
    PROVE  TasksNest' /\ Correlated' /\ SpanOfTheRequest'
<1>1. TasksNest'
  BY DEF TracesInv, TasksNest
<1>2. Correlated' /\ SpanOfTheRequest'
  BY DEF TracesInv, Correlated, SpanOfTheRequest
<1> QED BY <1>1, <1>2

LEMMA DispatchStep == ASSUME TracesInv, Traces!Dispatch PROVE TracesInv'
<1> USE DEF TracesInv
<1>1. /\ stage = "arrived" /\ DOMAIN task = {"server"} /\ "server" \in DOMAIN task
      /\ UNCHANGED <<traced, events, raised, answer, measured, reply>>
  BY DEF Traces!Dispatch, TracesTyped
<1>2. CASE traced
  <2>1. Traces!Entered("server") /\ stage' = "starting"
    BY <1>2 DEF Traces!Dispatch
  <2>2. spans = <<>> /\ task["server"].open = <<>> /\ Len(spans) = 0
    BY <1>1, <1>2 DEF RequestIsTraced
  <2>3. /\ spans' \in Seq(Span) /\ Len(spans') = 1
        /\ task' \in [DOMAIN task' -> TaskState] /\ DOMAIN task' = {"server"}
        /\ task'["server"].open =
             Append(task["server"].open,
                    [span |-> Len(spans) + 1, before |-> task["server"].context])
        /\ TasksNest'
    BY <1>1, <2>1, <2>2, EnteringASpan
  <2>4. /\ Len(task'["server"].open) = 1
        /\ task'["server"].open[1].span = 1
    BY <2>2, <2>3
  <2>5. TracesTyped'
    BY <1>1, <1>2, <2>1, <2>3 DEF TracesTyped
  <2>6. Correlated' /\ SpanOfTheRequest'
    BY <2>1, <2>3 DEF Correlated, SpanOfTheRequest
  <2>7. RequestIsTraced'
    BY <1>1, <1>2, <2>1, <2>4 DEF RequestIsTraced
  <2> QED BY <2>3, <2>5, <2>6, <2>7
<1>3. CASE ~traced
  <2>1. stage' = "calling" /\ UNCHANGED <<task, spans>>
    BY <1>3 DEF Traces!Dispatch
  <2>2. TracesTyped'
    BY <1>1, <2>1 DEF TracesTyped
  <2>3. TasksNest' /\ Correlated' /\ SpanOfTheRequest'
    BY <1>1, <1>3, <2>1 DEF TasksNest, Correlated, SpanOfTheRequest
  <2> QED BY <1>1, <1>3, <2>2, <2>3
<1> QED BY <1>2, <1>3

\* The middleware leaves the span of the request.
LEMMA EndOfTheRequest ==
    ASSUME TracesInv, stage \in {"starting", "answered"}, traced,
           NEW status \in {"ok", "error"},
           spans' = Traces!Ended("server", status), task' = Traces!Left("server"),
           UNCHANGED traced
    PROVE  /\ spans' \in Seq(Span)
           /\ task' \in [DOMAIN task' -> TaskState] /\ DOMAIN task' = DOMAIN task
           /\ spans'[1].ended /\ spans'[1].status = status
           /\ TasksNest' /\ Correlated' /\ SpanOfTheRequest'
<1> USE DEF TracesInv
<1>1. Len(task["server"].open) = 1 /\ task["server"].open[1].span = 1 /\ "server" \in DOMAIN task
  BY DEF RequestIsTraced, TracesTyped
<1>2. task["server"].open # <<>>
  <2>1. task["server"].open \in OpenSpans
    BY <1>1 DEF TracesTyped, TaskState
  <2> QED BY <1>1, <2>1, EmptySeq DEF OpenSpans
<1> DEFINE n == task["server"].open[Len(task["server"].open)].span
<1>3. /\ spans' \in Seq(Span) /\ Len(spans') = Len(spans) /\ Len(spans) \in Nat
      /\ n \in 1 .. Len(spans) /\ spans'[n].ended /\ spans'[n].status = status
      /\ task' \in [DOMAIN task' -> TaskState] /\ DOMAIN task' = DOMAIN task
      /\ \A s \in DOMAIN task \ {"server"} : task'[s] = task[s]
      /\ TasksNest'
  <2>1. status \in {"unset", "ok", "error"}
    OBVIOUS
  <2> QED BY <1>1, <1>2, <2>1, LeavingASpan
<1>4. n = 1
  BY <1>1
<1> HIDE DEF n
<1>5. Correlated'
  BY <1>3 DEF Correlated
<1>6. SpanOfTheRequest'
  BY <1>3, <1>4 DEF SpanOfTheRequest
<1> QED BY <1>3, <1>4, <1>5, <1>6

LEMMA StartedStep == ASSUME TracesInv, Traces!Started PROVE TracesInv'
<1> USE DEF TracesInv
<1>1. /\ stage = "starting" /\ events' = Append(events, StartedEvent)
      /\ UNCHANGED <<traced, answer, measured, reply>>
  BY DEF Traces!Started, StartedEvent
<1>2. CASE stage' = "calling" /\ UNCHANGED <<task, spans, raised>>
  <2>1. TracesTyped'
    BY <1>1, <1>2 DEF TracesTyped
  <2>2. TasksNest' /\ Correlated' /\ SpanOfTheRequest'
    BY <1>1, <1>2, SameSpans
  <2>3. traced => events' = <<StartedEvent>>
    BY <1>1 DEF RequestIsTraced
  <2>4. traced => RequestIsTraced'
    BY <1>1, <1>2, <2>3 DEF RequestIsTraced, StartedEvent
  <2> QED BY <1>1, <2>1, <2>2, <2>4
<1>3. CASE /\ raised' = "subscriber" /\ stage' = "failed" /\ traced
           /\ spans' = Traces!Ended("server", "error") /\ task' = Traces!Left("server")
  <2>1. /\ spans' \in Seq(Span)
        /\ task' \in [DOMAIN task' -> TaskState] /\ DOMAIN task' = DOMAIN task
        /\ spans'[1].ended /\ spans'[1].status = "error"
        /\ TasksNest' /\ Correlated' /\ SpanOfTheRequest'
    BY <1>1, <1>3, EndOfTheRequest
  <2>2. TracesTyped'
    BY <1>1, <1>3, <2>1 DEF TracesTyped
  <2>3. answer' = NoValue
    BY <1>1, <1>3 DEF RequestIsTraced
  <2>4. RequestIsTraced'
    BY <1>1, <1>3, <2>1, <2>3 DEF RequestIsTraced
  <2> QED BY <1>1, <2>1, <2>2, <2>4
<1> QED BY <1>1, <1>2, <1>3 DEF Traces!Started, TracesTyped

LEMMA RequestIdStep == ASSUME TracesInv, Traces!RequestId PROVE TracesInv'
<1> USE DEF TracesInv
<1> DEFINE here == task["server"].context
           named == [here EXCEPT !.correlation = "id"]
           there == [context |-> named, inherited |-> named, open |-> <<>>]
<1>1. /\ stage = "calling" /\ stage' = "inside" /\ DOMAIN task = {"server"}
      /\ UNCHANGED <<traced, spans, events, raised, answer, measured, reply>>
  BY DEF Traces!RequestId, TracesTyped
<1>2. task["server"] \in TaskState /\ here \in Context
  BY <1>1 DEF TracesTyped, TaskState
<1>3. /\ named \in Context /\ named.correlation = "id"
      /\ named.span = here.span /\ named.trace = here.trace
  BY <1>2 DEF Context
<1>4. Traces!Copied("app", named) =
        [t \in {"server", "app"} |-> IF t = "app" THEN there ELSE task[t]]
  BY <1>1 DEF Traces!Copied, Traces!Tasks, Traces!Begun
<1>5. task' = IF traced THEN Traces!Copied("app", named)
              ELSE [Traces!Copied("app", named) EXCEPT !["server"].context = named]
  BY Zenon DEF Traces!RequestId, Traces!CorrelationId
<1> HIDE DEF named
<1>6. there \in TaskState
  <2>1. <<>> \in OpenSpans
    BY DEF OpenSpans
  <2> QED BY <2>1, <1>3 DEF TaskState
<1>7. [task["server"] EXCEPT !.context = named] \in TaskState
  BY <1>2, <1>3 DEF TaskState
<1>8. /\ task' \in [{"server", "app"} -> TaskState] /\ DOMAIN task' = {"server", "app"}
      /\ task'["app"] = there
      /\ task'["server"] = task["server"] \/
         task'["server"] = [task["server"] EXCEPT !.context = named]
  <2>1. CASE traced
    <3>1. task' = [t \in {"server", "app"} |-> IF t = "app" THEN there ELSE task[t]]
      BY <2>1, <1>4, <1>5
    <3> HIDE DEF there
    <3> QED BY <3>1, <1>2, <1>6
  <2>2. CASE ~traced
    <3> DEFINE f == [t \in {"server", "app"} |-> IF t = "app" THEN there ELSE task[t]]
    <3>1. task' = [f EXCEPT !["server"].context = named]
      BY <2>2, <1>4, <1>5
    <3>2. f["server"] = task["server"] /\ f["app"] = there /\ DOMAIN f = {"server", "app"}
      OBVIOUS
    <3>3. f \in [{"server", "app"} -> TaskState]
      BY <1>2, <1>6
    <3> HIDE DEF f, there
    <3>4. /\ task' \in [{"server", "app"} -> TaskState]
          /\ task'["app"] = f["app"]
          /\ task'["server"] = [f["server"] EXCEPT !.context = named]
      BY <3>1, <3>2, <3>3, <1>7
    <3> QED BY <3>2, <3>4
  <2> QED BY <2>1, <2>2
<1>9. task'["server"].open = task["server"].open
  BY <1>2, <1>8 DEF TaskState
<1>10. TracesTyped'
  BY <1>1, <1>8 DEF TracesTyped
<1>11. Nested(task["server"], spans)
  BY <1>1 DEF TasksNest
<1>12. Nested(there, spans)
  <2>1. there.context = named /\ there.inherited = named /\ there.open = <<>>
    OBVIOUS
  <2> HIDE DEF there
  <2>2. Rooted(named, spans)
    BY <1>3, <1>11 DEF Nested, Rooted
  <2> QED BY <2>1, <2>2 DEF Nested
<1>13. Nested([task["server"] EXCEPT !.context = named], spans)
  <2> DEFINE s == [task["server"] EXCEPT !.context = named]
  <2>1. s.context = named /\ s.inherited = task["server"].inherited /\ s.open = task["server"].open
    BY <1>2 DEF TaskState
  <2> HIDE DEF s
  <2>2. Rooted(named, spans)
    BY <1>3, <1>11 DEF Nested, Rooted
  <2>3. Nested(s, spans)
    BY <2>1, <2>2, <1>3, <1>11 DEF Nested
  <2> QED BY <2>3 DEF s
<1>14. TasksNest'
  <2>1. Nested(task'["server"], spans) /\ Nested(task'["app"], spans)
    BY <1>8, <1>11, <1>12, <1>13
  <2> QED BY <2>1, <1>1, <1>8 DEF TasksNest
<1>15. Correlated'
  BY <1>3, <1>8 DEF Correlated
<1>16. SpanOfTheRequest'
  BY <1>1, <1>8 DEF SpanOfTheRequest
<1>17. traced => RequestIsTraced'
  BY <1>1, <1>9 DEF RequestIsTraced, StartedEvent
<1> QED BY <1>1, <1>10, <1>14, <1>15, <1>16, <1>17

LEMMA SpawnStep == ASSUME TracesInv, Traces!Spawn PROVE TracesInv'
<1> USE DEF TracesInv
<1> DEFINE c == task["app"].context
           there == [context |-> c, inherited |-> c, open |-> <<>>]
<1>1. /\ stage = "inside" /\ "app" \in DOMAIN task /\ "job" \notin DOMAIN task
      /\ UNCHANGED <<traced, stage, spans, events, raised, answer, measured, reply>>
  BY DEF Traces!Spawn, Traces!Tasks, TracesTyped
<1>2. task["app"] \in TaskState /\ c \in Context /\ Nested(task["app"], spans)
  BY <1>1 DEF TracesTyped, TaskState, TasksNest
<1>3. task' = [t \in DOMAIN task \cup {"job"} |-> IF t = "job" THEN there ELSE task[t]]
  BY DEF Traces!Spawn, Traces!Copied, Traces!Tasks, Traces!Begun
<1>4. there \in TaskState
  <2>1. <<>> \in OpenSpans
    BY DEF OpenSpans
  <2> QED BY <2>1, <1>2 DEF TaskState
<1>5. Nested(there, spans)
  BY <1>2 DEF Nested
<1>6. there.context.correlation = "id" /\ there.open = <<>>
  BY <1>1 DEF Correlated
<1> HIDE DEF there
<1>7. /\ DOMAIN task' = DOMAIN task \cup {"job"} /\ task'["job"] = there
      /\ \A t \in DOMAIN task : task'[t] = task[t]
      /\ task' \in [DOMAIN task' -> TaskState]
  BY <1>1, <1>3, <1>4 DEF TracesTyped
<1>8. TracesTyped'
  BY <1>1, <1>7 DEF TracesTyped
<1>9. TasksNest'
  BY <1>1, <1>5, <1>7 DEF TasksNest
<1>10. Correlated' /\ SpanOfTheRequest'
  BY <1>1, <1>6, <1>7 DEF Correlated, SpanOfTheRequest
<1>11. traced => RequestIsTraced'
  <2>1. task'["server"] = task["server"]
    BY <1>7 DEF TracesTyped
  <2> QED BY <2>1, <1>1 DEF RequestIsTraced, StartedEvent
<1> QED BY <1>1, <1>8, <1>9, <1>10, <1>11

LEMMA OpenSpanStep ==
    ASSUME TracesInv, NEW t \in DOMAIN task, Traces!OpenSpan(t) PROVE TracesInv'
<1> USE DEF TracesInv
<1>1. /\ Traces!Entered(t) /\ t # "server"
      /\ UNCHANGED <<traced, stage, events, raised, answer, measured, reply>>
  BY DEF Traces!OpenSpan
<1>2. /\ spans' \in Seq(Span) /\ Len(spans) \in Nat /\ Len(spans') = Len(spans) + 1
      /\ \A i \in 1 .. Len(spans) : spans'[i] = spans[i]
      /\ task' \in [DOMAIN task' -> TaskState] /\ DOMAIN task' = DOMAIN task
      /\ \A s \in DOMAIN task \ {t} : task'[s] = task[s]
      /\ task'[t].context.correlation = task[t].context.correlation
      /\ task[t].open \in OpenSpans
      /\ task'[t].open =
           Append(task[t].open, [span |-> Len(spans) + 1, before |-> task[t].context])
      /\ [span |-> Len(spans) + 1, before |-> task[t].context] \in
           [span : Nat, before : Context]
      /\ TasksNest'
  BY <1>1, EnteringASpan
<1>3. stage \notin {"arrived", "starting", "calling"}
  BY <1>1 DEF TracesTyped
<1>4. TracesTyped'
  BY <1>1, <1>2 DEF TracesTyped
<1>5. Correlated'
  BY <1>1, <1>2 DEF Correlated
<1>6. traced => Len(spans) >= 1
  BY <1>3 DEF SpanOfTheRequest, TracesTyped
<1>7. traced => \A i \in DOMAIN task'[t].open : task'[t].open[i].span # 1
  <2> SUFFICES ASSUME traced, NEW i \in DOMAIN task'[t].open
               PROVE  task'[t].open[i].span # 1
    OBVIOUS
  <2> DEFINE o == [span |-> Len(spans) + 1, before |-> task[t].context]
  <2>1. o.span # 1
    BY <1>2, <1>6
  <2>2. o \in [span : Nat, before : Context] /\ task'[t].open = Append(task[t].open, o)
    BY <1>2
  <2> HIDE DEF o
  <2>3. \/ i \in DOMAIN task[t].open /\ task'[t].open[i] = task[t].open[i]
        \/ task'[t].open[i] = o
    <3>1. task[t].open \in Seq([span : Nat, before : Context])
      BY <1>2 DEF OpenSpans
    <3>2. i \in DOMAIN Append(task[t].open, o)
      BY <2>2
    <3>3. \/ i \in DOMAIN task[t].open /\ Append(task[t].open, o)[i] = task[t].open[i]
          \/ Append(task[t].open, o)[i] = o
      BY <2>2, <3>1, <3>2, Appended, Zenon
    <3> QED BY <2>2, <3>3, Zenon
  <2> QED BY <2>1, <2>3, <1>1 DEF SpanOfTheRequest
<1>8. SpanOfTheRequest'
  <2>1. traced => Len(spans') >= 1
    BY <1>2, <1>6
  <2>2. traced => \A s \in DOMAIN task \ {"server"} : \A i \in DOMAIN task'[s].open :
                    task'[s].open[i].span # 1
    <3> SUFFICES ASSUME traced, NEW s \in DOMAIN task \ {"server"}
                 PROVE  \A i \in DOMAIN task'[s].open : task'[s].open[i].span # 1
      OBVIOUS
    <3>1. CASE s = t
      BY <3>1, <1>7, Zenon
    <3>2. CASE s # t
      <4>1. task'[s] = task[s]
        BY <3>2, <1>2
      <4> QED BY <4>1 DEF SpanOfTheRequest
    <3> QED BY <3>1, <3>2
  <2> QED BY <2>1, <2>2, <1>1, <1>2, Zenon DEF SpanOfTheRequest
<1>9. traced => RequestIsTraced'
  <2>1. task'["server"] = task["server"] /\ (traced => spans'[1] = spans[1])
    <3>1. traced => 1 \in 1 .. Len(spans)
      BY <1>2, <1>6
    <3> QED BY <3>1, <1>1, <1>2 DEF TracesTyped
  <2> QED BY <2>1, <1>1, <1>3 DEF RequestIsTraced, StartedEvent, FinishedEvent, RecordedEvent
<1> QED BY <1>1, <1>2, <1>4, <1>5, <1>8, <1>9

LEMMA CloseSpanStep ==
    ASSUME TracesInv, NEW t \in DOMAIN task, Traces!CloseSpan(t) PROVE TracesInv'
<1> USE DEF TracesInv
<1>1. /\ t # "server" /\ task[t].open # <<>> /\ task' = Traces!Left(t)
      /\ UNCHANGED <<traced, stage, events, raised, answer, measured, reply>>
  BY DEF Traces!CloseSpan
<1>2. PICK status \in {"unset", "ok", "error"} : spans' = Traces!Ended(t, status)
  BY DEF Traces!CloseSpan, Traces!SpanStatus
<1> DEFINE n == task[t].open[Len(task[t].open)].span
<1>3. /\ Len(task[t].open) \in DOMAIN task[t].open
      /\ spans' \in Seq(Span) /\ Len(spans) \in Nat /\ Len(spans') = Len(spans)
      /\ n \in 1 .. Len(spans)
      /\ \A i \in 1 .. Len(spans) \ {n} : spans'[i] = spans[i]
      /\ task' \in [DOMAIN task' -> TaskState] /\ DOMAIN task' = DOMAIN task
      /\ \A s \in DOMAIN task \ {t} : task'[s] = task[s]
      /\ task'[t].context.correlation = task[t].context.correlation
      /\ \A i \in DOMAIN task'[t].open :
           i \in DOMAIN task[t].open /\ task'[t].open[i] = task[t].open[i]
      /\ TasksNest'
  BY <1>1, <1>2, LeavingASpan
<1>4. traced => n # 1
  BY <1>1, <1>3 DEF SpanOfTheRequest
<1> HIDE DEF n
<1>5. stage \notin {"arrived", "starting", "calling"}
  BY <1>1 DEF TracesTyped
<1>6. TracesTyped'
  BY <1>1, <1>3 DEF TracesTyped
<1>7. Correlated'
  BY <1>1, <1>3 DEF Correlated
<1>8. SpanOfTheRequest'
  BY <1>1, <1>3, <1>5 DEF SpanOfTheRequest
<1>9. traced => RequestIsTraced'
  <2>1. task'["server"] = task["server"] /\ (traced => spans'[1] = spans[1])
    <3>1. traced => 1 \in 1 .. Len(spans) \ {n}
      BY <1>3, <1>4, <1>5 DEF SpanOfTheRequest, TracesTyped
    <3> QED BY <3>1, <1>1, <1>3 DEF TracesTyped
  <2> QED BY <2>1, <1>1, <1>5 DEF RequestIsTraced, StartedEvent, FinishedEvent, RecordedEvent
<1> QED BY <1>1, <1>3, <1>6, <1>7, <1>8, <1>9

LEMMA Listed ==
    ASSUME NEW a, NEW b, NEW c
    PROVE  /\ Append(<<a>>, b) = <<a, b>> /\ Append(<<a, b>>, c) = <<a, b, c>>
           /\ SubSeq(<<a, b>>, 1, 2) = <<a, b>> /\ SubSeq(<<a, b, c>>, 1, 2) = <<a, b>>
<1>1. Append(<<a>>, b) = <<a, b>> /\ Append(<<a, b>>, c) = <<a, b, c>>
  <2> DEFINE S == {a, b, c}
  <2>1. ASSUME NEW s \in Seq(S), NEW e \in S, NEW n \in Nat, Len(s) = n
        PROVE  /\ Append(s, e) \in Seq(S) /\ Len(Append(s, e)) = n + 1
               /\ Append(s, e)[n + 1] = e /\ \A i \in 1 .. n : Append(s, e)[i] = s[i]
    <3> HIDE DEF S
    <3>1. \A i \in 1 .. Len(s) : Append(s, e)[i] = s[i]
      BY AppendProperties
    <3>2. Append(s, e) \in Seq(S) /\ Len(Append(s, e)) = n + 1 /\ Append(s, e)[n + 1] = e
      BY <2>1, AppendProperties
    <3> QED BY <2>1, <3>1, <3>2
  <2>2. a \in S /\ b \in S /\ c \in S
    OBVIOUS
  <2>3. PICK s1 : s1 = <<a>>
    OBVIOUS
  <2>4. PICK s2 : s2 = <<a, b>>
    OBVIOUS
  <2>5. PICK s3 : s3 = <<a, b, c>>
    OBVIOUS
  <2>6. s1 \in Seq(S) /\ Len(s1) = 1 /\ s1[1] = a
    BY <2>3
  <2>7. s2 \in Seq(S) /\ Len(s2) = 2 /\ s2[1] = a /\ s2[2] = b
    BY <2>4
  <2>8. s3 \in Seq(S) /\ Len(s3) = 3 /\ s3[1] = a /\ s3[2] = b /\ s3[3] = c
    BY <2>5
  <2> HIDE DEF S
  <2>9. PICK q2 : q2 = Append(s1, b)
    OBVIOUS
  <2>10. PICK q3 : q3 = Append(s2, c)
    OBVIOUS
  <2>11. q2 \in Seq(S) /\ Len(q2) = 2 /\ q2[2] = b /\ q2[1] = a
    BY <2>1, <2>2, <2>6, <2>9
  <2>12. q3 \in Seq(S) /\ Len(q3) = 3 /\ q3[3] = c /\ q3[1] = a /\ q3[2] = b
    BY <2>1, <2>2, <2>7, <2>10
  <2>13. q2 = s2
    BY <2>7, <2>11, SeqEqual
  <2>14. q3 = s3
    BY <2>8, <2>12, SeqEqual
  <2> QED BY <2>3, <2>4, <2>5, <2>9, <2>10, <2>13, <2>14
<1>2. ASSUME NEW s \in {<<a, b>>, <<a, b, c>>} PROVE SubSeq(s, 1, 2) = <<a, b>>
  <2> DEFINE S == {a, b, c}
  <2>1. s[1] = a /\ s[2] = b
    OBVIOUS
  <2>2. \A i \in 1 .. 2 : i = 1 \/ i = 2
    OBVIOUS
  <2>3. \A i \in 1 .. 2 : s[i] \in S
    BY <2>1, <2>2
  <2>4. PICK q : q = SubSeq(s, 1, 2)
    OBVIOUS
  <2>5. /\ q \in Seq(S) /\ Len(q) = 2 /\ \A i \in 1 .. 2 - 1 + 1 : q[i] = s[1 + i - 1]
    BY <2>3, <2>4, SubSeqProperties
  <2>6. q[1] = a /\ q[2] = b
    BY <2>1, <2>5
  <2>7. <<a, b>> \in Seq(S)
    OBVIOUS
  <2> HIDE DEF S
  <2>8. q = <<a, b>>
    BY <2>5, <2>6, <2>7, SeqEqual
  <2> QED BY <2>4, <2>8
<1> QED BY <1>1, <1>2

LEMMA AnswersStep == ASSUME TracesInv, Traces!Answers PROVE TracesInv'
<1> USE DEF TracesInv
<1>1. /\ stage = "inside" /\ stage' = "answered" /\ answer' \in Status
      /\ UNCHANGED <<traced, task, spans, events, raised, measured, reply>>
  BY DEF Traces!Answers
<1>2. TasksNest' /\ Correlated' /\ SpanOfTheRequest'
  BY <1>1, SameSpans
<1>3. TracesTyped'
  BY <1>1 DEF TracesTyped
<1>4. traced => RequestIsTraced'
  BY <1>1 DEF RequestIsTraced, StartedEvent
<1> QED BY <1>1, <1>2, <1>3, <1>4

LEMMA EndpointRaisesStep == ASSUME TracesInv, Traces!Raises PROVE TracesInv'
<1> USE DEF TracesInv
<1>1. /\ stage = "inside" /\ raised' = "endpoint"
      /\ stage' = IF traced THEN "answered" ELSE "failed"
      /\ UNCHANGED <<traced, task, spans, events, answer, measured, reply>>
  BY DEF Traces!Raises
<1>2. TasksNest' /\ Correlated' /\ SpanOfTheRequest'
  BY <1>1, SameSpans
<1>3. TracesTyped'
  BY <1>1 DEF TracesTyped
<1>4. traced => RequestIsTraced'
  BY <1>1 DEF RequestIsTraced, StartedEvent
<1> QED BY <1>1, <1>2, <1>3, <1>4

LEMMA FinishedStep == ASSUME TracesInv, Traces!Finished PROVE TracesInv'
<1> USE DEF TracesInv
<1> DEFINE status == IF answer # NoValue /\ answer < 500 THEN "ok" ELSE "error"
<1>1. /\ stage = "answered" /\ traced
      /\ events' = Append(events, FinishedEvent)
      /\ spans' = Traces!Ended("server", status) /\ task' = Traces!Left("server")
      /\ \/ stage' = IF raised = NoValue THEN "finished" ELSE "failed"
         \/ stage' = "failed"
      /\ \/ stage' = (IF raised = NoValue THEN "finished" ELSE "failed") /\ raised' = raised
         \/ stage' = "failed" /\ raised' = "subscriber"
      /\ UNCHANGED <<traced, answer, measured, reply>>
  BY DEF Traces!Finished, FinishedEvent
<1>2. status \in {"ok", "error"} /\ (status = "error" <=> (answer = NoValue \/ answer >= 500))
  BY <1>1, NoValueIsNone DEF TracesTyped
<1> HIDE DEF status
<1>3. /\ spans' \in Seq(Span)
      /\ task' \in [DOMAIN task' -> TaskState] /\ DOMAIN task' = DOMAIN task
      /\ spans'[1].ended /\ spans'[1].status = status
      /\ TasksNest' /\ Correlated' /\ SpanOfTheRequest'
  BY <1>1, <1>2, EndOfTheRequest
<1>4. events' = <<StartedEvent, FinishedEvent>> /\ ~measured
  <2>1. events = <<StartedEvent>> /\ ~measured
    BY <1>1 DEF RequestIsTraced
  <2> QED BY <2>1, <1>1, Listed
<1>5. (answer \in Status /\ raised = NoValue) \/ (answer = NoValue /\ raised = "endpoint")
  BY <1>1 DEF RequestIsTraced
<1>6. TracesTyped'
  BY <1>1, <1>3 DEF TracesTyped
<1>7. RequestIsTraced'
  <2>1. StartedEvent' = StartedEvent /\ FinishedEvent' = FinishedEvent
    BY <1>1 DEF StartedEvent, FinishedEvent
  <2>2. CASE stage' = "finished" /\ raised' = raised /\ raised = NoValue
    <3>1. answer \in Status
      BY <2>2, <1>5, NoValueIsNone
    <3> QED BY <2>1, <2>2, <3>1, <1>1, <1>2, <1>3, <1>4 DEF RequestIsTraced
  <2>3. CASE stage' = "failed" /\ raised' = raised /\ raised # NoValue
    <3>1. answer = NoValue
      BY <2>3, <1>5
    <3> QED BY <2>1, <2>3, <3>1, <1>1, <1>2, <1>3, <1>4 DEF RequestIsTraced
  <2>4. CASE stage' = "failed" /\ raised' = "subscriber"
    BY <2>4, <1>1, <1>2, <1>3 DEF RequestIsTraced
  <2> QED BY <2>2, <2>3, <2>4, <1>1
<1> QED BY <1>1, <1>3, <1>6, <1>7

LEMMA RecordedStep == ASSUME TracesInv, Traces!Recorded PROVE TracesInv'
<1> USE DEF TracesInv
<1>1. /\ stage = "finished" /\ measured' = TRUE
      /\ events' = Append(events, RecordedEvent)
      /\ \/ stage' = "leaving" /\ raised' = raised
         \/ stage' = "failed" /\ raised' = "subscriber"
      /\ UNCHANGED <<traced, task, spans, answer, reply>>
  BY DEF Traces!Recorded, RecordedEvent
<1>2. TasksNest' /\ Correlated' /\ SpanOfTheRequest'
  BY <1>1, SameSpans
<1>3. TracesTyped'
  BY <1>1 DEF TracesTyped
<1>4. traced => RequestIsTraced'
  <2> SUFFICES ASSUME traced PROVE RequestIsTraced'
    OBVIOUS
  <2>1. events' = <<StartedEvent, FinishedEvent, RecordedEvent>>
    <3>1. events = <<StartedEvent, FinishedEvent>>
      BY <1>1 DEF RequestIsTraced
    <3> QED BY <3>1, <1>1, Listed
  <2>2. /\ StartedEvent' = StartedEvent /\ FinishedEvent' = FinishedEvent
        /\ RecordedEvent' = RecordedEvent
    BY <1>1 DEF StartedEvent, FinishedEvent, RecordedEvent
  <2> QED BY <2>1, <2>2, <1>1 DEF RequestIsTraced
<1> QED BY <1>1, <1>2, <1>3, <1>4

LEMMA LeavesStep == ASSUME TracesInv, Traces!Leaves PROVE TracesInv'
<1> USE DEF TracesInv
<1>1. /\ stage = "leaving" \/ (stage = "answered" /\ ~traced)
      /\ reply' = [status |-> answer, correlation |-> Traces!CorrelationId] /\ stage' = "done"
      /\ UNCHANGED <<traced, task, spans, events, raised, answer, measured>>
  BY DEF Traces!Leaves
<1>2. TasksNest' /\ Correlated' /\ SpanOfTheRequest'
  BY <1>1, SameSpans
<1>3. TracesTyped'
  BY <1>1 DEF TracesTyped
<1>4. ASSUME traced PROVE RequestIsTraced'
  <2>1. /\ StartedEvent' = StartedEvent /\ FinishedEvent' = FinishedEvent
        /\ RecordedEvent' = RecordedEvent
    BY <1>1 DEF StartedEvent, FinishedEvent, RecordedEvent
  <2>2. /\ answer \in Status /\ raised = NoValue /\ measured
        /\ events = <<StartedEvent, FinishedEvent, RecordedEvent>>
        /\ spans[1].ended /\ (spans[1].status = "error" <=> (answer = NoValue \/ answer >= 500))
    BY <1>1, <1>4 DEF RequestIsTraced
  <2>3. SubSeq(events', 1, 2) = <<StartedEvent, FinishedEvent>>
    BY <1>1, <2>2, Listed
  <2>4. answer # NoValue /\ reply'.status = answer
    BY <1>1, <2>2, NoValueIsNone
  <2> QED BY <2>1, <2>2, <2>3, <2>4, <1>1 DEF RequestIsTraced
<1> QED BY <1>1, <1>2, <1>3, <1>4

LEMMA HandledStep == ASSUME TracesInv, Traces!Handled PROVE TracesInv'
<1> USE DEF TracesInv
<1>1. /\ stage = "failed" /\ stage' = "done" /\ reply'.status = 500
      /\ UNCHANGED <<traced, task, spans, events, raised, answer, measured>>
  BY DEF Traces!Handled
<1>2. TasksNest' /\ Correlated' /\ SpanOfTheRequest'
  BY <1>1, SameSpans
<1>3. TracesTyped'
  BY <1>1 DEF TracesTyped
<1>4. ASSUME traced PROVE RequestIsTraced'
  <2>1. StartedEvent' = StartedEvent /\ FinishedEvent' = FinishedEvent
    BY <1>1 DEF StartedEvent, FinishedEvent
  <2>2. /\ spans[1].ended /\ (spans[1].status = "error" <=> (answer = NoValue \/ answer >= 500))
        /\ raised # "subscriber" =>
             answer = NoValue /\ ~measured /\ events = <<StartedEvent, FinishedEvent>>
    BY <1>1, <1>4 DEF RequestIsTraced
  <2>3. raised # "subscriber" => SubSeq(events', 1, 2) = <<StartedEvent, FinishedEvent>>
    BY <1>1, <2>2, Listed
  <2> QED BY <2>1, <2>2, <2>3, <1>1 DEF RequestIsTraced
<1> QED BY <1>1, <1>2, <1>3, <1>4

LEMMA TracesStep == TracesInv /\ [Traces!Next]_tracesVars => TracesInv'
<1> SUFFICES ASSUME TracesInv, [Traces!Next]_tracesVars PROVE TracesInv'
  OBVIOUS
<1>1. CASE \/ Traces!Dispatch \/ Traces!Started \/ Traces!RequestId \/ Traces!Spawn
           \/ Traces!Answers \/ Traces!Raises \/ Traces!Finished \/ Traces!Recorded
           \/ Traces!Leaves \/ Traces!Handled
  BY <1>1, DispatchStep, StartedStep, RequestIdStep, SpawnStep, AnswersStep,
     EndpointRaisesStep, FinishedStep, RecordedStep, LeavesStep, HandledStep
<1>2. CASE \E t \in Traces!Tasks : Traces!OpenSpan(t) \/ Traces!CloseSpan(t)
  BY <1>2, OpenSpanStep, CloseSpanStep DEF Traces!Tasks
<1>3. CASE UNCHANGED tracesVars
  <2> USE <1>3 DEF tracesVars, TracesInv
  <2>1. TracesTyped' /\ TasksNest'
    BY DEF TracesTyped, TasksNest
  <2>2. Correlated' /\ SpanOfTheRequest'
    BY DEF Correlated, SpanOfTheRequest
  <2>3. traced => RequestIsTraced'
    BY DEF RequestIsTraced, StartedEvent, FinishedEvent, RecordedEvent
  <2> QED BY <2>1, <2>2, <2>3
<1> QED BY <1>1, <1>2, <1>3 DEF Traces!Next

LEMMA TracesInvariant == Traces!Spec => []TracesInv
<1>1. TracesInv /\ [Traces!Next]_Traces!vars => TracesInv'
  BY TracesStep DEF tracesVars, Traces!vars
<1> QED BY <1>1, TracesStart, PTL DEF Traces!Spec

\* What a task logs is of its innermost open span, or of the one it started
\* in; a request that was answered has its span ended with its outcome, and was
\* started, finished and measured once, unless a subscriber raised.
THEOREM TracesStayWhole == Traces!Spec => []TracesAreWhole
<1>1. TracesInv => TracesAreWhole
  <2> SUFFICES ASSUME TracesInv PROVE Traces!TracesAreWhole
    BY DEF TracesAreWhole
  <2>1. ASSUME NEW t \in DOMAIN task
        PROVE  /\ Traces!Logged(t).spanId =
                    IF task[t].open = <<>> THEN task[t].inherited.span
                    ELSE Traces!Last(task[t].open).span
               /\ Traces!Logged(t).traceId =
                    IF Traces!Logged(t).spanId = NoValue THEN NoValue
                    ELSE spans[Traces!Logged(t).spanId].trace
               /\ t # "server" => Traces!Logged(t).correlationId = Traces!CorrelationId
    <3>1. /\ Traces!Logged(t).spanId = task[t].context.span
          /\ Traces!Logged(t).traceId = task[t].context.trace
          /\ Traces!Logged(t).correlationId = task[t].context.correlation
      BY DEF Traces!Logged
    <3>2. Nested(task[t], spans)
      BY DEF TracesInv, TasksNest
    <3>3. task[t].context.span = IF task[t].open = <<>> THEN task[t].inherited.span
                                 ELSE Traces!Last(task[t].open).span
      BY <3>2 DEF Nested, Traces!Last
    <3>4. task[t].context.trace = IF task[t].context.span = NoValue THEN NoValue
                                  ELSE spans[task[t].context.span].trace
      <4>1. Len(spans) \in Nat
        BY LenProperties DEF TracesInv, TracesTyped
      <4> QED BY <3>2, <4>1, NoValueIsNone DEF Nested, Rooted
    <3>5. t # "server" => task[t].context.correlation = Traces!CorrelationId
      BY DEF TracesInv, Correlated, Traces!CorrelationId
    <3> QED BY <3>1, <3>3, <3>4, <3>5
  <2>2. ASSUME stage = "done", traced
        PROVE  /\ spans[1].ended
               /\ spans[1].status = "error" <=> (answer = NoValue \/ answer >= 500)
               /\ raised # "subscriber" =>
                    /\ reply.status = IF answer = NoValue THEN 500 ELSE answer
                    /\ measured <=> answer # NoValue
                    /\ SubSeq(events, 1, 2) =
                         << [name |-> "trace.started", status |-> NoValue],
                            [name |-> "trace.finished", status |-> answer] >>
    BY <2>2 DEF TracesInv, RequestIsTraced, StartedEvent, FinishedEvent
  <2> QED BY <2>1, <2>2 DEF Traces!TracesAreWhole, Traces!Tasks
<1> QED BY <1>1, TracesInvariant, PTL

-----------------------------------------------------------------------------
(* Framework.                                                              *)
(*                                                                         *)
(* The inductive invariant is TeafInv. While the modules start, the        *)
(* registry has the names of those that are registered (Named), each of    *)
(* the bound ones owns what it declares and nobody owns anything else      *)
(* (Owned), and a contract is never of a module before one that declares   *)
(* it (Supplied); that is what makes a collision of names or capabilities  *)
(* tell which module caused it (FailureExplained). It rests on what the    *)
(* bundled modules declare, whatever their configuration: each manifest    *)
(* has no errors, suits the SDK and the version that create_app gives its  *)
(* runtime, and has capabilities of its own (Sound), and no default keeps  *)
(* a module from being built.                                              *)

\* The number of modules that are registered, and of those that are bound.
RegisteredModules ==
    CASE pc = "construct" -> 0 [] pc = "check" -> turn - 1
      [] pc \in {"bind", "connect", "refresh"} -> turn [] OTHER -> Len(Teaf!given)
BoundModules ==
    CASE pc = "construct" -> 0 [] pc \in {"check", "bind"} -> turn - 1
      [] pc \in {"connect", "refresh"} -> turn [] OTHER -> Len(Teaf!given)

Placed ==
    /\ installation \in Installation
    /\ pc \in {"construct", "check", "bind", "connect", "refresh", "failed",
               "serving", "stop", "stopped"}
    /\ turn \in Nat
    /\ pc \in {"construct", "check"} => turn \in 1 .. Len(Teaf!given) + 1
    /\ pc \in {"bind", "connect", "refresh", "failed"} => turn \in Teaf!Modules
    /\ pc = "stop" => turn <= Len(Teaf!given)

Named ==
    pc # "failed" =>
      /\ \A i, j \in 1 .. RegisteredModules : Teaf!given[i].id = Teaf!given[j].id => i = j
      /\ registry = {Teaf!given[i].id : i \in 1 .. RegisteredModules} \cup
           (IF pc # "construct" /\ installation.host = "application"
            THEN Teaf!InfrastructureModules ELSE {})

Owned ==
    pc # "failed" =>
      /\ \A i \in 1 .. BoundModules : \A c \in Teaf!ToSet(Teaf!Manifest(i).capabilities) :
           c \in DOMAIN owner /\ owner[c] = i
      /\ \A c \in DOMAIN owner :
           owner[c] \in 1 .. BoundModules
             /\ c \in Teaf!ToSet(Teaf!Manifest(owner[c]).capabilities)

Supplied ==
    pc # "failed" =>
      \A i \in 1 .. BoundModules : \A s \in Teaf!ToSet(Teaf!Manifest(i).services) :
        /\ s \in DOMAIN provider /\ provider[s] \in 1 .. BoundModules
        /\ s \in Teaf!ToSet(Teaf!Manifest(provider[s]).services) /\ i <= provider[s]

Connected ==
    /\ connected \subseteq Teaf!Modules
    /\ pc = "stop" => connected \subseteq 1 .. turn
    /\ pc = "stopped" => connected = {}

Known ==
    /\ known \in [Teaf!Modules -> {"unknown", "healthy", "degraded", "unhealthy"}]
    /\ \A i \in Teaf!Modules : known[i] = "unhealthy"
         => Teaf!Backing(i) # NoValue /\ Teaf!given[i].id # "custom"
    /\ down \subseteq {"database", "redis"}

FailureExplained ==
    pc = "failed" =>
      LET ofThirdParty == \E i \in 1 .. turn : Teaf!given[i].id = "custom"
      IN  CASE cause = "configuration" ->
                 Teaf!given[turn].values # <<>> \/ Teaf!given[turn].exporters # <<>>
            [] cause = "registered" ->
                 \/ installation.host = "application"
                      /\ Teaf!given[turn].id \in Teaf!InfrastructureModules
                 \/ \E j \in 1 .. turn - 1 : Teaf!given[j].id = Teaf!given[turn].id
            [] cause = "store" ->
                 Teaf!given[turn].id = "database" /\ Teaf!given[turn].values # <<>>
            [] cause = "library" -> Teaf!Backing(turn) = "redis" /\ installation.extras = {}
            [] cause = "invalid" -> Teaf!given[turn].id = "custom"
            [] cause = "incompatible" ->
                 \/ Teaf!given[turn].id = "custom"
                 \/ installation.host # "application"
                      /\ ~Teaf!Satisfies(Teaf!RuntimeVersion, Teaf!Manifest(turn).runtime)
            [] cause = "capability" -> ofThirdParty

TeafInv == Placed /\ Named /\ Owned /\ Supplied /\ Connected /\ Known /\ FailureExplained

-----------------------------------------------------------------------------
(* Manifests.                                                              *)

LEMMA EmptyList == DOMAIN <<>> = {} /\ <<>> \in Seq({}) /\ Len(<<>>) = 0
  OBVIOUS

LEMMA Appending == ASSUME NEW e PROVE <<e>> \o <<>> = <<e>>
<1>1. <<e>> \in Seq({e})
  OBVIOUS
<1> QED
  BY <1>1

LEMMA NothingIn == Teaf!ToSet(<<>>) = {} /\ Teaf!IsInjective(<<>>)
  BY EmptyList, Zenon DEF Teaf!ToSet, Teaf!IsInjective

\* A sequence of different members.
Listing(s, names) == s \in Seq(names) /\ Teaf!IsInjective(s)

LEMMA ListedNext ==
    ASSUME NEW s, NEW names, Listing(s, names), NEW contract, contract \notin names,
           NEW condition
    PROVE  Listing(s \o Teaf!When(condition, contract), names \cup {contract})
<1>1. CASE ~condition
  <2>1. s \o Teaf!When(condition, contract) = s \o <<>>
    BY <1>1 DEF Teaf!When
  <2>2. s \o <<>> = s
    BY DEF Listing
  <2>3. s \in Seq(names \cup {contract})
    BY DEF Listing
  <2> QED
    BY <2>1, <2>2, <2>3 DEF Listing
<1>2. CASE condition
  <2> PICK t : t = s \o <<contract>>
    BY Zenon
  <2>1. s \o Teaf!When(condition, contract) = t
    BY <1>2 DEF Teaf!When
  <2>2. s \in Seq(names \cup {contract}) /\ <<contract>> \in Seq(names \cup {contract})
    BY DEF Listing
  <2>3. t \in Seq(names \cup {contract}) /\ Len(t) = Len(s) + 1
    BY <2>2
  <2>4. t[Len(s) + 1] = contract /\ \A i \in 1 .. Len(s) : t[i] = s[i] /\ t[i] \in names
    BY <2>2 DEF Listing
  <2>5. Len(s) \in Nat /\ DOMAIN s = 1 .. Len(s) /\ DOMAIN t = 1 .. Len(s) + 1
    BY <2>2, <2>3
  <2>6. ASSUME NEW i \in DOMAIN t, NEW j \in DOMAIN t, t[i] = t[j] PROVE i = j
    <3>1. CASE i \in 1 .. Len(s) /\ j \in 1 .. Len(s)
      BY <2>4, <2>5, <2>6, <3>1 DEF Listing, Teaf!IsInjective
    <3>2. CASE i = Len(s) + 1 /\ j = Len(s) + 1
      BY <3>2
    <3> QED
      BY <2>4, <2>5, <2>6, <3>1, <3>2
  <2> QED
    BY <2>1, <2>3, <2>6, Zenon DEF Listing, Teaf!IsInjective
<1> QED
  BY <1>1, <1>2

LEMMA ServicesListed == ASSUME NEW g PROVE \E names : Listing(Teaf!Services(g), names)
<1> DEFINE s0 == <<"ApiGateway">>
           s1 == s0 \o Teaf!When("rate_limit" \in g.parts, "RateLimiter")
           s2 == s1 \o Teaf!When("quota" \in g.parts, "QuotaManager")
           s3 == s2 \o Teaf!When("audit" \in g.parts, "ApiAudit")
           s4 == s3 \o Teaf!When("validation" \in g.parts, "RequestValidator")
           s5 == s4 \o Teaf!When("idempotency" \in g.parts, "IdempotencyManager")
           s6 == s5 \o Teaf!When("compression" \in g.parts /\ g.providers # <<>>,
                            "CompressionProvider")
           n0 == {"ApiGateway"}
           n1 == n0 \cup {"RateLimiter"}
           n2 == n1 \cup {"QuotaManager"}
           n3 == n2 \cup {"ApiAudit"}
           n4 == n3 \cup {"RequestValidator"}
           n5 == n4 \cup {"IdempotencyManager"}
           n6 == n5 \cup {"CompressionProvider"}
<1>1. Teaf!Services(g) = s6
  BY Zenon DEF Teaf!Services
<1>2. Listing(s0, n0)
  BY DEF Listing, Teaf!IsInjective
<1>3. /\ "RateLimiter" \notin n0 /\ "QuotaManager" \notin n1 /\ "ApiAudit" \notin n2
      /\ "RequestValidator" \notin n3 /\ "IdempotencyManager" \notin n4
      /\ "CompressionProvider" \notin n5
  OBVIOUS
<1> HIDE DEF s0, n0
<1>4. Listing(s1, n1)
  BY <1>2, <1>3, ListedNext
<1> HIDE DEF s1, n1
<1>5. Listing(s2, n2)
  BY <1>3, <1>4, ListedNext
<1> HIDE DEF s2, n2
<1>6. Listing(s3, n3)
  BY <1>3, <1>5, ListedNext
<1> HIDE DEF s3, n3
<1>7. Listing(s4, n4)
  BY <1>3, <1>6, ListedNext
<1> HIDE DEF s4, n4
<1>8. Listing(s5, n5)
  BY <1>3, <1>7, ListedNext
<1> HIDE DEF s5, n5
<1>9. Listing(s6, n6)
  BY <1>3, <1>8, ListedNext
<1> HIDE DEF s6, n6
<1> QED
  BY <1>1, <1>9, Zenon

\* What a module that comes with TEAF declares.
Declared(capabilities, configuration, services, checks, published, runtime, sdk) ==
    [capabilities |-> capabilities, configuration |-> configuration, services |-> services,
     checks |-> checks, events |-> published, runtime |-> runtime, sdk |-> sdk]

\* The builder keeps what is declared.
Keeps(id, capabilities, configuration, services, checks, published, runtime, sdk) ==
    Teaf!Built(id,
      Declared(capabilities, configuration, services, checks, published, runtime, sdk)) =
      [id |-> id, slug |-> TRUE, version |-> TRUE, documented |-> TRUE,
       dependencies |-> <<>>, capabilities |-> capabilities,
       configuration |-> configuration, services |-> services, checks |-> checks,
       events |-> published, runtime |-> runtime, sdk |-> sdk,
       compatible |-> Teaf!WellWritten(runtime) /\ Teaf!WellWritten(sdk)]

LEMMA BuiltOf ==
    ASSUME NEW id, NEW capabilities, NEW configuration, NEW services, NEW checks, NEW published,
           NEW runtime, NEW sdk
    PROVE  Keeps(id, capabilities, configuration, services, checks, published, runtime, sdk)
<1> PICK d : d = Declared(capabilities, configuration, services, checks, published, runtime, sdk)
  BY Zenon
<1>1. /\ DOMAIN d = {"capabilities", "configuration", "services", "checks", "events",
                     "runtime", "sdk"}
      /\ d["capabilities"] = capabilities /\ d["configuration"] = configuration
      /\ d["services"] = services /\ d["checks"] = checks /\ d["events"] = published
      /\ d["runtime"] = runtime /\ d["sdk"] = sdk
  BY DEF Declared
<1>2. /\ (IF "slug" \in DOMAIN d THEN d["slug"] ELSE TRUE) = TRUE
      /\ (IF "version" \in DOMAIN d THEN d["version"] ELSE TRUE) = TRUE
      /\ (IF "documented" \in DOMAIN d THEN d["documented"] ELSE TRUE) = TRUE
      /\ (IF "dependencies" \in DOMAIN d THEN d["dependencies"] ELSE <<>>) = <<>>
  BY <1>1
<1>3. /\ (IF "capabilities" \in DOMAIN d THEN d["capabilities"] ELSE <<>>) = capabilities
      /\ (IF "configuration" \in DOMAIN d THEN d["configuration"] ELSE <<>>) = configuration
      /\ (IF "services" \in DOMAIN d THEN d["services"] ELSE <<>>) = services
      /\ (IF "checks" \in DOMAIN d THEN d["checks"] ELSE <<>>) = checks
      /\ (IF "events" \in DOMAIN d THEN d["events"] ELSE <<>>) = published
      /\ (IF "runtime" \in DOMAIN d THEN d["runtime"] ELSE Teaf!AnyVersion) = runtime
      /\ (IF "sdk" \in DOMAIN d THEN d["sdk"] ELSE Teaf!AnyVersion) = sdk
  BY <1>1
<1>4. Teaf!Built(id, d) =
        [id |-> id, slug |-> TRUE, version |-> TRUE, documented |-> TRUE,
         dependencies |-> <<>>, capabilities |-> capabilities,
         configuration |-> configuration, services |-> services, checks |-> checks,
         events |-> published, runtime |-> runtime, sdk |-> sdk,
         compatible |-> Teaf!WellWritten(runtime) /\ Teaf!WellWritten(sdk)]
  BY <1>2, <1>3, Zenon DEF Teaf!Built
<1> QED
  BY <1>4, Zenon DEF Keeps

\* The parts of a manifest of TEAF.
Flawless(m) ==
    /\ m.slug /\ m.version /\ m.dependencies = <<>> /\ m.compatible
    /\ Teaf!IsInjective(m.capabilities) /\ Teaf!IsInjective(m.configuration)
    /\ Teaf!IsInjective(m.services) /\ Teaf!IsInjective(m.checks)
    /\ "" \notin Teaf!ToSet(m.checks)

LEMMA FlawlessIsValid == ASSUME NEW m, Flawless(m) PROVE Teaf!Errors(m) = {}
<1>1. ~Teaf!DeclaredTwice(m.dependencies) /\ m.id \notin Teaf!ToSet(m.dependencies)
  BY NothingIn DEF Teaf!DeclaredTwice, Flawless
<1> QED
  BY <1>1 DEF Teaf!Errors, Teaf!DeclaredTwice, Flawless

-----------------------------------------------------------------------------
(* Versions.                                                               *)

\* Versions of three numbers are compared number by number.
LEMMA Compares ==
    ASSUME NEW a \in Nat, NEW b \in Nat, NEW c \in Nat,
           NEW x \in Nat, NEW y \in Nat, NEW z \in Nat,
           a > x \/ (a = x /\ b > y) \/ (a = x /\ b = y /\ c >= z)
    PROVE  Teaf!Satisfies(<<a, b, c>>, Teaf!AtLeast(<<x, y, z>>))
             /\ Teaf!WellWritten(Teaf!AtLeast(<<x, y, z>>))
<1> PICK v : v = <<a, b, c>>
  BY Zenon
<1> PICK w : w = <<x, y, z>>
  BY Zenon
<1>1. Len(v) = 3 /\ v[1] = a /\ v[2] = b /\ v[3] = c
  OBVIOUS
<1>2. Len(w) = 3 /\ w[1] = x /\ w[2] = y /\ w[3] = z
  OBVIOUS
<1> PICK p : p = Teaf!AtLeast(w)
  BY Zenon
<1>3. p.op = ">=" /\ p.version = w
  BY DEF Teaf!AtLeast
<1>4. Teaf!Max({Len(v), Len(p.version)}) = 3
  <2>1. {Len(v), Len(p.version)} = {3}
    BY <1>1, <1>2, <1>3
  <2>2. (CHOOSE m \in {3} : \A y1 \in {3} : m >= y1) = 3
    OBVIOUS
  <2> QED
    BY <2>1, <2>2 DEF Teaf!Max
<1>5. Teaf!Padded(v, 3) = [i \in 1 .. 3 |-> v[i]] /\ Teaf!Padded(w, 3) = [i \in 1 .. 3 |-> w[i]]
  BY <1>1, <1>2 DEF Teaf!Padded
<1> DEFINE vs == [i \in 1 .. 3 |-> v[i]]
           ws == [i \in 1 .. 3 |-> w[i]]
<1>6. ~Teaf!Precedes(vs, ws)
  <2> SUFFICES ASSUME NEW i \in 1 .. 3, vs[i] < ws[i], \A j \in 1 .. i - 1 : vs[j] = ws[j]
               PROVE  FALSE
    BY DEF Teaf!Precedes
  <2>1. i = 1 \/ i = 2 \/ i = 3
    OBVIOUS
  <2>2. CASE i = 1
    BY <1>1, <1>2, <2>2
  <2>3. CASE i = 2
    <3>1. 1 \in 1 .. i - 1
      BY <2>3
    <3>2. vs[1] = ws[1]
      BY <3>1
    <3> QED
      BY <1>1, <1>2, <2>3, <3>2
  <2>4. CASE i = 3
    <3>1. 1 \in 1 .. i - 1 /\ 2 \in 1 .. i - 1
      BY <2>4
    <3>2. vs[1] = ws[1] /\ vs[2] = ws[2]
      BY <3>1
    <3> QED
      BY <1>1, <1>2, <2>4, <3>2
  <2> QED
    BY <2>1, <2>2, <2>3, <2>4
<1>7. Teaf!Satisfies(v, p)
  <2> HIDE DEF vs, ws
  <2> SUFFICES ~Teaf!Precedes(Teaf!Padded(v, 3), Teaf!Padded(w, 3))
    BY <1>3, <1>4 DEF Teaf!Satisfies
  <2> QED
    BY <1>5, <1>6 DEF vs, ws
<1>8. Teaf!WellWritten(p)
  BY <1>2, <1>3 DEF Teaf!WellWritten
<1> QED
  BY <1>7, <1>8

\* The versions that TEAF has and asks of itself.
Suits(m) ==
    /\ Teaf!Satisfies(Teaf!FRAMEWORK_VERSION, m.runtime)
    /\ Teaf!Satisfies(Teaf!SDK_VERSION, m.sdk)
    /\ Teaf!WellWritten(m.runtime) /\ Teaf!WellWritten(m.sdk)

LEMMA OwnVersions ==
    /\ Teaf!Satisfies(Teaf!FRAMEWORK_VERSION, Teaf!AtLeast(<<0, 5, 0>>))
    /\ Teaf!WellWritten(Teaf!AtLeast(<<0, 5, 0>>))
    /\ Teaf!Satisfies(Teaf!FRAMEWORK_VERSION, Teaf!AtLeast(<<0, 6, 0>>))
    /\ Teaf!WellWritten(Teaf!AtLeast(<<0, 6, 0>>))
    /\ Teaf!Satisfies(Teaf!SDK_VERSION, Teaf!AtLeast(<<1, 0, 0>>))
    /\ Teaf!WellWritten(Teaf!AtLeast(<<1, 0, 0>>))
<1>1. Teaf!Satisfies(<<0, 10, 3>>, Teaf!AtLeast(<<0, 5, 0>>))
        /\ Teaf!WellWritten(Teaf!AtLeast(<<0, 5, 0>>))
  BY Compares
<1>2. Teaf!Satisfies(<<0, 10, 3>>, Teaf!AtLeast(<<0, 6, 0>>))
        /\ Teaf!WellWritten(Teaf!AtLeast(<<0, 6, 0>>))
  BY Compares
<1>3. Teaf!Satisfies(<<1, 0, 0>>, Teaf!AtLeast(<<1, 0, 0>>))
        /\ Teaf!WellWritten(Teaf!AtLeast(<<1, 0, 0>>))
  BY Compares
<1> QED
  BY <1>1, <1>2, <1>3, Zenon DEF Teaf!FRAMEWORK_VERSION, Teaf!SDK_VERSION

-----------------------------------------------------------------------------
(* The bundled modules.                                                    *)

\* The capabilities of each.
Family(module) ==
    CASE module = "database" ->
           {"database", "database.connection", "database.repository",
            "database.transactions", "database.migration", "database.health"}
      [] module = "cache" -> {"cache", "cache.connection", "cache.health"}
      [] module = "observability" ->
           {"observability", "observability.tracing", "observability.metrics",
            "observability.health"}
      [] module = "security" ->
           {"security", "security.authentication", "security.authorization",
            "security.tokens", "security.crypto"}
      [] module = "api-protection" ->
           {"api.protection", "api.rate-limit", "api.quota", "api.cors", "api.versioning",
            "api.validation", "api.compression", "api.idempotency", "api.audit"}

LEMMA FamiliesAreApart ==
    ASSUME NEW a \in Teaf!BundledModules, NEW b \in Teaf!BundledModules, a # b
    PROVE  Family(a) \cap Family(b) = {}
<1>1. Family("database") = {"database", "database.connection", "database.repository",
                            "database.transactions", "database.migration", "database.health"}
  BY DEF Family
<1>2. Family("cache") = {"cache", "cache.connection", "cache.health"}
  BY DEF Family
<1>3. Family("observability") = {"observability", "observability.tracing",
                                 "observability.metrics", "observability.health"}
  BY DEF Family
<1>4. Family("security") = {"security", "security.authentication", "security.authorization",
                            "security.tokens", "security.crypto"}
  BY DEF Family
<1>5. Family("api-protection") =
        {"api.protection", "api.rate-limit", "api.quota", "api.cors", "api.versioning",
         "api.validation", "api.compression", "api.idempotency", "api.audit"}
  BY DEF Family
<1> QED
  BY <1>1, <1>2, <1>3, <1>4, <1>5 DEF Teaf!BundledModules

\* What a manifest of a bundled module is.
Sound(module, m) ==
    /\ m.id = module
    /\ m.capabilities \in Seq(Family(module))
    /\ Teaf!ToSet(m.capabilities) \subseteq Family(module)
    /\ m.checks # <<>>
    /\ Flawless(m) /\ Suits(m)

LEMMA MembersOf == ASSUME NEW S, NEW s \in Seq(S) PROVE Teaf!ToSet(s) \subseteq S
  BY DEF Teaf!ToSet

LEMMA OwnMembers == ASSUME NEW S, NEW s \in Seq(S) PROVE s \in Seq(Teaf!ToSet(s))
  BY DEF Teaf!ToSet

LEMMA Single == ASSUME NEW e PROVE DOMAIN <<e>> = {1} /\ <<e>>[1] = e
<1>1. 1 .. Len(<<e>>) = {1}
  OBVIOUS
<1>2. DOMAIN <<e>> = 1 .. Len(<<e>>)
  OBVIOUS
<1> QED
  BY <1>1, <1>2

LEMMA OneCheck ==
    ASSUME NEW check, check # "", NEW checks, checks = <<check>>
    PROVE  Teaf!IsInjective(checks) /\ "" \notin Teaf!ToSet(checks) /\ checks # <<>>
<1>1. DOMAIN checks = {1} /\ checks[1] = check
  BY Single, Zenon
<1> QED
  BY <1>1, NothingIn, Zenon DEF Teaf!IsInjective, Teaf!ToSet

\* A manifest that is declared well.
Proper(id, capabilities, configuration, services, check, runtime, sdk) ==
    /\ capabilities \in Seq(Family(id))
    /\ Teaf!IsInjective(capabilities) /\ Teaf!IsInjective(configuration)
    /\ Teaf!IsInjective(services)
    /\ check # ""
    /\ Teaf!Satisfies(Teaf!FRAMEWORK_VERSION, runtime) /\ Teaf!WellWritten(runtime)
    /\ Teaf!Satisfies(Teaf!SDK_VERSION, sdk) /\ Teaf!WellWritten(sdk)

LEMMA WellDeclared ==
    ASSUME NEW id, NEW capabilities, NEW configuration, NEW services,
           NEW check, NEW published, NEW runtime, NEW sdk,
           Proper(id, capabilities, configuration, services, check, runtime, sdk)
    PROVE  Sound(id, Teaf!Built(id, Declared(capabilities, configuration, services, <<check>>,
                                        published, runtime, sdk)))
<1> PICK checks : checks = <<check>>
  BY Zenon
<1> PICK m : m = Teaf!Built(id, Declared(capabilities, configuration, services, checks, published,
                                    runtime, sdk))
  BY Zenon
<1>1. /\ m.id = id /\ m.slug /\ m.version /\ m.dependencies = <<>>
      /\ m.capabilities = capabilities /\ m.configuration = configuration
      /\ m.services = services /\ m.checks = checks /\ m.runtime = runtime /\ m.sdk = sdk
      /\ m.compatible
  <2> PICK written : written = (Teaf!WellWritten(runtime) /\ Teaf!WellWritten(sdk))
    BY Zenon
  <2>1. m = [id |-> id, slug |-> TRUE, version |-> TRUE, documented |-> TRUE,
             dependencies |-> <<>>, capabilities |-> capabilities,
             configuration |-> configuration, services |-> services, checks |-> checks,
             events |-> published, runtime |-> runtime, sdk |-> sdk, compatible |-> written]
    <3>1. Keeps(id, capabilities, configuration, services, checks, published, runtime, sdk)
      BY BuiltOf, Zenon
    <3> QED
      BY <3>1, Zenon DEF Keeps
  <2>2. /\ m.id = id /\ m.slug = TRUE /\ m.version = TRUE /\ m.dependencies = <<>>
        /\ m.compatible = written
    BY <2>1
  <2>3. /\ m.capabilities = capabilities /\ m.configuration = configuration
        /\ m.services = services /\ m.checks = checks /\ m.runtime = runtime /\ m.sdk = sdk
    BY <2>1
  <2>4. m.slug /\ m.version /\ m.compatible
    BY <2>2, Zenon DEF Proper
  <2> QED
    BY <2>2, <2>3, <2>4, Zenon
<1>2. Teaf!IsInjective(checks) /\ "" \notin Teaf!ToSet(checks) /\ checks # <<>>
  BY OneCheck, Zenon DEF Proper
<1>3. Flawless(m)
  BY <1>1, <1>2, Zenon DEF Flawless, Proper
<1>4. Suits(m)
  BY <1>1, Zenon DEF Suits, Proper
<1>5. Teaf!ToSet(capabilities) \subseteq Family(id)
  BY MembersOf, Zenon DEF Proper
<1> QED
  BY <1>1, <1>2, <1>3, <1>4, <1>5, Zenon DEF Sound, Proper

LEMMA DatabaseSound == Sound("database", Teaf!DatabaseManifest)
<1> DEFINE capabilities == <<"database", "database.connection", "database.repository",
                              "database.transactions", "database.migration",
                              "database.health">>
           configuration == <<"dialect", "database", "host", "port", "username",
                               "password", "pool_size">>
           services == <<"DatabaseProvider", "UnitOfWork", "DatabaseInstaller">>
           published == <<"database.connected", "database.disconnected">>
<1>1. Teaf!IsInjective(capabilities) /\ Teaf!IsInjective(configuration)
        /\ Teaf!IsInjective(services)
  BY DEF Teaf!IsInjective
<1>2. capabilities \in Seq(Family("database"))
  BY DEF Family
<1>3. Teaf!DatabaseManifest =
        Teaf!Built("database",
          Declared(capabilities, configuration, services, <<"database.ping">>,
                               published, Teaf!AtLeast(<<0, 5, 0>>), Teaf!AtLeast(<<1, 0, 0>>)))
  BY Zenon DEF Teaf!DatabaseManifest, Declared
<1> HIDE DEF capabilities, configuration, services, published
<1> QED
  BY <1>1, <1>2, <1>3, OwnVersions, WellDeclared DEF Proper

LEMMA CacheSound == Sound("cache", Teaf!CacheManifest)
<1> DEFINE capabilities == <<"cache", "cache.connection", "cache.health">>
           configuration == <<"backend", "redis_url", "key_prefix", "max_connections">>
           services == <<"CacheProvider">>
           published == <<>>
<1>1. Teaf!IsInjective(capabilities) /\ Teaf!IsInjective(configuration)
        /\ Teaf!IsInjective(services)
  BY DEF Teaf!IsInjective
<1>2. capabilities \in Seq(Family("cache"))
  BY DEF Family
<1>3. Teaf!CacheManifest =
        Teaf!Built("cache", Declared(capabilities, configuration, services, <<"cache.ping">>,
                               published, Teaf!AtLeast(<<0, 5, 0>>), Teaf!AtLeast(<<1, 0, 0>>)))
  BY Zenon DEF Teaf!CacheManifest, Declared
<1> HIDE DEF capabilities, configuration, services, published
<1> QED
  BY <1>1, <1>2, <1>3, OwnVersions, WellDeclared DEF Proper

LEMMA ObservabilitySound == Sound("observability", Teaf!ObservabilityManifest)
<1> DEFINE capabilities == <<"observability", "observability.tracing",
                              "observability.metrics", "observability.health">>
           configuration == <<"service_name", "sampling_ratio",
                               "console_exporter_enabled", "otlp_exporter_enabled",
                               "prometheus_exporter_enabled">>
           services == <<"Tracer", "Meter">>
           published == <<"trace.started", "trace.finished", "metric.recorded",
                        "health.changed", "export.completed", "diagnostic.generated">>
<1>1. Teaf!IsInjective(capabilities) /\ Teaf!IsInjective(configuration)
        /\ Teaf!IsInjective(services)
  BY DEF Teaf!IsInjective
<1>2. capabilities \in Seq(Family("observability"))
  BY DEF Family
<1>3. Teaf!ObservabilityManifest =
        Teaf!Built("observability",
          Declared(capabilities, configuration, services, <<"observability.ping">>,
                               published, Teaf!AtLeast(<<0, 6, 0>>), Teaf!AtLeast(<<1, 0, 0>>)))
  BY Zenon DEF Teaf!ObservabilityManifest, Declared
<1> HIDE DEF capabilities, configuration, services, published
<1> QED
  BY <1>1, <1>2, <1>3, OwnVersions, WellDeclared DEF Proper

LEMMA SecuritySound == Sound("security", Teaf!SecurityManifest)
<1> DEFINE capabilities == <<"security", "security.authentication",
                              "security.authorization", "security.tokens",
                              "security.crypto">>
           configuration == <<"jwt_secret", "jwt_algorithm",
                               "access_token_ttl_seconds", "refresh_token_ttl_seconds",
                               "password_hasher">>
           services == <<"IdentityProviderRegistry", "PasswordHasher",
                          "CryptoProvider">>
           published == <<"authentication.started", "authentication.succeeded",
                        "authentication.failed", "authorization.started",
                        "authorization.succeeded", "authorization.failed",
                        "token.created", "token.refreshed", "token.revoked",
                        "apikey.validated", "ldap.login", "azuread.login">>
<1>1. Teaf!IsInjective(capabilities) /\ Teaf!IsInjective(configuration)
        /\ Teaf!IsInjective(services)
  BY DEF Teaf!IsInjective
<1>2. capabilities \in Seq(Family("security"))
  BY DEF Family
<1>3. Teaf!SecurityManifest =
        Teaf!Built("security",
          Declared(capabilities, configuration, services, <<"security.ping">>,
                               published, Teaf!AtLeast(<<0, 6, 0>>), Teaf!AtLeast(<<1, 0, 0>>)))
  BY Zenon DEF Teaf!SecurityManifest, Declared
<1> HIDE DEF capabilities, configuration, services, published
<1> QED
  BY <1>1, <1>2, <1>3, OwnVersions, WellDeclared DEF Proper

LEMMA ProtectionSound ==
    ASSUME NEW config PROVE Sound("api-protection", Teaf!ManifestOf("api-protection", config))
<1> PICK g : g = Teaf!ApiGateway(config)
  BY Zenon
<1> PICK services : services = Teaf!Services(g)
  BY Zenon
<1> PICK m : m = Teaf!BuildManifest(g)
  BY Zenon
<1> DEFINE capabilities == <<"api.protection", "api.rate-limit", "api.quota", "api.cors",
                             "api.versioning", "api.validation", "api.compression",
                             "api.idempotency", "api.audit">>
           configuration == <<"rate_limit_enabled", "rate_limit_requests", "rate_limit_algorithm",
                              "quotas_enabled", "cors_allow_origins", "versioning_supported",
                              "compression_enabled", "idempotency_enabled", "audit_enabled">>
           checks == <<"api.protection.ping">>
           published == Teaf!API_PROTECTION_EVENTS
<1>1. Teaf!IsInjective(capabilities) /\ Teaf!IsInjective(configuration)
  BY DEF Teaf!IsInjective
<1>2. capabilities \in Seq(Family("api-protection"))
  BY DEF Family
<1>3. Teaf!IsInjective(services)
  BY ServicesListed DEF Listing
<1>4. m = [id |-> "api-protection", slug |-> TRUE, version |-> TRUE, compatible |-> TRUE,
           dependencies |-> <<>>, documented |-> TRUE, capabilities |-> capabilities,
           configuration |-> configuration, services |-> services, checks |-> checks,
           events |-> published]
  BY Zenon DEF Teaf!BuildManifest
<1> HIDE DEF capabilities, configuration, checks, published
<1>5. /\ m.capabilities = capabilities /\ m.configuration = configuration
      /\ m.services = services /\ m.checks = checks /\ m.events = published
  BY <1>4
<1>6. Teaf!ManifestOf("api-protection", config) =
        Teaf!Built("api-protection",
              [capabilities |-> m.capabilities, configuration |-> m.configuration,
               services |-> m.services, checks |-> m.checks, events |-> m.events,
               runtime |-> Teaf!AtLeast(<<0, 6, 0>>), sdk |-> Teaf!AtLeast(<<1, 0, 0>>)])
  BY DEF Teaf!ManifestOf
<1>7. Teaf!ManifestOf("api-protection", config) =
        Teaf!Built("api-protection", Declared(capabilities, configuration, services,
                                         <<"api.protection.ping">>, published,
                                         Teaf!AtLeast(<<0, 6, 0>>), Teaf!AtLeast(<<1, 0, 0>>)))
  BY <1>5, <1>6, Zenon DEF Declared, checks
<1> QED
  BY <1>1, <1>2, <1>3, <1>7, OwnVersions, WellDeclared DEF Proper

\* Whatever a bundled module is configured with, its manifest is sound.
LEMMA BundledSound ==
    ASSUME NEW id \in Teaf!BundledModules, NEW config PROVE Sound(id, Teaf!ManifestOf(id, config))
<1>1. CASE id = "database"
  BY <1>1, DatabaseSound DEF Teaf!ManifestOf
<1>2. CASE id = "cache"
  BY <1>2, CacheSound DEF Teaf!ManifestOf
<1>3. CASE id = "observability"
  BY <1>3, ObservabilitySound DEF Teaf!ManifestOf
<1>4. CASE id = "security"
  BY <1>4, SecuritySound DEF Teaf!ManifestOf
<1>5. CASE id = "api-protection"
  BY <1>5, ProtectionSound
<1> QED
  BY <1>1, <1>2, <1>3, <1>4, <1>5 DEF Teaf!BundledModules

LEMMA StoreIs ==
    ASSUME NEW id, NEW config
    PROVE  /\ Teaf!Store(id, config) \in {"database", "redis", NoValue}
           /\ Teaf!Store(id, config) = "database"
                => id = "database" /\ ~Teaf!IsInMemorySqlite(config)
           /\ Teaf!Store(id, config) = "redis" => id = "cache"
<1>1. NoValue # "database" /\ NoValue # "redis"
  BY TeafAssumption DEF Teaf!FrameworkAssumption
<1> QED
  BY <1>1 DEF Teaf!Store

-----------------------------------------------------------------------------
(* Modules as they come.                                                   *)

LEMMA UnassignedIsDefault == ASSUME NEW D PROVE Teaf!Assigned(<<>>, D) = [f \in DOMAIN D |-> D[f]]
  BY EmptyList, Zenon DEF Teaf!Assigned

\* Alone, database.
LEMMA DatabaseWorks ==
    ASSUME NEW config, config = Teaf!Configuration("database", <<>>)
    PROVE  /\ ~Teaf!Unreadable("database", config) /\ ~Teaf!Unbuildable("database", config, <<>>)
           /\ Teaf!IsInMemorySqlite(config)
<1>1. config = Teaf!DatabaseConfiguration
  <2>1. config = Teaf!Assigned(<<>>, Teaf!DatabaseConfiguration)
    BY DEF Teaf!Configuration, Teaf!DatabaseFromMapping
  <2>2. [f \in DOMAIN Teaf!DatabaseConfiguration |-> Teaf!DatabaseConfiguration[f]]
          = Teaf!DatabaseConfiguration
    BY DEF Teaf!DatabaseConfiguration
  <2> QED
    BY <2>1, <2>2, UnassignedIsDefault, Zenon
<1>2. \A f \in DOMAIN config : config[f] # Malformed
  BY <1>1, TeafAssumption, Zenon DEF Teaf!FrameworkAssumption
<1>3. config.dialect = "sqlite" /\ config.database = ":memory:"
  BY <1>1 DEF Teaf!DatabaseConfiguration
<1>4. Teaf!Driver("sqlite") = "aiosqlite"
  BY DEF Teaf!Driver
<1>5. "aiosqlite" \in Importable
  BY TeafAssumption DEF Teaf!FrameworkAssumption
<1>6. Teaf!IsInMemorySqlite(config)
  BY <1>3 DEF Teaf!IsInMemorySqlite
<1>7. ~Teaf!Unreadable("database", config)
  <2>1. "sqlite" \in Teaf!Dialect
    BY DEF Teaf!Dialect
  <2> QED
    BY <1>2, <1>3, <2>1 DEF Teaf!Unreadable
<1>8. ~Teaf!Unbuildable("database", config, <<>>)
  BY <1>3, <1>4, <1>5 DEF Teaf!Unbuildable, Teaf!DriverIsMissing
<1> QED
  BY <1>6, <1>7, <1>8

LEMMA CacheWorks ==
    ASSUME NEW config, config = Teaf!Configuration("cache", <<>>)
    PROVE  ~Teaf!Unreadable("cache", config) /\ ~Teaf!Unbuildable("cache", config, <<>>)
<1>1. config = Teaf!CacheFromMapping(<<>>)
  BY DEF Teaf!Configuration
<1>2. config.backend = "memory"
  <2>1. \A name : Teaf!ValueAt(<<>>, name) = NoValue
    BY EmptyList DEF Teaf!ValueAt
  <2>2. <<"cache_", "backend">> \notin DOMAIN <<>>
    BY EmptyList
  <2>3. "backend" \in DOMAIN Teaf!CacheConfiguration
          /\ Teaf!CacheConfiguration["backend"] = "memory"
    BY DEF Teaf!CacheConfiguration
  <2>4. Teaf!CacheFromMapping(<<>>)["backend"] = Teaf!CacheConfiguration["backend"]
    BY <2>1, <2>2, <2>3 DEF Teaf!CacheFromMapping
  <2> QED
    BY <1>1, <2>3, <2>4
<1>3. "memory" \in Teaf!CacheBackend
  BY DEF Teaf!CacheBackend
<1> QED
  BY <1>2, <1>3 DEF Teaf!Unreadable, Teaf!Unbuildable, Teaf!CacheIsInvalid

LEMMA ObservabilityDefaults ==
    LET D == Teaf!ObservabilityConfiguration
    IN  /\ {"sampling_ratio", "console_exporter_enabled", "otlp_exporter_enabled",
            "prometheus_exporter_enabled"} \subseteq DOMAIN D
        /\ D["sampling_ratio"] = 100 /\ D["console_exporter_enabled"] = "true"
        /\ D["otlp_exporter_enabled"] = "false" /\ D["prometheus_exporter_enabled"] = "false"
<1>1. Teaf!ObservabilityConfiguration["sampling_ratio"] = 100
  BY DEF Teaf!ObservabilityConfiguration
<1>2. Teaf!ObservabilityConfiguration["console_exporter_enabled"] = "true"
  BY DEF Teaf!ObservabilityConfiguration
<1>3. Teaf!ObservabilityConfiguration["otlp_exporter_enabled"] = "false"
  BY DEF Teaf!ObservabilityConfiguration
<1>4. Teaf!ObservabilityConfiguration["prometheus_exporter_enabled"] = "false"
  BY DEF Teaf!ObservabilityConfiguration
<1>5. {"sampling_ratio", "console_exporter_enabled", "otlp_exporter_enabled",
       "prometheus_exporter_enabled"} \subseteq DOMAIN Teaf!ObservabilityConfiguration
  BY DEF Teaf!ObservabilityConfiguration
<1> QED
  BY <1>1, <1>2, <1>3, <1>4, <1>5, Zenon

LEMMA ObservabilityWorks ==
    ASSUME NEW config, config = Teaf!Configuration("observability", <<>>)
    PROVE  ~Teaf!Unreadable("observability", config)
             /\ ~Teaf!Unbuildable("observability", config, <<>>)
<1> PICK D : D = Teaf!ObservabilityConfiguration
  BY Zenon
<1>1. DOMAIN config = DOMAIN D /\ \A f \in DOMAIN D : config[f] = D[f]
  <2>1. config = Teaf!Assigned(<<>>, D)
    BY DEF Teaf!Configuration, Teaf!ObservabilityFromMapping
  <2> QED
    BY <2>1, UnassignedIsDefault
<1>2. \A f \in DOMAIN config : config[f] # Malformed
  BY <1>1, TeafAssumption, Zenon DEF Teaf!FrameworkAssumption
<1>3. /\ config.sampling_ratio = 100 /\ config.console_exporter_enabled = "true"
      /\ config.otlp_exporter_enabled = "false"
      /\ config.prometheus_exporter_enabled = "false"
  <2>1. /\ {"sampling_ratio", "console_exporter_enabled", "otlp_exporter_enabled",
            "prometheus_exporter_enabled"} \subseteq DOMAIN D
        /\ D["sampling_ratio"] = 100 /\ D["console_exporter_enabled"] = "true"
        /\ D["otlp_exporter_enabled"] = "false" /\ D["prometheus_exporter_enabled"] = "false"
    BY ObservabilityDefaults, Zenon
  <2> QED
    BY <1>1, <2>1
<1> PICK s : s = <<"console">>
  BY Zenon
<1>4. Teaf!Exporters(config, <<>>) = s
  <2>1. Teaf!CoerceBool("true") /\ ~Teaf!CoerceBool("false")
    BY DEF Teaf!CoerceBool
  <2>2. Teaf!When(Teaf!CoerceBool("true"), "console") = s
    BY <2>1 DEF Teaf!When
  <2>3. \A name : Teaf!When(Teaf!CoerceBool("false"), name) = <<>>
    BY <2>1 DEF Teaf!When
  <2>4. s \o <<>> = s
    BY Appending
  <2>5. Teaf!Exporters(config, <<>>) =
          Teaf!When(Teaf!CoerceBool("true"), "console")
            \o Teaf!When(Teaf!CoerceBool("false"), "otlp")
          \o Teaf!When(Teaf!CoerceBool("false"), "prometheus") \o <<>>
    BY <1>3, Zenon DEF Teaf!Exporters
  <2>6. Teaf!When(Teaf!CoerceBool("false"), "otlp") = <<>>
          /\ Teaf!When(Teaf!CoerceBool("false"), "prometheus") = <<>>
    BY <2>3, Zenon
  <2>7. Teaf!Exporters(config, <<>>) = ((s \o <<>>) \o <<>>) \o <<>>
    BY <2>2, <2>5, <2>6, Zenon
  <2> QED
    BY <2>4, <2>7, Zenon
<1>5. Teaf!Prepared \cap Teaf!ToSet(s) = {}
  <2>1. s \in Seq({"console"})
    OBVIOUS
  <2>2. Teaf!ToSet(s) \subseteq {"console"}
    BY <2>1, MembersOf
  <2> QED
    BY <2>2 DEF Teaf!Prepared
<1>6. ~Teaf!TelemetryIsInvalid(config, <<>>)
  BY <1>3, <1>4, <1>5 DEF Teaf!TelemetryIsInvalid
<1> QED
  BY <1>2, <1>6 DEF Teaf!Unreadable, Teaf!Unbuildable

LEMMA SecurityWorks ==
    ASSUME NEW config, config = Teaf!Configuration("security", <<>>)
    PROVE  ~Teaf!Unreadable("security", config) /\ ~Teaf!Unbuildable("security", config, <<>>)
<1>1. config = Teaf!SecurityConfiguration
  <2>1. config = Teaf!Assigned(<<>>, Teaf!SecurityConfiguration)
    BY DEF Teaf!Configuration, Teaf!SecurityFromMapping
  <2>2. [f \in DOMAIN Teaf!SecurityConfiguration |-> Teaf!SecurityConfiguration[f]]
          = Teaf!SecurityConfiguration
    BY DEF Teaf!SecurityConfiguration
  <2> QED
    BY <2>1, <2>2, UnassignedIsDefault, Zenon
<1>2. \A f \in DOMAIN config : config[f] # Malformed
  BY <1>1, TeafAssumption, Zenon DEF Teaf!FrameworkAssumption
<1>3. config.jwt_secret = 43 /\ config.jwt_algorithm = "HS256"
  BY <1>1 DEF Teaf!SecurityConfiguration
<1>4. Teaf!MinimumSecretBytes("HS256") = 32
  BY DEF Teaf!MinimumSecretBytes, Teaf!MINIMUM_SECRET_BYTES
<1>5. ~Teaf!SecretIsWeak(43, "HS256")
  BY <1>4 DEF Teaf!SecretIsWeak
<1> QED
  BY <1>2, <1>3, <1>5 DEF Teaf!Unreadable, Teaf!Unbuildable

LEMMA ProtectionWorks ==
    ASSUME NEW config, config = Teaf!Configuration("api-protection", <<>>)
    PROVE  ~Teaf!Unreadable("api-protection", config)
             /\ ~Teaf!Unbuildable("api-protection", config, <<>>)
<1>1. config = Teaf!FromMapping(<<>>)
  BY DEF Teaf!Configuration
<1>2. \A f : Teaf!Lookup(<<>>, f) = NoValue
  BY EmptyList DEF Teaf!Lookup, Teaf!ValueAt
<1>3. \A f \in DOMAIN Teaf!Numbers : config[f] = Teaf!Numbers[f]
  <2>1. DOMAIN Teaf!Numbers \cap (DOMAIN Teaf!Flags \cup DOMAIN Teaf!Names
          \cup DOMAIN Teaf!Lists) = {}
    BY DEF Teaf!Numbers, Teaf!Flags, Teaf!Names, Teaf!Lists
  <2> SUFFICES ASSUME NEW f \in DOMAIN Teaf!Numbers PROVE config[f] = Teaf!Numbers[f]
    OBVIOUS
  <2>2. f \notin DOMAIN Teaf!Flags /\ f \notin DOMAIN Teaf!Names /\ f \notin DOMAIN Teaf!Lists
    BY <2>1
  <2> PICK value : value = Teaf!Lookup(<<>>, f)
    BY Zenon
  <2>3. Teaf!FromMapping(<<>>)[f] =
          CASE f \in DOMAIN Teaf!Flags -> IF value = NoValue THEN Teaf!Flags[f]
                 ELSE Teaf!CoerceBool(value)
            [] f \in DOMAIN Teaf!Numbers -> Teaf!OrDefault(value, Teaf!Numbers[f])
            [] f \in DOMAIN Teaf!Names -> Teaf!OrDefault(value, Teaf!Names[f])
            [] f \in DOMAIN Teaf!Lists -> Teaf!CoerceTuple(Teaf!OrDefault(value, Teaf!Lists[f]))
    <3>1. f \in UNION {DOMAIN Teaf!Flags, DOMAIN Teaf!Numbers, DOMAIN Teaf!Names,
            DOMAIN Teaf!Lists}
      OBVIOUS
    <3> QED
      BY <3>1, Zenon DEF Teaf!FromMapping
  <2>4. \A c : c = (CASE f \in DOMAIN Teaf!Flags -> IF value = NoValue THEN Teaf!Flags[f]
          ELSE Teaf!CoerceBool(value)
                     [] f \in DOMAIN Teaf!Numbers -> Teaf!OrDefault(value, Teaf!Numbers[f])
                     [] f \in DOMAIN Teaf!Names -> Teaf!OrDefault(value, Teaf!Names[f])
                     [] f \in DOMAIN Teaf!Lists ->
                          Teaf!CoerceTuple(Teaf!OrDefault(value, Teaf!Lists[f])))
           => c = Teaf!Numbers[f]
    BY <1>2, <2>2 DEF Teaf!OrDefault
  <2>5. Teaf!FromMapping(<<>>)[f] = Teaf!Numbers[f]
    BY <2>3, <2>4, Zenon
  <2> QED
    BY <1>1, <2>5
<1>4. \A f \in DOMAIN Teaf!Numbers : Teaf!Numbers[f] # Malformed
  BY TeafAssumption, Zenon DEF Teaf!FrameworkAssumption
<1> QED
  BY <1>3, <1>4 DEF Teaf!Unreadable, Teaf!Unbuildable, Teaf!Raises

\* A module that is given nothing is built, and needs no database.
LEMMA AsItComesWorks ==
    ASSUME NEW id \in Teaf!BundledModules, NEW config, config = Teaf!Configuration(id, <<>>)
    PROVE  /\ ~Teaf!Unreadable(id, config) /\ ~Teaf!Unbuildable(id, config, <<>>)
           /\ Teaf!Store(id, config) # "database"
<1>1. ~Teaf!Unreadable(id, config) /\ ~Teaf!Unbuildable(id, config, <<>>)
  BY DatabaseWorks, CacheWorks, ObservabilityWorks, SecurityWorks, ProtectionWorks
     DEF Teaf!BundledModules
<1>2. id = "database" => Teaf!IsInMemorySqlite(config)
  BY DatabaseWorks
<1> QED
  BY <1>1, <1>2, StoreIs

-----------------------------------------------------------------------------
(* The modules of an installation.                                         *)

LEMMA GivenFacts ==
    ASSUME installation \in Installation
    PROVE  /\ Len(Teaf!given) \in Nat /\ Teaf!Modules = 1 .. Len(Teaf!given)
           /\ installation.extras \subseteq {"redis"}
           /\ \A i \in Teaf!Modules :
                /\ Teaf!given[i].id \in Teaf!BundledModules \cup {"custom"}
                /\ Teaf!given[i].id = "custom" =>
                     \A f \in {"capabilities", "services"} \cap DOMAIN Teaf!given[i].values :
                       Teaf!given[i].values[f] \in Seq(Teaf!ToSet(Teaf!given[i].values[f]))
<1>1. /\ installation.extras \subseteq {"redis"}
      /\ Teaf!given \in Seq(Teaf!ToSet(Teaf!given))
      /\ \A module \in Teaf!ToSet(Teaf!given) :
           /\ module.id \in Teaf!BundledModules \cup {"custom"}
           /\ module.id = "custom" =>
                \A f \in {"capabilities", "services"} \cap DOMAIN module.values :
                  module.values[f] \in Seq(Teaf!ToSet(module.values[f]))
  BY TeafAssumption, Zenon DEF Teaf!FrameworkAssumption, Teaf!given
<1>2. Len(Teaf!given) \in Nat /\ Teaf!Modules = 1 .. Len(Teaf!given)
  BY <1>1 DEF Teaf!Modules
<1>3. \A i \in Teaf!Modules : Teaf!given[i] \in Teaf!ToSet(Teaf!given)
  BY Zenon DEF Teaf!Modules, Teaf!ToSet
<1> QED
  BY <1>1, <1>2, <1>3, Zenon

LEMMA BuiltCustom ==
    ASSUME NEW d
    PROVE  /\ Teaf!Built("custom", d).id = "custom"
           /\ Teaf!Built("custom", d).capabilities =
                IF "capabilities" \in DOMAIN d THEN d["capabilities"] ELSE <<>>
  BY DEF Teaf!Built

LEMMA ManifestIs ==
    ASSUME installation \in Installation, NEW i \in Teaf!Modules
    PROVE  /\ Teaf!Manifest(i).id = Teaf!given[i].id
           /\ Teaf!Manifest(i).capabilities \in Seq(Teaf!ToSet(Teaf!Manifest(i).capabilities))
           /\ Teaf!given[i].id # "custom" =>
                Teaf!given[i].id \in Teaf!BundledModules
                  /\ Sound(Teaf!given[i].id, Teaf!Manifest(i))
<1>1. CASE Teaf!given[i].id = "custom"
  <2>1. Teaf!Manifest(i) = Teaf!Built("custom", Teaf!given[i].values)
    BY <1>1 DEF Teaf!Manifest
  <2>2. CASE "capabilities" \in DOMAIN Teaf!given[i].values
    <3>1. Teaf!Manifest(i).capabilities = Teaf!given[i].values["capabilities"]
      BY <2>1, <2>2, BuiltCustom
    <3>2. Teaf!given[i].values["capabilities"]
            \in Seq(Teaf!ToSet(Teaf!given[i].values["capabilities"]))
      BY <1>1, <2>2, GivenFacts
    <3> QED
      BY <1>1, <2>1, <3>1, <3>2, BuiltCustom, Zenon
  <2>3. CASE "capabilities" \notin DOMAIN Teaf!given[i].values
    <3>1. Teaf!Manifest(i).capabilities = <<>>
      BY <2>1, <2>3, BuiltCustom
    <3>2. <<>> \in Seq(Teaf!ToSet(<<>>))
      BY EmptyList, NothingIn, Zenon
    <3> QED
      BY <1>1, <2>1, <3>1, <3>2, BuiltCustom, Zenon
  <2> QED
    BY <2>2, <2>3
<1>2. CASE Teaf!given[i].id # "custom"
  <2>1. Teaf!given[i].id \in Teaf!BundledModules
    BY <1>2, GivenFacts
  <2>2. Sound(Teaf!given[i].id, Teaf!Manifest(i))
    BY <1>2, <2>1, BundledSound, Zenon DEF Teaf!Manifest
  <2>3. PICK m : m = Teaf!Manifest(i)
    BY Zenon
  <2>4. m.capabilities \in Seq(Teaf!ToSet(m.capabilities))
    <3>1. m.capabilities \in Seq(Family(Teaf!given[i].id))
      BY <2>2, <2>3, Zenon DEF Sound
    <3> QED
      BY <3>1, OwnMembers
  <2> QED
    BY <1>2, <2>1, <2>2, <2>3, <2>4, Zenon DEF Sound
<1> QED
  BY <1>1, <1>2

LEMMA BackingIs ==
    ASSUME installation \in Installation, NEW i \in Teaf!Modules
    PROVE  /\ Teaf!Backing(i) \in {"database", "redis", NoValue}
           /\ Teaf!Backing(i) = "database"
                => Teaf!given[i].id = "database" /\ Teaf!given[i].values # <<>>
<1>1. NoValue # "database"
  BY TeafAssumption DEF Teaf!FrameworkAssumption
<1>2. CASE Teaf!given[i].id = "custom"
  BY <1>1, <1>2 DEF Teaf!Backing
<1>3. CASE Teaf!given[i].id # "custom"
  <2>1. Teaf!Backing(i) = Teaf!Store(Teaf!given[i].id, Teaf!Config(i))
          /\ Teaf!given[i].id \in Teaf!BundledModules
    BY <1>3, GivenFacts DEF Teaf!Backing
  <2>2. Teaf!given[i].values = <<>> => Teaf!Backing(i) # "database"
    BY <2>1, AsItComesWorks, Zenon DEF Teaf!Config
  <2> QED
    BY <2>1, <2>2, StoreIs
<1> QED
  BY <1>2, <1>3

\* The modules do not change.
Unmoved ==
    /\ installation' = installation
    /\ Teaf!given' = Teaf!given /\ Teaf!Modules' = Teaf!Modules
    /\ Teaf!RuntimeVersion' = Teaf!RuntimeVersion
    /\ \A i : Teaf!Manifest(i)' = Teaf!Manifest(i) /\ Teaf!Backing(i)' = Teaf!Backing(i)

LEMMA ModulesStay == ASSUME installation' = installation PROVE Unmoved
<1>1. Teaf!given' = Teaf!given
  BY DEF Teaf!given
<1>2. Teaf!Modules' = Teaf!Modules
  BY <1>1 DEF Teaf!Modules
<1>3. \A i : Teaf!Config(i)' = Teaf!Config(i)
  BY <1>1 DEF Teaf!Config
<1>4. \A i : Teaf!Manifest(i)' = Teaf!Manifest(i)
  BY <1>1, <1>3 DEF Teaf!Manifest
<1>5. \A i : Teaf!Backing(i)' = Teaf!Backing(i)
  BY <1>1, <1>3 DEF Teaf!Backing
<1>6. Teaf!RuntimeVersion' = Teaf!RuntimeVersion
  BY DEF Teaf!RuntimeVersion
<1> QED
  BY <1>1, <1>2, <1>4, <1>5, <1>6 DEF Unmoved

-----------------------------------------------------------------------------
(* The steps.                                                              *)

LEMMA KnownStays ==
    ASSUME Known, Unmoved, known' = known, down' \subseteq {"database", "redis"} PROVE Known'
  BY DEF Known, Unmoved

LEMMA FailureStays ==
    ASSUME pc' # "failed" \/ (FailureExplained /\ Unmoved /\ UNCHANGED <<pc, turn, cause>>)
    PROVE  FailureExplained'
<1>1. CASE pc' # "failed"
  BY <1>1 DEF FailureExplained
<1>2. CASE FailureExplained /\ Unmoved /\ UNCHANGED <<pc, turn, cause>>
  BY <1>2 DEF FailureExplained, Unmoved
<1> QED
  BY <1>1, <1>2

LEMMA ConstructStep == ASSUME TeafInv, Teaf!Construct PROVE TeafInv'
<1> USE DEF TeafInv
<1>1. Unmoved /\ UNCHANGED <<installation, registry, owner, provider, connected, known, down>>
  BY ModulesStay DEF Teaf!Construct
<1>2. pc = "construct" /\ turn \in Teaf!Modules
  BY DEF Teaf!Construct
<1>3. \/ pc' = "failed" /\ turn' = turn /\ cause' = "configuration"
           /\ Teaf!given[turn].id # "custom"
         /\ (Teaf!Unreadable(Teaf!given[turn].id, Teaf!Config(turn))
             \/ Teaf!Unbuildable(Teaf!given[turn].id, Teaf!Config(turn),
                  Teaf!given[turn].exporters))
      \/ pc' = pc /\ turn' = turn + 1 /\ cause' = cause
  BY DEF Teaf!Construct, Teaf!Fail
<1>4. installation \in Installation /\ Len(Teaf!given) \in Nat
        /\ Teaf!Modules = 1 .. Len(Teaf!given)
  BY GivenFacts DEF Placed
<1>5. Placed'
  BY <1>1, <1>2, <1>3, <1>4 DEF Placed, Unmoved
<1>6. RegisteredModules = 0 /\ BoundModules = 0
  BY <1>2 DEF RegisteredModules, BoundModules
<1>7. pc' # "failed" => pc' = "construct" /\ RegisteredModules' = 0 /\ BoundModules' = 0
  BY <1>2, <1>3 DEF RegisteredModules, BoundModules
<1>8. Named'
  BY <1>1, <1>2, <1>6, <1>7 DEF Named, Unmoved
<1>9. Owned'
  BY <1>1, <1>2, <1>6, <1>7 DEF Owned, Unmoved
<1>10. Supplied'
  BY <1>1, <1>2, <1>6, <1>7 DEF Supplied, Unmoved
<1>11. Connected'
  BY <1>1, <1>2, <1>3 DEF Connected, Unmoved
<1>12. Known'
  BY <1>1, KnownStays DEF Known
<1>13. FailureExplained'
  <2>1. CASE pc' = pc
    BY <1>2, <2>1 DEF FailureExplained
  <2>2. CASE pc' # pc
    <3>1. /\ pc' = "failed" /\ turn' = turn /\ cause' = "configuration"
          /\ Teaf!given[turn].id # "custom"
          /\ (Teaf!Unreadable(Teaf!given[turn].id, Teaf!Config(turn))
              \/ Teaf!Unbuildable(Teaf!given[turn].id, Teaf!Config(turn),
                   Teaf!given[turn].exporters))
      BY <1>3, <2>2
    <3>2. Teaf!given[turn].id \in Teaf!BundledModules
      BY <1>2, <1>4, <3>1, GivenFacts
    <3>3. ~(Teaf!given[turn].values = <<>> /\ Teaf!given[turn].exporters = <<>>)
      BY <3>1, <3>2, AsItComesWorks, Zenon DEF Teaf!Config
    <3> QED
      BY <1>1, <3>1, <3>3 DEF FailureExplained, Unmoved
  <2> QED
    BY <2>1, <2>2
<1> QED
  BY <1>5, <1>8, <1>9, <1>10, <1>11, <1>12, <1>13

LEMMA BeginStep == ASSUME TeafInv, Teaf!Begin PROVE TeafInv'
<1> USE DEF TeafInv
<1>1. Unmoved /\ UNCHANGED <<installation, owner, provider, connected, known, down>>
  BY ModulesStay DEF Teaf!Begin
<1>2. /\ pc = "construct" /\ pc' = "check" /\ turn' = 1
      /\ registry' = IF installation.host = "application" THEN Teaf!InfrastructureModules ELSE {}
  BY DEF Teaf!Begin
<1>4. installation \in Installation /\ Len(Teaf!given) \in Nat
        /\ Teaf!Modules = 1 .. Len(Teaf!given)
  BY GivenFacts DEF Placed
<1>5. Placed'
  BY <1>1, <1>2, <1>4 DEF Placed, Unmoved
<1>6. RegisteredModules = 0 /\ BoundModules = 0
  BY <1>2 DEF RegisteredModules, BoundModules
<1>7. RegisteredModules' = 0 /\ BoundModules' = 0
  BY <1>2 DEF RegisteredModules, BoundModules
<1>8. Named'
  BY <1>1, <1>2, <1>7 DEF Named, Unmoved
<1>9. Owned'
  BY <1>1, <1>2, <1>6, <1>7 DEF Owned, Unmoved
<1>10. Supplied'
  BY <1>1, <1>2, <1>6, <1>7 DEF Supplied, Unmoved
<1>11. Connected'
  BY <1>1, <1>2 DEF Connected, Unmoved
<1>12. Known'
  BY <1>1, KnownStays DEF Known
<1>13. FailureExplained'
  BY <1>2 DEF FailureExplained
<1> QED
  BY <1>5, <1>8, <1>9, <1>10, <1>11, <1>12, <1>13

LEMMA CheckStep == ASSUME TeafInv, Teaf!Check PROVE TeafInv'
<1> USE DEF TeafInv
<1>1. Unmoved /\ UNCHANGED <<installation, owner, provider, connected, known, down>>
  BY ModulesStay DEF Teaf!Check
<1>2. pc = "check" /\ turn \in Teaf!Modules
  BY DEF Teaf!Check
<1> DEFINE manifest == Teaf!Manifest(turn)
           suits == Teaf!Satisfies(Teaf!RuntimeVersion, manifest.runtime)
                    /\ Teaf!Satisfies(Teaf!SDK_VERSION, manifest.sdk)
<1>3. \/ /\ pc' = "failed" /\ turn' = turn
         /\ \/ cause' = "invalid" /\ Teaf!Errors(manifest) # {}
            \/ cause' = "incompatible" /\ ~suits
            \/ cause' = "registered" /\ manifest.id \in registry
      \/ /\ registry' = registry \cup {manifest.id} /\ manifest.id \notin registry
         /\ pc' = "bind" /\ turn' = turn /\ cause' = cause
  <2>1. NoValue \notin {"invalid", "incompatible", "registered"}
    BY TeafAssumption DEF Teaf!FrameworkAssumption
  <2> PICK faulty \in BOOLEAN : faulty <=> Teaf!Errors(manifest) # {}
    OBVIOUS
  <2> PICK unfit \in BOOLEAN : unfit <=> ~suits
    OBVIOUS
  <2> PICK taken \in BOOLEAN : taken <=> manifest.id \in registry
    OBVIOUS
  <2> PICK problem : problem = CASE Teaf!Errors(manifest) # {} -> "invalid"
                                 [] ~Teaf!Satisfies(Teaf!RuntimeVersion, manifest.runtime)
                                    \/ ~Teaf!Satisfies(Teaf!SDK_VERSION, manifest.sdk) ->
                                       "incompatible"
                                 [] manifest.id \in registry -> "registered"
                                 [] OTHER -> NoValue
    BY Zenon
  <2>2. problem = CASE faulty -> "invalid" [] unfit -> "incompatible"
                    [] taken -> "registered" [] OTHER -> NoValue
    OBVIOUS
  <2>3. \/ problem = "invalid" /\ faulty
        \/ problem = "incompatible" /\ unfit
        \/ problem = "registered" /\ taken
        \/ problem = NoValue /\ ~taken
    BY <2>2
  <2>4. /\ problem # NoValue => /\ pc' = "failed" /\ cause' = problem /\ turn' = turn
        /\ problem = NoValue => /\ registry' = registry \cup {manifest.id}
                                /\ pc' = "bind" /\ turn' = turn /\ cause' = cause
    BY Zenon DEF Teaf!Check, Teaf!Fail, Teaf!Registered
  <2> QED
    BY <2>1, <2>3, <2>4
<1>4. installation \in Installation /\ Len(Teaf!given) \in Nat
        /\ Teaf!Modules = 1 .. Len(Teaf!given)
  BY GivenFacts DEF Placed
<1>5. Placed'
  BY <1>1, <1>2, <1>3, <1>4 DEF Placed, Unmoved
<1>6. RegisteredModules = turn - 1 /\ BoundModules = turn - 1
  BY <1>2 DEF RegisteredModules, BoundModules
<1>7. pc' # "failed" => pc' = "bind" /\ RegisteredModules' = turn /\ BoundModules' = turn - 1
  BY <1>3 DEF RegisteredModules, BoundModules
<1>14. manifest.id = Teaf!given[turn].id
       /\ (Teaf!given[turn].id # "custom" => Sound(Teaf!given[turn].id, manifest))
  BY <1>2, <1>4, ManifestIs
<1> HIDE DEF manifest
<1>8. Named'
  <2> SUFFICES ASSUME pc' # "failed" PROVE Named'
    BY DEF Named
  <2>1. registry' = registry \cup {Teaf!given[turn].id} /\ Teaf!given[turn].id \notin registry
    BY <1>3, <1>14
  <2>2. 1 .. turn = (1 .. turn - 1) \cup {turn} /\ turn \notin 1 .. turn - 1
    BY <1>2, <1>4
  <2>3. \A i \in 1 .. turn - 1 : Teaf!given[i].id # Teaf!given[turn].id
    BY <1>2, <1>6, <2>1 DEF Named
  <2>4. {Teaf!given[i].id : i \in 1 .. turn}
          = {Teaf!given[i].id : i \in 1 .. turn - 1} \cup {Teaf!given[turn].id}
    BY <2>2
  <2>5. \A i, j \in 1 .. turn : Teaf!given[i].id = Teaf!given[j].id => i = j
    BY <1>2, <1>6, <2>2, <2>3 DEF Named
  <2> QED
    BY <1>1, <1>2, <1>6, <1>7, <2>1, <2>4, <2>5 DEF Named, Unmoved
<1>9. Owned'
  BY <1>1, <1>2, <1>6, <1>7 DEF Owned, Unmoved
<1>10. Supplied'
  BY <1>1, <1>2, <1>6, <1>7 DEF Supplied, Unmoved
<1>11. Connected'
  BY <1>1, <1>2, <1>3 DEF Connected, Unmoved
<1>12. Known'
  BY <1>1, KnownStays DEF Known
<1>13. FailureExplained'
  <2> SUFFICES ASSUME pc' = "failed" PROVE FailureExplained'
    BY DEF FailureExplained
  <2>1. Teaf!given[turn].id # "custom" => Teaf!Errors(manifest) = {}
    BY <1>14, FlawlessIsValid, Zenon DEF Sound
  <2>4. ASSUME Teaf!given[turn].id # "custom", ~suits
        PROVE  installation.host # "application"
                 /\ ~Teaf!Satisfies(Teaf!RuntimeVersion, Teaf!Manifest(turn).runtime)
    <3>1. Suits(manifest)
      BY <1>14, <2>4, Zenon DEF Sound
    <3>2. installation.host = "application" => Teaf!RuntimeVersion = Teaf!FRAMEWORK_VERSION
      BY DEF Teaf!RuntimeVersion
    <3> QED
      BY <2>4, <3>1, <3>2, Zenon DEF Suits, manifest
  <2>2. CASE cause' = "registered" /\ Teaf!given[turn].id \in registry
    <3>1. \/ installation.host = "application"
               /\ Teaf!given[turn].id \in Teaf!InfrastructureModules
          \/ \E j \in 1 .. turn - 1 : Teaf!given[j].id = Teaf!given[turn].id
      BY <1>2, <1>6, <2>2 DEF Named
    <3> QED
      BY <1>1, <1>3, <2>2, <3>1 DEF FailureExplained, Unmoved
  <2>3. CASE cause' \in {"invalid", "incompatible"} /\ Teaf!given[turn].id = "custom"
    BY <1>1, <1>3, <2>3 DEF FailureExplained, Unmoved
  <2>5. CASE /\ cause' = "incompatible" /\ installation.host # "application"
             /\ ~Teaf!Satisfies(Teaf!RuntimeVersion, Teaf!Manifest(turn).runtime)
    BY <1>1, <1>3, <2>5 DEF FailureExplained, Unmoved
  <2> QED
    BY <1>3, <1>14, <2>1, <2>2, <2>3, <2>4, <2>5
<1> QED
  BY <1>5, <1>8, <1>9, <1>10, <1>11, <1>12, <1>13

LEMMA BindStep == ASSUME TeafInv, Teaf!Bind PROVE TeafInv'
<1> USE DEF TeafInv
<1>1. Unmoved /\ UNCHANGED <<installation, registry, connected, known, down>>
  BY ModulesStay DEF Teaf!Bind
<1>2. pc = "bind" /\ turn \in Teaf!Modules
  BY DEF Teaf!Bind, Placed
<1> PICK capabilities : capabilities = Teaf!Manifest(turn).capabilities
  BY Zenon
<1> PICK services : services = Teaf!ToSet(Teaf!Manifest(turn).services)
  BY Zenon
<1> DEFINE taken == {k \in DOMAIN capabilities : capabilities[k] \in DOMAIN owner}
<1>3. /\ provider' = [s \in services \cup DOMAIN provider |->
                        IF s \in services THEN turn ELSE provider[s]]
      /\ \/ taken # {} /\ pc' = "failed" /\ cause' = "capability" /\ turn' = turn
         \/ /\ taken = {} /\ pc' = "connect" /\ UNCHANGED <<turn, cause>>
            /\ owner' = LET bound == SubSeq(capabilities, 1, Len(capabilities))
                        IN  [c \in Teaf!ToSet(bound) \cup DOMAIN owner |->
                               IF c \in Teaf!ToSet(bound) THEN turn ELSE owner[c]]
  <2>1. provider' = [s \in services \cup DOMAIN provider |->
                       IF s \in services THEN turn ELSE provider[s]]
    BY Zenon DEF Teaf!Bind, Teaf!Bound
  <2>2. CASE taken # {}
    BY <2>1, <2>2 DEF Teaf!Bind, Teaf!Fail, Teaf!Provided
  <2>3. CASE taken = {}
    BY <2>1, <2>3 DEF Teaf!Bind, Teaf!Provided
  <2> QED
    BY <2>2, <2>3
<1>4. installation \in Installation /\ Len(Teaf!given) \in Nat
        /\ Teaf!Modules = 1 .. Len(Teaf!given)
  BY GivenFacts DEF Placed
<1>5. Placed'
  BY <1>1, <1>2, <1>3, <1>4 DEF Placed, Unmoved
<1>6. RegisteredModules = turn /\ BoundModules = turn - 1
  BY <1>2 DEF RegisteredModules, BoundModules
<1>7. pc' # "failed" => RegisteredModules' = turn /\ BoundModules' = turn
  BY <1>3 DEF RegisteredModules, BoundModules
<1>8. Named'
  BY <1>1, <1>2, <1>3, <1>6, <1>7 DEF Named, Unmoved
<1>14. 1 .. turn = (1 .. turn - 1) \cup {turn} /\ turn \notin 1 .. turn - 1 /\ turn \in Nat
  BY <1>2, <1>4
<1>15. capabilities \in Seq(Teaf!ToSet(capabilities))
  BY <1>2, <1>4, ManifestIs
<1>9. Owned'
  <2> SUFFICES ASSUME pc' # "failed" PROVE Owned'
    BY DEF Owned
  <2>1. SubSeq(capabilities, 1, Len(capabilities)) = capabilities
    BY <1>15
  <2>2. owner' = [c \in Teaf!ToSet(capabilities) \cup DOMAIN owner |->
                    IF c \in Teaf!ToSet(capabilities) THEN turn ELSE owner[c]]
    BY <1>3, <2>1
  <2>3. Teaf!ToSet(capabilities) \cap DOMAIN owner = {}
    BY <1>3 DEF Teaf!ToSet
  <2>4. \A i \in 1 .. turn - 1 : \A c \in Teaf!ToSet(Teaf!Manifest(i).capabilities) :
          c \in DOMAIN owner' /\ owner'[c] = i
    BY <1>2, <1>6, <2>2, <2>3 DEF Owned
  <2>5. \A c \in Teaf!ToSet(Teaf!Manifest(turn).capabilities) :
          c \in DOMAIN owner' /\ owner'[c] = turn
    BY <2>2
  <2>6. \A c \in DOMAIN owner' :
          owner'[c] \in 1 .. turn /\ c \in Teaf!ToSet(Teaf!Manifest(owner'[c]).capabilities)
    <3> SUFFICES ASSUME NEW c \in DOMAIN owner'
                 PROVE  owner'[c] \in 1 .. turn
                          /\ c \in Teaf!ToSet(Teaf!Manifest(owner'[c]).capabilities)
      OBVIOUS
    <3>1. CASE c \in Teaf!ToSet(capabilities)
      BY <1>14, <2>2, <3>1
    <3>2. CASE c \in DOMAIN owner /\ c \notin Teaf!ToSet(capabilities)
      <4>1. owner'[c] = owner[c]
        BY <2>2, <3>2
      <4> QED
        BY <1>2, <1>6, <1>14, <3>2, <4>1 DEF Owned
    <3> QED
      BY <2>2, <3>1, <3>2
  <2>7. \A i \in 1 .. turn : \A c \in Teaf!ToSet(Teaf!Manifest(i).capabilities) :
          c \in DOMAIN owner' /\ owner'[c] = i
    BY <1>14, <2>4, <2>5
  <2> QED
    BY <1>1, <1>7, <2>6, <2>7 DEF Owned, Unmoved
<1>10. Supplied'
  <2> SUFFICES ASSUME pc' # "failed" PROVE Supplied'
    BY DEF Supplied
  <2> SUFFICES ASSUME NEW i \in 1 .. turn, NEW s \in Teaf!ToSet(Teaf!Manifest(i).services)
               PROVE  /\ s \in DOMAIN provider' /\ provider'[s] \in 1 .. turn
                      /\ s \in Teaf!ToSet(Teaf!Manifest(provider'[s]).services)
                      /\ i <= provider'[s]
    BY <1>1, <1>7 DEF Supplied, Unmoved
  <2>1. CASE s \in services
    <3>1. s \in DOMAIN provider' /\ provider'[s] = turn
      BY <1>3, <2>1
    <3> QED
      BY <1>14, <2>1, <3>1
  <2>2. CASE s \notin services
    <3>1. i \in 1 .. turn - 1
      BY <1>14, <2>2
    <3>2. /\ s \in DOMAIN provider /\ provider[s] \in 1 .. turn - 1
          /\ s \in Teaf!ToSet(Teaf!Manifest(provider[s]).services) /\ i <= provider[s]
      BY <1>2, <1>6, <3>1 DEF Supplied
    <3>3. s \in DOMAIN provider' /\ provider'[s] = provider[s]
      BY <1>3, <2>2, <3>2
    <3> QED
      BY <1>14, <3>2, <3>3
  <2> QED
    BY <2>1, <2>2
<1>11. Connected'
  BY <1>1, <1>2, <1>3 DEF Connected, Unmoved
<1>12. Known'
  BY <1>1, KnownStays DEF Known
<1>13. FailureExplained'
  <2> SUFFICES ASSUME pc' = "failed", \A i \in 1 .. turn : Teaf!given[i].id # "custom" PROVE FALSE
    BY <1>1, <1>3 DEF FailureExplained, Unmoved
  <2>1. PICK k \in DOMAIN capabilities : capabilities[k] \in DOMAIN owner
    BY <1>3
  <2> PICK c : c = capabilities[k]
    BY Zenon
  <2> PICK j : j = owner[c]
    BY Zenon
  <2>2. j \in 1 .. turn - 1 /\ c \in Teaf!ToSet(Teaf!Manifest(j).capabilities)
    BY <1>2, <1>6, <2>1 DEF Owned
  <2>3. j \in 1 .. turn /\ j # turn /\ j \in Teaf!Modules /\ turn \in 1 .. turn
    BY <1>2, <1>4, <2>2
  <2>4. Teaf!given[j].id # Teaf!given[turn].id
    BY <1>2, <1>6, <2>3 DEF Named
  <2>5. /\ Teaf!given[j].id \in Teaf!BundledModules /\ Sound(Teaf!given[j].id, Teaf!Manifest(j))
        /\ Teaf!given[turn].id \in Teaf!BundledModules
        /\ Sound(Teaf!given[turn].id, Teaf!Manifest(turn))
    BY <1>2, <1>4, <2>3, ManifestIs
  <2>6. c \in Family(Teaf!given[j].id)
    BY <2>2, <2>5 DEF Sound
  <2>7. c \in Family(Teaf!given[turn].id)
    <3>1. c \in Teaf!ToSet(capabilities)
      BY <2>1, Zenon DEF Teaf!ToSet
    <3> QED
      BY <2>5, <3>1 DEF Sound
  <2> QED
    BY <2>4, <2>5, <2>6, <2>7, FamiliesAreApart
<1> QED
  BY <1>5, <1>8, <1>9, <1>10, <1>11, <1>12, <1>13

LEMMA ConnectStep == ASSUME TeafInv, Teaf!Connect PROVE TeafInv'
<1> USE DEF TeafInv
<1>1. Unmoved /\ UNCHANGED <<installation, registry, owner, provider, known, down>>
  BY ModulesStay DEF Teaf!Connect
<1>2. pc = "connect" /\ turn \in Teaf!Modules
  BY DEF Teaf!Connect, Placed
<1>3. \/ /\ pc' = "failed" /\ turn' = turn /\ connected' = connected
         /\ \/ Teaf!Lacking(turn) /\ cause' = "library"
            \/ Teaf!Unanswered(turn) /\ cause' = "store"
      \/ /\ connected' \subseteq connected \cup {turn} /\ pc' = "refresh"
         /\ turn' = turn /\ cause' = cause
  BY DEF Teaf!Connect, Teaf!Fail
<1>4. installation \in Installation /\ Len(Teaf!given) \in Nat
        /\ Teaf!Modules = 1 .. Len(Teaf!given)
  BY GivenFacts DEF Placed
<1>5. Placed'
  BY <1>1, <1>2, <1>3, <1>4 DEF Placed, Unmoved
<1>6. RegisteredModules = turn /\ BoundModules = turn
  BY <1>2 DEF RegisteredModules, BoundModules
<1>7. pc' # "failed" => RegisteredModules' = turn /\ BoundModules' = turn
  BY <1>3 DEF RegisteredModules, BoundModules
<1>8. Named'
  BY <1>1, <1>2, <1>3, <1>6, <1>7 DEF Named, Unmoved
<1>9. Owned'
  BY <1>1, <1>2, <1>6, <1>7 DEF Owned, Unmoved
<1>10. Supplied'
  BY <1>1, <1>2, <1>6, <1>7 DEF Supplied, Unmoved
<1>11. Connected'
  BY <1>1, <1>2, <1>3 DEF Connected, Unmoved
<1>12. Known'
  BY <1>1, KnownStays DEF Known
<1>13. FailureExplained'
  <2> SUFFICES ASSUME pc' = "failed" PROVE FailureExplained'
    BY DEF FailureExplained
  <2>1. CASE Teaf!Lacking(turn) /\ cause' = "library"
    <3>1. Teaf!Backing(turn) = "redis" /\ "redis" \notin installation.extras
      BY <2>1 DEF Teaf!Lacking
    <3>2. installation.extras = {}
      BY <1>4, <3>1, GivenFacts
    <3> QED
      BY <1>1, <1>3, <2>1, <3>1, <3>2 DEF FailureExplained, Unmoved
  <2>2. CASE Teaf!Unanswered(turn) /\ cause' = "store"
    <3>1. Teaf!given[turn].id = "database" /\ Teaf!given[turn].values # <<>>
      BY <1>2, <1>4, <2>2, BackingIs DEF Teaf!Unanswered
    <3> QED
      BY <1>1, <1>3, <2>2, <3>1 DEF FailureExplained, Unmoved
  <2> QED
    BY <1>3, <2>1, <2>2
<1> QED
  BY <1>5, <1>8, <1>9, <1>10, <1>11, <1>12, <1>13

LEMMA RefreshedIs ==
    ASSUME NEW id \in Teaf!BundledModules, NEW config, NEW extra, NEW reachable \in BOOLEAN
    PROVE  /\ Teaf!Refreshed(id, config, extra, reachable)
                \in {"healthy", "degraded", "unhealthy"}
           /\ Teaf!Refreshed(id, config, extra, reachable) = "unhealthy" => ~reachable
<1>1. CASE id \in {"database", "cache"}
  BY <1>1 DEF Teaf!Refreshed, Teaf!StoreHealth
<1>2. CASE id = "observability"
  BY <1>2 DEF Teaf!Refreshed, Teaf!ObservabilityHealth
<1>3. CASE id = "security"
  BY <1>3 DEF Teaf!Refreshed, Teaf!SecurityHealth
<1>4. CASE id = "api-protection"
  BY <1>4 DEF Teaf!Refreshed, Teaf!Health
<1> QED
  BY <1>1, <1>2, <1>3, <1>4 DEF Teaf!BundledModules

LEMMA RefreshStep == ASSUME TeafInv, Teaf!Refresh PROVE TeafInv'
<1> USE DEF TeafInv
<1>1. Unmoved /\ UNCHANGED <<installation, cause, registry, owner, provider, connected, down>>
  BY ModulesStay DEF Teaf!Refresh
<1>2. pc = "refresh" /\ turn \in Teaf!Modules /\ pc' = "check" /\ turn' = turn + 1
  BY DEF Teaf!Refresh, Placed
<1>4. installation \in Installation /\ Len(Teaf!given) \in Nat
        /\ Teaf!Modules = 1 .. Len(Teaf!given)
  BY GivenFacts DEF Placed
<1>5. Placed'
  BY <1>1, <1>2, <1>4 DEF Placed, Unmoved
<1>6. RegisteredModules = turn /\ BoundModules = turn
  BY <1>2 DEF RegisteredModules, BoundModules
<1>7. RegisteredModules' = turn /\ BoundModules' = turn
  BY <1>2, <1>4 DEF RegisteredModules, BoundModules
<1>8. Named'
  BY <1>1, <1>2, <1>6, <1>7 DEF Named, Unmoved
<1>9. Owned'
  BY <1>1, <1>2, <1>6, <1>7 DEF Owned, Unmoved
<1>10. Supplied'
  BY <1>1, <1>2, <1>6, <1>7 DEF Supplied, Unmoved
<1>11. Connected'
  BY <1>1, <1>2 DEF Connected, Unmoved
<1>12. Known'
  <2>1. CASE Teaf!given[turn].id = "custom"
    BY <1>1, <2>1, KnownStays DEF Teaf!Refresh, Known
  <2>2. CASE Teaf!given[turn].id # "custom"
    <3> PICK reachable \in BOOLEAN : reachable = (Teaf!Backing(turn) \notin down)
      BY Zenon
    <3> PICK h : h = Teaf!Refreshed(Teaf!given[turn].id, Teaf!Config(turn),
          Teaf!given[turn].exporters, reachable)
      BY Zenon
    <3>1. known' = [known EXCEPT ![turn] = h]
      BY <2>2, Zenon DEF Teaf!Refresh
    <3>2. Teaf!given[turn].id \in Teaf!BundledModules
      BY <1>2, <1>4, <2>2, GivenFacts
    <3>3. h \in {"healthy", "degraded", "unhealthy"} /\ (h = "unhealthy" => ~reachable)
      BY <3>2, RefreshedIs
    <3>4. h = "unhealthy" => Teaf!Backing(turn) # NoValue
      <4>1. NoValue # "database" /\ NoValue # "redis"
        BY TeafAssumption DEF Teaf!FrameworkAssumption
      <4> QED
        BY <3>3, <4>1 DEF Known
    <3> QED
      BY <1>1, <1>2, <2>2, <3>1, <3>3, <3>4 DEF Known, Unmoved
  <2> QED
    BY <2>1, <2>2
<1>13. FailureExplained'
  BY <1>2 DEF FailureExplained
<1> QED
  BY <1>5, <1>8, <1>9, <1>10, <1>11, <1>12, <1>13

LEMMA ServeStep == ASSUME TeafInv, Teaf!Serve PROVE TeafInv'
<1> USE DEF TeafInv
<1>1. Unmoved /\ UNCHANGED <<installation, cause, registry, owner, provider, connected,
                             known, down>>
  BY ModulesStay DEF Teaf!Serve
<1>4. installation \in Installation /\ Len(Teaf!given) \in Nat
        /\ Teaf!Modules = 1 .. Len(Teaf!given)
  BY GivenFacts DEF Placed
<1>2. pc = "check" /\ turn = Len(Teaf!given) + 1 /\ pc' = "serving" /\ turn' = 0
  BY <1>4 DEF Teaf!Serve, Placed
<1>5. Placed'
  BY <1>1, <1>2, <1>4 DEF Placed, Unmoved
<1>6. RegisteredModules = Len(Teaf!given) /\ BoundModules = Len(Teaf!given)
  BY <1>2, <1>4 DEF RegisteredModules, BoundModules
<1>7. RegisteredModules' = Len(Teaf!given) /\ BoundModules' = Len(Teaf!given)
  BY <1>1, <1>2 DEF RegisteredModules, BoundModules, Unmoved
<1>8. Named'
  BY <1>1, <1>2, <1>6, <1>7 DEF Named, Unmoved
<1>9. Owned'
  BY <1>1, <1>2, <1>6, <1>7 DEF Owned, Unmoved
<1>10. Supplied'
  BY <1>1, <1>2, <1>6, <1>7 DEF Supplied, Unmoved
<1>11. Connected'
  BY <1>1, <1>2 DEF Connected, Unmoved
<1>12. Known'
  BY <1>1, KnownStays DEF Known
<1>13. FailureExplained'
  BY <1>2 DEF FailureExplained
<1> QED
  BY <1>5, <1>8, <1>9, <1>10, <1>11, <1>12, <1>13

\* A store that stops or returns leaves everything but what answers.
LEMMA StoreStep ==
    ASSUME TeafInv, down' \subseteq {"database", "redis"},
           UNCHANGED <<installation, pc, turn, cause, registry, owner, provider, connected,
             known>>
    PROVE  TeafInv'
<1> USE DEF TeafInv
<1>1. Unmoved
  BY ModulesStay
<1>2. Placed'
  BY <1>1 DEF Placed, Unmoved
<1>3. RegisteredModules' = RegisteredModules /\ BoundModules' = BoundModules
  BY <1>1 DEF RegisteredModules, BoundModules, Unmoved
<1>4. Named'
  BY <1>1, <1>3 DEF Named, Unmoved
<1>5. Owned'
  BY <1>1, <1>3 DEF Owned, Unmoved
<1>6. Supplied'
  BY <1>1, <1>3 DEF Supplied, Unmoved
<1>7. Connected'
  BY <1>1 DEF Connected, Unmoved
<1>8. Known'
  BY <1>1, KnownStays DEF Known
<1>9. FailureExplained'
  BY <1>1, FailureStays
<1> QED
  BY <1>2, <1>4, <1>5, <1>6, <1>7, <1>8, <1>9

LEMMA StoreStopsStep == ASSUME TeafInv, Teaf!StoreStops PROVE TeafInv'
<1>1. PICK s \in {Teaf!Backing(i) : i \in Teaf!Modules} \ ({NoValue} \cup down) :
        down' = down \cup {s}
  BY DEF Teaf!StoreStops
<1>2. s \in {"database", "redis"}
  BY <1>1, BackingIs DEF TeafInv, Placed
<1>3. down' \subseteq {"database", "redis"}
  BY <1>1, <1>2 DEF TeafInv, Known
<1> QED
  BY <1>3, StoreStep DEF Teaf!StoreStops

LEMMA StoreReturnsStep == ASSUME TeafInv, Teaf!StoreReturns PROVE TeafInv'
<1>1. down' \subseteq {"database", "redis"}
  BY DEF Teaf!StoreReturns, TeafInv, Known
<1> QED
  BY <1>1, StoreStep DEF Teaf!StoreReturns

LEMMA StopStep == ASSUME TeafInv, Teaf!Stop \/ Teaf!Dispose PROVE TeafInv'
<1> USE DEF TeafInv
<1>1. Unmoved /\ UNCHANGED <<installation, cause, registry, owner, provider, known, down>>
  BY ModulesStay DEF Teaf!Stop, Teaf!Dispose
<1>4. installation \in Installation /\ Len(Teaf!given) \in Nat
        /\ Teaf!Modules = 1 .. Len(Teaf!given)
  BY GivenFacts DEF Placed
<1>2. /\ pc \in {"serving", "stop"} /\ pc' \in {"stop", "stopped"}
      /\ turn' \in Nat /\ turn' <= Len(Teaf!given)
      /\ \/ pc' = "stop" /\ connected' \subseteq 1 .. turn'
         \/ pc' = "stopped" /\ connected' = {}
      /\ connected' \subseteq connected
  <2>1. CASE Teaf!Stop
    BY <1>4, <2>1 DEF Teaf!Stop, Connected
  <2>2. CASE Teaf!Dispose /\ turn > 1
    <3>1. pc = "stop" /\ connected \subseteq 1 .. turn /\ turn \in Nat /\ turn <= Len(Teaf!given)
      BY <2>2 DEF Teaf!Dispose, Connected, Placed
    <3>2. (1 .. turn) \ {turn} = 1 .. turn - 1 /\ turn - 1 \in Nat /\ turn - 1 <= Len(Teaf!given)
      BY <1>4, <2>2, <3>1
    <3>3. pc' = "stop" /\ turn' = turn - 1 /\ connected' = connected \ {turn}
      BY <2>2, <3>1 DEF Teaf!Dispose
    <3> QED
      BY <3>1, <3>2, <3>3
  <2>3. CASE Teaf!Dispose /\ ~(turn > 1)
    <3>1. pc = "stop" /\ connected \subseteq 1 .. turn /\ turn \in Nat
      BY <2>3 DEF Teaf!Dispose, Connected, Placed
    <3>2. 1 .. turn \subseteq {turn}
      BY <2>3, <3>1
    <3> QED
      BY <1>4, <2>3, <3>1, <3>2 DEF Teaf!Dispose
  <2> QED
    BY <2>1, <2>2, <2>3
<1>5. Placed'
  BY <1>1, <1>2, <1>4 DEF Placed, Unmoved
<1>6. RegisteredModules = Len(Teaf!given) /\ BoundModules = Len(Teaf!given)
  BY <1>2, <1>4 DEF RegisteredModules, BoundModules
<1>7. RegisteredModules' = Len(Teaf!given) /\ BoundModules' = Len(Teaf!given)
  BY <1>1, <1>2 DEF RegisteredModules, BoundModules, Unmoved
<1>8. Named'
  BY <1>1, <1>2, <1>6, <1>7 DEF Named, Unmoved
<1>9. Owned'
  BY <1>1, <1>2, <1>6, <1>7 DEF Owned, Unmoved
<1>10. Supplied'
  BY <1>1, <1>2, <1>6, <1>7 DEF Supplied, Unmoved
<1>11. Connected'
  BY <1>1, <1>2 DEF Connected, Unmoved
<1>12. Known'
  BY <1>1, KnownStays DEF Known
<1>13. FailureExplained'
  BY <1>2 DEF FailureExplained
<1> QED
  BY <1>5, <1>8, <1>9, <1>10, <1>11, <1>12, <1>13

LEMMA TeafStarts == Teaf!Init => TeafInv
<1> SUFFICES ASSUME Teaf!Init PROVE TeafInv
  OBVIOUS
<1>1. installation \in Installation /\ pc = "construct" /\ turn = 1
  BY DEF Teaf!Init
<1>2. Len(Teaf!given) \in Nat
  BY <1>1, GivenFacts
<1>3. Placed
  BY <1>1, <1>2 DEF Placed
<1>4. RegisteredModules = 0 /\ BoundModules = 0
  BY <1>1 DEF RegisteredModules, BoundModules
<1>5. registry = {} /\ DOMAIN owner = {} /\ connected = {}
  BY EmptyList DEF Teaf!Init
<1>6. Named /\ Owned /\ Supplied /\ Connected /\ FailureExplained
  BY <1>1, <1>4, <1>5 DEF Named, Owned, Supplied, Connected, FailureExplained
<1>7. Known
  BY DEF Teaf!Init, Known
<1> QED
  BY <1>3, <1>6, <1>7 DEF TeafInv

LEMMA TeafInvariance == Teaf!Spec => []TeafInv
<1>1. ASSUME TeafInv, [Teaf!Next]_Teaf!vars PROVE TeafInv'
  <2>1. CASE UNCHANGED Teaf!vars
    BY <1>1, <2>1, StoreStep DEF Teaf!vars, TeafInv, Known
  <2> QED
    BY <1>1, <2>1, ConstructStep, BeginStep, CheckStep, BindStep, ConnectStep, RefreshStep,
       ServeStep, StoreStopsStep, StoreReturnsStep, StopStep DEF Teaf!Next
<1> QED
  BY <1>1, TeafStarts, PTL DEF Teaf!Spec

-----------------------------------------------------------------------------
(* The property.                                                           *)

LEMMA GreatestIs ==
    ASSUME NEW S, S \subseteq Nat, NEW m \in S, \A k \in S : k <= m PROVE Teaf!Max(S) = m
<1>1. \A x \in S : (\A y \in S : x >= y) <=> x = m
  OBVIOUS
<1> QED
  BY <1>1 DEF Teaf!Max

\* The most severe of what is reported.
LEMMA OverallIs ==
    ASSUME Teaf!Reported \subseteq {"unhealthy", "degraded", "unknown", "healthy"}
    PROVE  Teaf!Overall = "unhealthy" <=> "unhealthy" \in Teaf!Reported
<1> PICK R : R = Teaf!Reported
  BY Zenon
<1>0. R \subseteq {"unhealthy", "degraded", "unknown", "healthy"}
  BY Zenon
<1> PICK order : order = Teaf!SeverityOrder
  BY Zenon
<1>1. /\ order[1] = "unhealthy" /\ order[2] = "degraded" /\ order[3] = "unknown"
      /\ order[4] = "healthy"
  BY DEF Teaf!SeverityOrder
<1> PICK K : K = {k \in 1 .. 4 : order[k] \in R}
  BY Zenon
<1>2. CASE R = {}
  BY <1>2 DEF Teaf!Overall
<1>3. CASE R # {}
  <2>1. K # {} /\ K \subseteq 1 .. 4 /\ (1 \in K <=> "unhealthy" \in R)
    <3>1. PICK r \in {"unhealthy", "degraded", "unknown", "healthy"} : r \in R
      BY <1>0, <1>3
    <3>2. \E k \in 1 .. 4 : order[k] = r
      BY <1>1
    <3> QED
      BY <1>1, <3>1, <3>2
  <2>2. \E x \in K : \A y \in K : x <= y
    <3>1. CASE 1 \in K
      BY <2>1, <3>1
    <3>2. CASE 1 \notin K /\ 2 \in K
      BY <2>1, <3>2
    <3>3. CASE 1 \notin K /\ 2 \notin K /\ 3 \in K
      BY <2>1, <3>3
    <3>4. CASE 1 \notin K /\ 2 \notin K /\ 3 \notin K /\ 4 \in K
      BY <2>1, <3>4
    <3> QED
      BY <2>1, <3>1, <3>2, <3>3, <3>4
  <2> PICK least : least = Teaf!Min(K)
    BY Zenon
  <2>3. least \in K /\ \A y \in K : least <= y
    BY <2>2 DEF Teaf!Min
  <2>4. least = 1 <=> 1 \in K
    BY <2>1, <2>3
  <2>5. least \in 1 .. 4 /\ (order[least] = "unhealthy" <=> least = 1)
    <3>1. least = 1 \/ least = 2 \/ least = 3 \/ least = 4
      BY <2>1, <2>3
    <3> QED
      BY <1>1, <3>1
  <2>6. Teaf!Overall = order[least]
    BY <1>3, Zenon DEF Teaf!Overall
  <2> QED
    BY <2>1, <2>4, <2>5, <2>6
<1> QED
  BY <1>2, <1>3

LEMMA ReadyIs ==
    ASSUME TeafInv
    PROVE  /\ Teaf!ReadyStatus = 503 <=> \E i \in Teaf!Modules :
                known[i] = "unhealthy" /\ Teaf!Backing(i) # NoValue
           /\ Teaf!ReadyStatus = 503 <=> Teaf!HealthStatus = "degraded"
<1>1. Teaf!Reported \subseteq {"unhealthy", "degraded", "unknown", "healthy"}
  BY DEF Teaf!Reported, TeafInv, Known
<1>2. "unhealthy" \in Teaf!Reported
        => \E i \in Teaf!Modules : known[i] = "unhealthy" /\ Teaf!Backing(i) # NoValue
  BY DEF Teaf!Reported, TeafInv, Known
<1>3. ASSUME NEW i \in Teaf!Modules, known[i] = "unhealthy" PROVE "unhealthy" \in Teaf!Reported
  <2>1. Teaf!given[i].id # "custom"
    BY <1>3 DEF TeafInv, Known
  <2>2. Teaf!Manifest(i).checks # <<>>
    BY <2>1, ManifestIs DEF TeafInv, Placed, Sound
  <2> QED
    BY <1>3, <2>2 DEF Teaf!Reported
<1>4. Teaf!Overall = "unhealthy" <=> "unhealthy" \in Teaf!Reported
  BY <1>1, OverallIs
<1>5. Teaf!ReadyStatus = 503 <=> Teaf!Overall = "unhealthy"
  BY DEF Teaf!ReadyStatus
<1>6. Teaf!HealthStatus = "degraded" <=> Teaf!Overall = "unhealthy"
  BY DEF Teaf!HealthStatus
<1> QED
  BY <1>2, <1>3, <1>4, <1>5, <1>6

LEMMA InvComposes == TeafInv => Teaf!ModulesCompose
<1> SUFFICES ASSUME TeafInv PROVE Teaf!ModulesCompose
  OBVIOUS
<1> USE DEF TeafInv
<1>1. Len(Teaf!given) \in Nat /\ Teaf!Modules = 1 .. Len(Teaf!given)
  BY GivenFacts DEF Placed
<1>2. ASSUME pc \in {"serving", "stop", "stopped"}, NEW i \in Teaf!Modules
      PROVE  /\ \A c \in Teaf!ToSet(Teaf!Manifest(i).capabilities) : owner[c] = i
             /\ \A s \in Teaf!ToSet(Teaf!Manifest(i).services) :
                  provider[s]
                    = Teaf!Max({j \in Teaf!Modules : s \in Teaf!ToSet(Teaf!Manifest(j).services)})
  <2>1. BoundModules = Len(Teaf!given) /\ pc # "failed"
    BY <1>2 DEF BoundModules
  <2>2. \A c \in Teaf!ToSet(Teaf!Manifest(i).capabilities) : owner[c] = i
    BY <1>1, <2>1 DEF Owned
  <2>3. ASSUME NEW s \in Teaf!ToSet(Teaf!Manifest(i).services)
        PROVE  provider[s]
                 = Teaf!Max({j \in Teaf!Modules : s \in Teaf!ToSet(Teaf!Manifest(j).services)})
    <3> PICK S : S = {j \in Teaf!Modules : s \in Teaf!ToSet(Teaf!Manifest(j).services)}
      BY Zenon
    <3>1. S \subseteq Nat /\ provider[s] \in S
      BY <1>1, <2>1 DEF Supplied
    <3>2. \A j \in S : j <= provider[s]
      BY <1>1, <2>1 DEF Supplied
    <3> QED
      BY <3>1, <3>2, GreatestIs
  <2> QED
    BY <2>2, <2>3
<1>3. pc = "stopped" => connected = {}
  BY DEF Connected
<1>4. FailureExplained
  OBVIOUS
<1> QED
  BY <1>2, <1>3, <1>4, ReadyIs, Zenon DEF Teaf!ModulesCompose, FailureExplained

\* Any modules, in any order, next to any of third parties: a start fails only
\* for a changed configuration, a store or library that is missing, an id that
\* is taken, a Runtime built by hand that is older than a module asks, or a
\* third party's declaration; what serves is the module that declares it,
\* readiness is that of the stores, and a stop closes everything.
THEOREM ModulesComposeHolds == Teaf!Spec => []ModulesCompose
<1>1. TeafInv => ModulesCompose
  BY InvComposes DEF ModulesCompose
<1> QED
  BY <1>1, TeafInvariance, PTL
=============================================================================
