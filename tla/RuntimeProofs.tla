---------------------------- MODULE RuntimeProofs ----------------------------
(***************************************************************************)
(* Proofs about Container, for any threads, contracts and providers; about *)
(* Platform, for any names, plugins and handlers; and about Resolver, for  *)
(* any catalogues.                                                         *)
(***************************************************************************)
EXTENDS Runtime, FiniteSetTheorems, SequenceTheorems, TLAPS

\* Below the top every call is in its factory, which resolves nothing scoped.
Nested ==
    \A t \in Thread :
        /\ raised[t] = TRUE => ~Idle(t)
        /\ Len(stack[t]) <= MaxDepth
        /\ \A i \in 1..Len(stack[t]) :
              /\ i < Len(stack[t]) => stack[t][i].phase = "factory"
              /\ i > 1 => stack[t][i].via = "container"
              /\ stack[t][i].registration.lifetime = "scoped" => stack[t][i].via = "scope"

\* Until two threads overlap, _resolving is about the one that resolves.
Alone ==
    ~overlapped =>
        /\ \A t, u \in Busy : t = u
        /\ \A t \in Busy :
              /\ Building(t) = 1..Len(resolving)
              /\ \A i \in Building(t) : resolving[i] = stack[t][i].contract

\* What a call made is of its registration.
MadeByOwn ==
    \A t \in Thread : \A i \in 1..Len(stack[t]) :
        stack[t][i].made # None =>
            stack[t][i].made.by = stack[t][i].registration.id

\* A contract that is not contended is resolved by one call at most, with the
\* registration that is still the current one, and it has no instance yet.
Sole ==
    \A c \in Contract \ contended : \A t \in Thread : \A i \in 1..Len(stack[t]) :
        stack[t][i].contract = c =>
            /\ stack[t][i].registration = registrations[c]
            /\ stack[t][i].registration.lifetime = "singleton" => singletons[c] = None
            /\ \A u \in Thread : \A j \in 1..Len(stack[u]) :
                  stack[u][j].contract = c => u = t /\ j = i

\* Instances are numbered as they are built, and one that was built and not
\* yet returned is nowhere else.
Numbered ==
    /\ \A c \in Contract : singletons[c].serial <= built
    /\ \A t \in Thread, c \in Contract : scope[t][c].serial <= built
    /\ \A t \in Thread : \A i \in 1..Len(stack[t]) : stack[t][i].made.serial <= built

Fresh ==
    \A t \in Thread : \A i \in 1..Len(stack[t]) :
        stack[t][i].made # None =>
            /\ \A d \in Contract : singletons[d] # stack[t][i].made
            /\ \A u \in Thread, d \in Contract : scope[u][d] # stack[t][i].made
            /\ \A u \in Thread : \A j \in 1..Len(stack[u]) :
                  stack[u][j].made = stack[t][i].made => u = t /\ j = i

Apart ==
    \A t \in Thread, c \in Contract : scope[t][c] # None =>
        /\ \A d \in Contract : singletons[d] # scope[t][c]
        /\ \A u \in Thread \ {t}, d \in Contract : scope[u][d] # scope[t][c]

IInv ==
    /\ TypeOK /\ Nested
    /\ Len(resolving) = Cardinality(Factories) /\ Alone
    /\ MadeByOwn /\ Sole /\ OneInstance
    /\ Numbered /\ Fresh /\ Apart

-----------------------------------------------------------------------------
(* What the steps do to the stacks.                                        *)

SameUse(f, g) ==
    f.contract = g.contract /\ f.registration = g.registration /\ f.via = g.via

\* The calls of the other threads and the first n of t are as they were.
Kept(t, n) ==
    /\ stack' \in [Thread -> Seq(Call)]
    /\ \A u \in Thread \ {t} : stack'[u] = stack[u]
    /\ \A i \in 1..n : /\ SameUse(stack'[t][i], stack[t][i])
                       /\ stack'[t][i].phase = stack[t][i].phase
                       /\ stack'[t][i].made = stack[t][i].made

\* The top of t goes on in another phase.
Advanced(t, phase) ==
    /\ Len(stack[t]) > 0 /\ Len(stack'[t]) = Len(stack[t])
    /\ Kept(t, Len(stack[t]) - 1)
    /\ SameUse(stack'[t][Len(stack[t])], Top(t))
    /\ stack'[t][Len(stack[t])].phase = phase

Popped(t) ==
    /\ Len(stack[t]) > 0 /\ Len(stack'[t]) = Len(stack[t]) - 1
    /\ Kept(t, Len(stack[t]) - 1)

LEMMA NoneIsNoInstance == None \notin Instance
BY DEF None, Instance

LEMMA UnregisteredIsNoRegistration == Unregistered \notin Registration
BY DEF Unregistered, Registration, Lifetime

LEMMA FrontOf ==
    ASSUME NEW S, NEW s \in Seq(S), Len(s) > 0
    PROVE  /\ Front(s) \in Seq(S) /\ Len(Front(s)) = Len(s) - 1
           /\ \A i \in 1..Len(s) - 1 : Front(s)[i] = s[i]
<1>1. Len(s) - 1 \in Nat /\ \A i \in 1..Len(s) - 1 : s[i] \in S
  OBVIOUS
<1>2. /\ SubSeq(s, 1, Len(s) - 1) \in Seq(S)
      /\ Len(SubSeq(s, 1, Len(s) - 1)) =
            IF 1 <= Len(s) - 1 THEN (Len(s) - 1) - 1 + 1 ELSE 0
      /\ \A i \in 1..(Len(s) - 1) - 1 + 1 : SubSeq(s, 1, Len(s) - 1)[i] = s[1 + i - 1]
  BY <1>1, SubSeqProperties
<1>3. (Len(s) - 1) - 1 + 1 = Len(s) - 1 /\ \A i \in 1..Len(s) - 1 : 1 + i - 1 = i
  OBVIOUS
<1> QED
  BY <1>1, <1>2, <1>3 DEF Front

LEMMA CallType ==
    ASSUME TypeOK, NEW t \in Thread
    PROVE  /\ stack[t] \in Seq(Call) /\ Len(stack[t]) \in Nat
           /\ \A i \in 1..Len(stack[t]) :
                 /\ stack[t][i] \in Call
                 /\ stack[t][i].contract \in Contract
                 /\ stack[t][i].registration \in Registration
                 /\ stack[t][i].made \in Instance \cup {None}
                 /\ stack[t][i].next \in Nat \ {0}
<1>1. stack[t] \in Seq(Call) /\ Len(stack[t]) \in Nat
  BY DEF TypeOK
<1>2. \A i \in 1..Len(stack[t]) : stack[t][i] \in Call
  BY <1>1, ElementOfSeq
<1> QED
  BY <1>1, <1>2 DEF Call

LEMMA TopType ==
    ASSUME TypeOK, NEW t \in Thread, ~Idle(t)
    PROVE  /\ Len(stack[t]) > 0 /\ Top(t) = stack[t][Len(stack[t])]
           /\ Len(stack[t]) \in 1..Len(stack[t])
           /\ Top(t) \in Call /\ Top(t).contract \in Contract
           /\ Top(t).registration \in Registration
           /\ Top(t).made \in Instance \cup {None}
           /\ Top(t).next \in Nat \ {0}
<1>1. stack[t] \in Seq(Call) /\ Len(stack[t]) \in Nat
  BY CallType
<1>2. Len(stack[t]) > 0
  BY <1>1 DEF Idle
<1>3. Len(stack[t]) \in 1..Len(stack[t]) /\ Top(t) = stack[t][Len(stack[t])]
  BY <1>1, <1>2 DEF Top, Last
<1> QED
  BY <1>2, <1>3, CallType

LEMMA SameUseReflexive ==
    ASSUME NEW f PROVE SameUse(f, f)
BY DEF SameUse

\* The caller of a call that returns only goes to its next contract.
LEMMA ResumedIsKept ==
    ASSUME NEW s \in Seq(Call)
    PROVE  /\ Resumed(s) \in Seq(Call) /\ Len(Resumed(s)) = Len(s)
           /\ \A i \in 1..Len(s) : /\ SameUse(Resumed(s)[i], s[i])
                                   /\ Resumed(s)[i].phase = s[i].phase
                                   /\ Resumed(s)[i].made = s[i].made
<1>1. CASE s = <<>>
  BY <1>1 DEF Resumed
<1>2. CASE s # <<>>
  <2>1. Len(s) \in 1..Len(s) /\ s[Len(s)] \in Call
    BY <1>2
  <2> DEFINE f == s[Len(s)]
             g == [f EXCEPT !.next = @ + 1]
  <2>2. f \in Call /\ f.next + 1 \in Nat \ {0}
    BY <2>1 DEF Call
  <2>3. /\ g \in Call
        /\ g.contract = f.contract /\ g.registration = f.registration /\ g.via = f.via
        /\ g.phase = f.phase /\ g.made = f.made
    <3> DEFINE n == f.next + 1
    <3> HIDE DEF f, n
    <3>1. n \in Nat \ {0} /\ f \in Call
      BY <2>2 DEF n
    <3>2. g = [f EXCEPT !.next = n]
      BY DEF n
    <3> HIDE DEF g
    <3> QED
      BY <3>1, <3>2 DEF Call
  <2>4. Resumed(s) = [s EXCEPT ![Len(s)] = g]
    BY <1>2 DEF Resumed
  <2> HIDE DEF f, g
  <2>5. /\ Resumed(s) \in Seq(Call) /\ Len(Resumed(s)) = Len(s)
        /\ \A i \in 1..Len(s) : Resumed(s)[i] = IF i = Len(s) THEN g ELSE s[i]
    BY <2>1, <2>3, <2>4, ExceptSeq
  <2> QED
    BY <2>3, <2>5 DEF SameUse, f
<1> QED
  BY <1>1, <1>2

LEMMA FoundCached ==
    ASSUME TypeOK, NEW t \in Thread, stack' = [stack EXCEPT ![t] = Resumed(@)]
    PROVE  Kept(t, Len(stack[t])) /\ Len(stack'[t]) = Len(stack[t])
<1>1. stack \in [Thread -> Seq(Call)]
  BY DEF TypeOK
<1>2. stack[t] \in Seq(Call)
  BY <1>1
<1>3. stack'[t] = Resumed(stack[t]) /\ \A u \in Thread \ {t} : stack'[u] = stack[u]
  BY <1>1
<1>4. stack' \in [Thread -> Seq(Call)]
  BY <1>1, <1>2, ResumedIsKept
<1> QED
  BY <1>2, <1>3, <1>4, ResumedIsKept DEF Kept

LEMMA Pushed ==
    ASSUME TypeOK, NEW t \in Thread, NEW f \in Call,
           stack' = [stack EXCEPT ![t] = Append(@, f)]
    PROVE  /\ Kept(t, Len(stack[t])) /\ Len(stack'[t]) = Len(stack[t]) + 1
           /\ stack'[t][Len(stack[t]) + 1] = f
<1>1. stack \in [Thread -> Seq(Call)]
  BY DEF TypeOK
<1>2. stack[t] \in Seq(Call)
  BY <1>1
<1>3. stack'[t] = Append(stack[t], f) /\ \A u \in Thread \ {t} : stack'[u] = stack[u]
  BY <1>1
<1>4. stack' \in [Thread -> Seq(Call)]
  BY <1>1, <1>2
<1> QED
  BY <1>2, <1>3, <1>4, SameUseReflexive DEF Kept

LEMMA Replaced ==
    ASSUME TypeOK, NEW t \in Thread, NEW f \in Call, ~Idle(t), SameUse(f, Top(t)),
           stack' \in [Thread -> Seq(Call)],
           \A u \in Thread \ {t} : stack'[u] = stack[u],
           Len(stack'[t]) = Len(stack[t]),
           \A i \in 1..Len(stack[t]) :
               stack'[t][i] = IF i = Len(stack[t]) THEN f ELSE stack[t][i]
    PROVE  Advanced(t, f.phase) /\ stack'[t][Len(stack[t])] = f
<1>1. Len(stack[t]) \in Nat /\ Len(stack[t]) > 0 /\ Len(stack[t]) \in 1..Len(stack[t])
  BY TopType, CallType
<1>2. stack'[t][Len(stack[t])] = f
  BY <1>1
<1>3. \A i \in 1..Len(stack[t]) - 1 : stack'[t][i] = stack[t][i]
  BY <1>1
<1>4. Kept(t, Len(stack[t]) - 1)
  BY <1>3, SameUseReflexive DEF Kept
<1> QED
  BY <1>1, <1>2, <1>4 DEF Advanced

LEMMA PoppedResumed ==
    ASSUME TypeOK, NEW t \in Thread, ~Idle(t),
           \/ stack' = [stack EXCEPT ![t] = Front(stack[t])]
           \/ stack' = [stack EXCEPT ![t] = Resumed(Front(stack[t]))]
    PROVE  Popped(t)
<1>1. stack \in [Thread -> Seq(Call)] /\ stack[t] \in Seq(Call)
  BY DEF TypeOK
<1>2. Len(stack[t]) \in Nat /\ Len(stack[t]) > 0
  BY TopType, CallType
<1> DEFINE s == Front(stack[t])
<1>3. /\ s \in Seq(Call) /\ Len(s) = Len(stack[t]) - 1
      /\ \A i \in 1..Len(s) : s[i] = stack[t][i]
  BY <1>1, <1>2, FrontOf, Zenon
<1> HIDE DEF s
<1>4. PICK r : /\ r \in {s, Resumed(s)}
               /\ stack' = [stack EXCEPT ![t] = r]
  BY DEF s
<1>5. /\ r \in Seq(Call) /\ Len(r) = Len(s)
      /\ \A i \in 1..Len(s) : /\ SameUse(r[i], s[i]) /\ r[i].phase = s[i].phase
                              /\ r[i].made = s[i].made
  BY <1>3, <1>4, ResumedIsKept, SameUseReflexive
<1>6. stack'[t] = r /\ \A u \in Thread \ {t} : stack'[u] = stack[u]
  BY <1>1, <1>4
<1>7. stack' \in [Thread -> Seq(Call)]
  BY <1>1, <1>4, <1>5
<1>8. Kept(t, Len(stack[t]) - 1)
  BY <1>3, <1>5, <1>6, <1>7 DEF Kept
<1> QED
  BY <1>2, <1>3, <1>5, <1>6, <1>8 DEF Popped

LEMMA Found ==
    ASSUME TypeOK, NEW t \in Thread, NEW c \in Contract, FindNone(t, c)
    PROVE  /\ Kept(t, Len(stack[t])) /\ Len(stack'[t]) = Len(stack[t]) + 1
           /\ LET f == stack'[t][Len(stack[t]) + 1] IN
              /\ f.contract = c /\ f.registration = registrations[c]
              /\ f.via \in Vias(t) /\ f.phase = "found" /\ f.made = None
              /\ f.registration.lifetime = "scoped" => f.via = "scope"
              /\ f.registration.lifetime = "singleton" => singletons[c] = None
<1> DEFINE g == registrations[c]
<1>1. g \in Registration
  BY DEF TypeOK, FindNone
<1>2. PICK via \in Vias(t) :
        /\ g.lifetime = "scoped" => via = "scope"
        /\ Cache(t, g, via)[c] = None
        /\ stack' = [stack EXCEPT ![t] = Append(@,
                [contract |-> c, registration |-> g, via |-> via,
                 phase |-> "found", next |-> 1, made |-> None])]
  BY DEF FindNone
<1>3. via \in {"container", "scope"}
  BY DEF Vias
<1> DEFINE f == [contract |-> c, registration |-> g, via |-> via,
                 phase |-> "found", next |-> 1, made |-> None]
<1>4. f \in Call
  <2> HIDE DEF g
  <2> QED
    BY <1>1, <1>3 DEF Call
<1>5. g.lifetime = "singleton" => singletons[c] = None
  BY <1>2 DEF Cache
<1>6. /\ f.contract = c /\ f.registration = g /\ f.via = via
      /\ f.phase = "found" /\ f.made = None
  OBVIOUS
<1>7. stack' = [stack EXCEPT ![t] = Append(@, f)]
  BY <1>2
<1> HIDE DEF f
<1>8. /\ Kept(t, Len(stack[t])) /\ Len(stack'[t]) = Len(stack[t]) + 1
      /\ stack'[t][Len(stack[t]) + 1] = f
  BY <1>4, <1>7, Pushed
<1> QED
  BY <1>2, <1>5, <1>6, <1>8

LEMMA Entered ==
    ASSUME TypeOK, NEW t \in Thread, Enter(t)
    PROVE  /\ ~Idle(t) /\ Top(t).phase = "found"
           /\ \/ UNCHANGED <<stack, resolving>> /\ raised' = [raised EXCEPT ![t] = TRUE]
              \/ /\ Advanced(t, "factory") /\ UNCHANGED raised
                 /\ stack'[t][Len(stack[t])].made = Top(t).made
                 /\ resolving' = Append(resolving, Top(t).contract)
<1>1. ~Idle(t) /\ Top(t).phase = "found"
  BY DEF Enter, Running
<1>2. CASE Top(t).contract \in Range(resolving)
  BY <1>1, <1>2 DEF Enter
<1>3. CASE Top(t).contract \notin Range(resolving)
  <2> DEFINE n == Len(stack[t])
  <2>1. /\ resolving' = Append(resolving, Top(t).contract) /\ UNCHANGED raised
        /\ stack' = [stack EXCEPT ![t][n].phase = "factory"]
    BY <1>3 DEF Enter
  <2>2. /\ stack \in [Thread -> Seq(Call)] /\ stack[t] \in Seq(Call)
        /\ n \in 1..Len(stack[t]) /\ Top(t) = stack[t][n] /\ Top(t) \in Call
    BY <1>1, TopType DEF TypeOK
  <2> DEFINE f == [Top(t) EXCEPT !.phase = "factory"]
  <2>3. /\ f \in Call /\ f.phase = "factory" /\ f.made = Top(t).made /\ SameUse(f, Top(t))
    BY <2>2 DEF Call, SameUse
  <2>4. stack' = [stack EXCEPT ![t] = [stack[t] EXCEPT ![n] = f]]
    BY <2>1, <2>2
  <2> HIDE DEF f, n
  <2>5. /\ [stack[t] EXCEPT ![n] = f] \in Seq(Call)
        /\ Len([stack[t] EXCEPT ![n] = f]) = Len(stack[t])
        /\ \A i \in 1..Len(stack[t]) :
              [stack[t] EXCEPT ![n] = f][i] = IF i = n THEN f ELSE stack[t][i]
    BY <2>2, <2>3, ExceptSeq
  <2>6. /\ stack' \in [Thread -> Seq(Call)]
        /\ \A u \in Thread \ {t} : stack'[u] = stack[u]
        /\ stack'[t] = [stack[t] EXCEPT ![n] = f]
    BY <2>2, <2>4, <2>5
  <2>7. Advanced(t, f.phase) /\ stack'[t][Len(stack[t])] = f
    BY <1>1, <2>3, <2>5, <2>6, Replaced DEF n
  <2> QED
    BY <1>1, <2>1, <2>3, <2>7
<1> QED
  BY <1>2, <1>3

LEMMA Left ==
    ASSUME TypeOK, NEW t \in Thread, Leave(t)
    PROVE  /\ ~Idle(t) /\ Top(t).phase = "factory"
           /\ Advanced(t, "built") /\ resolving' = Front(resolving)
           /\ LET v == stack'[t][Len(stack[t])].made IN
              v \in Instance /\ v.serial = built + 1 /\ v.by = Top(t).registration.id
<1>1. ~Idle(t) /\ Top(t).phase = "factory" /\ resolving' = Front(resolving)
  BY DEF Leave, Running
<1> DEFINE n == Len(stack[t])
           v == [serial |-> built + 1, by |-> Top(t).registration.id]
           f == [Top(t) EXCEPT !.phase = "built", !.made = v]
<1>2. /\ stack \in [Thread -> Seq(Call)] /\ stack[t] \in Seq(Call)
      /\ n \in 1..Len(stack[t]) /\ Top(t) = stack[t][n] /\ Top(t) \in Call /\ Len(stack[t]) > 0
      /\ Top(t).registration \in Registration
  BY <1>1, TopType DEF TypeOK
<1>3. v \in Instance /\ v.serial = built + 1 /\ v.by = Top(t).registration.id
  <2>1. Top(t).registration.id \in 1..MaxChanges
    BY <1>2 DEF Registration
  <2>2. built + 1 \in 1..MaxBuilt
    BY ContainerAssumption DEF TypeOK, Leave
  <2> QED
    BY <2>1, <2>2 DEF Instance
<1>4. stack' = [stack EXCEPT ![t] = Append(Front(stack[t]), f)]
  BY <1>2 DEF Leave
<1> HIDE DEF v
<1>5. f \in Call /\ f.phase = "built" /\ f.made = v /\ SameUse(f, Top(t))
  BY <1>2, <1>3 DEF Call, SameUse
<1> HIDE DEF f
<1> DEFINE r == Front(stack[t])
<1>6. r \in Seq(Call) /\ Len(r) = n - 1 /\ \A i \in 1..n - 1 : r[i] = stack[t][i]
  BY <1>2, FrontOf
<1> HIDE DEF r
<1>7. /\ Append(r, f) \in Seq(Call) /\ Len(Append(r, f)) = Len(stack[t])
      /\ \A i \in 1..Len(stack[t]) :
            Append(r, f)[i] = IF i = Len(stack[t]) THEN f ELSE stack[t][i]
  BY <1>2, <1>5, <1>6
<1>8. /\ stack' \in [Thread -> Seq(Call)]
      /\ \A u \in Thread \ {t} : stack'[u] = stack[u]
      /\ stack'[t] = Append(r, f)
  BY <1>2, <1>4, <1>7 DEF r
<1>9. Advanced(t, f.phase) /\ stack'[t][Len(stack[t])] = f
  BY <1>1, <1>5, <1>7, <1>8, Replaced
<1> QED
  BY <1>1, <1>3, <1>5, <1>9

LEMMA Returned ==
    ASSUME TypeOK, NEW t \in Thread, Return(t)
    PROVE  ~Idle(t) /\ Top(t).phase = "built" /\ Top(t).made \in Instance /\ Popped(t)
<1>1. ~Idle(t) /\ Top(t).phase = "built"
  BY DEF Return, Running
<1>2. stack' = [stack EXCEPT ![t] = Resumed(Front(stack[t]))]
  BY DEF Return
<1>3. Top(t).made # None /\ Top(t).made \in Instance \cup {None}
  BY <1>1, TopType DEF TypeOK
<1> QED
  BY <1>1, <1>2, <1>3, PoppedResumed

LEMMA Unwound ==
    ASSUME TypeOK, Nested, NEW t \in Thread, Unwind(t)
    PROVE  /\ ~Idle(t) /\ Popped(t) /\ raised' = [raised EXCEPT ![t] = Front(stack[t]) # <<>>]
           /\ resolving' = IF Top(t).phase = "factory" THEN Front(resolving) ELSE resolving
<1>1. ~Idle(t)
  BY Zenon DEF Unwind, Nested, TypeOK
<1>2. stack' = [stack EXCEPT ![t] = Front(stack[t])]
  BY DEF Unwind
<1> QED
  BY <1>1, <1>2, PoppedResumed DEF Unwind

-----------------------------------------------------------------------------
(* The types.                                                              *)

MadeWhenBuilt ==
    \A t \in Thread : \A i \in 1..Len(stack[t]) :
        (stack[t][i].phase = "built") <=> (stack[t][i].made # None)

CallsType == stack \in [Thread -> Seq(Call)] /\ MadeWhenBuilt

LEMMA CallsStep ==
    ASSUME TypeOK, NEW t \in Thread, NEW n \in 0..Len(stack[t]), Kept(t, n),
           \/ Len(stack'[t]) = n
           \/ /\ Len(stack'[t]) = n + 1
              /\ (stack'[t][n + 1].phase = "built") <=> (stack'[t][n + 1].made # None)
    PROVE  CallsType'
<1>1. \A u \in Thread : Len(stack[u]) \in Nat
  BY CallType
<1>2. ASSUME NEW u \in Thread, NEW i \in 1..Len(stack'[u])
      PROVE  (stack'[u][i].phase = "built") <=> (stack'[u][i].made # None)
  <2>1. CASE u # t
    BY <2>1, <1>2 DEF Kept, TypeOK
  <2>2. CASE u = t /\ i \in 1..n
    <3>1. i \in 1..Len(stack[t])
      BY <1>1, <2>2
    <3>2. (stack[t][i].phase = "built") <=> (stack[t][i].made # None)
      BY <3>1 DEF TypeOK
    <3> QED
      BY <2>2, <3>2 DEF Kept
  <2>3. CASE u = t /\ i = n + 1 /\ Len(stack'[t]) = n + 1
    BY <2>3
  <2> QED
    BY <1>1, <1>2, <2>1, <2>2, <2>3
<1> QED
  BY <1>2 DEF CallsType, MadeWhenBuilt, Kept

LEMMA AdvancedType ==
    ASSUME TypeOK, NEW t \in Thread, NEW phase, Advanced(t, phase),
           (phase = "built") <=> (stack'[t][Len(stack[t])].made # None)
    PROVE  CallsType'
<1> DEFINE n == Len(stack[t]) - 1
<1>1. Len(stack[t]) \in Nat /\ Len(stack[t]) > 0 /\ Len(stack'[t]) = Len(stack[t])
  BY CallType DEF Advanced
<1>2. n \in 0..Len(stack[t]) /\ n + 1 = Len(stack[t]) /\ Len(stack'[t]) = n + 1
  BY <1>1
<1>3. Kept(t, n) /\ stack'[t][Len(stack[t])].phase = phase
  BY DEF Advanced
<1>4. (stack'[t][n + 1].phase = "built") <=> (stack'[t][n + 1].made # None)
  BY <1>2, <1>3
<1> HIDE DEF n
<1> QED
  BY <1>2, <1>3, <1>4, CallsStep

LEMMA PoppedType ==
    ASSUME TypeOK, NEW t \in Thread, Popped(t)
    PROVE  CallsType'
<1> DEFINE n == Len(stack[t]) - 1
<1>1. Len(stack[t]) \in Nat /\ Len(stack[t]) > 0 /\ Len(stack'[t]) = n
  BY CallType DEF Popped
<1>2. n \in 0..Len(stack[t]) /\ Kept(t, n)
  BY <1>1 DEF Popped
<1> HIDE DEF n
<1> QED
  BY <1>1, <1>2, CallsStep

LEMMA KeptType ==
    ASSUME TypeOK, NEW t \in Thread, Kept(t, Len(stack[t])), Len(stack'[t]) = Len(stack[t])
    PROVE  CallsType'
<1>1. Len(stack[t]) \in 0..Len(stack[t])
  BY CallType
<1> QED
  BY <1>1, CallsStep

LEMMA FrontType ==
    ASSUME NEW S, NEW s \in Seq(S)
    PROVE  Front(s) \in Seq(S)
<1>1. CASE Len(s) > 0
  BY <1>1, FrontOf
<1>2. CASE Len(s) = 0
  <2>1. Len(s) - 1 < 1 /\ Len(s) - 1 \in Int
    BY <1>2
  <2>2. Front(s) = <<>>
    BY <2>1, SubSeqEmpty DEF Front
  <2> QED
    BY <2>2
<1> QED
  BY <1>1, <1>2

LEMMA RegistrationType ==
    ASSUME TypeOK, NEW c \in Contract, NEW lifetime \in Lifetime, NEW needs \in Seq(Contract),
           changes < MaxChanges, Registered(c, lifetime, needs)
    PROVE  registrations' \in [Contract -> Registration \cup {Unregistered}]
<1> DEFINE g == [lifetime |-> lifetime, needs |-> needs, id |-> changes + 1,
                 over |-> registrations[c] # Unregistered]
<1>1. changes + 1 \in 1..MaxChanges
  BY ContainerAssumption DEF TypeOK
<1>2. g \in Registration
  BY <1>1 DEF Registration
<1>3. registrations' = [registrations EXCEPT ![c] = g]
  BY DEF Registered
<1> HIDE DEF g
<1> QED
  BY <1>2, <1>3 DEF TypeOK

LEMMA RegisterType ==
    ASSUME TypeOK, NEW g \in Registrable, Register(g)
    PROVE  TypeOK'
<1>1. /\ g.contract \in Contract /\ g.lifetime \in Lifetime /\ g.needs \in Seq(Contract)
      /\ MaxChanges \in Nat
  BY ContainerAssumption
<1>2. /\ changes < MaxChanges /\ changes' = changes + 1
      /\ contended' \in {contended, contended \cup {g.contract}}
      /\ UNCHANGED <<resolving, scope, stack, raised, overlapped, singletons, built, handed>>
      /\ Registered(g.contract, g.lifetime, g.needs)
  BY DEF Register, Changed
<1>3. registrations' \in [Contract -> Registration \cup {Unregistered}]
  BY <1>1, <1>2, RegistrationType
<1>4. changes' \in 0..MaxChanges /\ contended' \subseteq Contract
  BY <1>1, <1>2 DEF TypeOK
<1> QED
  BY <1>2, <1>3, <1>4 DEF TypeOK

LEMMA RegisterInstanceType ==
    ASSUME TypeOK, NEW c \in Contract, RegisterInstance(c)
    PROVE  TypeOK'
<1> DEFINE v == [serial |-> built + 1, by |-> changes + 1]
<1>1. /\ changes < MaxChanges /\ changes' = changes + 1 /\ built < MaxBuilt /\ built' = built + 1
      /\ contended' \in {contended \ {c}, contended \cup {c}}
      /\ UNCHANGED <<resolving, scope, stack, raised, overlapped>>
      /\ Registered(c, "singleton", <<>>)
      /\ singletons' = [singletons EXCEPT ![c] = v]
      /\ handed' = [handed EXCEPT ![c] = {}]
  BY DEF RegisterInstance, Changed
<1>2. registrations' \in [Contract -> Registration \cup {Unregistered}]
  BY <1>1, RegistrationType, EmptySeq DEF Lifetime
<1>3. changes' \in 0..MaxChanges /\ built' \in 0..MaxBuilt /\ contended' \subseteq Contract
  BY <1>1, ContainerAssumption DEF TypeOK
<1>4. v \in Instance
  BY <1>1, ContainerAssumption DEF TypeOK, Instance
<1> HIDE DEF v
<1>5. /\ singletons' \in [Contract -> Instance \cup {None}]
      /\ handed' \in [Contract -> SUBSET Instance]
  BY <1>1, <1>4 DEF TypeOK
<1> QED
  BY <1>1, <1>2, <1>3, <1>5 DEF TypeOK

LEMMA UnregisterType ==
    ASSUME TypeOK, NEW c \in Contract, Unregister(c)
    PROVE  TypeOK'
<1>1. /\ changes < MaxChanges /\ changes' = changes + 1
      /\ contended' \in {contended \ {c}, contended \cup {c}}
      /\ UNCHANGED <<resolving, scope, stack, raised, overlapped, built>>
      /\ registrations' = [registrations EXCEPT ![c] = Unregistered]
      /\ singletons' = [singletons EXCEPT ![c] = None]
      /\ handed' = [handed EXCEPT ![c] = {}]
  BY DEF Unregister, Changed
<1>2. changes' \in 0..MaxChanges /\ contended' \subseteq Contract
  BY <1>1, ContainerAssumption DEF TypeOK
<1>3. registrations' \in [Contract -> Registration \cup {Unregistered}]
  BY <1>1 DEF TypeOK
<1>4. singletons' \in [Contract -> Instance \cup {None}]
  BY <1>1 DEF TypeOK
<1>5. handed' \in [Contract -> SUBSET Instance]
  BY <1>1 DEF TypeOK
<1> QED
  BY <1>1, <1>2, <1>3, <1>4, <1>5 DEF TypeOK

LEMMA HandedType ==
    ASSUME TypeOK, NEW c \in Contract, NEW g, NEW v \in Instance, Handed(c, g, v)
    PROVE  handed' \in [Contract -> SUBSET Instance]
<1>1. handed' \in {handed, [handed EXCEPT ![c] = @ \cup {v}]}
  BY DEF Handed
<1>2. handed \in [Contract -> SUBSET Instance] /\ handed[c] \cup {v} \in SUBSET Instance
  BY DEF TypeOK
<1> QED
  BY <1>1, <1>2

LEMMA FindCachedType ==
    ASSUME TypeOK, NEW t \in Thread, NEW c \in Contract, FindCached(t, c)
    PROVE  TypeOK'
<1>1. UNCHANGED <<registrations, singletons, resolving, scope, raised, changes,
                  built, contended, overlapped>>
  BY DEF FindCached
<1>2. PICK via \in Vias(t) :
        /\ Cache(t, registrations[c], via)[c] # None
        /\ stack' = [stack EXCEPT ![t] = Resumed(@)]
        /\ Handed(c, registrations[c], Cache(t, registrations[c], via)[c])
  BY DEF FindCached
<1>3. Cache(t, registrations[c], via)[c] \in Instance \cup {None}
  BY DEF Cache, TypeOK
<1>4. handed' \in [Contract -> SUBSET Instance]
  BY <1>2, <1>3, HandedType
<1>5. CallsType'
  BY <1>2, FoundCached, KeptType
<1> QED
  BY <1>1, <1>4, <1>5 DEF TypeOK, CallsType, MadeWhenBuilt

LEMMA FindNoneType ==
    ASSUME TypeOK, NEW t \in Thread, NEW c \in Contract, FindNone(t, c)
    PROVE  TypeOK'
<1>1. /\ contended' \in {contended, contended \cup {c}}
      /\ overlapped' = (overlapped \/ Busy \ {t} # {})
      /\ UNCHANGED <<registrations, singletons, resolving, scope, raised, changes,
                     built, handed>>
  BY DEF FindNone, Overlap
<1>2. /\ Kept(t, Len(stack[t])) /\ Len(stack'[t]) = Len(stack[t]) + 1
      /\ stack'[t][Len(stack[t]) + 1].phase = "found"
      /\ stack'[t][Len(stack[t]) + 1].made = None
  BY Found
<1>3. Len(stack[t]) \in 0..Len(stack[t])
  BY CallType
<1>4. CallsType'
  BY <1>2, <1>3, CallsStep
<1>5. contended' \subseteq Contract /\ overlapped' \in BOOLEAN
  BY <1>1 DEF TypeOK
<1> QED
  BY <1>1, <1>4, <1>5 DEF TypeOK, CallsType, MadeWhenBuilt

LEMMA EnterType ==
    ASSUME TypeOK, NEW t \in Thread, Enter(t)
    PROVE  TypeOK'
<1>1. UNCHANGED <<registrations, singletons, scope, changes, built, handed,
                  contended, overlapped>>
  BY DEF Enter
<1>2. CASE UNCHANGED <<stack, resolving>> /\ raised' = [raised EXCEPT ![t] = TRUE]
  BY <1>1, <1>2 DEF TypeOK
<1>3. CASE /\ Advanced(t, "factory") /\ UNCHANGED raised
           /\ stack'[t][Len(stack[t])].made = Top(t).made
           /\ resolving' = Append(resolving, Top(t).contract)
  <2>1. ~Idle(t) /\ Top(t).phase = "found"
    BY Entered
  <2>2. Top(t).made = None /\ Top(t).contract \in Contract
    BY <2>1, TopType DEF TypeOK
  <2>3. CallsType'
    BY <1>3, <2>2, AdvancedType
  <2>4. resolving' \in Seq(Contract)
    BY <1>3, <2>2 DEF TypeOK
  <2> QED
    BY <1>1, <1>3, <2>3, <2>4 DEF TypeOK, CallsType, MadeWhenBuilt
<1> QED
  BY <1>2, <1>3, Entered

LEMMA LeaveType ==
    ASSUME TypeOK, NEW t \in Thread, Leave(t)
    PROVE  TypeOK'
<1>1. /\ UNCHANGED <<registrations, singletons, scope, raised, changes, handed,
                     contended, overlapped>>
      /\ built < MaxBuilt /\ built' = built + 1
  BY DEF Leave
<1>2. /\ Advanced(t, "built") /\ resolving' = Front(resolving)
      /\ stack'[t][Len(stack[t])].made \in Instance
  BY Left
<1>3. CallsType'
  BY <1>2, AdvancedType, NoneIsNoInstance
<1>4. resolving' \in Seq(Contract)
  BY <1>2, FrontType DEF TypeOK
<1>5. built' \in 0..MaxBuilt
  BY <1>1, ContainerAssumption DEF TypeOK
<1> QED
  BY <1>1, <1>3, <1>4, <1>5 DEF TypeOK, CallsType, MadeWhenBuilt

LEMMA ReturnType ==
    ASSUME TypeOK, NEW t \in Thread, Return(t)
    PROVE  TypeOK'
<1>1. /\ UNCHANGED <<registrations, resolving, raised, changes, built, contended>>
      /\ singletons' \in {singletons, [singletons EXCEPT ![Top(t).contract] = Top(t).made]}
      /\ scope' \in {scope, [scope EXCEPT ![t][Top(t).contract] = Top(t).made]}
      /\ Handed(Top(t).contract, Top(t).registration, Top(t).made)
      /\ overlapped' = (overlapped /\ (Front(stack[t]) # <<>> \/ Busy # {t}))
  BY DEF Return
<1>2. ~Idle(t) /\ Top(t).made \in Instance /\ Popped(t)
  BY Returned
<1>3. Top(t).contract \in Contract
  BY <1>2, TopType
<1>4. handed' \in [Contract -> SUBSET Instance]
  BY <1>1, <1>2, <1>3, HandedType
<1>5. CallsType'
  BY <1>2, PoppedType
<1>6. singletons' \in [Contract -> Instance \cup {None}]
  BY <1>1, <1>2, <1>3 DEF TypeOK
<1>7. scope' \in [Thread -> [Contract -> Instance \cup {None}]]
  <2> DEFINE s == [scope[t] EXCEPT ![Top(t).contract] = Top(t).made]
  <2>1. scope \in [Thread -> [Contract -> Instance \cup {None}]]
    BY DEF TypeOK
  <2>2. s \in [Contract -> Instance \cup {None}]
    BY <1>2, <1>3, <2>1
  <2>3. scope' \in {scope, [scope EXCEPT ![t] = s]}
    BY <1>1, <2>1
  <2> HIDE DEF s
  <2> QED
    BY <2>1, <2>2, <2>3
<1>8. overlapped' \in BOOLEAN
  BY <1>1 DEF TypeOK
<1> QED
  BY <1>1, <1>4, <1>5, <1>6, <1>7, <1>8 DEF TypeOK, CallsType, MadeWhenBuilt

LEMMA UnwindType ==
    ASSUME TypeOK, Nested, NEW t \in Thread, Unwind(t)
    PROVE  TypeOK'
<1>1. /\ UNCHANGED <<registrations, singletons, scope, changes, built, handed, contended>>
      /\ overlapped' = (overlapped /\ (Front(stack[t]) # <<>> \/ Busy # {t}))
  BY DEF Unwind
<1>2. /\ Popped(t) /\ raised' = [raised EXCEPT ![t] = Front(stack[t]) # <<>>]
      /\ resolving' \in {resolving, Front(resolving)}
  BY Unwound
<1>3. CallsType'
  BY <1>2, PoppedType
<1>4. resolving' \in Seq(Contract)
  BY <1>2, FrontType DEF TypeOK
<1>5. raised' \in [Thread -> BOOLEAN] /\ overlapped' \in BOOLEAN
  BY <1>1, <1>2 DEF TypeOK
<1> QED
  BY <1>1, <1>3, <1>4, <1>5 DEF TypeOK, CallsType, MadeWhenBuilt

LEMMA TypeStep ==
    ASSUME TypeOK, Nested, [Next]_vars
    PROVE  TypeOK'
<1>1. CASE UNCHANGED vars
  BY <1>1 DEF vars, TypeOK
<1>2. ASSUME NEW t \in Thread, FindMissing(t) \/ FactoryRaises(t)
      PROVE  TypeOK'
  <2>1. /\ raised' = [raised EXCEPT ![t] = TRUE]
        /\ UNCHANGED <<registrations, singletons, resolving, scope, stack, changes,
                       built, handed, contended, overlapped>>
    BY <1>2 DEF FindMissing, FactoryRaises
  <2> QED
    BY <2>1 DEF TypeOK
<1>3. ASSUME NEW t \in Thread, ExitScope(t)
      PROVE  TypeOK'
  <2>1. /\ scope' = [scope EXCEPT ![t] = [c \in Contract |-> None]]
        /\ UNCHANGED <<registrations, singletons, resolving, stack, raised, changes,
                       built, handed, contended, overlapped>>
    BY <1>3 DEF ExitScope
  <2> QED
    BY <2>1 DEF TypeOK
<1> QED
  BY <1>1, <1>2, <1>3, RegisterType, RegisterInstanceType, UnregisterType, FindCachedType,
     FindNoneType, EnterType, LeaveType, ReturnType, UnwindType DEF Next

-----------------------------------------------------------------------------
(* The stacks.                                                             *)

LEMMA NestedCalls ==
    ASSUME TypeOK, Nested, NEW t \in Thread, NEW n \in 0..Len(stack[t]), Kept(t, n),
           \A u \in Thread \ {t} : raised'[u] = raised[u],
           raised'[t] = TRUE => Len(stack'[t]) > 0,
           \/ Len(stack'[t]) = n
           \/ /\ Len(stack'[t]) = n + 1 /\ n + 1 <= MaxDepth
              /\ \A i \in 1..n : stack[t][i].phase = "factory"
              /\ n > 0 => stack'[t][n + 1].via = "container"
              /\ stack'[t][n + 1].registration.lifetime = "scoped" =>
                    stack'[t][n + 1].via = "scope"
    PROVE  Nested'
<1>0. \A u \in Thread : Len(stack[u]) \in Nat
  BY CallType
<1>1. ASSUME NEW u \in Thread, u # t
      PROVE  stack'[u] = stack[u] /\ raised'[u] = raised[u]
  BY <1>1 DEF Kept
<1>2. n <= Len(stack[t]) /\ Len(stack[t]) <= MaxDepth /\ n \in Nat
  BY <1>0 DEF Nested
<1>3. raised'[t] = TRUE => stack'[t] # <<>>
  BY EmptySeq
<1>4. Len(stack'[t]) <= MaxDepth
  BY <1>2, ContainerAssumption
<1>5. ASSUME NEW i \in 1..Len(stack'[t])
      PROVE  /\ i < Len(stack'[t]) => stack'[t][i].phase = "factory"
             /\ i > 1 => stack'[t][i].via = "container"
             /\ stack'[t][i].registration.lifetime = "scoped" => stack'[t][i].via = "scope"
  <2>1. CASE i \in 1..n
    <3>1. i \in 1..Len(stack[t]) /\ (i < Len(stack'[t]) => i < Len(stack[t]) \/ i = n)
      BY <1>2, <2>1
    <3>2. /\ i < Len(stack[t]) => stack[t][i].phase = "factory"
          /\ i > 1 => stack[t][i].via = "container"
          /\ stack[t][i].registration.lifetime = "scoped" => stack[t][i].via = "scope"
      BY <3>1 DEF Nested
    <3>3. i < Len(stack'[t]) => stack[t][i].phase = "factory"
      BY <1>2, <2>1, <3>2
    <3> QED
      BY <2>1, <3>2, <3>3 DEF Kept, SameUse
  <2>2. CASE i = n + 1 /\ Len(stack'[t]) = n + 1
    BY <1>2, <2>2
  <2> QED
    BY <1>2, <2>1, <2>2
<1>6. ASSUME NEW u \in Thread
      PROVE  /\ raised'[u] = TRUE => stack'[u] # <<>>
             /\ Len(stack'[u]) <= MaxDepth
             /\ \A i \in 1..Len(stack'[u]) :
                   /\ i < Len(stack'[u]) => stack'[u][i].phase = "factory"
                   /\ i > 1 => stack'[u][i].via = "container"
                   /\ stack'[u][i].registration.lifetime = "scoped" =>
                         stack'[u][i].via = "scope"
  <2>1. CASE u = t
    BY <1>3, <1>4, <1>5, <2>1
  <2>2. CASE u # t
    BY <1>1, <2>2 DEF Nested, Idle
  <2> QED
    BY <2>1, <2>2
<1> QED
  BY <1>6 DEF Nested, Idle

LEMMA NestedAdvanced ==
    ASSUME TypeOK, Nested, NEW t \in Thread, NEW phase, Advanced(t, phase), UNCHANGED raised
    PROVE  Nested'
<1> DEFINE n == Len(stack[t]) - 1
<1>1. /\ Len(stack[t]) \in Nat /\ Len(stack[t]) > 0 /\ Len(stack[t]) <= MaxDepth
      /\ Len(stack'[t]) = Len(stack[t]) /\ Kept(t, n)
      /\ SameUse(stack'[t][Len(stack[t])], Top(t))
  BY CallType DEF Advanced, Nested
<1>2. n \in 0..Len(stack[t]) /\ n + 1 = Len(stack[t])
  BY <1>1
<1>3. \A i \in 1..n : i \in 1..Len(stack[t]) /\ i < Len(stack[t])
  BY <1>1
<1>4. \A i \in 1..n : stack[t][i].phase = "factory"
  BY <1>3 DEF Nested
<1>5. Top(t) = stack[t][Len(stack[t])] /\ Len(stack[t]) \in 1..Len(stack[t])
  BY <1>1 DEF Top, Last
<1>6. /\ n > 0 => Top(t).via = "container"
      /\ Top(t).registration.lifetime = "scoped" => Top(t).via = "scope"
  BY <1>2, <1>5 DEF Nested
<1>7. /\ n > 0 => stack'[t][n + 1].via = "container"
      /\ stack'[t][n + 1].registration.lifetime = "scoped" => stack'[t][n + 1].via = "scope"
  BY <1>1, <1>2, <1>6 DEF SameUse
<1>8. n + 1 <= MaxDepth /\ Len(stack'[t]) = n + 1 /\ Len(stack'[t]) > 0
  BY <1>1, <1>2
<1> HIDE DEF n
<1> QED
  BY <1>1, <1>2, <1>4, <1>7, <1>8, NestedCalls

LEMMA NestedStep ==
    ASSUME TypeOK, Nested, [Next]_vars
    PROVE  Nested'
<1>0. \A t \in Thread : Len(stack[t]) \in Nat /\ stack[t] \in Seq(Call)
  BY CallType
<1>1. CASE UNCHANGED <<stack, raised>>
  BY <1>1 DEF Nested, Idle
<1>2. ASSUME NEW t \in Thread, ~Idle(t), UNCHANGED stack, raised' = [raised EXCEPT ![t] = TRUE]
      PROVE  Nested'
  <2>1. \A u \in Thread : u # t => raised'[u] = raised[u]
    BY <1>2 DEF TypeOK
  <2> QED
    BY <1>2, <2>1 DEF Nested, Idle
<1>3. ASSUME NEW t \in Thread, NEW c \in Contract, FindCached(t, c)
      PROVE  Nested'
  <2>1. stack' = [stack EXCEPT ![t] = Resumed(@)] /\ UNCHANGED raised
    BY <1>3 DEF FindCached
  <2>2. Kept(t, Len(stack[t])) /\ Len(stack'[t]) = Len(stack[t])
    BY <2>1, FoundCached
  <2>3. raised'[t] = TRUE => Len(stack'[t]) > 0
    BY <1>0, <2>1, <2>2 DEF Nested, Idle
  <2>4. Len(stack[t]) \in 0..Len(stack[t])
    BY <1>0
  <2> QED
    BY <2>1, <2>2, <2>3, <2>4, NestedCalls
<1>4. ASSUME NEW t \in Thread, NEW c \in Contract, FindNone(t, c)
      PROVE  Nested'
  <2> DEFINE n == Len(stack[t])
  <2>1. /\ Kept(t, n) /\ Len(stack'[t]) = n + 1
        /\ stack'[t][n + 1].via \in Vias(t)
        /\ stack'[t][n + 1].registration.lifetime = "scoped" => stack'[t][n + 1].via = "scope"
    BY <1>4, Found
  <2>2. UNCHANGED raised /\ n < MaxDepth /\ MayResolve(t, c)
    BY <1>4 DEF FindNone
  <2>3. n \in Nat /\ n \in 0..Len(stack[t]) /\ n + 1 <= MaxDepth /\ Len(stack'[t]) > 0
    BY <1>0, <2>1, <2>2, ContainerAssumption
  <2>4. CASE Idle(t)
    <3>1. n = 0
      BY <2>4, EmptySeq DEF Idle
    <3> HIDE DEF n
    <3>2. /\ \A i \in 1..n : stack[t][i].phase = "factory"
          /\ n > 0 => stack'[t][n + 1].via = "container"
      BY <3>1
    <3> QED
      BY <2>1, <2>2, <2>3, <3>2, NestedCalls
  <2>5. CASE ~Idle(t)
    <3>1. Top(t).phase = "factory" /\ Vias(t) = {"container"}
      BY <2>2, <2>5 DEF MayResolve, Vias
    <3>2. Top(t) = stack[t][n] /\ n > 0
      BY <2>5, TopType
    <3>3. \A i \in 1..n : stack[t][i].phase = "factory"
      BY <2>3, <3>1, <3>2 DEF Nested
    <3>4. stack'[t][n + 1].via = "container"
      BY <2>1, <3>1
    <3> HIDE DEF n
    <3> QED
      BY <2>1, <2>2, <2>3, <3>3, <3>4, NestedCalls
  <2> QED
    BY <2>4, <2>5
<1>5. ASSUME NEW t \in Thread, Enter(t)
      PROVE  Nested'
  BY <1>2, <1>5, Entered, NestedAdvanced
<1>6. ASSUME NEW t \in Thread, Leave(t)
      PROVE  Nested'
  <2>1. UNCHANGED raised /\ Advanced(t, "built")
    BY <1>6, Left DEF Leave
  <2> QED
    BY <2>1, NestedAdvanced
<1>7. ASSUME NEW t \in Thread, Return(t) \/ Unwind(t)
      PROVE  Nested'
  <2> DEFINE n == Len(stack[t]) - 1
  <2>1. ~Idle(t) /\ Popped(t)
    BY <1>7, Returned, Unwound
  <2>2. Len(stack[t]) > 0 /\ Kept(t, n) /\ Len(stack'[t]) = n
    BY <2>1 DEF Popped
  <2>3. \A u \in Thread \ {t} : raised'[u] = raised[u]
    BY <1>7 DEF Return, Unwind, TypeOK
  <2>4. raised'[t] = TRUE => Len(stack'[t]) > 0
    <3>1. CASE Return(t)
      <4>1. ~raised[t] /\ raised' = raised
        BY <3>1 DEF Return, Running
      <4> QED
        BY <4>1, Zenon
    <3>2. CASE Unwind(t)
      <4>1. raised' = [raised EXCEPT ![t] = Front(stack[t]) # <<>>]
        BY <3>2, Unwound
      <4>2. raised'[t] = (Front(stack[t]) # <<>>)
        BY <4>1 DEF TypeOK
      <4>3. Front(stack[t]) \in Seq(Call) /\ Len(Front(stack[t])) = n
        BY <1>0, <2>2, FrontOf
      <4>4. Front(stack[t]) # <<>> => n > 0
        BY <1>0, <2>2, <4>3
      <4> QED
        BY <2>2, <4>2, <4>4
    <3> QED
      BY <1>7, <3>1, <3>2
  <2>5. n \in 0..Len(stack[t])
    BY <1>0, <2>2
  <2> HIDE DEF n
  <2> QED
    BY <2>2, <2>3, <2>4, <2>5, NestedCalls
<1>8. ASSUME NEW t \in Thread, FindMissing(t) \/ FactoryRaises(t)
      PROVE  Nested'
  <2>1. ~Idle(t) /\ UNCHANGED stack /\ raised' = [raised EXCEPT ![t] = TRUE]
    BY <1>8 DEF FindMissing, FactoryRaises, Running
  <2> QED
    BY <1>2, <2>1
<1>9. ASSUME \/ \E g \in Registrable : Register(g)
             \/ \E c \in Contract : RegisterInstance(c) \/ Unregister(c)
             \/ \E t \in Thread : ExitScope(t)
             \/ UNCHANGED vars
      PROVE  UNCHANGED <<stack, raised>>
  BY <1>9 DEF Register, RegisterInstance, Unregister, Changed, ExitScope, vars
<1> QED
  BY <1>1, <1>3, <1>4, <1>5, <1>6, <1>7, <1>8, <1>9 DEF Next

-----------------------------------------------------------------------------
(* The resolution stack.                                                   *)

Balanced == Len(resolving) = Cardinality(Factories)

LEMMA FactoriesFinite == IsFiniteSet(Factories) /\ Cardinality(Factories) \in Nat
<1>1. IsFiniteSet(Thread) /\ IsFiniteSet(1..MaxDepth)
  BY ContainerAssumption, FS_Interval
<1>2. IsFiniteSet(Thread \X (1..MaxDepth))
  BY <1>1, FS_Product
<1>3. Factories \in SUBSET (Thread \X (1..MaxDepth))
  BY DEF Factories
<1> QED
  BY <1>2, <1>3, FS_Subset, FS_CardinalityType

LEMMA BuildingIn ==
    ASSUME TypeOK, Nested, NEW t \in Thread
    PROVE  Building(t) \subseteq 1..Len(stack[t]) /\ Building(t) \subseteq 1..MaxDepth
<1>1. Len(stack[t]) \in Nat /\ Len(stack[t]) <= MaxDepth
  BY CallType DEF Nested
<1> QED
  BY <1>1, ContainerAssumption DEF Building

\* The steps change the set of running factories by what they do to a thread.
LEMMA SameFactories ==
    ASSUME \A u \in Thread : Building(u)' = Building(u)
    PROVE  Factories' = Factories
<1>1. \A f \in Thread \X (1..MaxDepth) : f[2] \in Building(f[1])' <=> f[2] \in Building(f[1])
  OBVIOUS
<1>2. Factories' = {f \in Thread \X (1..MaxDepth) : f[2] \in Building(f[1])'}
  BY DEF Factories
<1> QED
  BY <1>1, <1>2 DEF Factories

LEMMA OneFactoryMore ==
    ASSUME TypeOK, Nested, NEW t \in Thread, NEW n \in 1..MaxDepth, n \notin Building(t),
           \A u \in Thread \ {t} : Building(u)' = Building(u),
           Building(t)' = Building(t) \cup {n}
    PROVE  Cardinality(Factories') = Cardinality(Factories) + 1
<1>1. Factories' = {f \in Thread \X (1..MaxDepth) : f[2] \in Building(f[1])'}
  BY DEF Factories
<1>2. Factories' = Factories \cup {<<t, n>>}
  <2>1. ASSUME NEW f \in Thread \X (1..MaxDepth)
        PROVE  f[2] \in Building(f[1])' <=> f[2] \in Building(f[1]) \/ f = <<t, n>>
    <3>1. CASE f[1] = t
      BY <2>1, <3>1
    <3>2. CASE f[1] # t
      BY <2>1, <3>2
    <3> QED
      BY <3>1, <3>2
  <2>2. <<t, n>> \in Thread \X (1..MaxDepth)
    OBVIOUS
  <2> QED
    BY <1>1, <2>1, <2>2 DEF Factories
<1>3. <<t, n>> \notin Factories
  BY DEF Factories
<1> QED
  BY <1>2, <1>3, FactoriesFinite, FS_AddElement

LEMMA OneFactoryLess ==
    ASSUME TypeOK, Nested, NEW t \in Thread, NEW n \in Building(t),
           \A u \in Thread \ {t} : Building(u)' = Building(u),
           Building(t)' = Building(t) \ {n}
    PROVE  Cardinality(Factories') = Cardinality(Factories) - 1
<1>0. n \in 1..MaxDepth
  BY BuildingIn
<1>1. Factories' = {f \in Thread \X (1..MaxDepth) : f[2] \in Building(f[1])'}
  BY DEF Factories
<1>2. Factories' = Factories \ {<<t, n>>}
  <2>1. ASSUME NEW f \in Thread \X (1..MaxDepth)
        PROVE  f[2] \in Building(f[1])' <=> f[2] \in Building(f[1]) /\ f # <<t, n>>
    <3>1. CASE f[1] = t
      BY <2>1, <3>1
    <3>2. CASE f[1] # t
      BY <2>1, <3>2
    <3> QED
      BY <3>1, <3>2
  <2> QED
    BY <1>1, <2>1 DEF Factories
<1>3. <<t, n>> \in Factories
  BY <1>0 DEF Factories
<1> QED
  BY <1>2, <1>3, FactoriesFinite, FS_RemoveElement

LEMMA KeptBuilding ==
    ASSUME TypeOK, NEW t \in Thread, NEW n \in 0..Len(stack[t]), Kept(t, n)
    PROVE  /\ \A u \in Thread \ {t} : Building(u)' = Building(u)
           /\ Len(stack'[t]) = n => Building(t)' = Building(t) \cap 1..n
           /\ Len(stack'[t]) = n + 1 =>
                 Building(t)' = (Building(t) \cap 1..n) \cup
                    (IF stack'[t][n + 1].phase = "factory" THEN {n + 1} ELSE {})
<1>1. n \in Nat /\ \A i \in 1..n : i \in 1..Len(stack[t])
  BY CallType
<1>2. \A u \in Thread \ {t} : Building(u)' = Building(u)
  BY DEF Kept, Building
<1>3. \A i \in 1..n : i \in Building(t) <=> stack'[t][i].phase = "factory"
  BY <1>1 DEF Kept, Building
<1>4. Building(t)' = {i \in 1..Len(stack'[t]) : stack'[t][i].phase = "factory"}
  BY DEF Building
<1>5. ASSUME Len(stack'[t]) = n
      PROVE  Building(t)' = Building(t) \cap 1..n
  BY <1>3, <1>4, <1>5
<1>6. ASSUME Len(stack'[t]) = n + 1
      PROVE  Building(t)' = (Building(t) \cap 1..n) \cup
                (IF stack'[t][n + 1].phase = "factory" THEN {n + 1} ELSE {})
  <2>1. 1..n + 1 = (1..n) \cup {n + 1}
    BY <1>1
  <2> QED
    BY <1>3, <1>4, <1>6, <2>1
<1> QED
  BY <1>2, <1>5, <1>6

LEMMA BuildingUpTo ==
    ASSUME TypeOK, NEW t \in Thread
    PROVE  /\ Building(t) \cap 1..Len(stack[t]) = Building(t)
           /\ Len(stack[t]) > 0 =>
                 Building(t) \cap 1..Len(stack[t]) - 1 = Building(t) \ {Len(stack[t])}
<1>1. Len(stack[t]) \in Nat
  BY CallType
<1> QED
  BY <1>1 DEF Building

LEMMA AdvancedBuilding ==
    ASSUME TypeOK, NEW t \in Thread, NEW phase, Advanced(t, phase)
    PROVE  /\ \A u \in Thread \ {t} : Building(u)' = Building(u)
           /\ Building(t)' = IF phase = "factory" THEN Building(t) \cup {Len(stack[t])}
                             ELSE Building(t) \ {Len(stack[t])}
<1> DEFINE n == Len(stack[t]) - 1
<1>1. Len(stack[t]) \in Nat /\ Len(stack[t]) > 0 /\ Kept(t, n) /\ Len(stack'[t]) = Len(stack[t])
  BY CallType DEF Advanced
<1>2. n \in 0..Len(stack[t]) /\ Len(stack[t]) = n + 1 /\ Len(stack'[t]) = n + 1
  BY <1>1
<1>3. stack'[t][n + 1].phase = phase
  BY <1>2 DEF Advanced
<1>4. Building(t) \cap 1..n = Building(t) \ {Len(stack[t])}
  BY <1>1, BuildingUpTo
<1> HIDE DEF n
<1>5. /\ \A u \in Thread \ {t} : Building(u)' = Building(u)
      /\ Building(t)' = (Building(t) \cap 1..n) \cup
                    (IF stack'[t][n + 1].phase = "factory" THEN {n + 1} ELSE {})
  BY <1>1, <1>2, KeptBuilding
<1> QED
  BY <1>2, <1>3, <1>4, <1>5

LEMMA PoppedBuilding ==
    ASSUME TypeOK, NEW t \in Thread, Popped(t)
    PROVE  /\ \A u \in Thread \ {t} : Building(u)' = Building(u)
           /\ Building(t)' = Building(t) \ {Len(stack[t])}
<1> DEFINE n == Len(stack[t]) - 1
<1>1. Len(stack[t]) \in Nat /\ Len(stack[t]) > 0 /\ Kept(t, n) /\ Len(stack'[t]) = n
  BY CallType DEF Popped
<1>2. n \in 0..Len(stack[t])
  BY <1>1
<1>4. Building(t) \cap 1..n = Building(t) \ {Len(stack[t])}
  BY <1>1, BuildingUpTo
<1> HIDE DEF n
<1> QED
  BY <1>1, <1>2, <1>4, KeptBuilding

\* What a step does to the stack of a thread and to _resolving at once.
Grown(t) ==
    /\ Len(stack[t]) \notin Building(t) /\ Len(stack[t]) \in 1..MaxDepth
    /\ Building(t)' = Building(t) \cup {Len(stack[t])}
    /\ resolving' = Append(resolving, Top(t).contract)

Shrunk(t) ==
    /\ Len(stack[t]) \in Building(t)
    /\ Building(t)' = Building(t) \ {Len(stack[t])}
    /\ resolving' = Front(resolving)

Same(t) == Building(t)' = Building(t) /\ UNCHANGED resolving

\* What a step does to the calls there were, and to _resolving.
Moved(t) ==
    /\ stack' \in [Thread -> Seq(Call)]
    /\ \A u \in Thread \ {t} : stack'[u] = stack[u] /\ Building(u)' = Building(u)
    /\ \A i \in Building(t)' : i \in 1..Len(stack[t])
    /\ \A i \in Building(t)' : stack'[t][i].contract = stack[t][i].contract
    /\ Grown(t) \/ Shrunk(t) \/ Same(t)

LEMMA TopBuilding ==
    ASSUME TypeOK, Nested, NEW t \in Thread, ~Idle(t)
    PROVE  /\ Len(stack[t]) \in 1..MaxDepth /\ Len(stack[t]) \in 1..Len(stack[t])
           /\ Len(stack[t]) \in Building(t) <=> Top(t).phase = "factory"
<1>1. Len(stack[t]) \in 1..Len(stack[t]) /\ Top(t) = stack[t][Len(stack[t])]
  BY TopType
<1>2. Len(stack[t]) <= MaxDepth
  BY DEF Nested
<1> QED
  BY <1>1, <1>2, ContainerAssumption, CallType DEF Building

LEMMA MovedByFind ==
    ASSUME TypeOK, NEW t \in Thread, NEW c \in Contract, FindCached(t, c) \/ FindNone(t, c)
    PROVE  Moved(t) /\ Same(t)
<1>1. Kept(t, Len(stack[t])) /\ UNCHANGED resolving
  BY FoundCached, Found DEF FindCached, FindNone
<1>2. \/ Len(stack'[t]) = Len(stack[t])
      \/ /\ Len(stack'[t]) = Len(stack[t]) + 1
         /\ stack'[t][Len(stack[t]) + 1].phase = "found"
  BY FoundCached, Found DEF FindCached
<1>3. Len(stack[t]) \in 0..Len(stack[t]) /\ Building(t) \cap 1..Len(stack[t]) = Building(t)
  BY CallType, BuildingUpTo
<1>4. Building(t)' = Building(t) /\ \A u \in Thread \ {t} : Building(u)' = Building(u)
  BY <1>1, <1>2, <1>3, KeptBuilding
<1>5. \A i \in Building(t) : i \in 1..Len(stack[t])
  BY DEF Building
<1> QED
  BY <1>1, <1>4, <1>5 DEF Moved, Same, Kept, SameUse

LEMMA MovedByAdvance ==
    ASSUME TypeOK, Nested, NEW t \in Thread, NEW phase, Advanced(t, phase), ~Idle(t),
           \/ /\ phase = "factory" /\ Top(t).phase = "found"
              /\ resolving' = Append(resolving, Top(t).contract)
           \/ /\ phase = "built" /\ Top(t).phase = "factory"
              /\ resolving' = Front(resolving)
    PROVE  Moved(t)
<1>1. /\ \A u \in Thread \ {t} : Building(u)' = Building(u)
      /\ Building(t)' = IF phase = "factory" THEN Building(t) \cup {Len(stack[t])}
                        ELSE Building(t) \ {Len(stack[t])}
  BY AdvancedBuilding
<1>2. Grown(t) \/ Shrunk(t)
  BY <1>1, TopBuilding DEF Grown, Shrunk
<1>3. \A i \in Building(t)' : i \in 1..Len(stack[t])
  BY <1>1, TopBuilding DEF Building
<1>4. \A i \in 1..Len(stack[t]) : stack'[t][i].contract = stack[t][i].contract
  <2>1. /\ \A i \in 1..Len(stack[t]) - 1 : stack'[t][i].contract = stack[t][i].contract
        /\ stack'[t][Len(stack[t])].contract = Top(t).contract
    BY DEF Advanced, Kept, SameUse
  <2> QED
    BY <2>1, TopType, CallType
<1>5. stack' \in [Thread -> Seq(Call)] /\ \A u \in Thread \ {t} : stack'[u] = stack[u]
  BY DEF Advanced, Kept
<1> QED
  BY <1>1, <1>2, <1>3, <1>4, <1>5 DEF Moved

LEMMA MovedByPop ==
    ASSUME TypeOK, Nested, NEW t \in Thread, Popped(t), ~Idle(t),
           resolving' = IF Top(t).phase = "factory" THEN Front(resolving) ELSE resolving
    PROVE  Moved(t)
<1>1. /\ \A u \in Thread \ {t} : Building(u)' = Building(u)
      /\ Building(t)' = Building(t) \ {Len(stack[t])}
  BY PoppedBuilding
<1>2. Shrunk(t) \/ Same(t)
  BY <1>1, TopBuilding DEF Same, Shrunk
<1>3. \A i \in Building(t)' : i \in 1..Len(stack[t]) /\ i \in 1..Len(stack[t]) - 1
  BY <1>1, CallType DEF Building
<1>4. \A i \in 1..Len(stack[t]) - 1 : stack'[t][i].contract = stack[t][i].contract
  BY DEF Popped, Kept, SameUse
<1>5. stack' \in [Thread -> Seq(Call)] /\ \A u \in Thread \ {t} : stack'[u] = stack[u]
  BY DEF Popped, Kept
<1> QED
  BY <1>1, <1>2, <1>3, <1>4, <1>5 DEF Moved

LEMMA BalancedByMove ==
    ASSUME TypeOK, Nested, Balanced, NEW t \in Thread, Moved(t)
    PROVE  Balanced'
<1>1. \A u \in Thread \ {t} : Building(u)' = Building(u)
  BY DEF Moved
<1>2. resolving \in Seq(Contract) /\ Len(resolving) \in Nat
  BY DEF TypeOK
<1>3. CASE Same(t)
  BY <1>1, <1>3, SameFactories DEF Same, Balanced
<1>4. CASE Grown(t)
  <2>1. Cardinality(Factories') = Cardinality(Factories) + 1
    BY <1>1, <1>4, OneFactoryMore DEF Grown
  <2>2. Len(resolving') = Len(resolving) + 1
    BY <1>2, <1>4 DEF Grown
  <2> QED
    BY <2>1, <2>2 DEF Balanced
<1>5. CASE Shrunk(t)
  <2>1. Cardinality(Factories') = Cardinality(Factories) - 1
    BY <1>1, <1>5, OneFactoryLess DEF Shrunk
  <2>2. Cardinality(Factories) # 0
    <3>1. <<t, Len(stack[t])>> \in Factories
      BY <1>5, BuildingIn DEF Shrunk, Factories
    <3> QED
      BY <3>1, FactoriesFinite, FS_EmptySet
  <2>3. Len(resolving) > 0
    BY <1>2, <2>2 DEF Balanced
  <2>4. Len(resolving') = Len(resolving) - 1
    BY <1>2, <1>5, <2>3, FrontOf DEF Shrunk
  <2> QED
    BY <2>1, <2>4 DEF Balanced
<1> QED
  BY <1>3, <1>4, <1>5 DEF Moved

LEMMA AloneByMove ==
    ASSUME TypeOK, Nested, Alone, ~overlapped, NEW t \in Thread, t \in Busy, Moved(t)
    PROVE  /\ Building(t)' = 1..Len(resolving')
           /\ \A i \in Building(t)' : resolving'[i] = stack'[t][i].contract
<1> DEFINE n == Len(stack[t])
           L == Len(resolving)
<1>1. /\ resolving \in Seq(Contract) /\ L \in Nat
      /\ n \in Nat /\ n > 0 /\ n \in 1..n /\ Top(t) = stack[t][n] /\ Top(t).contract \in Contract
  BY TopType, CallType DEF TypeOK, Busy
<1>2. Building(t) = 1..L /\ \A i \in Building(t) : resolving[i] = stack[t][i].contract
  BY DEF Alone
<1>3. \A i \in Building(t)' : stack'[t][i].contract = stack[t][i].contract
  BY DEF Moved
<1>4. Building(t) \subseteq 1..n
  BY BuildingIn
<1>5. CASE Same(t)
  BY <1>2, <1>3, <1>5 DEF Same
<1>6. CASE Grown(t)
  <2>1. n \notin 1..L
    BY <1>2, <1>6 DEF Grown
  <2>2. \A i \in 1..n - 1 : i \in 1..L
    <3>1. \A i \in 1..n - 1 : i \in 1..Len(stack[t]) /\ i < Len(stack[t])
      BY <1>1
    <3> QED
      BY <1>2, <3>1 DEF Nested, Building
  <2>3. L = n - 1
    <3>1. L < n
      BY <1>1, <2>1
    <3>2. n - 1 > 0 => n - 1 \in 1..L
      BY <1>1, <2>2
    <3> QED
      BY <1>1, <3>1, <3>2
  <2>4. resolving' = Append(resolving, Top(t).contract) /\ Building(t)' = Building(t) \cup {n}
    BY <1>6 DEF Grown
  <2>5. /\ Len(resolving') = n /\ resolving'[n] = Top(t).contract
        /\ \A i \in 1..L : resolving'[i] = resolving[i]
    BY <1>1, <2>3, <2>4
  <2>6. Building(t)' = 1..n
    BY <1>1, <1>2, <2>3, <2>4
  <2> HIDE DEF n, L
  <2>7. \A i \in 1..n : resolving'[i] = stack[t][i].contract
    BY <1>1, <1>2, <2>3, <2>5
  <2> QED
    BY <1>3, <2>5, <2>6, <2>7
<1>7. CASE Shrunk(t)
  <2>1. n \in 1..L /\ (\A i \in 1..L : i \in 1..n)
    BY <1>2, <1>4, <1>7 DEF Shrunk
  <2>2. L = n
    <3>1. L >= n /\ L \in 1..L
      BY <1>1, <2>1
    <3>2. L \in 1..n
      BY <2>1, <3>1
    <3> QED
      BY <1>1, <3>1, <3>2
  <2>3. resolving' = Front(resolving) /\ Building(t)' = Building(t) \ {n}
    BY <1>7 DEF Shrunk
  <2>4. Len(resolving') = n - 1 /\ \A i \in 1..n - 1 : resolving'[i] = resolving[i]
    BY <1>1, <2>2, <2>3, FrontOf
  <2>5. Building(t)' = 1..n - 1 /\ \A i \in 1..n - 1 : i \in 1..L
    BY <1>1, <1>2, <2>2, <2>3
  <2> QED
    BY <1>2, <1>3, <2>4, <2>5
<1> QED
  BY <1>5, <1>6, <1>7 DEF Moved

LEMMA MoveOf ==
    ASSUME TypeOK, Nested, [Next]_vars
    PROVE  \/ UNCHANGED <<stack, resolving>>
           \/ \E t \in Thread : Moved(t)
<1>1. ASSUME \/ \E g \in Registrable : Register(g)
             \/ \E c \in Contract : RegisterInstance(c) \/ Unregister(c)
             \/ \E t \in Thread : ExitScope(t) \/ FindMissing(t) \/ FactoryRaises(t)
             \/ UNCHANGED vars
      PROVE  UNCHANGED <<stack, resolving>>
  BY <1>1 DEF Register, RegisterInstance, Unregister, Changed, ExitScope, FindMissing,
              FactoryRaises, vars
<1>2. ASSUME NEW t \in Thread, Enter(t)
      PROVE  UNCHANGED <<stack, resolving>> \/ Moved(t)
  BY <1>2, Entered, MovedByAdvance
<1>3. ASSUME NEW t \in Thread, Leave(t)
      PROVE  Moved(t)
  BY <1>3, Left, MovedByAdvance
<1>4. ASSUME NEW t \in Thread, Return(t)
      PROVE  Moved(t)
  <2>1. UNCHANGED resolving
    BY <1>4 DEF Return
  <2> QED
    BY <1>4, <2>1, Returned, MovedByPop
<1>5. ASSUME NEW t \in Thread, Unwind(t)
      PROVE  Moved(t)
  BY <1>5, Unwound, MovedByPop
<1>6. ASSUME NEW t \in Thread, NEW c \in Contract, FindCached(t, c) \/ FindNone(t, c)
      PROVE  Moved(t)
  BY <1>6, MovedByFind
<1> QED
  BY <1>1, <1>2, <1>3, <1>4, <1>5, <1>6 DEF Next

LEMMA BalancedStep ==
    ASSUME TypeOK, Nested, Balanced, [Next]_vars
    PROVE  Balanced'
<1>1. CASE UNCHANGED <<stack, resolving>>
  <2>1. \A u \in Thread : Building(u)' = Building(u)
    BY <1>1 DEF Building
  <2> QED
    BY <1>1, <2>1, SameFactories DEF Balanced
<1> QED
  BY <1>1, MoveOf, BalancedByMove

\* A step of the only busy thread.
LEMMA AloneStays ==
    ASSUME TypeOK, Nested, Alone, ~overlapped, NEW t \in Thread, t \in Busy, Moved(t)
    PROVE  Alone'
<1>1. \A u \in Busy : u = t
  BY DEF Alone
<1>2. \A u \in Busy' : u = t
  BY <1>1 DEF Moved, Busy, Idle
<1> QED
  BY <1>2, AloneByMove DEF Alone

LEMMA IdleBuilding ==
    ASSUME NEW t \in Thread, Idle(t)
    PROVE  Building(t) = {}
BY EmptySeq DEF Idle, Building

LEMMA IdleBalanced ==
    ASSUME TypeOK, Balanced, Busy = {}
    PROVE  Len(resolving) = 0
<1>1. \A t \in Thread : Building(t) = {}
  BY IdleBuilding DEF Busy
<1>2. Factories = {}
  BY <1>1 DEF Factories
<1> QED
  BY <1>2, FS_EmptySet DEF Balanced

LEMMA LastCallOfAll ==
    ASSUME TypeOK, NEW t \in Thread, Popped(t), ~Idle(t),
           ~(Front(stack[t]) # <<>> \/ Busy # {t})
    PROVE  Busy' = {}
<1>1. stack[t] \in Seq(Call) /\ Len(stack[t]) \in Nat
  BY CallType
<1>2. Len(stack'[t]) = Len(stack[t]) - 1 /\ Len(stack[t]) > 0
  BY DEF Popped
<1>3. Len(Front(stack[t])) = Len(stack[t]) - 1 /\ Len(Front(stack[t])) = 0
  BY <1>1, <1>2, FrontOf
<1>4. Len(stack'[t]) = 0 /\ stack'[t] \in Seq(Call)
  BY <1>2, <1>3 DEF Popped, Kept
<1>5. stack'[t] = <<>>
  BY <1>4
<1>6. \A u \in Thread \ {t} : stack'[u] = <<>>
  BY DEF Popped, Kept, Busy, Idle
<1> QED
  BY <1>5, <1>6 DEF Busy, Idle

LEMMA AloneStep ==
    ASSUME TypeOK, Nested, Balanced, Alone, [Next]_vars
    PROVE  Alone'
<1> SUFFICES ASSUME overlapped' = FALSE
             PROVE  Alone'
  <2>1. CASE overlapped'
    BY <2>1 DEF Alone
  <2>2. CASE ~overlapped'
    <3>1. overlapped' = FALSE
      BY <2>2, TypeStep DEF TypeOK
    <3> QED
      BY <3>1
  <2> QED
    BY <2>1, <2>2
<1>0. \A t \in Thread : ~Idle(t) => t \in Busy
  BY DEF Busy
<1>1. ASSUME UNCHANGED <<stack, resolving, overlapped>>
      PROVE  Alone'
  BY <1>1 DEF Alone, Busy, Idle, Building
<1>2. ASSUME \/ \E g \in Registrable : Register(g)
             \/ \E c \in Contract : RegisterInstance(c) \/ Unregister(c)
             \/ \E t \in Thread : ExitScope(t) \/ FindMissing(t) \/ FactoryRaises(t)
             \/ UNCHANGED vars
      PROVE  UNCHANGED <<stack, resolving, overlapped>>
  BY <1>2 DEF Register, RegisterInstance, Unregister, Changed, ExitScope, FindMissing,
              FactoryRaises, vars
<1>3. ASSUME NEW t \in Thread, Enter(t)
      PROVE  Alone'
  <2>1. UNCHANGED overlapped
    BY <1>3 DEF Enter
  <2>2. UNCHANGED <<stack, resolving>> \/ Moved(t)
    BY <1>3, Entered, MovedByAdvance
  <2>3. t \in Busy /\ ~overlapped
    BY <1>0, <1>3, <2>1, Entered
  <2> QED
    BY <1>1, <2>1, <2>2, <2>3, AloneStays
<1>4. ASSUME NEW t \in Thread, Leave(t)
      PROVE  Alone'
  <2>1. UNCHANGED overlapped
    BY <1>4 DEF Leave
  <2>2. t \in Busy /\ ~overlapped
    BY <1>0, <1>4, <2>1, Left
  <2> QED
    BY <1>4, <2>2, Left, MovedByAdvance, AloneStays
<1>5. ASSUME NEW t \in Thread, Return(t) \/ Unwind(t)
      PROVE  Alone'
  <2>1. ~Idle(t) /\ Popped(t) /\ Moved(t)
    <3>1. Return(t) => UNCHANGED resolving /\ Top(t).phase # "factory"
      BY DEF Return
    <3> QED
      BY <1>5, <3>1, Returned, Unwound, MovedByPop
  <2>2. overlapped' = (overlapped /\ (Front(stack[t]) # <<>> \/ Busy # {t}))
    BY <1>5 DEF Return, Unwind
  <2>3. CASE ~overlapped
    BY <1>0, <2>1, <2>3, AloneStays
  <2>4. CASE overlapped
    <3>1. Busy' = {}
      BY <2>1, <2>2, <2>4, LastCallOfAll
    <3> QED
      BY <3>1 DEF Alone
  <2> QED
    BY <2>3, <2>4
<1>6. ASSUME NEW t \in Thread, NEW c \in Contract, FindCached(t, c)
      PROVE  Alone'
  <2>1. UNCHANGED <<overlapped, resolving>> /\ stack' = [stack EXCEPT ![t] = Resumed(@)]
    BY <1>6 DEF FindCached
  <2>2. Moved(t) /\ Same(t)
    BY <1>6, MovedByFind
  <2>3. CASE t \in Busy
    BY <2>1, <2>2, <2>3, AloneStays
  <2>4. CASE t \notin Busy
    <3>1. stack[t] = <<>>
      BY <2>4 DEF Busy, Idle
    <3>2. stack' = stack
      BY <2>1, <3>1 DEF Resumed, TypeOK
    <3> QED
      BY <1>1, <2>1, <3>2
  <2> QED
    BY <2>3, <2>4
<1>7. ASSUME NEW t \in Thread, NEW c \in Contract, FindNone(t, c)
      PROVE  Alone'
  <2>1. ~overlapped /\ Busy \ {t} = {} /\ UNCHANGED resolving
    BY <1>7 DEF FindNone, Overlap
  <2>2. Moved(t) /\ Same(t)
    BY <1>7, MovedByFind
  <2>3. CASE t \in Busy
    BY <2>1, <2>2, <2>3, AloneStays
  <2>4. CASE t \notin Busy
    <3>1. Busy = {} /\ Idle(t)
      BY <2>1, <2>4 DEF Busy
    <3>2. Len(resolving) = 0 /\ Building(t)' = {}
      BY <2>2, <3>1, IdleBalanced, IdleBuilding DEF Same
    <3>3. \A u \in Busy' : u = t
      BY <2>2, <3>1 DEF Moved, Busy, Idle
    <3>4. Building(t)' = 1..Len(resolving')
      BY <2>1, <3>2
    <3> QED
      BY <3>2, <3>3, <3>4 DEF Alone
  <2> QED
    BY <2>3, <2>4
<1> QED
  BY <1>1, <1>2, <1>3, <1>4, <1>5, <1>6, <1>7 DEF Next

-----------------------------------------------------------------------------
(* The singletons.                                                         *)

\* No call is added, and those that stay are about what they were about.
Fewer ==
    \A u \in Thread : \A i \in 1..Len(stack'[u]) :
        i \in 1..Len(stack[u]) /\ SameUse(stack'[u][i], stack[u][i])

\* No instance is made.
NoneMade ==
    \A u \in Thread : \A i \in 1..Len(stack'[u]) :
        stack'[u][i].made # None =>
            /\ i \in 1..Len(stack[u]) /\ SameUse(stack'[u][i], stack[u][i])
            /\ stack'[u][i].made = stack[u][i].made

LEMMA FewerUnchanged ==
    ASSUME UNCHANGED stack
    PROVE  Fewer /\ NoneMade
BY SameUseReflexive DEF Fewer, NoneMade

LEMMA FewerKept ==
    ASSUME TypeOK, NEW t \in Thread, NEW n \in 0..Len(stack[t]), Kept(t, n)
    PROVE  /\ Len(stack'[t]) = n => Fewer /\ NoneMade
           /\ Len(stack'[t]) = n + 1 =>
                 /\ /\ n + 1 = Len(stack[t])
                    /\ SameUse(stack'[t][n + 1], stack[t][n + 1])
                    => Fewer
                 /\ \/ stack'[t][n + 1].made = None
                    \/ /\ n + 1 = Len(stack[t])
                       /\ SameUse(stack'[t][n + 1], stack[t][n + 1])
                       /\ stack'[t][n + 1].made = stack[t][n + 1].made
                    => NoneMade
<1>1. n \in Nat /\ \A i \in 1..n : i \in 1..Len(stack[t])
  BY CallType
<1>2. \A i \in 1..n + 1 : i \in 1..n \/ i = n + 1
  BY <1>1
<1>3. ASSUME NEW u \in Thread, u # t, NEW i \in 1..Len(stack'[u])
      PROVE  /\ i \in 1..Len(stack[u]) /\ SameUse(stack'[u][i], stack[u][i])
             /\ stack'[u][i].made = stack[u][i].made
  BY <1>3, SameUseReflexive DEF Kept
<1>4. ASSUME NEW i \in 1..n
      PROVE  /\ i \in 1..Len(stack[t]) /\ SameUse(stack'[t][i], stack[t][i])
             /\ stack'[t][i].made = stack[t][i].made
  BY <1>1 DEF Kept
<1>5. n + 1 = Len(stack[t]) => n + 1 \in 1..Len(stack[t])
  BY <1>1
<1> QED
  BY <1>2, <1>3, <1>4, <1>5 DEF Fewer, NoneMade

LEMMA FewerAdvanced ==
    ASSUME TypeOK, NEW t \in Thread, NEW phase, Advanced(t, phase)
    PROVE  /\ Fewer
           /\ stack'[t][Len(stack[t])].made = Top(t).made => NoneMade
<1> DEFINE n == Len(stack[t]) - 1
<1>1. Len(stack[t]) \in Nat /\ Len(stack[t]) > 0 /\ Kept(t, n) /\ Len(stack'[t]) = Len(stack[t])
  BY CallType DEF Advanced
<1>2. n \in 0..Len(stack[t]) /\ n + 1 = Len(stack[t]) /\ Len(stack'[t]) = n + 1
  BY <1>1
<1>3. Top(t) = stack[t][n + 1] /\ SameUse(stack'[t][n + 1], stack[t][n + 1])
  BY <1>2 DEF Advanced, Top, Last
<1> HIDE DEF n
<1>4. Fewer
  BY <1>1, <1>2, <1>3, FewerKept
<1>5. stack'[t][Len(stack[t])].made = Top(t).made => NoneMade
  BY <1>1, <1>2, <1>3, FewerKept
<1> QED
  BY <1>4, <1>5

LEMMA FewerPopped ==
    ASSUME TypeOK, NEW t \in Thread, Popped(t)
    PROVE  Fewer /\ NoneMade
<1> DEFINE n == Len(stack[t]) - 1
<1>1. Len(stack[t]) \in Nat /\ Len(stack[t]) > 0 /\ Kept(t, n) /\ Len(stack'[t]) = n
  BY CallType DEF Popped
<1>2. n \in 0..Len(stack[t])
  BY <1>1
<1> HIDE DEF n
<1> QED
  BY <1>1, <1>2, FewerKept

LEMMA FewerCached ==
    ASSUME TypeOK, NEW t \in Thread, NEW c \in Contract, FindCached(t, c)
    PROVE  Fewer /\ NoneMade
<1>1. Kept(t, Len(stack[t])) /\ Len(stack'[t]) = Len(stack[t])
  BY FoundCached DEF FindCached
<1>2. Len(stack[t]) \in 0..Len(stack[t])
  BY CallType
<1> QED
  BY <1>1, <1>2, FewerKept

LEMMA NoneMadeFound ==
    ASSUME TypeOK, NEW t \in Thread, NEW c \in Contract, FindNone(t, c)
    PROVE  NoneMade
<1>1. /\ Kept(t, Len(stack[t])) /\ Len(stack'[t]) = Len(stack[t]) + 1
      /\ stack'[t][Len(stack[t]) + 1].made = None
  BY Found
<1>2. Len(stack[t]) \in 0..Len(stack[t])
  BY CallType
<1> QED
  BY <1>1, <1>2, FewerKept

LEMMA SoleFewer ==
    ASSUME Sole, Fewer,
           \A c \in Contract \ contended' :
              \/ /\ c \notin contended
                 /\ registrations'[c] = registrations[c] /\ singletons'[c] = singletons[c]
              \/ \A u \in Thread : \A i \in 1..Len(stack'[u]) : stack'[u][i].contract # c
    PROVE  Sole'
<1> SUFFICES ASSUME NEW c \in Contract \ contended', NEW t \in Thread,
                    NEW i \in 1..Len(stack'[t]), stack'[t][i].contract = c
             PROVE  /\ stack'[t][i].registration = registrations'[c]
                    /\ stack'[t][i].registration.lifetime = "singleton" =>
                          singletons'[c] = None
                    /\ \A u \in Thread : \A j \in 1..Len(stack'[u]) :
                          stack'[u][j].contract = c => u = t /\ j = i
  BY DEF Sole
<1>1. c \notin contended /\ registrations'[c] = registrations[c] /\ singletons'[c] = singletons[c]
  OBVIOUS
<1>2. i \in 1..Len(stack[t]) /\ SameUse(stack'[t][i], stack[t][i])
  BY DEF Fewer
<1>3. /\ stack[t][i].registration = registrations[c]
      /\ stack[t][i].registration.lifetime = "singleton" => singletons[c] = None
      /\ \A u \in Thread : \A j \in 1..Len(stack[u]) :
            stack[u][j].contract = c => u = t /\ j = i
  BY <1>1, <1>2 DEF Sole, SameUse
<1>4. ASSUME NEW u \in Thread, NEW j \in 1..Len(stack'[u]), stack'[u][j].contract = c
      PROVE  u = t /\ j = i
  <2>1. j \in 1..Len(stack[u]) /\ stack[u][j].contract = c
    BY <1>4 DEF Fewer, SameUse
  <2> QED
    BY <1>3, <2>1
<1> QED
  BY <1>1, <1>2, <1>3, <1>4 DEF SameUse

LEMMA SoleChanged ==
    ASSUME TypeOK, Sole, NEW c \in Contract, NEW forgotten, Changed(c, forgotten),
           \A d \in Contract \ {c} :
              registrations'[d] = registrations[d] /\ singletons'[d] = singletons[d]
    PROVE  Sole'
<1>1. UNCHANGED stack /\ (InFlight(c) => c \in contended')
      /\ \A d \in Contract \ {c} : d \in contended' <=> d \in contended
  BY DEF Changed
<1>2. c \notin contended' =>
        \A u \in Thread : \A i \in 1..Len(stack'[u]) : stack'[u][i].contract # c
  BY <1>1 DEF InFlight, Resolves
<1> QED
  BY <1>1, <1>2, FewerUnchanged, SoleFewer

LEMMA SoleFound ==
    ASSUME TypeOK, Sole, NEW t \in Thread, NEW c \in Contract, FindNone(t, c)
    PROVE  Sole'
<1> DEFINE n == Len(stack[t])
<1>1. /\ Kept(t, n) /\ Len(stack'[t]) = n + 1
      /\ stack'[t][n + 1].contract = c /\ stack'[t][n + 1].registration = registrations[c]
      /\ stack'[t][n + 1].registration.lifetime = "singleton" => singletons[c] = None
  BY Found
<1>2. /\ contended' = IF InFlight(c) THEN contended \cup {c} ELSE contended
      /\ UNCHANGED <<registrations, singletons>>
  BY DEF FindNone
<1>3. n \in Nat
  BY CallType
<1> HIDE DEF n
<1>4. ASSUME NEW u \in Thread, NEW i \in 1..Len(stack'[u])
      PROVE  \/ i \in 1..Len(stack[u]) /\ SameUse(stack'[u][i], stack[u][i])
             \/ u = t /\ i = n + 1
  <2>1. CASE u # t
    BY <1>1, <2>1, SameUseReflexive DEF Kept
  <2>2. CASE u = t /\ i \in 1..n
    BY <1>1, <2>2 DEF Kept, n
  <2> QED
    BY <1>1, <1>3, <2>1, <2>2
<1> SUFFICES ASSUME NEW d \in Contract \ contended', NEW v \in Thread,
                    NEW i \in 1..Len(stack'[v]), stack'[v][i].contract = d
             PROVE  /\ stack'[v][i].registration = registrations[d]
                    /\ stack'[v][i].registration.lifetime = "singleton" =>
                          singletons[d] = None
                    /\ \A u \in Thread : \A j \in 1..Len(stack'[u]) :
                          stack'[u][j].contract = d => u = v /\ j = i
  BY <1>2 DEF Sole
<1>5. d \notin contended /\ (d = c => ~InFlight(c))
  BY <1>2
<1>6. CASE d = c
  <2>1. ASSUME NEW u \in Thread, NEW j \in 1..Len(stack'[u]), stack'[u][j].contract = c
        PROVE  u = t /\ j = n + 1
    BY <1>4, <1>5, <1>6, <2>1 DEF InFlight, Resolves, SameUse
  <2>2. v = t /\ i = n + 1
    BY <1>6, <2>1
  <2> QED
    BY <1>1, <1>6, <2>1, <2>2
<1>7. CASE d # c
  <2>1. ASSUME NEW u \in Thread, NEW j \in 1..Len(stack'[u]), stack'[u][j].contract = d
        PROVE  /\ j \in 1..Len(stack[u]) /\ stack[u][j].contract = d
               /\ SameUse(stack'[u][j], stack[u][j])
    BY <1>1, <1>4, <1>7, <2>1 DEF SameUse
  <2>2. /\ i \in 1..Len(stack[v]) /\ stack[v][i].contract = d
        /\ SameUse(stack'[v][i], stack[v][i])
    BY <2>1
  <2>3. /\ stack[v][i].registration = registrations[d]
        /\ stack[v][i].registration.lifetime = "singleton" => singletons[d] = None
        /\ \A u \in Thread : \A j \in 1..Len(stack[u]) :
              stack[u][j].contract = d => u = v /\ j = i
    BY <1>5, <2>2 DEF Sole
  <2> QED
    BY <2>1, <2>2, <2>3 DEF SameUse
<1> QED
  BY <1>6, <1>7

\* When a call that was built returns, no other one is about its contract.
LEMMA SoleReturn ==
    ASSUME TypeOK, Sole, NEW t \in Thread, Return(t)
    PROVE  /\ Sole'
           /\ Top(t).contract \notin contended =>
                 /\ Top(t).registration = registrations[Top(t).contract]
                 /\ Top(t).registration.lifetime = "singleton" =>
                       singletons[Top(t).contract] = None
<1> DEFINE c == Top(t).contract
           n == Len(stack[t])
<1>1. ~Idle(t) /\ Popped(t) /\ Top(t).made \in Instance
  BY Returned
<1>2. c \in Contract /\ n \in 1..n /\ Top(t) = stack[t][n] /\ n \in Nat
  BY <1>1, TopType
<1>3. /\ UNCHANGED <<registrations, contended>>
      /\ singletons' \in {singletons, [singletons EXCEPT ![c] = Top(t).made]}
  BY DEF Return
<1>4. Fewer
  BY <1>1, FewerPopped
<1>5. \A d \in Contract \ {c} : singletons'[d] = singletons[d]
  BY <1>3 DEF TypeOK
<1>6. ASSUME c \notin contended
      PROVE  /\ Top(t).registration = registrations[c]
             /\ Top(t).registration.lifetime = "singleton" => singletons[c] = None
             /\ \A u \in Thread : \A j \in 1..Len(stack[u]) :
                   stack[u][j].contract = c => u = t /\ j = n
  BY <1>2, <1>6 DEF Sole
<1>7. ASSUME c \notin contended, NEW u \in Thread, NEW j \in 1..Len(stack'[u]),
             stack'[u][j].contract = c
      PROVE  FALSE
  <2>1. j \in 1..Len(stack[u]) /\ stack[u][j].contract = c
    BY <1>4, <1>7 DEF Fewer, SameUse
  <2>2. u = t /\ j = n
    BY <1>6, <1>7, <2>1
  <2>3. j \in 1..n - 1
    BY <1>1, <1>7, <2>2 DEF Popped
  <2> QED
    BY <1>2, <2>2, <2>3
<1>8. Sole'
  BY <1>3, <1>4, <1>5, <1>7, SoleFewer
<1> QED
  BY <1>6, <1>8

LEMMA SoleStep ==
    ASSUME TypeOK, Nested, Sole, [Next]_vars
    PROVE  Sole'
<1>1. ASSUME UNCHANGED <<registrations, singletons, contended>>, Fewer
      PROVE  Sole'
  BY <1>1, SoleFewer
<1>2. ASSUME \/ UNCHANGED vars
             \/ \E t \in Thread : ExitScope(t) \/ FindMissing(t) \/ FactoryRaises(t)
      PROVE  UNCHANGED <<registrations, singletons, contended>> /\ Fewer
  <2>1. UNCHANGED <<registrations, singletons, contended, stack>>
    BY <1>2 DEF vars, ExitScope, FindMissing, FactoryRaises
  <2> QED
    BY <2>1, FewerUnchanged
<1>3. ASSUME NEW t \in Thread, Enter(t) \/ Leave(t) \/ Unwind(t)
      PROVE  UNCHANGED <<registrations, singletons, contended>> /\ Fewer
  <2>1. UNCHANGED <<registrations, singletons, contended>>
    BY <1>3 DEF Enter, Leave, Unwind
  <2>2. Fewer
    BY <1>3, Entered, Left, Unwound, FewerAdvanced, FewerPopped, FewerUnchanged
  <2> QED
    BY <2>1, <2>2
<1>4. ASSUME NEW t \in Thread, NEW c \in Contract, FindCached(t, c)
      PROVE  UNCHANGED <<registrations, singletons, contended>> /\ Fewer
  BY <1>4, FewerCached DEF FindCached
<1>5. ASSUME NEW g \in Registrable, Register(g)
      PROVE  Sole'
  <2>1. /\ g.contract \in Contract /\ Changed(g.contract, FALSE) /\ UNCHANGED singletons
        /\ Registered(g.contract, g.lifetime, g.needs)
    BY <1>5, ContainerAssumption DEF Register
  <2>2. \A d \in Contract \ {g.contract} : registrations'[d] = registrations[d]
    BY <2>1 DEF Registered, TypeOK
  <2> QED
    BY <2>1, <2>2, SoleChanged
<1>6. ASSUME NEW c \in Contract, RegisterInstance(c)
      PROVE  Sole'
  <2>1. /\ Changed(c, TRUE) /\ Registered(c, "singleton", <<>>)
        /\ singletons' = [singletons EXCEPT ![c] = [serial |-> built + 1, by |-> changes + 1]]
    BY <1>6 DEF RegisterInstance
  <2>2. \A d \in Contract \ {c} :
          registrations'[d] = registrations[d] /\ singletons'[d] = singletons[d]
    BY <2>1 DEF Registered, TypeOK
  <2> QED
    BY <2>1, <2>2, SoleChanged
<1>7. ASSUME NEW c \in Contract, Unregister(c)
      PROVE  Sole'
  <2>1. /\ Changed(c, TRUE) /\ registrations' = [registrations EXCEPT ![c] = Unregistered]
        /\ singletons' = [singletons EXCEPT ![c] = None]
    BY <1>7 DEF Unregister
  <2>2. \A d \in Contract \ {c} :
          registrations'[d] = registrations[d] /\ singletons'[d] = singletons[d]
    BY <2>1 DEF TypeOK
  <2> QED
    BY <2>1, <2>2, SoleChanged
<1> QED
  BY <1>1, <1>2, <1>3, <1>4, <1>5, <1>6, <1>7, SoleFound, SoleReturn DEF Next

\* What OneInstance says of a contract.
One(c) ==
    /\ handed[c] \subseteq {singletons[c]}
    /\ singletons[c] # None =>
          /\ registrations[c] # Unregistered
          /\ registrations[c].over = TRUE \/ singletons[c].by = registrations[c].id

LEMMA OneIsOneInstance ==
    ASSUME TypeOK
    PROVE  OneInstance <=> \A c \in Contract \ contended : One(c)
<1>1. \A c \in Contract : singletons[c] # None /\ registrations[c] # Unregistered =>
        registrations[c].over \in BOOLEAN
  BY DEF TypeOK, Registration
<1>2. ASSUME NEW c \in Contract
      PROVE  One(c) <=>
                /\ handed[c] \subseteq {singletons[c]}
                /\ singletons[c] # None =>
                      /\ registrations[c] # Unregistered
                      /\ registrations[c].over \/ singletons[c].by = registrations[c].id
  BY <1>1, Zenon DEF One
<1> QED
  BY <1>2, Zenon DEF OneInstance

LEMMA OneStep ==
    ASSUME TypeOK, TypeOK', Nested, Sole, MadeByOwn, [Next]_vars,
           NEW c \in Contract \ contended', c \notin contended => One(c)
    PROVE  One(c)'
<1>1. ASSUME UNCHANGED <<registrations, singletons, handed>>, contended \subseteq contended'
      PROVE  One(c)'
  BY <1>1 DEF One
<1>2. ASSUME \/ UNCHANGED vars
             \/ \E t \in Thread : \/ ExitScope(t) \/ FindMissing(t) \/ FactoryRaises(t)
                                  \/ Enter(t) \/ Leave(t) \/ Unwind(t)
             \/ \E t \in Thread, d \in Contract : FindNone(t, d)
      PROVE  UNCHANGED <<registrations, singletons, handed>> /\ contended \subseteq contended'
  BY <1>2 DEF vars, ExitScope, FindMissing, FactoryRaises, Enter, Leave, Unwind, FindNone
<1>3. ASSUME NEW g \in Registrable, Register(g)
      PROVE  One(c)'
  <2>1. /\ c \notin contended /\ UNCHANGED <<singletons, handed>>
        /\ Registered(g.contract, g.lifetime, g.needs)
    BY <1>3 DEF Register, Changed
  <2>2. CASE c = g.contract
    <3>1. registrations'[c] = [lifetime |-> g.lifetime, needs |-> g.needs, id |-> changes + 1,
                               over |-> registrations[c] # Unregistered]
      BY <2>1, <2>2 DEF Registered, TypeOK
    <3>2. singletons[c] # None => registrations'[c].over = TRUE
      <4> DEFINE o == registrations[c] # Unregistered
      <4>1. singletons[c] # None => o = TRUE
        BY <2>1 DEF One
      <4>2. registrations'[c] = [lifetime |-> g.lifetime, needs |-> g.needs,
                                 id |-> changes + 1, over |-> o]
        BY <3>1
      <4> HIDE DEF o
      <4>3. registrations'[c].over = o
        BY <4>2
      <4> QED
        BY <4>1, <4>3
    <3>3. singletons[c] # None => registrations'[c] # Unregistered
      <4>1. registrations'[c].id = changes + 1 /\ Unregistered.id = 0
        BY <3>1 DEF Unregistered
      <4> QED
        BY <4>1 DEF TypeOK
    <3> QED
      BY <2>1, <3>2, <3>3 DEF One
  <2>3. CASE c # g.contract
    <3>1. registrations'[c] = registrations[c]
      BY <2>1, <2>3 DEF Registered, TypeOK
    <3> QED
      BY <2>1, <3>1 DEF One
  <2> QED
    BY <2>2, <2>3
<1>4. ASSUME NEW d \in Contract, RegisterInstance(d)
      PROVE  One(c)'
  <2>1. /\ Registered(d, "singleton", <<>>) /\ (c # d => c \notin contended)
        /\ singletons' = [singletons EXCEPT ![d] = [serial |-> built + 1, by |-> changes + 1]]
        /\ handed' = [handed EXCEPT ![d] = {}]
    BY <1>4 DEF RegisterInstance, Changed
  <2>2. CASE c = d
    <3>1. registrations'[c] = [lifetime |-> "singleton", needs |-> <<>>, id |-> changes + 1,
                               over |-> registrations[c] # Unregistered]
      BY <2>1, <2>2 DEF Registered, TypeOK
    <3>2. singletons'[c].by = registrations'[c].id /\ handed'[c] = {}
      BY <2>1, <2>2, <3>1 DEF TypeOK
    <3>3. registrations'[c] # Unregistered
      <4>1. registrations'[c].id = changes + 1 /\ Unregistered.id = 0
        BY <3>1 DEF Unregistered
      <4> QED
        BY <4>1 DEF TypeOK
    <3> QED
      BY <3>2, <3>3 DEF One
  <2>3. CASE c # d
    <3>1. /\ registrations'[c] = registrations[c] /\ singletons'[c] = singletons[c]
          /\ handed'[c] = handed[c]
      BY <2>1, <2>3 DEF Registered, TypeOK
    <3> QED
      BY <2>1, <2>3, <3>1 DEF One
  <2> QED
    BY <2>2, <2>3
<1>5. ASSUME NEW d \in Contract, Unregister(d)
      PROVE  One(c)'
  <2>1. /\ registrations' = [registrations EXCEPT ![d] = Unregistered]
        /\ singletons' = [singletons EXCEPT ![d] = None]
        /\ handed' = [handed EXCEPT ![d] = {}] /\ (c # d => c \notin contended)
    BY <1>5 DEF Unregister, Changed
  <2>2. CASE c = d
    <3>1. singletons'[c] = None /\ handed'[c] = {}
      BY <2>1, <2>2 DEF TypeOK
    <3> QED
      BY <3>1 DEF One
  <2>3. CASE c # d
    <3>1. /\ registrations'[c] = registrations[c] /\ singletons'[c] = singletons[c]
          /\ handed'[c] = handed[c]
      BY <2>1, <2>3 DEF TypeOK
    <3> QED
      BY <2>1, <2>3, <3>1 DEF One
  <2> QED
    BY <2>2, <2>3
<1>6. ASSUME NEW t \in Thread, NEW d \in Contract, FindCached(t, d)
      PROVE  One(c)'
  <2>1. UNCHANGED <<registrations, singletons, contended>>
    BY <1>6 DEF FindCached
  <2>2. handed' \in {handed, [handed EXCEPT ![d] = @ \cup {singletons[d]}]}
    BY <1>6 DEF FindCached, Handed, Cache
  <2>3. handed'[c] \subseteq {singletons[c]}
    <3>1. handed[c] \subseteq {singletons[c]} /\ handed \in [Contract -> SUBSET Instance]
      BY <2>1 DEF One, TypeOK
    <3>2. handed'[c] \in {handed[c], handed[c] \cup {singletons[c]}}
      BY <2>2, <3>1
    <3> QED
      BY <2>1, <3>1, <3>2
  <2> QED
    BY <2>1, <2>3 DEF One
<1>7. ASSUME NEW t \in Thread, Return(t)
      PROVE  One(c)'
  <2> DEFINE f == Top(t)
  <2>1. UNCHANGED <<registrations, contended>> /\ c \notin contended
    BY <1>7 DEF Return
  <2>2. ~Idle(t) /\ f.made \in Instance /\ f.contract \in Contract /\ f.registration \in Registration
    BY <1>7, Returned, TopType
  <2>3. CASE f.registration.lifetime # "singleton"
    <3>1. UNCHANGED <<singletons, handed>>
      BY <1>7, <2>3 DEF Return, Handed
    <3> QED
      BY <1>1, <2>1, <3>1
  <2>4. CASE f.registration.lifetime = "singleton" /\ c # f.contract
    <3>1. /\ singletons' = [singletons EXCEPT ![f.contract] = f.made]
          /\ handed' = [handed EXCEPT ![f.contract] = @ \cup {f.made}]
      BY <1>7, <2>4 DEF Return, Handed
    <3>2. singletons'[c] = singletons[c] /\ handed'[c] = handed[c]
      BY <2>4, <3>1 DEF TypeOK
    <3> QED
      BY <2>1, <3>2 DEF One
  <2>5. CASE f.registration.lifetime = "singleton" /\ c = f.contract
    <3>1. /\ singletons' = [singletons EXCEPT ![c] = f.made]
          /\ handed' = [handed EXCEPT ![c] = @ \cup {f.made}]
      BY <1>7, <2>5 DEF Return, Handed
    <3>2. f.registration = registrations[c] /\ singletons[c] = None
      BY <1>7, <2>1, <2>5, SoleReturn
    <3>3. handed[c] = {}
      BY <2>1, <3>2, NoneIsNoInstance DEF One, TypeOK
    <3>4. singletons'[c] = f.made /\ handed'[c] = {f.made}
      BY <3>1, <3>3 DEF TypeOK
    <3>5. f.made.by = f.registration.id
      <4>1. Len(stack[t]) \in 1..Len(stack[t]) /\ f = stack[t][Len(stack[t])]
        BY <2>2, TopType
      <4> QED
        BY <2>2, <4>1, NoneIsNoInstance DEF MadeByOwn
    <3>6. registrations[c] # Unregistered
      BY <2>2, <3>2, UnregisteredIsNoRegistration
    <3> HIDE DEF f
    <3> QED
      BY <2>1, <3>2, <3>4, <3>5, <3>6 DEF One
  <2> QED
    BY <2>3, <2>4, <2>5
<1> QED
  BY <1>1, <1>2, <1>3, <1>4, <1>5, <1>6, <1>7 DEF Next

-----------------------------------------------------------------------------
(* The instances.                                                          *)

LEMMA InstanceSerials ==
    /\ None.serial = 0
    /\ \A v \in Instance : v.serial \in Nat \ {0}
BY ContainerAssumption DEF None, Instance

LEMMA NoneMadeStep ==
    ASSUME TypeOK, Nested, [Next]_vars
    PROVE  \/ NoneMade /\ built' \in {built, built + 1}
           \/ \E t \in Thread : Leave(t)
<1>1. ASSUME \/ UNCHANGED vars
             \/ \E t \in Thread : ExitScope(t) \/ FindMissing(t) \/ FactoryRaises(t)
             \/ \E g \in Registrable : Register(g)
             \/ \E c \in Contract : RegisterInstance(c) \/ Unregister(c)
      PROVE  UNCHANGED stack /\ built' \in {built, built + 1}
  BY <1>1 DEF vars, ExitScope, FindMissing, FactoryRaises, Register, RegisterInstance,
              Unregister, Changed
<1>2. ASSUME NEW t \in Thread, Enter(t)
      PROVE  NoneMade /\ UNCHANGED built
  <2>1. NoneMade
    BY <1>2, Entered, FewerAdvanced, FewerUnchanged
  <2> QED
    BY <1>2, <2>1 DEF Enter
<1>3. ASSUME NEW t \in Thread, Return(t) \/ Unwind(t)
      PROVE  NoneMade /\ UNCHANGED built
  <2>1. NoneMade
    BY <1>3, Returned, Unwound, FewerPopped
  <2> QED
    BY <1>3, <2>1 DEF Return, Unwind
<1>4. ASSUME NEW t \in Thread, NEW c \in Contract, FindCached(t, c) \/ FindNone(t, c)
      PROVE  NoneMade /\ UNCHANGED built
  <2>1. NoneMade
    BY <1>4, FewerCached, NoneMadeFound
  <2> QED
    BY <1>4, <2>1 DEF FindCached, FindNone
<1> QED
  BY <1>1, <1>2, <1>3, <1>4, FewerUnchanged DEF Next

\* A factory returns: the instance it made is new, the others are as they were.
LEMMA LeaveMakes ==
    ASSUME TypeOK, NEW t \in Thread, Leave(t)
    PROVE  /\ UNCHANGED <<singletons, scope>> /\ built' = built + 1
           /\ \E v \in Instance :
                /\ v.serial = built + 1 /\ v.by = Top(t).registration.id
                /\ \A u \in Thread : \A i \in 1..Len(stack'[u]) :
                      /\ i \in 1..Len(stack[u]) /\ SameUse(stack'[u][i], stack[u][i])
                      /\ stack'[u][i].made = IF u = t /\ i = Len(stack[t]) THEN v
                                             ELSE stack[u][i].made
                /\ Top(t) = stack[t][Len(stack[t])]
<1> DEFINE n == Len(stack[t])
           v == stack'[t][n].made
<1>1. /\ ~Idle(t) /\ Advanced(t, "built")
      /\ v \in Instance /\ v.serial = built + 1 /\ v.by = Top(t).registration.id
  BY Left
<1>2. n \in Nat /\ Len(stack'[t]) = n /\ Kept(t, n - 1) /\ Top(t) = stack[t][n]
  BY <1>1, CallType, TopType DEF Advanced
<1>3. Fewer
  BY <1>1, FewerAdvanced
<1>4. ASSUME NEW u \in Thread, NEW i \in 1..Len(stack'[u]), ~(u = t /\ i = n)
      PROVE  stack'[u][i].made = stack[u][i].made
  <2>1. CASE u # t
    BY <1>2, <2>1 DEF Kept
  <2>2. CASE u = t
    <3>1. i \in 1..n - 1
      BY <1>2, <1>4, <2>2
    <3> QED
      BY <1>2, <2>2, <3>1 DEF Kept
  <2> QED
    BY <2>1, <2>2
<1>5. UNCHANGED <<singletons, scope>> /\ built' = built + 1
  BY DEF Leave
<1> HIDE DEF v, n
<1>6. \A u \in Thread : \A i \in 1..Len(stack'[u]) :
          /\ i \in 1..Len(stack[u]) /\ SameUse(stack'[u][i], stack[u][i])
          /\ stack'[u][i].made = IF u = t /\ i = n THEN v ELSE stack[u][i].made
  <2> SUFFICES ASSUME NEW u \in Thread, NEW i \in 1..Len(stack'[u])
               PROVE  /\ i \in 1..Len(stack[u]) /\ SameUse(stack'[u][i], stack[u][i])
                      /\ stack'[u][i].made = IF u = t /\ i = n THEN v ELSE stack[u][i].made
    OBVIOUS
  <2>1. i \in 1..Len(stack[u]) /\ SameUse(stack'[u][i], stack[u][i])
    BY <1>3 DEF Fewer
  <2>2. CASE u = t /\ i = n
    BY <2>1, <2>2 DEF v
  <2>3. CASE ~(u = t /\ i = n)
    BY <1>4, <2>1, <2>3
  <2> QED
    BY <2>2, <2>3
<1>7. v \in Instance /\ v.serial = built + 1 /\ v.by = Top(t).registration.id
  BY <1>1 DEF v, n
<1> QED
  BY <1>2, <1>5, <1>6, <1>7 DEF n

LEMMA MadeByOwnStep ==
    ASSUME TypeOK, Nested, MadeByOwn, [Next]_vars
    PROVE  MadeByOwn'
<1>1. CASE NoneMade
  BY <1>1 DEF NoneMade, MadeByOwn, SameUse
<1>2. ASSUME NEW t \in Thread, Leave(t)
      PROVE  MadeByOwn'
  <2>1. PICK v \in Instance :
                /\ v.serial = built + 1 /\ v.by = Top(t).registration.id
                /\ \A u \in Thread : \A i \in 1..Len(stack'[u]) :
                      /\ i \in 1..Len(stack[u]) /\ SameUse(stack'[u][i], stack[u][i])
                      /\ stack'[u][i].made = IF u = t /\ i = Len(stack[t]) THEN v
                                             ELSE stack[u][i].made
                /\ Top(t) = stack[t][Len(stack[t])]
    BY <1>2, LeaveMakes
  <2> SUFFICES ASSUME NEW u \in Thread, NEW i \in 1..Len(stack'[u]),
                      stack'[u][i].made # None
               PROVE  stack'[u][i].made.by = stack'[u][i].registration.id
    BY DEF MadeByOwn
  <2>2. i \in 1..Len(stack[u]) /\ stack'[u][i].registration = stack[u][i].registration
    BY <2>1 DEF SameUse
  <2>3. CASE u = t /\ i = Len(stack[t])
    BY <2>1, <2>2, <2>3
  <2>4. CASE ~(u = t /\ i = Len(stack[t]))
    BY <2>1, <2>2, <2>4 DEF MadeByOwn
  <2> QED
    BY <2>3, <2>4
<1> QED
  BY <1>1, <1>2, NoneMadeStep

\* Where an instance may be kept after a step: where it was, or it is new, or
\* it is the one that a call returns.
LEMMA KeptPlaces ==
    ASSUME TypeOK, Nested, [Next]_vars, ~(\E t \in Thread : Return(t))
    PROVE  /\ \A c \in Contract : \/ singletons'[c] \in {None, singletons[c]}
                                  \/ singletons'[c].serial = built + 1 /\ built' = built + 1
           /\ \A t \in Thread, c \in Contract : scope'[t][c] \in {None, scope[t][c]}
           /\ built' \in {built, built + 1}
<1>1. ASSUME UNCHANGED <<singletons, scope>>, built' \in {built, built + 1}
      PROVE  /\ \A c \in Contract : \/ singletons'[c] \in {None, singletons[c]}
                                    \/ singletons'[c].serial = built + 1 /\ built' = built + 1
             /\ \A t \in Thread, c \in Contract : scope'[t][c] \in {None, scope[t][c]}
             /\ built' \in {built, built + 1}
  BY <1>1
<1>2. ASSUME \/ UNCHANGED vars
             \/ \E t \in Thread : \/ FindMissing(t) \/ FactoryRaises(t) \/ Enter(t)
                                  \/ Leave(t) \/ Unwind(t)
             \/ \E g \in Registrable : Register(g)
             \/ \E t \in Thread, c \in Contract : FindCached(t, c) \/ FindNone(t, c)
      PROVE  UNCHANGED <<singletons, scope>> /\ built' \in {built, built + 1}
  BY <1>2 DEF vars, FindMissing, FactoryRaises, Enter, Leave, Unwind, Register, Changed,
              FindCached, FindNone
<1>3. ASSUME NEW t \in Thread, ExitScope(t)
      PROVE  /\ UNCHANGED <<singletons, built>>
             /\ \A u \in Thread, c \in Contract : scope'[u][c] \in {None, scope[u][c]}
  <2>1. /\ UNCHANGED <<singletons, built>>
        /\ scope' = [scope EXCEPT ![t] = [c \in Contract |-> None]]
    BY <1>3 DEF ExitScope
  <2> QED
    BY <2>1 DEF TypeOK
<1>4. ASSUME NEW d \in Contract, RegisterInstance(d) \/ Unregister(d)
      PROVE  /\ \A c \in Contract : \/ singletons'[c] \in {None, singletons[c]}
                                    \/ singletons'[c].serial = built + 1 /\ built' = built + 1
             /\ UNCHANGED scope /\ built' \in {built, built + 1}
  <2>1. CASE RegisterInstance(d)
    <3>1. /\ singletons' = [singletons EXCEPT ![d] = [serial |-> built + 1, by |-> changes + 1]]
          /\ UNCHANGED scope /\ built' = built + 1
      BY <2>1 DEF RegisterInstance, Changed
    <3> QED
      BY <3>1 DEF TypeOK
  <2>2. CASE Unregister(d)
    <3>1. singletons' = [singletons EXCEPT ![d] = None] /\ UNCHANGED <<scope, built>>
      BY <2>2 DEF Unregister, Changed
    <3> QED
      BY <3>1 DEF TypeOK
  <2> QED
    BY <1>4, <2>1, <2>2
<1> QED
  BY <1>1, <1>2, <1>3, <1>4 DEF Next

\* What a return does to the places.
LEMMA ReturnPlaces ==
    ASSUME TypeOK, NEW t \in Thread, Return(t)
    PROVE  /\ NoneMade /\ UNCHANGED built
           /\ Len(stack[t]) \in 1..Len(stack[t])
           /\ Len(stack[t]) \notin 1..Len(stack'[t])
           /\ stack[t][Len(stack[t])].made = Top(t).made /\ Top(t).made \in Instance
           /\ \/ /\ \A c \in Contract : singletons'[c] \in {singletons[c], Top(t).made}
                 /\ UNCHANGED scope
              \/ /\ UNCHANGED singletons
                 /\ \A u \in Thread, c \in Contract :
                       \/ scope'[u][c] = scope[u][c]
                       \/ u = t /\ scope'[u][c] = Top(t).made
<1>1. ~Idle(t) /\ Popped(t) /\ Top(t).made \in Instance
  BY Returned
<1>2. NoneMade /\ UNCHANGED built
  BY <1>1, FewerPopped DEF Return
<1>3. /\ Len(stack[t]) \in 1..Len(stack[t]) /\ Top(t) = stack[t][Len(stack[t])]
      /\ Top(t).contract \in Contract
  BY <1>1, TopType
<1>4. Len(stack[t]) \notin 1..Len(stack'[t])
  BY <1>1, CallType DEF Popped
<1>5. CASE Top(t).registration.lifetime = "singleton"
  <2>1. UNCHANGED scope /\ singletons' = [singletons EXCEPT ![Top(t).contract] = Top(t).made]
    BY <1>5 DEF Return
  <2>2. \A c \in Contract : singletons'[c] \in {singletons[c], Top(t).made}
    BY <2>1 DEF TypeOK
  <2> QED
    BY <1>1, <1>2, <1>3, <1>4, <2>1, <2>2
<1>6. CASE Top(t).registration.lifetime # "singleton"
  <2>1. /\ UNCHANGED singletons
        /\ scope' \in {scope, [scope EXCEPT ![t][Top(t).contract] = Top(t).made]}
    BY <1>6 DEF Return
  <2> DEFINE s == [scope[t] EXCEPT ![Top(t).contract] = Top(t).made]
  <2>2. scope \in [Thread -> [Contract -> Instance \cup {None}]]
    BY DEF TypeOK
  <2>3. \A c \in Contract : s[c] \in {scope[t][c], Top(t).made}
    BY <2>2
  <2>4. scope' \in {scope, [scope EXCEPT ![t] = s]}
    BY <2>1, <2>2
  <2> HIDE DEF s
  <2>5. \A u \in Thread, c \in Contract :
          scope'[u][c] = scope[u][c] \/ (u = t /\ scope'[u][c] = Top(t).made)
    BY <2>2, <2>3, <2>4
  <2> QED
    BY <1>1, <1>2, <1>3, <1>4, <2>1, <2>5
<1> QED
  BY <1>5, <1>6

LEMMA SerialType ==
    ASSUME TypeOK
    PROVE  /\ built \in Nat
           /\ \A c \in Contract : singletons[c].serial \in Nat
           /\ \A t \in Thread, c \in Contract : scope[t][c].serial \in Nat
           /\ \A t \in Thread : \A i \in 1..Len(stack[t]) :
                 /\ stack[t][i].made \in Instance \cup {None}
                 /\ stack[t][i].made.serial \in Nat
<1>1. \A v \in Instance \cup {None} : v.serial \in Nat
  BY InstanceSerials
<1>2. built \in Nat
  BY ContainerAssumption DEF TypeOK
<1>3. /\ \A c \in Contract : singletons[c] \in Instance \cup {None}
      /\ \A t \in Thread, c \in Contract : scope[t][c] \in Instance \cup {None}
  BY DEF TypeOK
<1>4. \A t \in Thread : \A i \in 1..Len(stack[t]) : stack[t][i].made \in Instance \cup {None}
  BY CallType
<1> QED
  BY <1>1, <1>2, <1>3, <1>4

LEMMA NumberedStep ==
    ASSUME TypeOK, Nested, Numbered, [Next]_vars
    PROVE  Numbered'
<1>0. built' \in {built, built + 1} /\ built \in Nat
  BY NoneMadeStep, LeaveMakes, SerialType
<1>1. ASSUME NEW u \in Thread, NEW i \in 1..Len(stack'[u])
      PROVE  stack'[u][i].made.serial <= built'
  <2>1. CASE NoneMade
    <3>1. CASE stack'[u][i].made = None
      BY <1>0, <3>1, InstanceSerials
    <3>2. CASE stack'[u][i].made # None
      <4>1. i \in 1..Len(stack[u]) /\ stack'[u][i].made = stack[u][i].made
        BY <1>1, <2>1, <3>2 DEF NoneMade
      <4>2. stack[u][i].made.serial <= built /\ stack[u][i].made.serial \in Nat
        BY <4>1, SerialType DEF Numbered
      <4> QED
        BY <1>0, <4>1, <4>2
    <3> QED
      BY <3>1, <3>2
  <2>2. ASSUME NEW t \in Thread, Leave(t)
        PROVE  stack'[u][i].made.serial <= built'
    <3>1. PICK v \in Instance :
                  /\ v.serial = built + 1 /\ built' = built + 1
                  /\ \A w \in Thread : \A j \in 1..Len(stack'[w]) :
                        /\ j \in 1..Len(stack[w])
                        /\ stack'[w][j].made = IF w = t /\ j = Len(stack[t]) THEN v
                                               ELSE stack[w][j].made
      BY <2>2, LeaveMakes
    <3>2. i \in 1..Len(stack[u]) /\ stack'[u][i].made \in {v, stack[u][i].made}
      BY <1>1, <3>1
    <3>3. stack[u][i].made.serial <= built /\ stack[u][i].made.serial \in Nat
      BY <3>2, SerialType DEF Numbered
    <3> QED
      BY <1>0, <3>1, <3>2, <3>3
  <2> QED
    BY <2>1, <2>2, NoneMadeStep
<1>2. /\ \A c \in Contract : singletons'[c].serial <= built'
      /\ \A t \in Thread, c \in Contract : scope'[t][c].serial <= built'
  <2>0. /\ \A c \in Contract : singletons[c].serial <= built'
        /\ \A t \in Thread, c \in Contract : scope[t][c].serial <= built'
        /\ None.serial <= built'
    BY <1>0, SerialType, InstanceSerials DEF Numbered
  <2>1. CASE ~(\E t \in Thread : Return(t))
    BY <1>0, <2>0, <2>1, KeptPlaces
  <2>2. ASSUME NEW t \in Thread, Return(t)
        PROVE  /\ \A c \in Contract : singletons'[c].serial <= built'
               /\ \A u \in Thread, c \in Contract : scope'[u][c].serial <= built'
    <3>1. Top(t).made.serial <= built'
      BY <1>0, <2>2, ReturnPlaces, SerialType DEF Numbered
    <3> QED
      BY <2>0, <2>2, <3>1, ReturnPlaces
  <2> QED
    BY <2>1, <2>2
<1> QED
  BY <1>1, <1>2 DEF Numbered

\* An instance that was built and not yet returned stays out of all places.
LEMMA LooseStep ==
    ASSUME TypeOK, Nested, Numbered, Fresh, [Next]_vars,
           NEW u \in Thread, NEW i \in 1..Len(stack[u]), NEW v, v = stack[u][i].made, v # None,
           \A t \in Thread : Return(t) => ~(u = t /\ i = Len(stack[t]))
    PROVE  /\ \A d \in Contract : singletons'[d] # v
           /\ \A w \in Thread, d \in Contract : scope'[w][d] # v
<1>1. v \in Instance /\ v.serial <= built /\ v.serial \in Nat /\ built \in Nat
  BY SerialType DEF Numbered
<1>2. /\ \A d \in Contract : singletons[d] # v
      /\ \A w \in Thread, d \in Contract : scope[w][d] # v
      /\ \A w \in Thread : \A j \in 1..Len(stack[w]) :
            stack[w][j].made = v => w = u /\ j = i
  BY DEF Fresh
<1>3. v.serial # built + 1
  BY <1>1
<1>4. CASE ~(\E t \in Thread : Return(t))
  BY <1>1, <1>2, <1>3, <1>4, KeptPlaces
<1>5. ASSUME NEW t \in Thread, Return(t)
      PROVE  /\ \A d \in Contract : singletons'[d] # v
             /\ \A w \in Thread, d \in Contract : scope'[w][d] # v
  <2>1. Top(t).made # v
    BY <1>2, <1>5, ReturnPlaces
  <2> QED
    BY <1>2, <1>5, <2>1, ReturnPlaces
<1> QED
  BY <1>4, <1>5

LEMMA FreshStep ==
    ASSUME TypeOK, Nested, Numbered, Fresh, [Next]_vars
    PROVE  Fresh'
<1> SUFFICES ASSUME NEW u \in Thread, NEW i \in 1..Len(stack'[u]), NEW v,
                    v = stack'[u][i].made, v # None
             PROVE  /\ \A d \in Contract : singletons'[d] # v
                    /\ \A w \in Thread, d \in Contract : scope'[w][d] # v
                    /\ \A w \in Thread : \A j \in 1..Len(stack'[w]) :
                          stack'[w][j].made = v => w = u /\ j = i
  BY DEF Fresh
<1>1. CASE NoneMade
  <2>1. i \in 1..Len(stack[u]) /\ v = stack[u][i].made
    BY <1>1 DEF NoneMade
  <2>2. \A t \in Thread : Return(t) => ~(u = t /\ i = Len(stack[t]))
    BY ReturnPlaces
  <2>3. /\ \A d \in Contract : singletons'[d] # v
        /\ \A w \in Thread, d \in Contract : scope'[w][d] # v
    BY <2>1, <2>2, LooseStep
  <2>4. ASSUME NEW w \in Thread, NEW j \in 1..Len(stack'[w]), stack'[w][j].made = v
        PROVE  w = u /\ j = i
    <3>1. j \in 1..Len(stack[w]) /\ stack[w][j].made = v
      BY <1>1, <2>4 DEF NoneMade
    <3> QED
      BY <2>1, <3>1 DEF Fresh
  <2> QED
    BY <2>3, <2>4
<1>2. ASSUME NEW t \in Thread, Leave(t)
      PROVE  /\ \A d \in Contract : singletons'[d] # v
             /\ \A w \in Thread, d \in Contract : scope'[w][d] # v
             /\ \A w \in Thread : \A j \in 1..Len(stack'[w]) :
                   stack'[w][j].made = v => w = u /\ j = i
  <2>1. PICK new \in Instance :
              /\ new.serial = built + 1 /\ UNCHANGED <<singletons, scope>>
              /\ \A w \in Thread : \A j \in 1..Len(stack'[w]) :
                    /\ j \in 1..Len(stack[w])
                    /\ stack'[w][j].made = IF w = t /\ j = Len(stack[t]) THEN new
                                           ELSE stack[w][j].made
    BY <1>2, LeaveMakes
  <2>2. /\ \A d \in Contract : singletons[d] # new
        /\ \A w \in Thread, d \in Contract : scope[w][d] # new
        /\ \A w \in Thread : \A j \in 1..Len(stack[w]) : stack[w][j].made # new
    <3>1. \A x : x.serial \in Nat /\ x.serial <= built => x # new
      BY <2>1, SerialType
    <3> QED
      BY <3>1, SerialType DEF Numbered
  <2>3. CASE u = t /\ i = Len(stack[t])
    <3>1. v = new
      BY <2>1, <2>3
    <3>2. ASSUME NEW w \in Thread, NEW j \in 1..Len(stack'[w]), stack'[w][j].made = v
          PROVE  w = u /\ j = i
      BY <2>1, <2>2, <2>3, <3>1, <3>2
    <3> QED
      BY <2>1, <2>2, <3>1, <3>2
  <2>4. CASE ~(u = t /\ i = Len(stack[t]))
    <3>1. i \in 1..Len(stack[u]) /\ v = stack[u][i].made /\ v # new
      BY <2>1, <2>2, <2>4
    <3>2. ASSUME NEW w \in Thread, NEW j \in 1..Len(stack'[w]), stack'[w][j].made = v
          PROVE  w = u /\ j = i
      <4>1. j \in 1..Len(stack[w]) /\ stack[w][j].made = v
        BY <2>1, <3>1, <3>2
      <4> QED
        BY <3>1, <4>1 DEF Fresh
    <3> QED
      BY <2>1, <3>1, <3>2 DEF Fresh
  <2> QED
    BY <2>3, <2>4
<1> QED
  BY <1>1, <1>2, NoneMadeStep

LEMMA ApartStep ==
    ASSUME TypeOK, Nested, Numbered, Fresh, Apart, [Next]_vars
    PROVE  Apart'
<1>1. CASE ~(\E t \in Thread : Return(t))
  <2> SUFFICES ASSUME NEW t \in Thread, NEW c \in Contract, scope'[t][c] # None
               PROVE  /\ \A d \in Contract : singletons'[d] # scope'[t][c]
                      /\ \A u \in Thread \ {t}, d \in Contract : scope'[u][d] # scope'[t][c]
    BY DEF Apart
  <2>1. scope'[t][c] = scope[t][c] /\ scope[t][c] # None
    BY <1>1, KeptPlaces
  <2>2. /\ \A d \in Contract : singletons[d] # scope[t][c]
        /\ \A u \in Thread \ {t}, d \in Contract : scope[u][d] # scope[t][c]
    BY <2>1 DEF Apart
  <2>3. scope[t][c].serial <= built /\ scope[t][c].serial \in Nat /\ built \in Nat
    BY SerialType DEF Numbered
  <2>4. scope[t][c].serial # built + 1
    BY <2>3
  <2> QED
    BY <1>1, <2>1, <2>2, <2>4, KeptPlaces
<1>2. ASSUME NEW t \in Thread, Return(t)
      PROVE  Apart'
  <2> DEFINE v == Top(t).made
  <2>1. /\ v \in Instance
        /\ \A d \in Contract : singletons[d] # v
        /\ \A u \in Thread, d \in Contract : scope[u][d] # v
    BY <1>2, ReturnPlaces, NoneIsNoInstance DEF Fresh
  <2>2. \/ /\ \A c \in Contract : singletons'[c] \in {singletons[c], v}
           /\ UNCHANGED scope
        \/ /\ UNCHANGED singletons
           /\ \A u \in Thread, c \in Contract :
                 \/ scope'[u][c] = scope[u][c]
                 \/ u = t /\ scope'[u][c] = v
    BY <1>2, ReturnPlaces
  <2> HIDE DEF v
  <2>3. CASE /\ \A c \in Contract : singletons'[c] \in {singletons[c], v}
             /\ UNCHANGED scope
    BY <2>1, <2>3 DEF Apart
  <2>4. CASE /\ UNCHANGED singletons
             /\ \A u \in Thread, c \in Contract :
                   \/ scope'[u][c] = scope[u][c]
                   \/ u = t /\ scope'[u][c] = v
    BY <2>1, <2>4 DEF Apart
  <2> QED
    BY <2>2, <2>3, <2>4
<1> QED
  BY <1>1, <1>2

-----------------------------------------------------------------------------
(* The theorems about Container.                                           *)

LEMMA IInvInit == Init => IInv
<1> SUFFICES ASSUME Init
             PROVE  IInv
  OBVIOUS
<1>1. TypeOK
  <2>1. 0 \in 0..MaxChanges /\ 0 \in 0..MaxBuilt
    BY ContainerAssumption
  <2>2. \A t \in Thread : Len(stack[t]) = 0
    BY EmptySeq DEF Init
  <2>3. stack \in [Thread -> Seq(Call)] /\ resolving \in Seq(Contract)
    BY EmptySeq DEF Init
  <2>4. \A t \in Thread : \A i \in 1..Len(stack[t]) :
          (stack[t][i].phase = "built") <=> (stack[t][i].made # None)
    BY <2>2
  <2>5. /\ registrations \in [Contract -> Registration \cup {Unregistered}]
        /\ singletons \in [Contract -> Instance \cup {None}]
        /\ scope \in [Thread -> [Contract -> Instance \cup {None}]]
    BY DEF Init
  <2>6. raised \in [Thread -> BOOLEAN] /\ handed \in [Contract -> SUBSET Instance]
    BY DEF Init
  <2> QED
    BY <2>1, <2>3, <2>4, <2>5, <2>6 DEF Init, TypeOK
<1>2. \A t \in Thread : Len(stack[t]) = 0 /\ 1..Len(stack[t]) = {} /\ Idle(t)
  BY EmptySeq DEF Init, Idle
<1>3. Nested
  BY <1>2, ContainerAssumption DEF Init, Nested
<1>4. Len(resolving) = Cardinality(Factories)
  <2>1. Factories = {}
    BY <1>2 DEF Factories, Building
  <2> QED
    BY <2>1, FS_EmptySet, EmptySeq DEF Init
<1>5. Alone
  BY <1>2 DEF Alone, Busy
<1>6. MadeByOwn /\ Sole /\ Fresh
  BY <1>2 DEF MadeByOwn, Sole, Fresh
<1>7. OneInstance
  BY DEF Init, OneInstance
<1>8. Numbered /\ Apart
  BY <1>2, InstanceSerials DEF Init, Numbered, Apart
<1> QED
  BY <1>1, <1>3, <1>4, <1>5, <1>6, <1>7, <1>8 DEF IInv

LEMMA IInvStep == IInv /\ [Next]_vars => IInv'
<1> SUFFICES ASSUME IInv, [Next]_vars
             PROVE  IInv'
  OBVIOUS
<1> USE DEF IInv
<1>1. TypeOK' /\ Nested'
  BY TypeStep, NestedStep
<1>2. Balanced' /\ Alone'
  BY BalancedStep, AloneStep DEF Balanced
<1>3. MadeByOwn' /\ Sole'
  BY MadeByOwnStep, SoleStep
<1>4. OneInstance'
  <2>1. \A c \in Contract \ contended : One(c)
    BY OneIsOneInstance
  <2>2. \A c \in Contract \ contended' : One(c)'
    BY <1>1, <2>1, OneStep
  <2>3. (OneInstance <=> \A c \in Contract \ contended : One(c))'
    BY <1>1, OneIsOneInstance, PTL
  <2> QED
    BY <2>2, <2>3
<1>5. Numbered' /\ Fresh' /\ Apart'
  BY NumberedStep, FreshStep, ApartStep
<1> QED
  BY <1>1, <1>2, <1>3, <1>4, <1>5 DEF Balanced

\* Every variable of Container stays in its range.
THEOREM TypeCorrect == Spec => []TypeOK
<1>1. IInv => TypeOK
  BY DEF IInv
<1> QED
  BY <1>1, IInvInit, IInvStep, PTL DEF Spec

\* However threads interleave and factories fail, _resolving has an entry for
\* each running factory, and until two threads overlap they are those of the
\* one that resolves, in order.
THEOREM ResolutionsBalance == Spec => []ResolvingIsBalanced
<1>1. IInv => ResolvingIsBalanced
  BY DEF IInv, Alone, ResolvingIsBalanced
<1> QED
  BY <1>1, IInvInit, IInvStep, PTL DEF Spec

\* Who was handed a singleton has the one the container keeps, unless its
\* resolution was contended.
THEOREM SingletonsAreOne == Spec => []OneInstance
<1>1. IInv => OneInstance
  BY DEF IInv
<1> QED
  BY <1>1, IInvInit, IInvStep, PTL DEF Spec

\* No factory resolves a scoped contract, and no scope shares an instance with
\* another or with the singletons.
THEOREM ScopedInstancesStay == Spec => []ScopedStaysInScope
<1>1. ASSUME IInv
      PROVE  ScopedStaysInScope
  <2>1. ASSUME NEW t \in Thread, NEW i \in 2..Len(stack[t])
        PROVE  stack[t][i].registration.lifetime # "scoped"
    <3>1. i \in 1..Len(stack[t]) /\ i > 1
      BY <1>1, CallType DEF IInv
    <3> QED
      BY <1>1, <3>1 DEF IInv, Nested
  <2> QED
    BY <1>1, <2>1 DEF IInv, Apart, ScopedStaysInScope
<1> QED
  BY <1>1, IInvInit, IInvStep, PTL DEF Spec

-----------------------------------------------------------------------------
(* Platform: what a step does to the bus.                                  *)

\* h is the end of s, of length n where s is long enough.
EndOf(h, s, n) ==
    /\ Len(h) = IF Len(s) < n THEN Len(s) ELSE n
    /\ \A i \in 1..Len(h) : h[i] = s[Len(s) - Len(h) + i]

\* The history is the end of what was published.
Remembered == EndOf(history, published, HistoryLimit)

\* What was last published about x is so.
Told ==
    \A x \in Bus!Item :
        /\ Bus!LastSays(published, x, "on") => x \in active
        /\ Bus!LastSays(published, x, "off") =>
              x \notin active \/ \E p \in Plugin : x \in Bus!Range(Provides[p])

\* The handlers called are the first ones of those there were.
HeardBy(f) ==
    /\ Len(f.called) <= Len(f.handlers)
    /\ \A k \in 1..Len(f.called) : f.called[k] = f.handlers[k]

Heard == \A i \in 1..Len(publications) : HeardBy(publications[i])

BusIInv == Bus!TypeOK /\ Remembered /\ Told /\ Heard /\ LoadedPluginsAreWhole

LEMMA Names ==
    /\ Plugin \cap (Module \cup Capability \cup Service \cup Feature) = {}
    /\ Service \cap (Module \cup Capability \cup Feature) = {}
    /\ Feature \cap (Module \cup Capability) = {}
    /\ Provides \in [Plugin -> Seq(Service)]
    /\ HistoryLimit \in Nat \ {0} /\ MaxEvents \in Nat
BY BusAssumption DEF Bus!PlatformAssumption

LEMMA Least ==
    ASSUME NEW S, S \subseteq Nat, S # {}
    PROVE  \E x \in S : \A y \in S : x <= y
<1> DEFINE R == StrictSubsetOrdering(Nat)
           F == FiniteSubsetsOf(Nat)
           U == {1..n : n \in S}
<1>1. IsWellFoundedOn(R, F) /\ U \subseteq F /\ U # {}
  <2>1. \A n \in Nat : IsFiniteSet(1..n) /\ 1..n \subseteq Nat
    BY FS_Interval
  <2>2. U \subseteq F
    BY <2>1 DEF FiniteSubsetsOf
  <2> QED
    BY <2>2, FS_StrictSubsetOrderingWellFounded
<1>2. \E u \in U : \A v \in U : <<v, u>> \notin R
  <2> HIDE DEF R, F, U
  <2> QED
    BY <1>1, WFMin
<1>3. PICK m \in S : \A v \in U : <<v, 1..m>> \notin R
  BY <1>2
<1>4. ASSUME NEW n \in S, n < m PROVE FALSE
  <2>1. n \in Nat /\ m \in Nat
    OBVIOUS
  <2>2. 1..n \subseteq 1..m /\ 1..n # 1..m
    BY <2>1, <1>4
  <2>3. <<1..n, 1..m>> \in R
    BY <2>2 DEF StrictSubsetOrdering
  <2> QED
    BY <1>3, <2>3
<1> QED
  BY <1>4

LEMMA RemovedType ==
    ASSUME NEW S, NEW s \in Seq(S), NEW x
    PROVE  Bus!RemoveFirst(s, x) \in Seq(S)
<1> DEFINE I == {i \in 1..Len(s) : s[i] = x}
           k == Bus!SelectInSeq(s, LAMBDA v : v = x)
<1>1. CASE I = {}
  BY <1>1 DEF Bus!RemoveFirst
<1>2. CASE I # {}
  <2>1. I \subseteq Nat
    OBVIOUS
  <2>2. k = Bus!Min(I)
    BY <1>2 DEF Bus!SelectInSeq
  <2>3. k \in I
    <3> HIDE DEF I
    <3>1. \E y \in I : \A z \in I : y <= z
      BY <1>2, <2>1, Least
    <3>2. Bus!Min(I) \in I
      BY <3>1 DEF Bus!Min
    <3> QED
      BY <2>2, <3>2
  <2>4. Bus!RemoveFirst(s, x) = SubSeq(s, 1, k - 1) \o SubSeq(s, k + 1, Len(s))
    BY <1>2 DEF Bus!RemoveFirst, Bus!RemoveAt
  <2> HIDE DEF k
  <2>5. k \in 1..Len(s)
    BY <2>3
  <2>6. SubSeq(s, 1, k - 1) \in Seq(S) /\ SubSeq(s, k + 1, Len(s)) \in Seq(S)
    <3>1. /\ \A i \in 1..k - 1 : s[i] \in S
          /\ \A i \in k + 1..Len(s) : s[i] \in S
      BY <2>5
    <3> QED
      BY <2>5, <3>1, SubSeqProperties
  <2> QED
    BY <2>4, <2>6
<1> QED
  BY <1>1, <1>2

LEMMA EventType ==
    ASSUME NEW x \in Bus!Item, NEW w \in {"on", "off", "resolved"}
    PROVE  [item |-> x, what |-> w] \in Bus!Event
BY DEF Bus!Event

LEMMA SubscribersType ==
    ASSUME Bus!TypeOK, NEW n
    PROVE  Bus!SubscribersOf(n) \in Seq(Handler)
BY EmptySeq DEF Bus!SubscribersOf, Bus!TypeOK

LEMMA Slid ==
    ASSUME NEW S, NEW s \in Seq(S), NEW h \in Seq(S), NEW e \in S, NEW n \in Nat \ {0},
           EndOf(h, s, n),
           NEW g, g = IF Len(h) < n THEN Append(h, e) ELSE Append(Tail(h), e)
    PROVE  /\ Append(s, e) \in Seq(S) /\ g \in Seq(S)
           /\ EndOf(g, Append(s, e), n)
<1> DEFINE H == Len(h)
           P == Len(s)
           q == Append(s, e)
<1>1. H \in Nat /\ P \in Nat
  OBVIOUS
<1>2. /\ H = IF P < n THEN P ELSE n
      /\ \A i \in 1..H : h[i] = s[(P - H) + i]
  BY DEF EndOf
<1>3. /\ q \in Seq(S) /\ Len(q) = P + 1 /\ q[P + 1] = e
      /\ \A i \in 1..P : q[i] = s[i]
  OBVIOUS
<1>4. CASE H < n
  <2>1. g = Append(h, e)
    BY <1>4
  <2>2. /\ g \in Seq(S) /\ Len(g) = H + 1 /\ g[H + 1] = e
        /\ \A i \in 1..H : g[i] = h[i]
    BY <2>1
  <2> HIDE DEF H, P, q
  <2>3. H = P
    BY <1>1, <1>2, <1>4
  <2>4. Len(g) = IF Len(q) < n THEN Len(q) ELSE n
    BY <1>1, <1>3, <1>4, <2>2, <2>3
  <2>5. ASSUME NEW i \in 1..Len(g) PROVE g[i] = q[Len(q) - Len(g) + i]
    <3>1. i \in 1..P + 1 /\ Len(q) - Len(g) + i = i
      <4>1. Len(g) = P + 1 /\ Len(q) = P + 1
        BY <1>3, <2>2, <2>3
      <4>2. \A k \in 1..P + 1 : ((P + 1) - (P + 1)) + k = k
        BY <1>1
      <4> QED
        BY <4>1, <4>2
    <3>2. CASE i = P + 1
      BY <1>3, <2>2, <2>3, <3>1, <3>2
    <3>3. CASE i # P + 1
      <4>1. i \in 1..P /\ (P - P) + i = i
        BY <1>1, <3>1, <3>3
      <4>2. g[i] = h[i] /\ h[i] = s[i] /\ q[i] = s[i]
        BY <1>2, <1>3, <2>2, <2>3, <4>1
      <4> QED
        BY <3>1, <4>2
    <3> QED
      BY <3>2, <3>3
  <2> QED
    BY <1>3, <2>2, <2>4, <2>5 DEF EndOf, q
<1>5. CASE ~(H < n)
  <2> DEFINE rest == Tail(h)
  <2>1. H = n /\ P >= n
    <3> HIDE DEF H, P
    <3> QED
      BY <1>1, <1>2, <1>5
  <2>2. h # <<>>
    BY <2>1
  <2>3. /\ rest \in Seq(S) /\ Len(rest) = H - 1
        /\ \A i \in 1..Len(rest) : rest[i] = h[i + 1]
    BY <2>2, HeadTailProperties
  <2>4. g = Append(rest, e)
    BY <1>5
  <2> HIDE DEF rest
  <2>5. /\ g \in Seq(S) /\ Len(g) = Len(rest) + 1 /\ g[Len(rest) + 1] = e
        /\ \A i \in 1..Len(rest) : g[i] = rest[i]
    BY <2>3, <2>4
  <2> HIDE DEF H, P, q
  <2>6. Len(g) = n /\ n - 1 \in Nat /\ Len(rest) = n - 1
    BY <1>1, <2>1, <2>3, <2>5
  <2>7. Len(g) = IF Len(q) < n THEN Len(q) ELSE n
    BY <1>1, <1>3, <2>1, <2>6
  <2>8. ASSUME NEW i \in 1..Len(g) PROVE g[i] = q[Len(q) - Len(g) + i]
    <3>1. i \in 1..n /\ Len(q) - Len(g) + i = ((P + 1) - n) + i
      BY <1>3, <2>6
    <3>2. CASE i = n
      <4>1. ((P + 1) - n) + n = P + 1 /\ Len(rest) + 1 = n
        BY <1>1, <2>6
      <4> QED
        BY <1>3, <2>5, <3>1, <3>2, <4>1
    <3>3. CASE i # n
      <4>1. i \in 1..n - 1 /\ i + 1 \in 1..n
        BY <3>1, <3>3
      <4>2. g[i] = s[(P - n) + (i + 1)]
        BY <1>2, <2>1, <2>3, <2>5, <2>6, <4>1
      <4>3. /\ (P - n) + (i + 1) = ((P + 1) - n) + i
            /\ ((P + 1) - n) + i \in 1..P
        BY <1>1, <2>1, <4>1
      <4> QED
        BY <1>3, <3>1, <4>2, <4>3
    <3> QED
      BY <3>2, <3>3
  <2> QED
    BY <1>3, <2>5, <2>7, <2>8 DEF EndOf, q
<1> QED
  BY <1>4, <1>5

LEMMA Published ==
    ASSUME Bus!TypeOK, Remembered, NEW e \in Bus!Event, Bus!Publish(e)
    PROVE  /\ published' = Append(published, e) /\ published' \in Seq(Bus!Event)
           /\ history' \in Seq(Bus!Event) /\ Len(history') <= HistoryLimit
           /\ Remembered'
<1>1. /\ published' = Append(published, e)
      /\ history' = IF Len(history) < HistoryLimit THEN Append(history, e)
                    ELSE Append(Tail(history), e)
  BY DEF Bus!Publish
<1>2. published \in Seq(Bus!Event) /\ history \in Seq(Bus!Event)
  BY DEF Bus!TypeOK
<1>3. EndOf(history, published, HistoryLimit) /\ HistoryLimit \in Nat \ {0}
  BY Names DEF Remembered
<1>4. /\ published' \in Seq(Bus!Event) /\ history' \in Seq(Bus!Event)
      /\ EndOf(history', published', HistoryLimit)
  BY <1>1, <1>2, <1>3, Slid
<1>5. Len(history') <= HistoryLimit
  <2>1. Len(published') \in Nat
    BY <1>4
  <2>2. Len(history') = IF Len(published') < HistoryLimit THEN Len(published')
                        ELSE HistoryLimit
    BY <1>4 DEF EndOf
  <2> QED
    BY <1>3, <2>1, <2>2
<1> QED
  BY <1>1, <1>4, <1>5 DEF Remembered

LEMMA Says ==
    ASSUME NEW s \in Seq(Bus!Event), NEW e \in Bus!Event, NEW x, NEW w,
           Bus!LastSays(Append(s, e), x, w)
    PROVE  \/ e.item = x /\ e.what = w
           \/ Bus!LastSays(s, x, w) /\ (e.item = x => e.what = "resolved")
<1> DEFINE q == Append(s, e)
           P == Len(s)
<1>1. /\ P \in Nat /\ Len(q) = P + 1 /\ q[P + 1] = e
      /\ \A i \in 1..P : q[i] = s[i]
  OBVIOUS
<1>2. Bus!LastSays(q, x, w)
  OBVIOUS
<1> HIDE DEF q, P
<1>3. PICK i \in 1..P + 1 :
          /\ q[i].item = x /\ q[i].what = w
          /\ \A j \in (i + 1)..P + 1 : q[j].item = x => q[j].what = "resolved"
  BY <1>1, <1>2 DEF Bus!LastSays
<1>4. CASE i = P + 1
  BY <1>1, <1>3, <1>4
<1>5. CASE i # P + 1
  <2>1. i \in 1..P /\ P + 1 \in (i + 1)..P + 1
    BY <1>1, <1>5
  <2>2. \A j \in (i + 1)..P : j \in 1..P /\ j \in (i + 1)..P + 1
    BY <1>1, <2>1
  <2>3. \A j \in (i + 1)..P : s[j].item = x => s[j].what = "resolved"
    BY <1>1, <1>3, <2>2
  <2>4. s[i].item = x /\ s[i].what = w
    BY <1>1, <1>3, <2>1
  <2>5. Bus!LastSays(s, x, w)
    BY <2>1, <2>3, <2>4 DEF Bus!LastSays, P
  <2> QED
    BY <1>1, <1>3, <2>1, <2>5
<1> QED
  BY <1>4, <1>5

\* What register() of a plugin adds comes without an event.
Provided(x) == \E p \in Plugin : x \in Bus!Range(Provides[p])

LEMMA ToldOf ==
    ASSUME Bus!TypeOK, Told, NEW e \in Bus!Event, published' = Append(published, e),
           e.what = "on" => e.item \in active',
           e.what = "off" => e.item \notin active',
           \A x \in active : x \in active' \/ (x = e.item /\ e.what = "off"),
           \A x \in active' : x \in active \/ (x = e.item /\ e.what = "on") \/ Provided(x)
    PROVE  Told'
<1> SUFFICES ASSUME NEW x \in Bus!Item
             PROVE  /\ Bus!LastSays(published', x, "on") => x \in active'
                    /\ Bus!LastSays(published', x, "off") => x \notin active' \/ Provided(x)
  BY DEF Told, Provided
<1>1. published \in Seq(Bus!Event)
  BY DEF Bus!TypeOK
<1>2. /\ Bus!LastSays(published, x, "on") => x \in active
      /\ Bus!LastSays(published, x, "off") => x \notin active \/ Provided(x)
  BY DEF Told, Provided
<1>3. ASSUME Bus!LastSays(published', x, "on") PROVE x \in active'
  <2>1. \/ e.item = x /\ e.what = "on"
        \/ Bus!LastSays(published, x, "on") /\ (e.item = x => e.what = "resolved")
    BY <1>1, <1>3, Says
  <2> QED
    BY <1>2, <2>1
<1>4. ASSUME Bus!LastSays(published', x, "off") PROVE x \notin active' \/ Provided(x)
  <2>1. \/ e.item = x /\ e.what = "off"
        \/ Bus!LastSays(published, x, "off") /\ (e.item = x => e.what = "resolved")
    BY <1>1, <1>4, Says
  <2> QED
    BY <1>2, <2>1
<1> QED
  BY <1>3, <1>4

LEMMA ToldStill ==
    ASSUME Told, published' = published, active \subseteq active',
           \A x \in active' \ active : Provided(x)
    PROVE  Told'
BY DEF Told, Provided

LEMMA ProvidesServices ==
    ASSUME NEW p \in Plugin
    PROVE  /\ Bus!Range(Provides[p]) \subseteq Service
           /\ \A n \in 0..Len(Provides[p]) :
                 Bus!Range(SubSeq(Provides[p], 1, n)) \subseteq Bus!Range(Provides[p])
<1> DEFINE s == Provides[p]
<1>1. s \in Seq(Service)
  BY Names
<1> HIDE DEF s
<1>2. Bus!Range(s) = {s[i] : i \in 1..Len(s)}
  BY <1>1 DEF Bus!Range
<1>3. ASSUME NEW n \in 0..Len(s)
      PROVE  Bus!Range(SubSeq(s, 1, n)) \subseteq Bus!Range(s)
  <2> DEFINE q == SubSeq(s, 1, n)
  <2>1. n \in Nat /\ n <= Len(s) /\ \A i \in 1..n : s[i] \in Service
    BY <1>1
  <2>2. /\ q \in Seq(Service) /\ Len(q) = IF 1 <= n THEN n - 1 + 1 ELSE 0
        /\ \A i \in 1..n - 1 + 1 : q[i] = s[1 + i - 1]
    BY <1>1, <2>1, SubSeqProperties
  <2> HIDE DEF q
  <2>3. Len(q) = n /\ \A i \in 1..n : q[i] = s[i]
    BY <2>1, <2>2
  <2>4. Bus!Range(q) = {q[i] : i \in 1..Len(q)}
    BY <2>2 DEF Bus!Range
  <2>5. 1..n \subseteq 1..Len(s)
    BY <1>1, <2>1
  <2>6. Bus!Range(q) \subseteq Bus!Range(s)
    BY <1>2, <2>3, <2>4, <2>5
  <2> QED
    BY <2>6 DEF q
<1> QED
  BY <1>1, <1>2, <1>3 DEF s

LEMMA Wholeness ==
    ASSUME LoadedPluginsAreWhole,
           (active \cup removed) \cap Service \subseteq active' \cup removed',
           \A p \in (Plugin \cap active') \ active :
                Bus!Range(Provides[p]) \subseteq active' \cup removed'
    PROVE  LoadedPluginsAreWhole'
BY ProvidesServices DEF LoadedPluginsAreWhole, Bus!LoadedPluginsAreWhole

-----------------------------------------------------------------------------
(* Platform: what a step does to the publications in progress.             *)

LEMMA PublicationPushed ==
    ASSUME NEW S, NEW s \in Seq(S), NEW f \in S,
           \A i \in 1..Len(s) : HeardBy(s[i]), HeardBy(f)
    PROVE  /\ Append(s, f) \in Seq(S)
           /\ \A i \in 1..Len(Append(s, f)) : HeardBy(Append(s, f)[i])
<1> DEFINE q == Append(s, f)
<1>1. /\ Len(s) \in Nat /\ q \in Seq(S) /\ Len(q) = Len(s) + 1 /\ q[Len(s) + 1] = f
      /\ \A i \in 1..Len(s) : q[i] = s[i]
  OBVIOUS
<1> HIDE DEF q
<1>2. ASSUME NEW i \in 1..Len(q) PROVE HeardBy(q[i])
  <2>1. i \in 1..Len(s) \/ i = Len(s) + 1
    BY <1>1
  <2>2. CASE i \in 1..Len(s)
    <3>1. q[i] = s[i] /\ HeardBy(s[i])
      BY <1>1, <2>2
    <3> QED
      BY <3>1, Zenon
  <2>3. CASE i = Len(s) + 1
    BY <1>1, <2>3, Zenon
  <2> QED
    BY <2>1, <2>2, <2>3
<1> QED
  BY <1>1, <1>2 DEF q

LEMMA BusTop ==
    ASSUME Bus!TypeOK, Heard, publications # <<>>
    PROVE  /\ Bus!Top \in Bus!Publication /\ HeardBy(Bus!Top)
           /\ Bus!Front(publications) \in Seq(Bus!Publication)
           /\ \A i \in 1..Len(Bus!Front(publications)) :
                 HeardBy(Bus!Front(publications)[i])
<1> DEFINE S == Bus!Publication
           s == publications
<1>1. s \in Seq(S)
  BY DEF Bus!TypeOK
<1> HIDE DEF S
<1>2. Len(s) \in Nat /\ Len(s) > 0
  BY <1>1, EmptySeq
<1>3. s[Len(s)] \in S /\ HeardBy(s[Len(s)])
  <2>1. Len(s) \in 1..Len(s)
    BY <1>2
  <2>2. s[Len(s)] \in S
    BY <1>1, <2>1, ElementOfSeq
  <2> QED
    BY <2>1, <2>2 DEF Heard
<1>4. Bus!Top = s[Len(s)]
  BY DEF Bus!Top, Bus!Last
<1>5. /\ Front(s) \in Seq(S) /\ Len(Front(s)) = Len(s) - 1
      /\ \A i \in 1..Len(s) - 1 : Front(s)[i] = s[i]
  BY <1>1, <1>2, FrontOf
<1>6. Bus!Front(s) = Front(s)
  BY DEF Front, Bus!Front
<1>7. ASSUME NEW i \in 1..Len(Front(s)) PROVE HeardBy(Front(s)[i])
  <2>1. Front(s)[i] = s[i] /\ i \in 1..Len(s)
    BY <1>2, <1>5
  <2>2. HeardBy(s[i])
    BY <2>1 DEF Heard
  <2> QED
    BY <2>1, <2>2, Zenon
<1>8. s[Len(s)] \in Bus!Publication /\ Front(s) \in Seq(Bus!Publication)
  BY <1>3, <1>5 DEF S
<1>9. \A i \in 1..Len(Front(s)) : HeardBy(Front(s)[i])
  BY <1>7
<1> HIDE DEF s
<1>10. /\ Bus!Top \in Bus!Publication /\ HeardBy(Bus!Top)
       /\ Bus!Front(s) \in Seq(Bus!Publication)
       /\ \A i \in 1..Len(Bus!Front(s)) : HeardBy(Bus!Front(s)[i])
  BY <1>3, <1>4, <1>6, <1>8, <1>9, Zenon
<1> QED
  BY <1>10 DEF s

LEMMA PublishedTo ==
    ASSUME Bus!TypeOK, Heard, NEW e \in Bus!Event, Bus!Publish(e)
    PROVE  publications' \in Seq(Bus!Publication) /\ Heard'
<1> DEFINE to == Bus!SubscribersOf(Bus!Name(e))
           f == [event |-> e, handlers |-> to, called |-> <<>>, running |-> FALSE]
           S == Bus!Publication
<1>1. publications' = Append(publications, f) /\ publications \in Seq(S)
  BY DEF Bus!Publish, Bus!TypeOK
<1>2. to \in Seq(Handler)
  BY SubscribersType
<1> HIDE DEF to
<1>3. f \in S
  BY <1>2, EmptySeq DEF Bus!Publication
<1>4. HeardBy(f)
  <2>1. f.called = <<>> /\ f.handlers = to /\ Len(to) \in Nat
    BY <1>2
  <2> HIDE DEF f
  <2> QED
    BY <2>1 DEF HeardBy
<1> HIDE DEF f, S
<1>5. \A i \in 1..Len(publications) : HeardBy(publications[i])
  BY DEF Heard
<1>6. /\ publications' \in Seq(S)
      /\ \A i \in 1..Len(publications') : HeardBy(publications'[i])
  BY <1>1, <1>3, <1>4, <1>5, PublicationPushed
<1> QED
  BY <1>6 DEF S, Heard

LEMMA CalledNext ==
    ASSUME Bus!TypeOK, Heard, Bus!Call
    PROVE  publications' \in Seq(Bus!Publication) /\ Heard'
<1> DEFINE f == Bus!Top
           h == Head(Bus!Remaining(f))
           g == [f EXCEPT !.running = TRUE, !.called = Append(@, h)]
           S == Bus!Publication
           front == Bus!Front(publications)
<1>1. /\ publications # <<>> /\ Bus!Remaining(f) # <<>>
      /\ publications' = Append(front, g)
  BY DEF Bus!Call, Bus!Replaced
<1>2. /\ f \in S /\ HeardBy(f) /\ front \in Seq(S)
      /\ \A i \in 1..Len(front) : HeardBy(front[i])
  BY <1>1, BusTop
<1> HIDE DEF front, f, h
<1>3. /\ f.event \in Bus!Event /\ f.handlers \in Seq(Handler) /\ f.called \in Seq(Handler)
      /\ f = [event |-> f.event, handlers |-> f.handlers, called |-> f.called,
              running |-> f.running]
  BY <1>2 DEF Bus!Publication
<1> DEFINE done == f.called
           all == f.handlers
           D == Len(done)
           A == Len(all)
<1>4. D \in Nat /\ A \in Nat /\ D <= A /\ \A k \in 1..D : done[k] = all[k]
  BY <1>2, <1>3 DEF HeardBy
<1>5. D + 1 <= A /\ h = all[D + 1]
  <2>1. Bus!Remaining(f) = SubSeq(all, D + 1, A)
    BY DEF Bus!Remaining
  <2>2. \A i \in D + 1..A : all[i] \in Handler
    BY <1>3, <1>4
  <2> HIDE DEF done, all, D, A
  <2>3. all \in Seq(Handler) /\ D + 1 \in Nat
    BY <1>3, <1>4 DEF all
  <2>4. /\ Len(SubSeq(all, D + 1, A)) = IF D + 1 <= A THEN A - (D + 1) + 1 ELSE 0
        /\ \A i \in 1..A - (D + 1) + 1 : SubSeq(all, D + 1, A)[i] = all[(D + 1) + i - 1]
        /\ SubSeq(all, D + 1, A) \in Seq(Handler)
    BY <1>4, <2>2, <2>3, SubSeqProperties
  <2>5. D + 1 <= A
    BY <1>1, <2>1, <2>4, EmptySeq
  <2>6. 1 \in 1..A - (D + 1) + 1 /\ (D + 1) + 1 - 1 = D + 1
    BY <1>4, <2>5
  <2> QED
    BY <1>1, <2>1, <2>4, <2>5, <2>6, HeadTailProperties DEF h
<1>6. h \in Handler
  BY <1>3, <1>4, <1>5
<1> DEFINE q == Append(done, h)
<1>7. /\ q \in Seq(Handler) /\ Len(q) = D + 1 /\ q[D + 1] = h
      /\ \A k \in 1..D : q[k] = done[k]
  BY <1>3, <1>6
<1> HIDE DEF q
<1>8. g \in S /\ g.called = q /\ g.handlers = all
  <2>1. g = [[f EXCEPT !.running = TRUE] EXCEPT !.called = q]
    BY DEF q
  <2>2. f \in [event : Bus!Event, handlers : Seq(Handler), called : Seq(Handler),
               running : BOOLEAN]
    BY <1>2 DEF Bus!Publication
  <2>3. g \in [event : Bus!Event, handlers : Seq(Handler), called : Seq(Handler),
               running : BOOLEAN]
    BY <1>7, <2>1, <2>2
  <2>4. g.called = q /\ g.handlers = f.handlers
    BY <2>1, <2>2
  <2> QED
    BY <2>3, <2>4 DEF Bus!Publication
<1> HIDE DEF g
<1>9. HeardBy(g)
  <2> HIDE DEF done, all
  <2>1. Len(all) = A
    OBVIOUS
  <2> HIDE DEF D, A
  <2>2. ASSUME NEW k \in 1..D + 1 PROVE q[k] = all[k]
    <3>1. k \in 1..D \/ k = D + 1
      BY <1>4
    <3> QED
      BY <1>4, <1>5, <1>7, <3>1
  <2> QED
    BY <1>5, <1>7, <1>8, <2>1, <2>2 DEF HeardBy
<1> HIDE DEF S
<1>10. /\ publications' \in Seq(S)
       /\ \A i \in 1..Len(publications') : HeardBy(publications'[i])
  BY <1>1, <1>2, <1>8, <1>9, PublicationPushed
<1> QED
  BY <1>10 DEF S, Heard

LEMMA ReturnedTo ==
    ASSUME Bus!TypeOK, Heard, Bus!HandlerReturns
    PROVE  publications' \in Seq(Bus!Publication) /\ Heard'
<1> DEFINE f == Bus!Top
           g == [f EXCEPT !.running = FALSE]
           S == Bus!Publication
           front == Bus!Front(publications)
<1>1. publications # <<>> /\ publications' = Append(front, g)
  BY DEF Bus!HandlerReturns, Bus!Replaced
<1>2. /\ f \in S /\ HeardBy(f) /\ front \in Seq(S)
      /\ \A i \in 1..Len(front) : HeardBy(front[i])
  BY <1>1, BusTop
<1> HIDE DEF front, f
<1>3. g \in S /\ g.called = f.called /\ g.handlers = f.handlers
  BY <1>2 DEF Bus!Publication
<1> HIDE DEF g, S
<1>4. HeardBy(g)
  BY <1>2, <1>3 DEF HeardBy
<1>5. /\ publications' \in Seq(S)
      /\ \A i \in 1..Len(publications') : HeardBy(publications'[i])
  BY <1>1, <1>2, <1>3, <1>4, PublicationPushed
<1> QED
  BY <1>5 DEF S, Heard

LEMMA Ended ==
    ASSUME Bus!TypeOK, Heard, publications # <<>>, publications' = Bus!Front(publications)
    PROVE  publications' \in Seq(Bus!Publication) /\ Heard'
BY BusTop DEF Heard

-----------------------------------------------------------------------------
(* Platform: the inductive invariant.                                      *)

LEMMA Change ==
    ASSUME BusIInv, NEW e \in Bus!Event, Bus!Publish(e),
           subscribers' = subscribers, raising' = raising,
           active' \subseteq Bus!Item, removed' \subseteq Service,
           e.what = "on" => e.item \in active',
           e.what = "off" => e.item \notin active',
           \A x \in active : x \in active' \/ (x = e.item /\ e.what = "off"),
           \A x \in active' : x \in active \/ (x = e.item /\ e.what = "on") \/ Provided(x),
           (active \cup removed) \cap Service \subseteq active' \cup removed',
           \A p \in (Plugin \cap active') \ active :
                Bus!Range(Provides[p]) \subseteq active' \cup removed'
    PROVE  BusIInv'
<1>1. /\ published' = Append(published, e) /\ published' \in Seq(Bus!Event)
      /\ history' \in Seq(Bus!Event) /\ Len(history') <= HistoryLimit
      /\ Remembered'
  BY Published DEF BusIInv
<1>2. publications' \in Seq(Bus!Publication) /\ Heard'
  BY PublishedTo DEF BusIInv
<1>3. Told'
  BY <1>1, ToldOf DEF BusIInv
<1>4. LoadedPluginsAreWhole'
  BY Wholeness DEF BusIInv
<1>5. subscribers' \in [Watched -> Seq(Handler)] /\ raising' \in BOOLEAN
  BY DEF BusIInv, Bus!TypeOK
<1>6. Bus!TypeOK'
  BY <1>1, <1>2, <1>5 DEF Bus!TypeOK
<1> QED
  BY <1>1, <1>2, <1>3, <1>4, <1>6 DEF BusIInv

LEMMA NoChange ==
    ASSUME BusIInv, UNCHANGED <<active, history, published, removed>>,
           subscribers' \in [Watched -> Seq(Handler)], raising' \in BOOLEAN,
           publications' \in Seq(Bus!Publication), Heard'
    PROVE  BusIInv'
<1>1. Bus!TypeOK'
  BY DEF BusIInv, Bus!TypeOK
<1>2. Remembered'
  BY DEF BusIInv, Remembered
<1>3. Told'
  BY ToldStill DEF BusIInv
<1>4. LoadedPluginsAreWhole'
  BY Wholeness DEF BusIInv, LoadedPluginsAreWhole, Bus!LoadedPluginsAreWhole
<1> QED
  BY <1>1, <1>2, <1>3, <1>4 DEF BusIInv

LEMMA BusTypes ==
    ASSUME BusIInv
    PROVE  /\ active \subseteq Bus!Item /\ removed \subseteq Service
           /\ subscribers \in [Watched -> Seq(Handler)] /\ raising \in BOOLEAN
           /\ publications \in Seq(Bus!Publication)
BY DEF BusIInv, Bus!TypeOK

LEMMA RegisterKeeps ==
    ASSUME BusIInv, NEW x \in Module \cup Capability, Bus!Register(x)
    PROVE  BusIInv'
<1> DEFINE e == [item |-> x, what |-> "on"]
<1>1. /\ active' = active \cup {x} /\ removed' = removed
      /\ Bus!Publish(e) /\ subscribers' = subscribers /\ raising' = raising
  BY DEF Bus!Register
<1>2. x \in Bus!Item /\ x \notin Plugin
  BY Names DEF Bus!Item
<1>3. e \in Bus!Event /\ e.item = x /\ e.what = "on"
  BY <1>2, EventType
<1> HIDE DEF e
<1> QED
  BY <1>1, <1>2, <1>3, BusTypes, Change

LEMMA RegisterServiceKeeps ==
    ASSUME BusIInv, NEW s \in Service, Bus!RegisterService(s)
    PROVE  BusIInv'
<1> DEFINE e == [item |-> s, what |-> "on"]
<1>1. /\ active' = active \cup {s} /\ removed' = removed \ {s}
      /\ Bus!Publish(e) /\ subscribers' = subscribers /\ raising' = raising
  BY DEF Bus!RegisterService
<1>2. s \in Bus!Item /\ s \notin Plugin
  BY Names DEF Bus!Item
<1>3. e \in Bus!Event /\ e.item = s /\ e.what = "on"
  BY <1>2, EventType
<1> HIDE DEF e
<1> QED
  BY <1>1, <1>2, <1>3, BusTypes, Change

LEMMA WithdrawKeeps ==
    ASSUME BusIInv, NEW x \in Bus!Item, Bus!Withdraw(x)
    PROVE  BusIInv'
<1> DEFINE e == [item |-> x, what |-> "off"]
<1>1. /\ active' = active \ {x}
      /\ removed' = IF x \in Service THEN removed \cup {x} ELSE removed
      /\ Bus!Publish(e) /\ subscribers' = subscribers /\ raising' = raising
  BY DEF Bus!Withdraw
<1>2. e \in Bus!Event /\ e.item = x /\ e.what = "off"
  BY EventType
<1> HIDE DEF e
<1>3. removed' \subseteq Service /\ (active \cup removed) \cap Service \subseteq active' \cup removed'
  BY <1>1, BusTypes
<1> QED
  BY <1>1, <1>2, <1>3, BusTypes, Change

LEMMA ResolveKeeps ==
    ASSUME BusIInv, NEW s \in Service, Bus!Resolve(s)
    PROVE  BusIInv'
<1> DEFINE e == [item |-> s, what |-> "resolved"]
<1>1. /\ active' = active /\ removed' = removed
      /\ Bus!Publish(e) /\ subscribers' = subscribers /\ raising' = raising
  BY DEF Bus!Resolve
<1>2. e \in Bus!Event /\ e.what = "resolved"
  BY EventType DEF Bus!Item
<1> HIDE DEF e
<1> QED
  BY <1>1, <1>2, BusTypes, Change

LEMMA LoadKeeps ==
    ASSUME BusIInv, NEW p \in Plugin, Bus!Load(p)
    PROVE  BusIInv'
<1> DEFINE e == [item |-> p, what |-> "on"]
           added == Bus!Range(Provides[p])
<1>1. /\ active' = active \cup {p} \cup added /\ removed' = removed \ added
      /\ Bus!Publish(e) /\ subscribers' = subscribers /\ raising' = raising
  BY DEF Bus!Load
<1>2. e \in Bus!Event /\ e.item = p /\ e.what = "on" /\ p \in Bus!Item
  BY EventType DEF Bus!Item
<1>3. added \subseteq Service /\ added \subseteq Bus!Item /\ \A x \in added : Provided(x)
  BY ProvidesServices DEF Bus!Item, Provided
<1>4. \A q \in Plugin : q \notin added
  BY <1>3, Names
<1>5. \A q \in (Plugin \cap active') \ active : q = p
  BY <1>1, <1>4
<1>6. \A q \in (Plugin \cap active') \ active :
          Bus!Range(Provides[q]) \subseteq active' \cup removed'
  BY <1>1, <1>5
<1> HIDE DEF e, added
<1> QED
  BY <1>1, <1>2, <1>3, <1>6, BusTypes, Change

LEMMA LoadFailsKeeps ==
    ASSUME BusIInv, NEW p \in Plugin, Bus!LoadFails(p)
    PROVE  BusIInv'
<1>1. PICK n \in 0..Len(Provides[p]) :
          /\ active' = active \cup Bus!Range(SubSeq(Provides[p], 1, n))
          /\ removed' = removed \ Bus!Range(SubSeq(Provides[p], 1, n))
  BY DEF Bus!LoadFails
<1> DEFINE added == Bus!Range(SubSeq(Provides[p], 1, n))
<1>2. added \subseteq Service /\ \A x \in added : Provided(x)
  BY ProvidesServices DEF Provided
<1>3. active' = active \cup added /\ removed' = removed \ added
  BY <1>1
<1>4. UNCHANGED <<subscribers, history, publications, raising, published>>
  BY DEF Bus!LoadFails
<1> HIDE DEF added
<1>5. \A q \in Plugin : q \notin added
  BY <1>2, Names
<1>6. active' \subseteq Bus!Item /\ removed' \subseteq Service
  BY <1>2, <1>3, BusTypes DEF Bus!Item
<1>7. Bus!TypeOK'
  BY <1>4, <1>6 DEF BusIInv, Bus!TypeOK
<1>8. Remembered' /\ Heard'
  BY <1>4 DEF BusIInv, Remembered, Heard
<1>9. Told'
  BY <1>2, <1>3, <1>4, ToldStill DEF BusIInv
<1>10. LoadedPluginsAreWhole'
  BY <1>3, <1>5, Wholeness DEF BusIInv
<1> QED
  BY <1>7, <1>8, <1>9, <1>10 DEF BusIInv

LEMMA SetFeatureKeeps ==
    ASSUME BusIInv, NEW f \in Feature, Bus!SetFeature(f)
    PROVE  BusIInv'
<1>1. f \in Bus!Item /\ f \notin Plugin /\ f \notin Service
  BY Names DEF Bus!Item
<1>2. UNCHANGED <<subscribers, raising, removed>>
  BY DEF Bus!SetFeature
<1> DEFINE on == [item |-> f, what |-> "on"]
           off == [item |-> f, what |-> "off"]
<1>3. /\ on \in Bus!Event /\ on.item = f /\ on.what = "on"
      /\ off \in Bus!Event /\ off.item = f /\ off.what = "off"
  BY <1>1, EventType
<1>4. \/ active' = active \cup {f} /\ Bus!Publish(on)
      \/ active' = active \ {f} /\ Bus!Publish(off)
  BY DEF Bus!SetFeature
<1> HIDE DEF on, off
<1>5. CASE active' = active \cup {f} /\ Bus!Publish(on)
  BY <1>1, <1>2, <1>3, <1>5, BusTypes, Change
<1>6. CASE active' = active \ {f} /\ Bus!Publish(off)
  BY <1>1, <1>2, <1>3, <1>6, BusTypes, Change
<1> QED
  BY <1>4, <1>5, <1>6

LEMMA BusKeeps ==
    ASSUME BusIInv,
           \/ \E n \in Watched, h \in Handler : Bus!Subscribe(n, h) \/ Bus!Unsubscribe(n, h)
           \/ Bus!Call \/ Bus!HandlerReturns \/ Bus!Return
           \/ Bus!HandlerRaises \/ Bus!HandlerCatches
    PROVE  BusIInv'
<1>1. Bus!TypeOK /\ Heard
  BY DEF BusIInv
<1>9. /\ subscribers \in [Watched -> Seq(Handler)] /\ raising \in BOOLEAN
      /\ publications \in Seq(Bus!Publication)
  BY BusTypes
<1>2. ASSUME NEW n \in Watched, NEW h \in Handler, Bus!Subscribe(n, h)
      PROVE  BusIInv'
  <2>1. /\ UNCHANGED <<active, history, published, removed>>
        /\ raising' = raising /\ publications' = publications
        /\ subscribers' = [subscribers EXCEPT ![n] = Append(subscribers[n], h)]
    BY <1>2 DEF Bus!Subscribe
  <2>2. Append(subscribers[n], h) \in Seq(Handler)
    BY <1>9
  <2>3. subscribers' \in [Watched -> Seq(Handler)]
    BY <1>9, <2>1, <2>2
  <2>4. Heard'
    BY <1>1, <2>1 DEF Heard
  <2> QED
    BY <2>1, <2>3, <2>4, <1>9, NoChange
<1>3. ASSUME NEW n \in Watched, NEW h \in Handler, Bus!Unsubscribe(n, h)
      PROVE  BusIInv'
  <2>1. /\ UNCHANGED <<active, history, published, removed>>
        /\ raising' = raising /\ publications' = publications
        /\ subscribers' = [subscribers EXCEPT ![n] = Bus!RemoveFirst(subscribers[n], h)]
    BY <1>3 DEF Bus!Unsubscribe
  <2>2. Bus!RemoveFirst(subscribers[n], h) \in Seq(Handler)
    BY <1>9, RemovedType
  <2>3. subscribers' \in [Watched -> Seq(Handler)]
    BY <1>9, <2>1, <2>2
  <2>4. Heard'
    BY <1>1, <2>1 DEF Heard
  <2> QED
    BY <2>1, <2>3, <2>4, <1>9, NoChange
<1>4. CASE Bus!Call
  <2>1. UNCHANGED <<active, subscribers, history, raising, published, removed>>
    BY <1>4 DEF Bus!Call
  <2>2. publications' \in Seq(Bus!Publication) /\ Heard'
    BY <1>1, <1>4, CalledNext
  <2> QED
    BY <2>1, <2>2, <1>9, NoChange
<1>5. CASE Bus!HandlerReturns
  <2>1. UNCHANGED <<active, subscribers, history, raising, published, removed>>
    BY <1>5 DEF Bus!HandlerReturns
  <2>2. publications' \in Seq(Bus!Publication) /\ Heard'
    BY <1>1, <1>5, ReturnedTo
  <2> QED
    BY <2>1, <2>2, <1>9, NoChange
<1>6. CASE Bus!Return
  <2>1. /\ UNCHANGED <<active, subscribers, history, raising, published, removed>>
        /\ publications # <<>> /\ publications' = Bus!Front(publications)
    BY <1>6 DEF Bus!Return
  <2>2. publications' \in Seq(Bus!Publication) /\ Heard'
    BY <1>1, <2>1, Ended
  <2> QED
    BY <2>1, <2>2, <1>9, NoChange
<1>7. CASE Bus!HandlerRaises
  <2>1. /\ UNCHANGED <<active, subscribers, history, published, removed>>
        /\ publications # <<>> /\ publications' = Bus!Front(publications)
        /\ raising' = (Len(publications) > 1)
    BY <1>7 DEF Bus!HandlerRaises
  <2>2. publications' \in Seq(Bus!Publication) /\ Heard'
    BY <1>1, <2>1, Ended
  <2>3. raising' \in BOOLEAN
    BY <2>1
  <2> QED
    BY <2>1, <2>2, <2>3, <1>9, NoChange
<1>8. CASE Bus!HandlerCatches
  <2>1. /\ UNCHANGED <<active, subscribers, history, publications, published, removed>>
        /\ raising' = FALSE
    BY <1>8 DEF Bus!HandlerCatches
  <2>2. Heard'
    BY <1>1, <2>1 DEF Heard
  <2> QED
    BY <2>1, <2>2, <1>9, NoChange
<1> QED
  BY <1>2, <1>3, <1>4, <1>5, <1>6, <1>7, <1>8

LEMMA BusInitially == Bus!Init => BusIInv
<1> SUFFICES ASSUME Bus!Init PROVE BusIInv
  OBVIOUS
<1>1. /\ active = {} /\ subscribers = [n \in Watched |-> <<>>] /\ history = <<>>
      /\ publications = <<>> /\ raising = FALSE /\ published = <<>> /\ removed = {}
  BY DEF Bus!Init
<1>2. Bus!TypeOK
  <2>1. history \in Seq(Bus!Event) /\ published \in Seq(Bus!Event)
    BY <1>1, EmptySeq
  <2>2. publications \in Seq(Bus!Publication)
    BY <1>1, EmptySeq
  <2>3. subscribers \in [Watched -> Seq(Handler)]
    BY <1>1, EmptySeq
  <2>4. Len(history) <= HistoryLimit
    BY <1>1, Names
  <2> QED
    BY <1>1, <2>1, <2>2, <2>3, <2>4 DEF Bus!TypeOK
<1>3. Remembered /\ Heard
  BY <1>1, Names DEF Remembered, EndOf, Heard
<1>4. Told
  BY <1>1 DEF Told, Bus!LastSays
<1>5. LoadedPluginsAreWhole
  BY <1>1 DEF LoadedPluginsAreWhole, Bus!LoadedPluginsAreWhole
<1> QED
  BY <1>2, <1>3, <1>4, <1>5 DEF BusIInv

LEMMA BusStep == BusIInv /\ [Bus!Next]_busVars => BusIInv'
<1> SUFFICES ASSUME BusIInv, [Bus!Next]_busVars PROVE BusIInv'
  OBVIOUS
<1>1. CASE UNCHANGED busVars
  <2>1. UNCHANGED <<active, history, published, removed, subscribers, raising, publications>>
    BY <1>1 DEF busVars
  <2>2. Heard'
    BY <2>1 DEF BusIInv, Heard
  <2> QED
    BY <2>1, <2>2, BusTypes, NoChange
<1>2. CASE Bus!Next
  <2>1. \/ \E x \in Module \cup Capability : Bus!Register(x)
        \/ \E s \in Service : Bus!RegisterService(s) \/ Bus!Resolve(s)
        \/ \E x \in Bus!Item : Bus!Withdraw(x)
        \/ \E p \in Plugin : Bus!Load(p) \/ Bus!LoadFails(p)
        \/ \E f \in Feature : Bus!SetFeature(f)
        \/ \E n \in Watched, h \in Handler : Bus!Subscribe(n, h) \/ Bus!Unsubscribe(n, h)
        \/ Bus!Call \/ Bus!HandlerReturns \/ Bus!Return
        \/ Bus!HandlerRaises \/ Bus!HandlerCatches
    BY <1>2 DEF Bus!Next
  <2> QED
    BY <2>1, RegisterKeeps, RegisterServiceKeeps, ResolveKeeps, WithdrawKeeps,
       LoadKeeps, LoadFailsKeeps, SetFeatureKeeps, BusKeeps
<1> QED
  BY <1>1, <1>2

-----------------------------------------------------------------------------
(* Platform: what the invariant says.                                      *)

LEMMA FirstOnes ==
    ASSUME NEW S, NEW s \in Seq(S), NEW q \in Seq(S), Len(q) <= Len(s),
           \A i \in 1..Len(q) : q[i] = s[i]
    PROVE  Bus!IsPrefix(q, s)
<1>1. Len(q) \in Nat /\ Len(s) \in Nat
  OBVIOUS
<1>2. \A i \in 1..Len(q) : q[i] \in S /\ s[i] \in S
  BY <1>1
<1> DEFINE a == SubSeq(q, 1, Len(q))
           b == SubSeq(s, 1, Len(q))
<1>3. /\ a \in Seq(S) /\ Len(a) = IF 1 <= Len(q) THEN Len(q) - 1 + 1 ELSE 0
      /\ \A i \in 1..Len(q) - 1 + 1 : a[i] = q[1 + i - 1]
  BY <1>2, SubSeqProperties
<1>4. /\ b \in Seq(S) /\ Len(b) = IF 1 <= Len(q) THEN Len(q) - 1 + 1 ELSE 0
      /\ \A i \in 1..Len(q) - 1 + 1 : b[i] = s[1 + i - 1]
  BY <1>1, <1>2, SubSeqProperties
<1> HIDE DEF a, b
<1>5. /\ Len(a) = Len(q) /\ Len(b) = Len(q)
      /\ \A i \in 1..Len(q) : a[i] = q[i] /\ b[i] = s[i]
  <2>1. Len(q) - 1 + 1 = Len(q) /\ \A i \in 1..Len(q) : 1 + i - 1 = i
    BY <1>1
  <2>2. Len(a) = Len(q) /\ Len(b) = Len(q)
    BY <1>1, <1>3, <1>4
  <2>3. ASSUME NEW i \in 1..Len(q) PROVE a[i] = q[i] /\ b[i] = s[i]
    BY <1>3, <1>4, <2>1
  <2> QED
    BY <2>2, <2>3
<1>6. a = b
  BY <1>3, <1>4, <1>5, SeqEqual
<1> QED
  BY <1>6 DEF Bus!IsPrefix, a, b

LEMMA EndIsSuffix ==
    ASSUME NEW S, NEW s \in Seq(S), NEW h \in Seq(S), NEW n \in Nat, EndOf(h, s, n)
    PROVE  Bus!IsSuffix(h, s) /\ Len(h) <= Len(s)
<1> DEFINE H == Len(h)
           P == Len(s)
           a == [i \in 1..H |-> h[(H - i) + 1]]
           b == [i \in 1..P |-> s[(P - i) + 1]]
<1>1. H \in Nat /\ P \in Nat
  OBVIOUS
<1>2. /\ H = IF P < n THEN P ELSE n
      /\ \A i \in 1..H : h[i] = s[(P - H) + i]
  BY DEF EndOf
<1>3. Bus!Reverse(h) = a /\ Bus!Reverse(s) = b
  BY DEF Bus!Reverse
<1> HIDE DEF H, P
<1>4. H <= P
  BY <1>1, <1>2
<1>5. /\ \A i \in 1..H : (H - i) + 1 \in 1..H
      /\ \A i \in 1..P : (P - i) + 1 \in 1..P
  BY <1>1
<1>6. a \in Seq(S) /\ Len(a) = H
  <2>1. \A i \in 1..H : h[(H - i) + 1] \in S
    BY <1>5 DEF H
  <2> QED
    BY <1>1, <2>1, IsASeq
<1>7. b \in Seq(S) /\ Len(b) = P
  <2>1. \A i \in 1..P : s[(P - i) + 1] \in S
    BY <1>5 DEF P
  <2> QED
    BY <1>1, <2>1, IsASeq
<1>8. ASSUME NEW i \in 1..H PROVE a[i] = b[i]
  <2>1. /\ i \in 1..P /\ (H - i) + 1 \in 1..H
        /\ (P - H) + ((H - i) + 1) = (P - i) + 1
    BY <1>1, <1>4
  <2>2. a[i] = h[(H - i) + 1] /\ b[i] = s[(P - i) + 1]
    BY <2>1
  <2> QED
    BY <1>2, <2>1, <2>2
<1> HIDE DEF a, b
<1>9. Bus!IsPrefix(a, b)
  BY <1>4, <1>6, <1>7, <1>8, FirstOnes
<1> QED
  BY <1>3, <1>4, <1>9 DEF Bus!IsSuffix, H, P

LEMMA EndSays ==
    ASSUME NEW S, NEW s \in Seq(S), NEW h \in Seq(S), NEW n \in Nat, EndOf(h, s, n),
           NEW x, NEW w, Bus!LastSays(h, x, w)
    PROVE  Bus!LastSays(s, x, w)
<1> DEFINE H == Len(h)
           P == Len(s)
           D == P - H
<1>1. H \in Nat /\ P \in Nat
  OBVIOUS
<1>2. H <= P /\ \A i \in 1..H : h[i] = s[D + i]
  BY EndIsSuffix DEF EndOf
<1>3. PICK i \in 1..H :
          /\ h[i].item = x /\ h[i].what = w
          /\ \A j \in (i + 1)..H : h[j].item = x => h[j].what = "resolved"
  BY DEF Bus!LastSays
<1> HIDE DEF H, P
<1>4. D + i \in 1..P
  BY <1>1, <1>2
<1>5. ASSUME NEW j \in (D + i + 1)..P, s[j].item = x PROVE s[j].what = "resolved"
  <2>1. j - D \in (i + 1)..H /\ j - D \in 1..H /\ D + (j - D) = j
    BY <1>1, <1>2
  <2>2. h[j - D] = s[j]
    BY <1>2, <2>1
  <2> QED
    BY <1>3, <1>5, <2>1, <2>2
<1>6. s[D + i].item = x /\ s[D + i].what = w
  BY <1>2, <1>3
<1> QED
  BY <1>4, <1>5, <1>6 DEF Bus!LastSays, P

LEMMA HistoryIsEnd ==
    ASSUME Bus!TypeOK, Remembered, NEW n \in 1..HistoryLimit
    PROVE  Bus!History(n) \in Seq(Bus!Event) /\ EndOf(Bus!History(n), published, n)
<1> DEFINE h == history
           H == Len(h)
           P == Len(published)
           q == Bus!Recent(h, n)
           S == Bus!Event
<1>1. h \in Seq(S) /\ published \in Seq(S) /\ H \in Nat /\ P \in Nat
  BY DEF Bus!TypeOK
<1>2. HistoryLimit \in Nat \ {0} /\ n \in Nat /\ n > 0 /\ n <= HistoryLimit
  BY Names
<1>3. /\ H = IF P < HistoryLimit THEN P ELSE HistoryLimit
      /\ \A i \in 1..H : h[i] = published[(P - H) + i]
  BY DEF Remembered, EndOf
<1>4. Bus!History(n) = IF n < H THEN q ELSE h
  <2>1. ~(n = 0) /\ ~(n < 0)
    BY <1>2
  <2> QED
    BY <1>2, <2>1 DEF Bus!History
<1> HIDE DEF S
<1>5. CASE ~(n < H)
  <2>1. Bus!History(n) = h
    BY <1>4, <1>5
  <2> HIDE DEF h, H, P
  <2>2. H = IF P < n THEN P ELSE n
    BY <1>1, <1>2, <1>3, <1>5
  <2> QED
    BY <1>1, <1>3, <2>1, <2>2 DEF EndOf, H, P, S
<1>6. CASE n < H
  <2>1. Bus!History(n) = SubSeq(h, (H - n) + 1, H)
    BY <1>4, <1>6 DEF Bus!Recent
  <2> DEFINE r == SubSeq(h, (H - n) + 1, H)
  <2> HIDE DEF H, P, h
  <2>2. (H - n) + 1 \in 1..H /\ H - ((H - n) + 1) + 1 = n
    BY <1>1, <1>2, <1>6
  <2>3. \A i \in (H - n) + 1..H : h[i] \in S
    <3>1. \A i \in 1..H : h[i] \in S
      BY <1>1 DEF H
    <3>2. \A i \in (H - n) + 1..H : i \in 1..H
      BY <1>1, <2>2
    <3> QED
      BY <3>1, <3>2
  <2>4. /\ r \in Seq(S)
        /\ Len(r) = IF (H - n) + 1 <= H THEN H - ((H - n) + 1) + 1 ELSE 0
        /\ \A i \in 1..H - ((H - n) + 1) + 1 : r[i] = h[((H - n) + 1) + i - 1]
    BY <1>1, <2>2, <2>3, SubSeqProperties
  <2> HIDE DEF r
  <2>5. Len(r) = n /\ \A i \in 1..n : r[i] = h[((H - n) + 1) + i - 1]
    BY <1>1, <2>2, <2>4
  <2>6. ASSUME NEW i \in 1..n PROVE r[i] = published[(P - n) + i]
    <3>1. /\ ((H - n) + 1) + i - 1 = (H - n) + i /\ (H - n) + i \in 1..H
          /\ (P - H) + ((H - n) + i) = (P - n) + i
      BY <1>1, <1>2, <1>6
    <3>2. r[i] = h[(H - n) + i]
      BY <2>5, <3>1
    <3>3. h[(H - n) + i] = published[(P - H) + ((H - n) + i)]
      BY <1>3, <3>1
    <3> QED
      BY <3>1, <3>2, <3>3
  <2>7. n = IF P < n THEN P ELSE n
    BY <1>1, <1>2, <1>3, <1>6
  <2> QED
    BY <2>1, <2>4, <2>5, <2>6, <2>7 DEF EndOf, P, S, r
<1> QED
  BY <1>5, <1>6

\* Every variable of Platform stays in its range.
THEOREM BusTypeCorrect == Bus!Spec => []Bus!TypeOK
<1>1. BusIInv => Bus!TypeOK
  BY DEF BusIInv
<1> QED
  BY <1>1, BusInitially, BusStep, PTL DEF Bus!Spec, busVars, Bus!vars

\* Each handler subscribed when a publication began is called once, in the
\* order of subscription, and before it returns all of them.
THEOREM HandlersAreHeard == Bus!Spec => []HandlersHeardOnce
<1>1. ASSUME BusIInv PROVE HandlersHeardOnce
  <2>1. ASSUME NEW i \in 1..Len(publications)
        PROVE  /\ Bus!IsPrefix(publications[i].called, publications[i].handlers)
               /\ Bus!Remaining(publications[i]) = <<>> =>
                     publications[i].called = publications[i].handlers
    <3> DEFINE f == publications[i]
    <3>1. f \in Bus!Publication /\ HeardBy(f)
      BY <1>1 DEF BusIInv, Bus!TypeOK, Heard
    <3> HIDE DEF f
    <3> DEFINE done == f.called
               all == f.handlers
    <3>2. done \in Seq(Handler) /\ all \in Seq(Handler)
      BY <3>1 DEF Bus!Publication
    <3>3. Len(done) <= Len(all) /\ \A k \in 1..Len(done) : done[k] = all[k]
      BY <3>1 DEF HeardBy
    <3>4. Bus!IsPrefix(done, all)
      BY <3>2, <3>3, FirstOnes
    <3>5. ASSUME Bus!Remaining(f) = <<>> PROVE done = all
      <4>1. SubSeq(all, Len(done) + 1, Len(all)) = <<>>
        BY <3>5 DEF Bus!Remaining
      <4> HIDE DEF done, all
      <4>2. Len(done) \in Nat /\ Len(all) \in Nat
        BY <3>2
      <4>3. \A k \in Len(done) + 1..Len(all) : all[k] \in Handler
        BY <3>2, <4>2
      <4>4. Len(SubSeq(all, Len(done) + 1, Len(all))) =
                IF Len(done) + 1 <= Len(all) THEN Len(all) - (Len(done) + 1) + 1 ELSE 0
        BY <4>2, <4>3, SubSeqProperties
      <4>5. Len(SubSeq(all, Len(done) + 1, Len(all))) = 0
        BY <4>1, EmptySeq
      <4>6. Len(done) = Len(all)
        BY <3>3, <4>2, <4>4, <4>5
      <4> QED
        BY <3>2, <3>3, <4>6, SeqEqual
    <3> QED
      BY <3>4, <3>5 DEF f
  <2> QED
    BY <2>1 DEF HandlersHeardOnce, Bus!HandlersHeardOnce
<1> QED
  BY <1>1, BusInitially, BusStep, PTL DEF Bus!Spec, busVars, Bus!vars

\* Who reads the last n events learns what is registered, loaded and enabled.
THEOREM HistoryIsRight == Bus!Spec => []HistoryTellsState
<1>1. ASSUME BusIInv PROVE HistoryTellsState
  <2>1. ASSUME NEW n \in 1..HistoryLimit
        PROVE  /\ Bus!IsSuffix(Bus!History(n), published)
               /\ Len(published) >= n => Len(Bus!History(n)) = n
               /\ \A x \in Bus!Item :
                     /\ Bus!LastSays(Bus!History(n), x, "on") => x \in active
                     /\ Bus!LastSays(Bus!History(n), x, "off") =>
                           x \notin active \/ \E p \in Plugin : x \in Bus!Range(Provides[p])
    <3> DEFINE h == Bus!History(n)
               S == Bus!Event
    <3>1. n \in Nat /\ published \in Seq(S) /\ Len(published) \in Nat
      BY <1>1, Names DEF BusIInv, Bus!TypeOK
    <3>2. h \in Seq(S) /\ EndOf(h, published, n)
      BY <1>1, HistoryIsEnd DEF BusIInv
    <3> HIDE DEF h, S
    <3>3. Bus!IsSuffix(h, published)
      BY <3>1, <3>2, EndIsSuffix
    <3>4. Len(published) >= n => Len(h) = n
      BY <3>1, <3>2 DEF EndOf
    <3>5. ASSUME NEW x \in Bus!Item
          PROVE  /\ Bus!LastSays(h, x, "on") => Bus!LastSays(published, x, "on")
                 /\ Bus!LastSays(h, x, "off") => Bus!LastSays(published, x, "off")
      BY <3>1, <3>2, EndSays
    <3> QED
      BY <1>1, <3>3, <3>4, <3>5 DEF BusIInv, Told, h
  <2> QED
    BY <2>1 DEF HistoryTellsState, Bus!HistoryTellsState
<1> QED
  BY <1>1, BusInitially, BusStep, PTL DEF Bus!Spec, busVars, Bus!vars

\* A loaded plugin has registered all its services, whatever failed before.
THEOREM LoadedMeansWhole == Bus!Spec => []LoadedPluginsAreWhole
<1>1. BusIInv => LoadedPluginsAreWhole
  BY DEF BusIInv
<1> QED
  BY <1>1, BusInitially, BusStep, PTL DEF Bus!Spec, busVars, Bus!vars

-----------------------------------------------------------------------------
(* Resolver. What an invariant says of the graph, it says of a catalogue c.  *)

Needs(c, m) == DOMAIN c[m] \cap DOMAIN c

\* Every set of these nodes has one that needs none of the set: there is no
\* cycle among them.
Founded(c, S) ==
    \A T \in SUBSET S : T # {} => \E m \in T : Needs(c, m) \cap T = {}

\* The path p leads along dependencies through the nodes that are visited and
\* not finished. What is finished needs what is finished, in no cycle.
OnPath(c, col, p) ==
    /\ \A i, j \in 1..Len(p) : p[i] = p[j] => i = j
    /\ \A i \in 1..Len(p) : col[p[i]] = 1
    /\ \A m \in DOMAIN c : col[m] = 1 => \E i \in 1..Len(p) : p[i] = m
    /\ \A i, j \in 1..Len(p) : j = i + 1 => p[j] \in Needs(c, p[i])
    /\ \A m \in DOMAIN c : col[m] = 2 => \A n \in Needs(c, m) : col[n] = 2
    /\ Founded(c, {m \in DOMAIN c : col[m] = 2})

Listed(s) == {s[i] : i \in 1..Len(s)}

\* Dependencies of a module that are not in s yet.
Unordered(c, s, m) == Needs(c, m) \ Listed(s)

\* A node is ordered (s) or ready (r) once all it needs is ordered, before it.
InOrder(c, s, r) ==
    /\ \A i, j \in 1..Len(s) : s[i] = s[j] => i = j
    /\ \A i, j \in 1..Len(r) : r[i] = r[j] => i = j
    /\ Listed(s) \cap Listed(r) = {}
    /\ \A m \in DOMAIN c : Unordered(c, s, m) = {} <=> m \in Listed(s) \cup Listed(r)
    /\ \A i, j \in 1..Len(s) : s[j] \in Needs(c, s[i]) => j < i

SdkTyped ==
    /\ resolution \in {"idle", "conflicts", "conflict", "search", "cycle", "order", "ordered"}
    /\ DOMAIN catalogue \subseteq ModuleId
    /\ colour \in [DOMAIN catalogue -> 0..2]
    /\ path \in Seq(DOMAIN catalogue)
    /\ ready \in Seq(DOMAIN catalogue)
    /\ order \in Seq(DOMAIN catalogue)

\* Nothing is left of the last answer.
Forgotten ==
    /\ resolution \in {"idle", "conflicts"} =>
          path = <<>> /\ \A m \in DOMAIN catalogue : colour[m] = 0
    /\ resolution \in {"idle", "conflicts", "search"} => ready = <<>> /\ order = <<>>

Searched == resolution = "search" => OnPath(catalogue, colour, path)

Looped ==
    resolution = "cycle" =>
        \A i \in 1..Len(path) : path[(i % Len(path)) + 1] \in Needs(catalogue, path[i])

Sequenced ==
    resolution \in {"order", "ordered"} =>
        /\ Founded(catalogue, DOMAIN catalogue)
        /\ InOrder(catalogue, order, ready)
        /\ inDegree = [m \in DOMAIN catalogue |->
                          Cardinality(Unordered(catalogue, order, m))]
        /\ resolution = "ordered" => ready = <<>>

SdkInv == SdkTyped /\ Forgotten /\ Searched /\ Looped /\ Sequenced

\* A finite set of numbers can be enumerated in order.
LEMMA Enumerated ==
    ASSUME NEW n \in Nat, NEW S, S \subseteq Nat, IsFiniteSet(S), Cardinality(S) = n
    PROVE  \E s \in [1..n -> S] :
              /\ {s[i] : i \in 1..n} = S
              /\ \A i, j \in 1..n : i < j => s[i] < s[j]
<1> DEFINE Is(s, T, k) == /\ {s[i] : i \in 1..k} = T
                          /\ \A i, j \in 1..k : i < j => s[i] < s[j]
           Bad == {k \in Nat : \E T \in SUBSET Nat :
                      /\ IsFiniteSet(T) /\ Cardinality(T) = k
                      /\ ~ \E s \in [1..k -> T] : Is(s, T, k)}
<1>1. SUFFICES Bad = {}
  OBVIOUS
<1>2. SUFFICES ASSUME Bad # {} PROVE FALSE
  OBVIOUS
<1>3. PICK k \in Bad : \A y \in Bad : k <= y
  <2>1. Bad \subseteq Nat
    OBVIOUS
  <2> HIDE DEF Bad
  <2> QED
    BY <1>2, <2>1, Least
<1>4. PICK T \in SUBSET Nat : /\ IsFiniteSet(T) /\ Cardinality(T) = k
                              /\ ~ \E s \in [1..k -> T] : Is(s, T, k)
  OBVIOUS
<1>5. k \in Nat
  OBVIOUS
<1>6. CASE k = 0
  <2>1. T = {}
    BY <1>4, <1>6, FS_EmptySet
  <2> DEFINE s == [i \in 1..0 |-> 0]
  <2>2. s \in [1..k -> T] /\ 1..k = {}
    BY <1>6
  <2>3. Is(s, T, k)
    BY <2>1, <2>2
  <2> QED
    BY <1>4, <2>2, <2>3
<1>7. CASE k # 0
  <2>1. T # {}
    BY <1>4, <1>7, FS_EmptySet
  <2>2. PICK x \in T : \A y \in T : x <= y
    BY <2>1, Least
  <2>3. IsFiniteSet(T \ {x}) /\ Cardinality(T \ {x}) = k - 1
    BY <1>4, <2>2, FS_RemoveElement
  <2>4. k - 1 \in Nat /\ k - 1 \notin Bad
    <3>1. k - 1 \in Nat /\ ~(k <= k - 1)
      BY <1>5, <1>7
    <3> HIDE DEF Bad
    <3> QED
      BY <1>3, <3>1
  <2>5. PICK t \in [1..(k - 1) -> T \ {x}] : Is(t, T \ {x}, k - 1)
    BY <2>3, <2>4
  <2> DEFINE s == [i \in 1..k |-> IF i = 1 THEN x ELSE t[i - 1]]
  <2>6. \A i \in 2..k : i - 1 \in 1..(k - 1) /\ s[i] = t[i - 1] /\ s[i] \in T /\ x < s[i]
    <3> SUFFICES ASSUME NEW i \in 2..k
                 PROVE  i - 1 \in 1..(k - 1) /\ s[i] = t[i - 1] /\ s[i] \in T /\ x < s[i]
      OBVIOUS
    <3>1. i - 1 \in 1..(k - 1) /\ i # 1 /\ i \in 1..k
      BY <1>5
    <3>2. s[i] = t[i - 1] /\ t[i - 1] \in T \ {x}
      BY <3>1, <2>5
    <3>3. s[i] \in Nat /\ x \in Nat /\ x <= s[i] /\ x # s[i]
      BY <3>2, <2>2
    <3> QED
      BY <3>1, <3>2, <3>3
  <2>7. s[1] = x /\ 1 \in 1..k
    BY <1>5, <1>7
  <2>8. s \in [1..k -> T]
    <3>1. \A i \in 1..k : s[i] \in T
      BY <2>6, <2>7, <1>5
    <3> QED
      BY <3>1
  <2>9. {s[i] : i \in 1..k} = T
    <3>1. ASSUME NEW y \in T PROVE \E i \in 1..k : s[i] = y
      <4>1. CASE y = x
        BY <4>1, <2>7
      <4>2. CASE y # x
        <5>1. PICK j \in 1..(k - 1) : t[j] = y
          BY <4>2, <2>5
        <5>2. j + 1 \in 2..k /\ j + 1 \in 1..k /\ (j + 1) - 1 = j
          BY <1>5
        <5>3. s[j + 1] = t[(j + 1) - 1]
          BY <2>6, <5>2
        <5> QED
          BY <5>1, <5>2, <5>3
      <4> QED
        BY <4>1, <4>2
    <3>2. \A i \in 1..k : s[i] \in T
      BY <2>8
    <3> HIDE DEF s
    <3> QED
      BY <3>1, <3>2
  <2>10. ASSUME NEW i \in 1..k, NEW j \in 1..k, i < j PROVE s[i] < s[j]
    <3>1. j \in 2..k
      BY <1>5, <2>10
    <3>2. CASE i = 1
      BY <3>1, <3>2, <2>6, <2>7
    <3>3. CASE i # 1
      <4>1. i \in 2..k /\ i - 1 < j - 1
        BY <1>5, <3>1, <3>3, <2>10
      <4>2. i - 1 \in 1..(k - 1) /\ j - 1 \in 1..(k - 1) /\ s[i] = t[i - 1] /\ s[j] = t[j - 1]
        BY <4>1, <3>1, <2>6
      <4>3. t[i - 1] < t[j - 1]
        BY <4>1, <4>2, <2>5
      <4> QED
        BY <4>2, <4>3
    <3> QED
      BY <3>2, <3>3
  <2>11. Is(s, T, k)
    <3> HIDE DEF s
    <3> QED
      BY <2>9, <2>10
  <2> HIDE DEF s
  <2> QED
    BY <1>4, <2>8, <2>11
<1> QED
  BY <1>6, <1>7

LEMMA SortedIs ==
    ASSUME NEW S, S \subseteq ModuleId
    PROVE  /\ Sdk!Sorted(S) \in Seq(S)
           /\ {Sdk!Sorted(S)[i] : i \in DOMAIN Sdk!Sorted(S)} = S
           /\ \A i, j \in DOMAIN Sdk!Sorted(S) :
                 Sdk!Sorted(S)[i] = Sdk!Sorted(S)[j] => i = j
<1> DEFINE n == Cardinality(S)
           s == Sdk!Sorted(S)
<1>1. S \subseteq Nat /\ IsFiniteSet(S) /\ n \in Nat
  <2>1. ModuleId \subseteq Nat /\ IsFiniteSet(ModuleId)
    BY SdkAssumption DEF Sdk!ResolverAssumption, Sdk!IsFiniteSet, IsFiniteSet
  <2>2. IsFiniteSet(S)
    BY <2>1, FS_Subset
  <2> QED
    BY <2>1, <2>2, FS_CardinalityType
<1>2. \E t \in [1..n -> S] :
         /\ {t[i] : i \in 1..n} = S
         /\ \A i, j \in 1..n : i < j => t[i] < t[j]
  BY <1>1, Enumerated
<1>3. \E t \in [1..n -> S] :
         /\ Sdk!ToSet(t) = S
         /\ \A i, j \in DOMAIN t : i < j => t[i] < t[j]
  BY <1>2 DEF Sdk!ToSet
<1>4. /\ s \in [1..n -> S]
      /\ Sdk!ToSet(s) = S
      /\ \A i, j \in DOMAIN s : i < j => s[i] < s[j]
  BY <1>3 DEF Sdk!Sorted, Sdk!Cardinality, Cardinality
<1> HIDE DEF s, n
<1>5. s \in Seq(S) /\ DOMAIN s = 1..n
  BY <1>1, <1>4, IsASeq
<1>6. ASSUME NEW i \in DOMAIN s, NEW j \in DOMAIN s, s[i] = s[j] PROVE i = j
  <2>1. i \in 1..n /\ j \in 1..n /\ s[i] \in Nat /\ s[j] \in Nat
    BY <1>1, <1>4, <1>5
  <2>2. ~(i < j) /\ ~(j < i)
    BY <1>4, <1>6, <2>1
  <2> QED
    BY <2>1, <2>2, <1>1
<1> QED
  BY <1>4, <1>5, <1>6 DEF s, Sdk!ToSet

LEMMA SortedOf ==
    ASSUME NEW S, S \subseteq ModuleId, NEW t, t = Sdk!Sorted(S)
    PROVE  /\ t \in Seq(S) /\ Listed(t) = S
           /\ \A i, j \in 1..Len(t) : t[i] = t[j] => i = j
<1>1. /\ t \in Seq(S) /\ {t[i] : i \in DOMAIN t} = S
      /\ \A i, j \in DOMAIN t : t[i] = t[j] => i = j
  BY SortedIs
<1>2. DOMAIN t = 1..Len(t)
  BY <1>1
<1> QED
  BY <1>1, <1>2 DEF Listed

LEMMA SdkStart == Sdk!Init => SdkInv
<1> SUFFICES ASSUME Sdk!Init PROVE SdkInv
  OBVIOUS
<1> USE DEF Sdk!Init
<1>1. DOMAIN catalogue = {}
  OBVIOUS
<1>2. <<>> \in Seq(DOMAIN catalogue) /\ colour \in [DOMAIN catalogue -> 0..2]
  BY <1>1, EmptySeq
<1>3. SdkTyped
  BY <1>1, <1>2 DEF SdkTyped
<1>4. Forgotten
  BY <1>1 DEF Forgotten
<1> QED
  BY <1>3, <1>4 DEF SdkInv, Searched, Looped, Sequenced

\* A node that needs only what is finished adds no cycle to it.
LEMMA FoundedGrows ==
    ASSUME NEW c, NEW F, NEW x, x \notin F, Founded(c, F),
           \A m \in F : Needs(c, m) \cap {x} = {}, Needs(c, x) \cap {x} = {}
    PROVE  Founded(c, F \cup {x})
<1> SUFFICES ASSUME NEW T \in SUBSET (F \cup {x}), T # {}
             PROVE  \E m \in T : Needs(c, m) \cap T = {}
  BY DEF Founded
<1>1. CASE T \ {x} = {}
  <2>1. T = {x}
    BY <1>1
  <2> QED
    BY <2>1
<1>2. CASE T \ {x} # {}
  <2>1. T \ {x} \in SUBSET F
    OBVIOUS
  <2>2. PICK m \in T \ {x} : Needs(c, m) \cap (T \ {x}) = {}
    BY <1>2, <2>1 DEF Founded
  <2>3. Needs(c, m) \cap {x} = {}
    BY <2>1, <2>2
  <2> QED
    BY <2>2, <2>3
<1> QED
  BY <1>1, <1>2

LEMMA StartsOnPath ==
    ASSUME NEW c, NEW col, \A m \in DOMAIN c : col[m] = 0
    PROVE  OnPath(c, col, <<>>)
<1>1. {m \in DOMAIN c : col[m] = 2} = {} /\ 1..Len(<<>>) = {}
  OBVIOUS
<1>2. Founded(c, {})
  BY DEF Founded
<1>3. Founded(c, {m \in DOMAIN c : col[m] = 2})
  BY <1>1, <1>2
<1> QED
  BY <1>1, <1>3 DEF OnPath

LEMMA VisitOnPath ==
    ASSUME NEW c, NEW col \in [DOMAIN c -> 0..2], NEW p \in Seq(DOMAIN c), OnPath(c, col, p),
           NEW x \in DOMAIN c, col[x] = 0, p # <<>> => x \in Needs(c, p[Len(p)])
    PROVE  OnPath(c, [col EXCEPT ![x] = 1], Append(p, x))
<1> DEFINE k == Len(p)
           F == {m \in DOMAIN c : col[m] = 2}
           q == Append(p, x)
           new == [col EXCEPT ![x] = 1]
<1>1. k \in Nat
  OBVIOUS
<1>2. Len(q) = k + 1 /\ q[k + 1] = x /\ \A i \in 1..k : q[i] = p[i]
  OBVIOUS
<1>3. new[x] = 1 /\ \A m \in DOMAIN c : m # x => new[m] = col[m]
  OBVIOUS
<1>4. \A i \in 1..k : p[i] \in DOMAIN c /\ col[p[i]] = 1 /\ p[i] # x
  BY DEF OnPath
<1>5. 1..(k + 1) = (1..k) \cup {k + 1}
  BY <1>1
<1> HIDE DEF q, new
<1>6. \A i, j \in 1..(k + 1) : q[i] = q[j] => i = j
  <2> SUFFICES ASSUME NEW i \in 1..(k + 1), NEW j \in 1..(k + 1), q[i] = q[j]
               PROVE  i = j
    OBVIOUS
  <2>1. CASE i \in 1..k /\ j \in 1..k
    BY <1>2, <2>1 DEF OnPath
  <2>2. CASE i = k + 1 \/ j = k + 1
    BY <1>2, <1>4, <1>5, <2>2
  <2> QED
    BY <1>5, <2>1, <2>2
<1>7. \A i \in 1..(k + 1) : new[q[i]] = 1
  BY <1>2, <1>3, <1>4, <1>5
<1>8. \A m \in DOMAIN c : new[m] = 1 => \E i \in 1..(k + 1) : q[i] = m
  <2> SUFFICES ASSUME NEW m \in DOMAIN c, new[m] = 1
               PROVE  \E i \in 1..(k + 1) : q[i] = m
    OBVIOUS
  <2>1. CASE m = x
    BY <2>1, <1>2, <1>5
  <2>2. CASE m # x
    <3>1. PICK i \in 1..k : p[i] = m
      BY <1>3, <2>2 DEF OnPath
    <3> QED
      BY <3>1, <1>2, <1>5
  <2> QED
    BY <2>1, <2>2
<1>9. \A i, j \in 1..(k + 1) : j = i + 1 => q[j] \in Needs(c, q[i])
  <2> SUFFICES ASSUME NEW i \in 1..(k + 1), NEW j \in 1..(k + 1), j = i + 1
               PROVE  q[j] \in Needs(c, q[i])
    OBVIOUS
  <2>1. CASE j \in 1..k
    <3>1. i \in 1..k
      BY <1>1, <2>1
    <3> QED
      BY <3>1, <2>1, <1>2 DEF OnPath
  <2>2. CASE j = k + 1
    <3>1. i = k /\ i \in 1..k /\ p # <<>>
      BY <1>1, <2>2
    <3> QED
      BY <3>1, <2>2, <1>2
  <2> QED
    BY <1>5, <2>1, <2>2
<1>10. \A m \in DOMAIN c : new[m] = 2 => \A n \in Needs(c, m) : new[n] = 2
  <2> SUFFICES ASSUME NEW m \in DOMAIN c, new[m] = 2, NEW n \in Needs(c, m)
               PROVE  new[n] = 2
    OBVIOUS
  <2>1. m # x /\ col[m] = 2
    BY <1>3
  <2>2. n \in DOMAIN c /\ col[n] = 2
    BY <2>1 DEF OnPath, Needs
  <2> QED
    BY <2>2, <1>3
<1>11. {m \in DOMAIN c : new[m] = 2} = F
  BY <1>3
<1>12. Founded(c, {m \in DOMAIN c : new[m] = 2})
  BY <1>11 DEF OnPath
<1>13. OnPath(c, new, q)
  BY <1>2, <1>6, <1>7, <1>8, <1>9, <1>10, <1>12 DEF OnPath
<1> QED
  BY <1>13 DEF q, new

LEMMA ReturnOnPath ==
    ASSUME NEW c, NEW col \in [DOMAIN c -> 0..2], NEW p \in Seq(DOMAIN c), OnPath(c, col, p),
           p # <<>>, \A n \in Needs(c, p[Len(p)]) : col[n] = 2
    PROVE  OnPath(c, [col EXCEPT ![p[Len(p)]] = 2], Front(p))
<1> DEFINE k == Len(p)
           x == p[k]
           F == {m \in DOMAIN c : col[m] = 2}
           q == Front(p)
           new == [col EXCEPT ![x] = 2]
<1>1. k \in Nat /\ k > 0 /\ k \in 1..k
  OBVIOUS
<1>2. Len(q) = k - 1 /\ \A i \in 1..(k - 1) : q[i] = p[i]
  BY <1>1, FrontOf
<1>3. x \in DOMAIN c /\ col[x] = 1
  BY <1>1 DEF OnPath
<1>4. new[x] = 2 /\ \A m \in DOMAIN c : m # x => new[m] = col[m]
  BY <1>3
<1>5. \A i \in 1..k : p[i] \in DOMAIN c
  OBVIOUS
<1>6. \A i \in 1..(k - 1) : i \in 1..k /\ i # k
  BY <1>1
<1>7. \A i \in 1..(k - 1) : p[i] # x
  BY <1>1, <1>6 DEF OnPath
<1>8. 1..k = (1..(k - 1)) \cup {k}
  BY <1>1
<1> HIDE DEF q, new, x
<1>9. \A i, j \in 1..(k - 1) : q[i] = q[j] => i = j
  BY <1>2, <1>6 DEF OnPath
<1>10. \A i \in 1..(k - 1) : new[q[i]] = 1
  BY <1>2, <1>4, <1>5, <1>6, <1>7 DEF OnPath
<1>11. \A m \in DOMAIN c : new[m] = 1 => \E i \in 1..(k - 1) : q[i] = m
  <2> SUFFICES ASSUME NEW m \in DOMAIN c, new[m] = 1
               PROVE  \E i \in 1..(k - 1) : q[i] = m
    OBVIOUS
  <2>1. m # x /\ col[m] = 1
    BY <1>4
  <2>2. PICK i \in 1..k : p[i] = m
    BY <2>1 DEF OnPath
  <2>3. i \in 1..(k - 1)
    BY <1>8, <2>1, <2>2 DEF x
  <2> QED
    BY <2>2, <2>3, <1>2
<1>12. \A i, j \in 1..(k - 1) : j = i + 1 => q[j] \in Needs(c, q[i])
  BY <1>2, <1>6 DEF OnPath
<1>13. \A n \in Needs(c, x) : n \in F
  BY DEF Needs, x
<1>14. {m \in DOMAIN c : new[m] = 2} = F \cup {x}
  BY <1>3, <1>4
<1>15. \A m \in DOMAIN c : new[m] = 2 => \A n \in Needs(c, m) : new[n] = 2
  <2> SUFFICES ASSUME NEW m \in DOMAIN c, new[m] = 2, NEW n \in Needs(c, m)
               PROVE  new[n] = 2
    OBVIOUS
  <2>1. n \in DOMAIN c
    BY DEF Needs
  <2>2. col[n] = 2
    BY <1>4, <1>13 DEF OnPath
  <2> QED
    BY <2>1, <2>2, <1>4
<1>16. Founded(c, F \cup {x})
  <2>1. x \notin F
    BY <1>3
  <2>2. \A m \in F : Needs(c, m) \cap {x} = {}
    BY <1>3 DEF OnPath
  <2>3. Needs(c, x) \cap {x} = {}
    BY <1>13, <2>1
  <2>4. Founded(c, F)
    BY DEF OnPath
  <2> HIDE DEF F
  <2> QED
    BY <2>1, <2>2, <2>3, <2>4, FoundedGrows
<1>17. OnPath(c, new, q)
  <2>1. Founded(c, {m \in DOMAIN c : new[m] = 2})
    BY <1>14, <1>16
  <2> QED
    BY <1>2, <1>9, <1>10, <1>11, <1>12, <1>15, <2>1 DEF OnPath
<1> QED
  BY <1>17 DEF q, new, x

LEMMA ModOfLess ==
    ASSUME NEW n \in Nat, NEW i \in Nat, i < n
    PROVE  i % n = i
OBVIOUS

\* The part of the path from a node that its last one needs is a cycle.
LEMMA Loop ==
    ASSUME NEW c, NEW col \in [DOMAIN c -> 0..2], NEW p \in Seq(DOMAIN c), OnPath(c, col, p),
           NEW s \in 1..Len(p), p[s] \in Needs(c, p[Len(p)]),
           NEW q, q = SubSeq(p, s, Len(p))
    PROVE  /\ q \in Seq(DOMAIN c)
           /\ \A i \in 1..Len(q) : q[(i % Len(q)) + 1] \in Needs(c, q[i])
<1> DEFINE k == Len(p)
           n == (k - s) + 1
<1>1. k \in Nat /\ s \in Nat /\ 1 <= s /\ s <= k
  OBVIOUS
<1>2. n \in Nat /\ n >= 1 /\ \A i \in 1..n : s + i - 1 \in 1..k
  BY <1>1
<1>3. /\ q \in Seq(DOMAIN c) /\ Len(q) = n
      /\ \A i \in 1..n : q[i] = p[s + i - 1]
  <2>1. \A i \in s..k : p[i] \in DOMAIN c
    BY <1>1
  <2>2. k - s + 1 = n /\ s <= k
    BY <1>1
  <2> QED
    BY <1>1, <2>1, <2>2, SubSeqProperties
<1>4. ASSUME NEW i \in 1..n PROVE q[(i % n) + 1] \in Needs(c, q[i])
  <2>1. CASE i = n
    <3>1. i % n = 0
      BY <1>2, <2>1
    <3>2. (i % n) + 1 = 1 /\ 1 \in 1..n /\ s + 1 - 1 = s /\ s + i - 1 = k
      BY <1>1, <1>2, <2>1, <3>1
    <3>3. q[1] = p[s] /\ q[i] = p[k]
      BY <1>3, <3>2
    <3> QED
      BY <3>2, <3>3
  <2>2. CASE i # n
    <3>1. i \in Nat /\ i < n
      BY <1>2, <2>2
    <3>2. i % n = i
      BY <1>2, <3>1, ModOfLess
    <3>3. i + 1 \in 1..n /\ s + (i + 1) - 1 = (s + i - 1) + 1
      BY <1>1, <1>2, <3>1
    <3>4. q[i + 1] = p[(s + i - 1) + 1] /\ q[i] = p[s + i - 1]
      BY <1>3, <3>3
    <3>5. s + i - 1 \in 1..k /\ (s + i - 1) + 1 \in 1..k
      BY <1>2, <3>3
    <3>6. p[(s + i - 1) + 1] \in Needs(c, p[s + i - 1])
      BY <3>5 DEF OnPath
    <3> QED
      BY <3>2, <3>4, <3>6
  <2> QED
    BY <2>1, <2>2
<1> QED
  BY <1>3, <1>4

LEMMA AcyclicInOrder ==
    ASSUME NEW c, NEW r \in Seq(DOMAIN c),
           Listed(r) = {m \in DOMAIN c : Needs(c, m) = {}},
           \A i, j \in 1..Len(r) : r[i] = r[j] => i = j
    PROVE  InOrder(c, <<>>, r)
<1>1. Listed(<<>>) = {} /\ 1..Len(<<>>) = {}
  BY DEF Listed
<1>2. \A m \in DOMAIN c : Unordered(c, <<>>, m) = Needs(c, m)
  BY <1>1 DEF Unordered
<1> QED
  BY <1>1, <1>2 DEF InOrder

\* The node taken comes after all it needs; who waited only for it is ready.
LEMMA TakeInOrder ==
    ASSUME NEW c, NEW s \in Seq(DOMAIN c), NEW r \in Seq(DOMAIN c), InOrder(c, s, r), r # <<>>,
           NEW t \in Seq(DOMAIN c),
           Listed(t) = {m \in DOMAIN c :
                          Head(r) \in Needs(c, m) /\ Unordered(c, Append(s, Head(r)), m) = {}},
           \A i, j \in 1..Len(t) : t[i] = t[j] => i = j
    PROVE  InOrder(c, Append(s, Head(r)), Tail(r) \o t)
<1> DEFINE x == Head(r)
           a == Append(s, x)
           k == Len(s)
           l == Len(r)
           n == Len(t)
           b == Tail(r) \o t
<1>1. k \in Nat /\ l \in Nat /\ n \in Nat /\ l > 0 /\ x = r[1] /\ x \in DOMAIN c
  OBVIOUS
<1>2. Len(a) = k + 1 /\ a[k + 1] = x /\ \A i \in 1..k : a[i] = s[i]
  OBVIOUS
<1>3. 1..(k + 1) = (1..k) \cup {k + 1}
  BY <1>1
<1>4. Listed(a) = Listed(s) \cup {x}
  <2> HIDE DEF a
  <2>1. \A i \in 1..(k + 1) : a[i] \in Listed(s) \cup {x}
    BY <1>2, <1>3 DEF Listed
  <2>2. \A y \in Listed(s) \cup {x} : \E i \in 1..(k + 1) : a[i] = y
    BY <1>2, <1>3 DEF Listed
  <2>3. Listed(a) = {a[i] : i \in 1..(k + 1)}
    BY <1>2 DEF Listed
  <2> QED
    BY <2>1, <2>2, <2>3
<1>5. /\ Tail(r) \in Seq(DOMAIN c) /\ Len(Tail(r)) = l - 1
      /\ \A i \in 1..(l - 1) : Tail(r)[i] = r[i + 1]
  BY <1>1
<1>6. /\ Len(b) = (l - 1) + n
      /\ \A i \in 1..((l - 1) + n) :
            b[i] = IF i <= l - 1 THEN Tail(r)[i] ELSE t[i - (l - 1)]
  BY <1>5, ConcatProperties
<1>7. /\ \A i \in 1..(l - 1) : i + 1 \in 1..l /\ b[i] = r[i + 1]
      /\ \A i \in 1..n : (l - 1) + i \in 1..((l - 1) + n) /\ b[(l - 1) + i] = t[i]
      /\ \A i \in 1..((l - 1) + n) :
            i \in 1..(l - 1) \/ (i - (l - 1) \in 1..n /\ i = (l - 1) + (i - (l - 1)))
  <2>1. \A i \in 1..(l - 1) : i + 1 \in 1..l /\ i <= l - 1 /\ i \in 1..((l - 1) + n)
    BY <1>1
  <2>2. \A i \in 1..n : /\ (l - 1) + i \in 1..((l - 1) + n) /\ ~((l - 1) + i <= l - 1)
                        /\ ((l - 1) + i) - (l - 1) = i
    BY <1>1
  <2>3. \A i \in 1..((l - 1) + n) :
            i \in 1..(l - 1) \/ (i - (l - 1) \in 1..n /\ i = (l - 1) + (i - (l - 1)))
    BY <1>1
  <2> HIDE DEF b
  <2> QED
    BY <1>5, <1>6, <2>1, <2>2, <2>3
<1> HIDE DEF a, b
<1>8. Listed(b) = (Listed(r) \ {x}) \cup Listed(t)
  <2>1. ASSUME NEW i \in 1..((l - 1) + n) PROVE b[i] \in (Listed(r) \ {x}) \cup Listed(t)
    <3>1. CASE i \in 1..(l - 1)
      <4>1. i + 1 \in 1..l /\ i + 1 # 1 /\ 1 \in 1..l
        BY <1>1, <3>1
      <4>2. r[i + 1] # r[1]
        BY <4>1 DEF InOrder
      <4> QED
        BY <1>1, <1>7, <3>1, <4>1, <4>2 DEF Listed
    <3>2. CASE i - (l - 1) \in 1..n /\ i = (l - 1) + (i - (l - 1))
      <4>1. b[i] = t[i - (l - 1)]
        BY <1>7, <3>2
      <4> QED
        BY <3>2, <4>1 DEF Listed
    <3> QED
      BY <1>7, <3>1, <3>2
  <2>2. ASSUME NEW y \in (Listed(r) \ {x}) \cup Listed(t)
        PROVE  \E i \in 1..((l - 1) + n) : b[i] = y
    <3>1. CASE y \in Listed(t)
      BY <1>7, <3>1 DEF Listed
    <3>2. CASE y \in Listed(r) \ {x}
      <4>1. PICK j \in 1..l : r[j] = y
        BY <3>2 DEF Listed
      <4>2. j # 1
        BY <1>1, <3>2, <4>1
      <4>3. j - 1 \in 1..(l - 1) /\ (j - 1) + 1 = j /\ j - 1 \in 1..((l - 1) + n)
        BY <1>1, <4>2
      <4>4. b[j - 1] = r[(j - 1) + 1]
        BY <1>7, <4>3
      <4> QED
        BY <4>1, <4>3, <4>4
    <3> QED
      BY <2>2, <3>1, <3>2
  <2>3. Listed(b) = {b[i] : i \in 1..((l - 1) + n)}
    BY <1>6 DEF Listed
  <2> QED
    BY <2>1, <2>2, <2>3
<1>9. \A m \in DOMAIN c : Unordered(c, a, m) = Unordered(c, s, m) \ {x}
  BY <1>4 DEF Unordered
<1>10. x \in Listed(r) /\ x \notin Listed(s) /\ Needs(c, x) \subseteq Listed(s)
  <2>1. x \in Listed(r)
    BY <1>1 DEF Listed
  <2>2. x \notin Listed(s) /\ Unordered(c, s, x) = {}
    BY <2>1, <1>1 DEF InOrder
  <2> QED
    BY <2>1, <2>2 DEF Unordered
<1>11. \A m \in Listed(t) : m \notin Listed(s) /\ m \notin Listed(r) /\ m # x
  <2> SUFFICES ASSUME NEW m \in Listed(t)
               PROVE  m \notin Listed(s) /\ m \notin Listed(r) /\ m # x
    OBVIOUS
  <2>1. m \in DOMAIN c /\ x \in Needs(c, m)
    OBVIOUS
  <2>2. x \in Unordered(c, s, m)
    BY <2>1, <1>10 DEF Unordered
  <2> QED
    BY <2>1, <2>2, <1>10 DEF InOrder
<1>12. \A i, j \in 1..(k + 1) : a[i] = a[j] => i = j
  <2> SUFFICES ASSUME NEW i \in 1..(k + 1), NEW j \in 1..(k + 1), a[i] = a[j]
               PROVE  i = j
    OBVIOUS
  <2>1. \A h \in 1..k : s[h] # x
    BY <1>10 DEF Listed
  <2>2. CASE i \in 1..k /\ j \in 1..k
    BY <1>2, <2>2 DEF InOrder
  <2>3. CASE i = k + 1 \/ j = k + 1
    BY <1>2, <1>3, <2>1, <2>3
  <2> QED
    BY <1>3, <2>2, <2>3
<1>13. \A i, j \in 1..((l - 1) + n) : b[i] = b[j] => i = j
  <2> SUFFICES ASSUME NEW i \in 1..((l - 1) + n), NEW j \in 1..((l - 1) + n), b[i] = b[j]
               PROVE  i = j
    OBVIOUS
  <2>1. ASSUME NEW g \in 1..(l - 1), NEW h \in 1..n PROVE b[g] # b[(l - 1) + h]
    <3>1. b[g] \in Listed(r)
      <4>1. g + 1 \in 1..l /\ b[g] = r[g + 1]
        BY <1>7
      <4>2. r[g + 1] \in Listed(r)
        BY <4>1 DEF Listed
      <4> QED
        BY <4>1, <4>2
    <3>2. t[h] \in Listed(t)
      BY DEF Listed
    <3>3. b[(l - 1) + h] = t[h]
      BY <1>7
    <3>4. t[h] \notin Listed(r)
      BY <3>2, <1>11
    <3> QED
      BY <3>1, <3>3, <3>4
  <2>2. CASE i \in 1..(l - 1) /\ j \in 1..(l - 1)
    <3>1. i + 1 = j + 1
      BY <1>7, <2>2 DEF InOrder
    <3> QED
      BY <3>1, <2>2
  <2>3. CASE i \notin 1..(l - 1) /\ j \notin 1..(l - 1)
    <3>1. /\ i - (l - 1) \in 1..n /\ i = (l - 1) + (i - (l - 1))
          /\ j - (l - 1) \in 1..n /\ j = (l - 1) + (j - (l - 1))
      BY <1>7, <2>3
    <3>2. b[i] = t[i - (l - 1)] /\ b[j] = t[j - (l - 1)]
      BY <1>7, <3>1
    <3>3. i - (l - 1) = j - (l - 1)
      BY <3>1, <3>2
    <3> QED
      BY <3>1, <3>3
  <2>4. CASE i \in 1..(l - 1) /\ j \notin 1..(l - 1)
    <3>1. j - (l - 1) \in 1..n /\ j = (l - 1) + (j - (l - 1))
      BY <1>7, <2>4
    <3> QED
      BY <3>1, <2>1, <2>4
  <2>5. CASE i \notin 1..(l - 1) /\ j \in 1..(l - 1)
    <3>1. i - (l - 1) \in 1..n /\ i = (l - 1) + (i - (l - 1))
      BY <1>7, <2>5
    <3> QED
      BY <3>1, <2>1, <2>5
  <2> QED
    BY <2>2, <2>3, <2>4, <2>5
<1>14. Listed(a) \cap Listed(b) = {}
  BY <1>4, <1>8, <1>10, <1>11 DEF InOrder
<1>15. ASSUME NEW m \in DOMAIN c
       PROVE  Unordered(c, a, m) = {} <=> m \in Listed(a) \cup Listed(b)
  <2>1. CASE m \in Listed(s) \cup Listed(r)
    <3>1. Unordered(c, s, m) = {}
      BY <2>1 DEF InOrder
    <3> QED
      BY <3>1, <2>1, <1>4, <1>8, <1>9
  <2>2. CASE m \notin Listed(s) \cup Listed(r)
    <3>1. Unordered(c, s, m) # {}
      BY <2>2 DEF InOrder
    <3>2. m \in Listed(a) \cup Listed(b) <=> m \in Listed(t)
      BY <2>2, <1>4, <1>8, <1>10
    <3>3. Unordered(c, a, m) = {} => x \in Needs(c, m)
      BY <3>1, <1>9 DEF Unordered
    <3> QED
      BY <3>2, <3>3 DEF a
  <2> QED
    BY <2>1, <2>2
<1>16. ASSUME NEW i \in 1..(k + 1), NEW j \in 1..(k + 1), a[j] \in Needs(c, a[i])
       PROVE  j < i
  <2>1. CASE i = k + 1
    <3>1. a[j] \in Listed(s) /\ a[j] # x
      BY <1>2, <1>10, <1>16, <2>1
    <3>2. j # k + 1
      BY <3>1, <1>2
    <3> QED
      BY <3>2, <2>1, <1>1
  <2>2. CASE i # k + 1
    <3>1. i \in 1..k /\ a[i] = s[i] /\ s[i] \in Listed(s) /\ s[i] \in DOMAIN c
      BY <1>2, <1>3, <2>2 DEF Listed
    <3>2. Needs(c, s[i]) \subseteq Listed(s)
      BY <3>1 DEF InOrder, Unordered
    <3>3. a[j] # x
      BY <3>1, <3>2, <1>10, <1>16
    <3>4. j \in 1..k /\ a[j] = s[j]
      BY <3>3, <1>2, <1>3
    <3> QED
      BY <3>1, <3>4, <1>16 DEF InOrder
  <2> QED
    BY <2>1, <2>2
<1>17. InOrder(c, a, b)
  BY <1>2, <1>6, <1>12, <1>13, <1>14, <1>15, <1>16 DEF InOrder
<1> QED
  BY <1>17 DEF a, b

\* When nothing is ready in a graph without cycles, all is ordered.
LEMMA AllInOrder ==
    ASSUME NEW c, NEW s \in Seq(DOMAIN c), InOrder(c, s, <<>>), Founded(c, DOMAIN c)
    PROVE  Listed(s) = DOMAIN c
<1>1. Listed(s) \subseteq DOMAIN c
  BY DEF Listed
<1>2. SUFFICES ASSUME DOMAIN c \ Listed(s) # {} PROVE FALSE
  BY <1>1
<1>3. PICK m \in DOMAIN c \ Listed(s) : Needs(c, m) \cap (DOMAIN c \ Listed(s)) = {}
  BY <1>2 DEF Founded
<1>4. Unordered(c, s, m) = {}
  BY <1>3 DEF Unordered, Needs
<1>5. Listed(<<>>) = {}
  BY DEF Listed
<1> QED
  BY <1>3, <1>4, <1>5 DEF InOrder

LEMMA ResolveStep == SdkInv /\ Sdk!Resolve => SdkInv'
<1> SUFFICES ASSUME SdkInv, Sdk!Resolve PROVE SdkInv'
  OBVIOUS
<1> USE DEF SdkInv, Sdk!Resolve
<1>1. PICK c \in Catalogues : catalogue' = c /\ colour' = [m \in DOMAIN c |-> 0]
  OBVIOUS
<1>2. DOMAIN c \subseteq ModuleId
  BY SdkAssumption DEF Sdk!ResolverAssumption
<1>3. path = <<>> /\ ready = <<>> /\ order = <<>>
  BY DEF Forgotten
<1>4. <<>> \in Seq(DOMAIN c) /\ colour' \in [DOMAIN c -> 0..2]
  BY <1>1, EmptySeq
<1>5. SdkTyped'
  BY <1>1, <1>2, <1>3, <1>4 DEF SdkTyped
<1>6. \A m \in DOMAIN c : colour'[m] = 0
  BY <1>1
<1>7. Forgotten'
  BY <1>1, <1>3, <1>6 DEF Forgotten
<1> QED
  BY <1>5, <1>7 DEF Searched, Looped, Sequenced

LEMMA DetectConflictsStep == SdkInv /\ Sdk!DetectConflicts => SdkInv'
<1> SUFFICES ASSUME SdkInv, Sdk!DetectConflicts PROVE SdkInv'
  OBVIOUS
<1> USE DEF SdkInv, Sdk!DetectConflicts
<1>1. path = <<>> /\ \A m \in DOMAIN catalogue : colour[m] = 0
  BY DEF Forgotten
<1>2. resolution' \in {"conflict", "search"}
  OBVIOUS
<1>3. OnPath(catalogue, colour, path)
  BY <1>1, StartsOnPath
<1>4. SdkTyped'
  BY <1>2 DEF SdkTyped
<1>5. Forgotten'
  BY <1>2 DEF Forgotten
<1>6. Searched'
  BY <1>3 DEF Searched
<1> QED
  BY <1>2, <1>4, <1>5, <1>6 DEF Looped, Sequenced

LEMMA VisitStep ==
    ASSUME NEW m \in Sdk!Nodes
    PROVE  SdkInv /\ Sdk!Visit(m) => SdkInv'
<1> SUFFICES ASSUME SdkInv, Sdk!Visit(m) PROVE SdkInv'
  OBVIOUS
<1> USE DEF SdkInv, Sdk!Visit
<1>1. /\ m \in DOMAIN catalogue /\ colour \in [DOMAIN catalogue -> 0..2]
      /\ path \in Seq(DOMAIN catalogue)
  BY DEF Sdk!Nodes, SdkTyped
<1>2. path # <<>> => m \in Needs(catalogue, path[Len(path)])
  BY DEF Sdk!Edges, Sdk!Nodes, Sdk!Last, Needs
<1>3. OnPath(catalogue, [colour EXCEPT ![m] = 1], Append(path, m))
  BY <1>1, <1>2, VisitOnPath DEF Searched
<1>4. /\ [colour EXCEPT ![m] = 1] \in [DOMAIN catalogue -> 0..2]
      /\ Append(path, m) \in Seq(DOMAIN catalogue)
  BY <1>1
<1>5. SdkTyped'
  BY <1>4 DEF SdkTyped
<1>6. Forgotten' /\ Searched'
  BY <1>3 DEF Forgotten, Searched
<1> QED
  BY <1>5, <1>6 DEF Looped, Sequenced

LEMMA CloseCycleStep ==
    ASSUME NEW m \in Sdk!Nodes
    PROVE  SdkInv /\ Sdk!CloseCycle(m) => SdkInv'
<1> SUFFICES ASSUME SdkInv, Sdk!CloseCycle(m) PROVE SdkInv'
  OBVIOUS
<1> USE DEF SdkInv, Sdk!CloseCycle
<1> DEFINE s == CHOOSE i \in DOMAIN path : path[i] = m
<1>1. /\ m \in DOMAIN catalogue /\ colour \in [DOMAIN catalogue -> 0..2]
      /\ path \in Seq(DOMAIN catalogue) /\ DOMAIN path = 1..Len(path)
  BY DEF Sdk!Nodes, SdkTyped
<1>2. m \in Needs(catalogue, path[Len(path)])
  BY DEF Sdk!Edges, Sdk!Nodes, Sdk!Last, Needs
<1>3. OnPath(catalogue, colour, path)
  BY DEF Searched
<1>4. s \in 1..Len(path) /\ path[s] = m
  BY <1>1, <1>3 DEF OnPath
<1>5. path' = SubSeq(path, s, Len(path))
  OBVIOUS
<1> HIDE DEF s
<1>6. /\ path' \in Seq(DOMAIN catalogue)
      /\ \A i \in 1..Len(path') : path'[(i % Len(path')) + 1] \in Needs(catalogue, path'[i])
  BY <1>1, <1>2, <1>3, <1>4, <1>5, Loop
<1>7. SdkTyped'
  BY <1>6 DEF SdkTyped
<1>8. Looped'
  BY <1>6 DEF Looped
<1> QED
  BY <1>7, <1>8 DEF Forgotten, Searched, Sequenced

LEMMA ReturnStep == SdkInv /\ Sdk!Return => SdkInv'
<1> SUFFICES ASSUME SdkInv, Sdk!Return PROVE SdkInv'
  OBVIOUS
<1> USE DEF SdkInv, Sdk!Return
<1>1. /\ colour \in [DOMAIN catalogue -> 0..2] /\ path \in Seq(DOMAIN catalogue)
      /\ Len(path) > 0
  BY DEF SdkTyped
<1>2. \A n \in Needs(catalogue, path[Len(path)]) : colour[n] = 2
  BY DEF Sdk!Finished, Sdk!Edges, Sdk!Nodes, Sdk!Last, Needs
<1>3. /\ colour' = [colour EXCEPT ![path[Len(path)]] = 2]
      /\ path' = Front(path)
  BY DEF Sdk!Last, Sdk!Front, Front
<1>4. OnPath(catalogue, colour', path')
  <2>1. OnPath(catalogue, colour, path) /\ path # <<>>
    BY DEF Searched
  <2>2. OnPath(catalogue, [colour EXCEPT ![path[Len(path)]] = 2], Front(path))
    BY <1>1, <1>2, <2>1, ReturnOnPath
  <2> QED
    BY <1>3, <2>2
<1>5. colour' \in [DOMAIN catalogue -> 0..2] /\ path' \in Seq(DOMAIN catalogue)
  <2>1. Front(path) \in Seq(DOMAIN catalogue)
    BY <1>1, FrontOf
  <2>2. [colour EXCEPT ![path[Len(path)]] = 2] \in [DOMAIN catalogue -> 0..2]
    BY <1>1
  <2> QED
    BY <1>3, <2>1, <2>2
<1>6. SdkTyped'
  BY <1>5 DEF SdkTyped
<1>7. Forgotten' /\ Searched'
  BY <1>4 DEF Forgotten, Searched
<1> QED
  BY <1>6, <1>7 DEF Looped, Sequenced

LEMMA AcyclicStep == SdkInv /\ Sdk!Acyclic => SdkInv'
<1> SUFFICES ASSUME SdkInv, Sdk!Acyclic PROVE SdkInv'
  OBVIOUS
<1> USE DEF SdkInv, Sdk!Acyclic
<1> DEFINE c == catalogue
           Free == {m \in DOMAIN c : Needs(c, m) = {}}
<1>1. \A m \in DOMAIN c : Sdk!Edges(m) = Needs(c, m)
  BY DEF Sdk!Edges, Sdk!Nodes, Needs
<1>2. ready' = Sdk!Sorted(Free) /\ order = <<>>
  <2>1. {m \in Sdk!Nodes : Sdk!Edges(m) = {}} = Free
    BY <1>1 DEF Sdk!Nodes
  <2> QED
    BY <2>1 DEF Forgotten
<1>3. Free \subseteq ModuleId
  BY DEF SdkTyped
<1>4. PICK t : t = Sdk!Sorted(Free)
  OBVIOUS
<1>5. /\ t \in Seq(Free) /\ Listed(t) = Free /\ t \in Seq(DOMAIN c)
      /\ \A i, j \in 1..Len(t) : t[i] = t[j] => i = j
  <2>1. Free \subseteq DOMAIN c
    OBVIOUS
  <2> HIDE DEF Free
  <2>2. /\ t \in Seq(Free) /\ Listed(t) = Free
        /\ \A i, j \in 1..Len(t) : t[i] = t[j] => i = j
    BY <1>3, <1>4, SortedOf
  <2> QED
    BY <2>1, <2>2, SeqMonotonic
<1>6. InOrder(c, <<>>, t) /\ ready' = t
  BY <1>2, <1>4, <1>5, AcyclicInOrder
<1>7. Founded(c, DOMAIN c)
  <2>1. {m \in DOMAIN c : colour[m] = 2} = DOMAIN c
    BY DEF Sdk!Nodes
  <2>2. Founded(c, {m \in DOMAIN c : colour[m] = 2})
    BY DEF Searched, OnPath
  <2> QED
    BY <2>1, <2>2
<1>8. inDegree' = [m \in DOMAIN c |-> Cardinality(Unordered(c, <<>>, m))]
  <2>1. \A m \in DOMAIN c : Unordered(c, <<>>, m) = Sdk!Edges(m)
    BY <1>1 DEF Unordered, Listed
  <2>2. inDegree' = [m \in DOMAIN c |-> Cardinality(Sdk!Edges(m))]
    BY DEF Sdk!Nodes, Sdk!Cardinality, Cardinality
  <2> QED
    BY <2>1, <2>2
<1>9. SdkTyped'
  BY <1>5, <1>6 DEF SdkTyped
<1>10. Sequenced'
  BY <1>2, <1>6, <1>7, <1>8 DEF Sequenced
<1> QED
  BY <1>9, <1>10 DEF Forgotten, Searched, Looped

LEMMA TakeStep == SdkInv /\ Sdk!Take => SdkInv'
<1> SUFFICES ASSUME SdkInv, Sdk!Take PROVE SdkInv'
  OBVIOUS
<1> USE DEF SdkInv, Sdk!Take
<1> DEFINE c == catalogue
           x == Head(ready)
           a == Append(order, x)
           New == {m \in DOMAIN c : x \in Needs(c, m) /\ Unordered(c, a, m) = {}}
           left == [m \in Sdk!Nodes |->
                       inDegree[m] - IF m \in Sdk!Dependents(x) THEN 1 ELSE 0]
<1>1. /\ order \in Seq(DOMAIN c) /\ ready \in Seq(DOMAIN c) /\ DOMAIN c \subseteq ModuleId
      /\ x \in DOMAIN c /\ x = ready[1] /\ 1 \in 1..Len(ready)
  BY DEF SdkTyped
<1>2. InOrder(c, order, ready)
  BY DEF Sequenced
<1>3. x \notin Listed(order)
  <2>1. x \in Listed(ready)
    BY <1>1 DEF Listed
  <2> QED
    BY <1>2, <2>1 DEF InOrder
<1>4. \A m \in DOMAIN c : m \in Sdk!Dependents(x) <=> x \in Needs(c, m)
  BY DEF Sdk!Dependents, Sdk!Edges, Sdk!Nodes, Needs
<1>5. Listed(a) = Listed(order) \cup {x}
  <2>1. /\ Len(a) = Len(order) + 1 /\ a[Len(order) + 1] = x
        /\ \A i \in 1..Len(order) : a[i] = order[i]
    BY <1>1, AppendProperties
  <2>2. 1..(Len(order) + 1) = (1..Len(order)) \cup {Len(order) + 1}
    BY <1>1
  <2> HIDE DEF a
  <2>3. \A i \in 1..(Len(order) + 1) : a[i] \in Listed(order) \cup {x}
    BY <2>1, <2>2 DEF Listed
  <2>4. \A y \in Listed(order) \cup {x} : \E i \in 1..(Len(order) + 1) : a[i] = y
    BY <2>1, <2>2 DEF Listed
  <2>5. Listed(a) = {a[i] : i \in 1..(Len(order) + 1)}
    BY <2>1 DEF Listed
  <2> QED
    BY <2>3, <2>4, <2>5
<1>6. \A m \in DOMAIN c : Unordered(c, a, m) = Unordered(c, order, m) \ {x}
  BY <1>5 DEF Unordered
<1> HIDE DEF a
<1>7. ASSUME NEW m \in DOMAIN c
      PROVE  /\ left[m] = Cardinality(Unordered(c, a, m))
             /\ left[m] = 0 <=> Unordered(c, a, m) = {}
  <2> DEFINE U == Unordered(c, order, m)
  <2>1. IsFiniteSet(U)
    <3>1. IsFiniteSet(ModuleId)
      BY SdkAssumption DEF Sdk!ResolverAssumption, Sdk!IsFiniteSet, IsFiniteSet
    <3>2. U \subseteq ModuleId
      BY <1>1 DEF Unordered, Needs
    <3> QED
      BY <3>1, <3>2, FS_Subset
  <2>2. /\ inDegree[m] = Cardinality(U)
        /\ left[m] = inDegree[m] - IF x \in Needs(c, m) THEN 1 ELSE 0
    BY <1>4 DEF Sequenced, Sdk!Nodes
  <2>3. x \in U <=> x \in Needs(c, m)
    BY <1>3 DEF Unordered
  <2>4. Unordered(c, a, m) = U \ {x}
    BY <1>6
  <2> HIDE DEF U, left
  <2>5. /\ IsFiniteSet(U \ {x}) /\ Cardinality(U) \in Nat
        /\ Cardinality(U \ {x}) = IF x \in U THEN Cardinality(U) - 1 ELSE Cardinality(U)
        /\ Cardinality(U \ {x}) = 0 <=> U \ {x} = {}
    BY <2>1, FS_RemoveElement, FS_CardinalityType, FS_EmptySet
  <2> QED
    BY <2>2, <2>3, <2>4, <2>5
<1>8. {m \in Sdk!Dependents(x) : left[m] = 0} = New
  <2>1. Sdk!Dependents(x) \subseteq DOMAIN c
    BY DEF Sdk!Dependents, Sdk!Nodes
  <2> HIDE DEF left
  <2> QED
    BY <1>4, <1>7, <2>1
<1>9. /\ inDegree' = left /\ order' = a
      /\ ready' = Tail(ready) \o Sdk!Sorted(New)
  BY <1>8 DEF a
<1>10. PICK t : t = Sdk!Sorted(New)
  OBVIOUS
<1>11. /\ Listed(t) = New /\ t \in Seq(DOMAIN c)
       /\ \A i, j \in 1..Len(t) : t[i] = t[j] => i = j
  <2>1. New \subseteq ModuleId /\ New \subseteq DOMAIN c
    BY <1>1
  <2> HIDE DEF New
  <2>2. /\ t \in Seq(New) /\ Listed(t) = New
        /\ \A i, j \in 1..Len(t) : t[i] = t[j] => i = j
    BY <2>1, <1>10, SortedOf
  <2> QED
    BY <2>1, <2>2, SeqMonotonic
<1>12. InOrder(c, a, ready') /\ ready' = Tail(ready) \o t
  <2>1. ready' = Tail(ready) \o t
    BY <1>9, <1>10
  <2>2. InOrder(c, a, Tail(ready) \o t)
    BY <1>1, <1>2, <1>11, TakeInOrder DEF a
  <2> QED
    BY <2>1, <2>2
<1>13. inDegree' = [m \in DOMAIN c |-> Cardinality(Unordered(c, a, m))]
  <2>1. left = [m \in DOMAIN c |-> left[m]]
    BY DEF Sdk!Nodes
  <2> HIDE DEF left
  <2> QED
    BY <1>7, <1>9, <2>1
<1>14. Sequenced'
  BY <1>9, <1>12, <1>13 DEF Sequenced
<1>15. ready' \in Seq(DOMAIN c) /\ order' \in Seq(DOMAIN c)
  <2>1. Tail(ready) \in Seq(DOMAIN c)
    BY <1>1
  <2>2. a \in Seq(DOMAIN c)
    BY <1>1 DEF a
  <2>3. Tail(ready) \o t \in Seq(DOMAIN c)
    BY <1>11, <2>1, ConcatProperties
  <2> QED
    BY <1>9, <1>12, <2>2, <2>3
<1>16. SdkTyped'
  BY <1>15 DEF SdkTyped
<1> QED
  BY <1>14, <1>16 DEF Forgotten, Searched, Looped

LEMMA OrderedStep == SdkInv /\ Sdk!Ordered => SdkInv'
BY DEF SdkInv, SdkTyped, Forgotten, Searched, Looped, Sequenced, Sdk!Ordered

LEMMA ForgetStep == SdkInv /\ Sdk!Forget => SdkInv'
<1> SUFFICES ASSUME SdkInv, Sdk!Forget PROVE SdkInv'
  OBVIOUS
<1> USE DEF SdkInv, Sdk!Forget
<1>1. DOMAIN <<>> = {} /\ <<>> \in Seq({}) /\ <<>> \in [{} -> 0..2]
  BY EmptySeq
<1>2. SdkTyped'
  BY <1>1 DEF SdkTyped
<1>3. Forgotten'
  BY <1>1 DEF Forgotten
<1> QED
  BY <1>2, <1>3 DEF Searched, Looped, Sequenced

LEMMA SdkStep == SdkInv /\ [Sdk!Next]_sdkVars => SdkInv'
<1> SUFFICES ASSUME SdkInv, [Sdk!Next]_sdkVars PROVE SdkInv'
  OBVIOUS
<1>1. CASE UNCHANGED sdkVars
  BY <1>1 DEF sdkVars, SdkInv, SdkTyped, Forgotten, Searched, Looped, Sequenced
<1>2. CASE Sdk!Next
  BY <1>2, ResolveStep, DetectConflictsStep, VisitStep, CloseCycleStep, ReturnStep,
     AcyclicStep, TakeStep, OrderedStep, ForgetStep DEF Sdk!Next
<1> QED
  BY <1>1, <1>2

LEMMA SdkSafe == SdkInv => CataloguesAreResolved
<1> SUFFICES ASSUME SdkInv PROVE CataloguesAreResolved
  OBVIOUS
<1> USE DEF SdkInv
<1>1. /\ \A m \in DOMAIN catalogue : Sdk!Edges(m) = Needs(catalogue, m)
      /\ Sdk!Nodes = DOMAIN catalogue
  BY DEF Sdk!Edges, Sdk!Nodes, Needs
<1>2. /\ path \in Seq(DOMAIN catalogue) /\ order \in Seq(DOMAIN catalogue)
      /\ DOMAIN path = 1..Len(path) /\ DOMAIN order = 1..Len(order)
      /\ \A i \in 1..Len(path) : path[i] \in DOMAIN catalogue
      /\ \A i \in 1..Len(order) : order[i] \in DOMAIN catalogue
  BY DEF SdkTyped
<1>3. ASSUME resolution = "ordered"
      PROVE  /\ Sdk!ToSet(order) = Sdk!Nodes /\ Sdk!IsInjective(order)
             /\ \A i, j \in DOMAIN order : order[j] \in Sdk!Edges(order[i]) => j < i
  <2>1. InOrder(catalogue, order, <<>>) /\ Founded(catalogue, DOMAIN catalogue)
    BY <1>3 DEF Sequenced
  <2>2. Listed(order) = DOMAIN catalogue
    BY <1>2, <2>1, AllInOrder
  <2>3. Sdk!ToSet(order) = Sdk!Nodes
    BY <1>1, <1>2, <2>2 DEF Sdk!ToSet, Listed
  <2>4. Sdk!IsInjective(order)
    BY <1>2, <2>1 DEF Sdk!IsInjective, InOrder
  <2> QED
    BY <1>1, <1>2, <2>1, <2>3, <2>4 DEF InOrder
<1>4. ASSUME resolution = "cycle"
      PROVE  \A i \in DOMAIN path : path[(i % Len(path)) + 1] \in Sdk!Edges(path[i])
  BY <1>1, <1>2, <1>4 DEF Looped
<1>5. ASSUME resolution = "search" PROVE \A i \in DOMAIN path : colour[path[i]] = 1
  BY <1>2, <1>5 DEF Searched, OnPath
<1> QED
  BY <1>3, <1>4, <1>5 DEF CataloguesAreResolved, Sdk!ResolutionIsSound

\* Resolver: an order that is answered has every module of the catalogue once,
\* each after the modules it depends on, and what is answered as a cycle is one.
THEOREM ResolutionIsRight == Sdk!Spec => []CataloguesAreResolved
<1>1. SdkInv /\ [Sdk!Next]_Sdk!vars => SdkInv'
  BY SdkStep DEF sdkVars, Sdk!vars
<1> QED
  BY <1>1, SdkStart, SdkSafe, PTL DEF Sdk!Spec
=============================================================================
