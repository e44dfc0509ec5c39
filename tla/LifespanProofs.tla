--------------------------- MODULE LifespanProofs ---------------------------
(***************************************************************************)
(* Proofs about Lifespan, for any modules, dependencies, pipelines and     *)
(* places that may raise, and any number of starts.                        *)
(***************************************************************************)
EXTENDS Lifespan, TLAPS

\* The steps 1 .. k and then the modules 1 .. j, in the order they came up.
Stack(k, j) ==
    [i \in 1 .. k + j |-> IF i <= k THEN StepItem(i) ELSE ModuleItem(i - k)]

Starting == {"BOOTSTRAP", "validate", "graph", "STARTUP"}
Booting == {"check", "initialized", "configured", "bind", "registered", "started", "ready"}
Booted == {"manifest", "serving"}
Ending == {"SHUTDOWN", "STOPPED", "farewell", "ended"}

\* States of a module before its start() acquires anything.
BeforeStart == {"created", "initialized", "configured", "registered"}

\* The state in which bootstrap and shutdown find a module at each hook; for
\* initialize() it may be another, and advance refuses it.
Preceding == [configured |-> "initialized", bind |-> "configured", registered |-> "configured",
              started |-> "registered", ready |-> "started",
              stopped |-> "ready", disposed |-> "stopped"]

Owns(m) == \A c \in Provides[m] : owner[c] = m

\* What is held is what the first k steps and the first j modules acquired,
\* now or in a start that was aborted.
HeldInOrder(k, j) ==
    /\ held = Stack(k, j)
    /\ j > 0 => k = Steps
    /\ \A m \in 1 .. j : lifecycle[m] \notin BeforeStart

\* How far the pipelines are.
StepsDone(k, j) ==
    /\ pc \in Starting => at = 0
    /\ pc = "acquire" => at <= k /\ at <= Steps
    /\ pc \in {"RUNNING", "announce", "stopped", "disposed"} \union Booting \union Booted =>
          k = Steps
    /\ pc = "release" => k = at /\ j = 0
    /\ pc \in Ending => k = 0 /\ j = 0

\* How far the modules are. A module that an aborted start left up is found by
\* the next start at the check or at initialize() of the first one.
ModulesUp(j) ==
    /\ pc \in Booting =>
          /\ at \in 1 .. pending /\ booted = at - 1
          /\ (at = 1 /\ pc \in {"check", "initialized"}) \/ j = (IF pc = "ready" THEN at ELSE at - 1)
    /\ pc \in Booted => j = booted
    /\ pc \in Booting \union Booted => \A m \in 1 .. booted : lifecycle[m] = "ready" /\ Owns(m)
    /\ pc \in {"registered", "started", "ready"} => Owns(at)
    /\ pc \in DOMAIN Preceding => lifecycle[at] = Preceding[pc]
    /\ pc \in {"stopped", "disposed"} =>
          /\ at \in 1 .. pending
          /\ \A m \in 1 .. at - 1 : lifecycle[m] = "ready"
          /\ j = (IF pc = "stopped" \/ Closes[at] = "disposed" THEN at ELSE at - 1)

RuntimeAsReached ==
    /\ pc \in {"RUNNING", "announce"} \union Booting \union Booted => runtime = "running"
    /\ pc \in {"announce"} \union Booting \union Booted => stage = "RUNNING"
    /\ pc \in {"STOPPED", "farewell", "ended"} => runtime = "stopped"

Resources(k, j) == HeldInOrder(k, j) /\ StepsDone(k, j) /\ ModulesUp(j)

IInv ==
    /\ TypeOK
    /\ RuntimeAsReached
    /\ \E k \in 0 .. Steps, j \in 0 .. pending : Resources(k, j)

-----------------------------------------------------------------------------
(* What is held.                                                           *)

LEMMA ItemsDiffer ==
    /\ \A m, n : ModuleItem(m) = ModuleItem(n) => m = n
    /\ \A m, n : StepItem(m) = StepItem(n) => m = n
    /\ \A m, n : StepItem(m) # ModuleItem(n)
BY DEF StepItem, ModuleItem

LEMMA StackType ==
    ASSUME NEW k \in 0 .. Steps, NEW j \in 0 .. Modules
    PROVE  Stack(k, j) \in Seq(Items) /\ Len(Stack(k, j)) = k + j
<1>1. Steps \in Nat /\ Modules \in Nat
  BY LifespanAssumption
<1>2. ASSUME NEW i \in 1 .. k + j
      PROVE  (IF i <= k THEN StepItem(i) ELSE ModuleItem(i - k)) \in Items
  <2>1. CASE i <= k
    <3>1. i \in Step
      BY <1>1, <2>1 DEF Step
    <3> QED
      BY <2>1, <3>1 DEF Items
  <2>2. CASE ~(i <= k)
    <3>1. i - k \in Mod
      BY <1>1, <2>2 DEF Mod
    <3> QED
      BY <2>2, <3>1 DEF Items
  <2> QED
    BY <2>1, <2>2
<1> QED
  BY <1>1, <1>2 DEF Stack

LEMMA InStack ==
    ASSUME NEW k \in 0 .. Steps, NEW j \in 0 .. Modules, held = Stack(k, j)
    PROVE  /\ \A s \in Step : Held(StepItem(s)) <=> s <= k
           /\ \A m \in Mod : Held(ModuleItem(m)) <=> m <= j
<1>1. \A i \in 1 .. k + j : held[i] = IF i <= k THEN StepItem(i) ELSE ModuleItem(i - k)
  BY DEF Stack
<1>2. Len(held) = k + j
  BY StackType
<1>3. ASSUME NEW s \in Step PROVE Held(StepItem(s)) <=> s <= k
  BY <1>1, <1>2, ItemsDiffer, LifespanAssumption DEF Held, Step
<1>4. ASSUME NEW m \in Mod PROVE Held(ModuleItem(m)) <=> m <= j
  <2>1. ASSUME m <= j PROVE held[k + m] = ModuleItem(m) /\ k + m \in 1 .. Len(held)
    BY <2>1, <1>1, <1>2, LifespanAssumption DEF Mod
  <2> QED
    BY <1>1, <1>2, <2>1, ItemsDiffer, LifespanAssumption DEF Held, Mod
<1> QED
  BY <1>3, <1>4

LEMMA PushStep ==
    ASSUME NEW k \in 0 .. Steps - 1
    PROVE  Append(Stack(k, 0), StepItem(k + 1)) = Stack(k + 1, 0)
<1>1. Stack(k, 0) \in Seq(Items) /\ Len(Stack(k, 0)) = k
  BY StackType, LifespanAssumption
<1>2. Stack(k + 1, 0) \in Seq(Items) /\ Len(Stack(k + 1, 0)) = k + 1
  BY StackType, LifespanAssumption
<1>3. \A i \in 1 .. k + 1 : Stack(k + 1, 0)[i] = IF i <= k THEN Stack(k, 0)[i] ELSE StepItem(k + 1)
  BY LifespanAssumption DEF Stack
<1> QED
  BY <1>1, <1>2, <1>3

LEMMA PushModule ==
    ASSUME NEW k \in 0 .. Steps, NEW j \in 0 .. Modules - 1
    PROVE  Append(Stack(k, j), ModuleItem(j + 1)) = Stack(k, j + 1)
<1>1. Stack(k, j) \in Seq(Items) /\ Len(Stack(k, j)) = k + j
  BY StackType, LifespanAssumption
<1>2. Stack(k, j + 1) \in Seq(Items) /\ Len(Stack(k, j + 1)) = k + j + 1
  BY StackType, LifespanAssumption
<1>3. \A i \in 1 .. k + j + 1 :
        Stack(k, j + 1)[i] = IF i <= k + j THEN Stack(k, j)[i] ELSE ModuleItem(j + 1)
  BY LifespanAssumption DEF Stack
<1> QED
  BY <1>1, <1>2, <1>3

\* Removing the item on top, and one that is not there.
LEMMA RemoveTop ==
    ASSUME NEW S, NEW s \in Seq(S), NEW x, Len(s) > 0, s[Len(s)] = x,
           \A i \in 1 .. Len(s) - 1 : s[i] # x
    PROVE  RemoveFirst(s, x) = SubSeq(s, 1, Len(s) - 1)
<1> DEFINE I == {i \in 1 .. Len(s) : s[i] = x}
<1>1. I = {Len(s)}
  OBVIOUS
<1>2. Min(I) = Len(s)
  BY <1>1 DEF Min
<1>3. SelectInSeq(s, LAMBDA v : v = x) = Len(s)
  BY <1>1, <1>2 DEF SelectInSeq
<1>4. RemoveFirst(s, x) = SubSeq(s, 1, Len(s) - 1) \o SubSeq(s, Len(s) + 1, Len(s))
  BY <1>1, <1>3 DEF RemoveFirst, RemoveAt
<1> QED
  BY <1>4

LEMMA RemoveNone ==
    ASSUME NEW s, NEW x, \A i \in 1 .. Len(s) : s[i] # x
    PROVE  RemoveFirst(s, x) = s
BY DEF RemoveFirst

LEMMA PopModule ==
    ASSUME NEW k \in 0 .. Steps, NEW j \in 1 .. Modules
    PROVE  /\ RemoveFirst(Stack(k, j), ModuleItem(j)) = Stack(k, j - 1)
           /\ Stack(k, j - 1) = SubSeq(Stack(k, j), 1, Len(Stack(k, j)) - 1)
<1>1. Stack(k, j) \in Seq(Items) /\ Len(Stack(k, j)) = k + j
  BY StackType, LifespanAssumption
<1>2. Stack(k, j - 1) \in Seq(Items) /\ Len(Stack(k, j - 1)) = k + j - 1
  BY StackType, LifespanAssumption
<1>3. \A i \in 1 .. k + j :
        Stack(k, j)[i] = IF i < k + j THEN Stack(k, j - 1)[i] ELSE ModuleItem(j)
  BY LifespanAssumption DEF Stack
<1>4. \A i \in 1 .. k + j - 1 : Stack(k, j)[i] # ModuleItem(j)
  BY ItemsDiffer, LifespanAssumption DEF Stack
<1>5. Len(Stack(k, j)) > 0 /\ Stack(k, j)[Len(Stack(k, j))] = ModuleItem(j)
  BY <1>1, <1>3, LifespanAssumption
<1>6. RemoveFirst(Stack(k, j), ModuleItem(j)) = SubSeq(Stack(k, j), 1, k + j - 1)
  BY <1>1, <1>4, <1>5, RemoveTop
<1>7. SubSeq(Stack(k, j), 1, k + j - 1) = Stack(k, j - 1)
  BY <1>1, <1>2, <1>3, LifespanAssumption
<1> QED
  BY <1>1, <1>6, <1>7

LEMMA PopStep ==
    ASSUME NEW k \in 1 .. Steps
    PROVE  /\ RemoveFirst(Stack(k, 0), StepItem(k)) = Stack(k - 1, 0)
           /\ Stack(k - 1, 0) = SubSeq(Stack(k, 0), 1, Len(Stack(k, 0)) - 1)
<1>1. Stack(k, 0) \in Seq(Items) /\ Len(Stack(k, 0)) = k
  BY StackType, LifespanAssumption
<1>2. Stack(k - 1, 0) \in Seq(Items) /\ Len(Stack(k - 1, 0)) = k - 1
  BY StackType, LifespanAssumption
<1>3. \A i \in 1 .. k : Stack(k, 0)[i] = IF i < k THEN Stack(k - 1, 0)[i] ELSE StepItem(k)
  BY LifespanAssumption DEF Stack
<1>4. \A i \in 1 .. k - 1 : Stack(k, 0)[i] # StepItem(k)
  BY ItemsDiffer, LifespanAssumption DEF Stack
<1>5. Len(Stack(k, 0)) > 0 /\ Stack(k, 0)[Len(Stack(k, 0))] = StepItem(k)
  BY <1>1, <1>3, LifespanAssumption
<1>6. RemoveFirst(Stack(k, 0), StepItem(k)) = SubSeq(Stack(k, 0), 1, k - 1)
  BY <1>1, <1>4, <1>5, RemoveTop
<1>7. SubSeq(Stack(k, 0), 1, k - 1) = Stack(k - 1, 0)
  BY <1>1, <1>2, <1>3, LifespanAssumption
<1> QED
  BY <1>1, <1>6, <1>7

-----------------------------------------------------------------------------
(* Each action keeps the invariant.                                        *)

LEMMA Ranks ==
    /\ Rank("created") = 1 /\ Rank("initialized") = 2 /\ Rank("configured") = 3
    /\ Rank("registered") = 4 /\ Rank("started") = 5 /\ Rank("ready") = 6
    /\ Rank("stopped") = 7 /\ Rank("disposed") = 8
BY DEF Rank, Canonical

LEMMA Places ==
    /\ ModuleState = {"created", "initialized", "configured", "registered", "started",
                      "ready", "stopped", "disposed", "failed"}
    /\ HookStage = {"initialized", "configured", "registered", "started",
                    "ready", "stopped", "disposed"}
<1>1. Len(Canonical) = 8 /\ 1 .. 8 = {1, 2, 3, 4, 5, 6, 7, 8} /\ 2 .. 8 = {2, 3, 4, 5, 6, 7, 8}
  BY DEF Canonical
<1> QED
  BY <1>1 DEF ModuleState, HookStage, Canonical

USE DEF Place, RuntimePlace, ModulePlace, LifecycleStage, Rest

LEMMA InitEstablishesInvariant == Init => IInv
<1> SUFFICES ASSUME Init PROVE IInv
  OBVIOUS
<1>1. TypeOK
  BY LifespanAssumption, Places DEF Init, TypeOK, Mod
<1>2. RuntimeAsReached
  BY DEF Init, RuntimeAsReached, Booting, Booted
<1>3. Resources(0, 0)
  <2>1. Stack(0, 0) = <<>>
    BY StackType, LifespanAssumption
  <2> QED
    BY <2>1, LifespanAssumption DEF Init, Resources, HeldInOrder, StepsDone, ModulesUp,
       Starting, Booting, Booted, Ending, Preceding
<1> QED
  BY <1>1, <1>2, <1>3, LifespanAssumption DEF IInv, TypeOK

LEMMA BeginStep == ASSUME IInv, Begin PROVE IInv'
<1>1. TypeOK'
  BY LifespanAssumption DEF IInv, Begin, Goto, TypeOK
<1>2. RuntimeAsReached'
  BY DEF Begin, Goto, RuntimeAsReached, Booting, Booted
<1>3. PICK k \in 0 .. Steps, j \in 0 .. pending : Resources(k, j)
  BY DEF IInv
<1>4. Resources(k, j)'
  BY <1>3 DEF Begin, Goto, Resources, HeldInOrder, StepsDone, ModulesUp, Starting, Booting, Booted,
     Ending, Preceding
<1> QED
  BY <1>1, <1>2, <1>4 DEF IInv, Begin

LEMMA RunStageStep == ASSUME IInv, RunStage PROVE IInv'
<1>1. TypeOK'
  BY DEF IInv, RunStage, Goto, TypeOK
<1>2. RuntimeAsReached'
  BY DEF IInv, RunStage, Goto, RuntimeAsReached, Booting, Booted
<1>3. PICK k \in 0 .. Steps, j \in 0 .. pending : Resources(k, j)
  BY DEF IInv
<1>4. HeldInOrder(k, j)'
  BY <1>3 DEF RunStage, Resources, HeldInOrder
<1>5. StepsDone(k, j)'
  BY <1>3, LifespanAssumption DEF RunStage, Goto, Resources, StepsDone, Starting, Booting, Booted, Ending
<1>6. ModulesUp(j)'
  BY <1>3 DEF RunStage, Goto, Resources, ModulesUp, Booting, Booted, Preceding, Owns
<1> QED
  BY <1>1, <1>2, <1>4, <1>5, <1>6 DEF IInv, Resources, RunStage

\* Steps that only move on to the next place.
Passing == ValidateAll \/ CheckGraph \/ Farewell \/ RaiseInRuntime \/ WriteManifest

LEMMA PassingStep == ASSUME IInv, Passing PROVE IInv'
<1> USE DEF Passing, ValidateAll, CheckGraph, Farewell, RaiseInRuntime, WriteManifest, Goto
<1>1. TypeOK'
  BY DEF IInv, TypeOK
<1>2. RuntimeAsReached'
  BY DEF IInv, RuntimeAsReached, Booting, Booted
<1>3. PICK k \in 0 .. Steps, j \in 0 .. pending : Resources(k, j)
  BY DEF IInv
<1>4. HeldInOrder(k, j)'
  BY <1>3 DEF Resources, HeldInOrder
<1>5. StepsDone(k, j)'
  BY <1>3 DEF Resources, StepsDone, Starting, Booting, Booted, Ending
<1>6. ModulesUp(j)'
  BY <1>3 DEF Resources, ModulesUp, Booting, Booted, Preceding, Owns
<1> QED
  BY <1>1, <1>2, <1>4, <1>5, <1>6 DEF IInv, Resources

LEMMA OutsideStep ==
    ASSUME IInv, AddModule \/ \E m \in Mod : Unregister(m)
    PROVE  IInv'
<1> USE DEF AddModule, Unregister
<1>1. TypeOK'
  BY LifespanAssumption DEF IInv, TypeOK
<1>2. RuntimeAsReached'
  BY DEF IInv, RuntimeAsReached
<1>3. PICK k \in 0 .. Steps, j \in 0 .. pending : Resources(k, j)
  BY DEF IInv
<1>4. HeldInOrder(k, j)' /\ StepsDone(k, j)'
  BY <1>3 DEF Resources, HeldInOrder, StepsDone
<1>5. ModulesUp(j)'
  BY <1>3, LifespanAssumption DEF Resources, ModulesUp, Owns, IInv, TypeOK
<1>6. j \in 0 .. pending'
  BY LifespanAssumption DEF IInv, TypeOK
<1> QED
  BY <1>1, <1>2, <1>4, <1>5, <1>6 DEF IInv, Resources

LEMMA AcquireStep == ASSUME IInv, StartupStep PROVE IInv'
<1>1. PICK k \in 0 .. Steps, j \in 0 .. pending : Resources(k, j)
  BY DEF IInv
<1>2. pc = "acquire" /\ at \in Nat /\ at <= k /\ j \in 0 .. Modules /\ j \in Int /\ k \in Int
  BY <1>1, LifespanAssumption DEF IInv, TypeOK, Resources, StepsDone, StartupStep
<1>3. RuntimeAsReached'
  BY DEF IInv, StartupStep, Goto, RuntimeAsReached, Booting, Booted
<1>4. CASE at < Steps
  <2>0. PICK l \in 0 .. Steps : l = IF at < k THEN k ELSE k + 1
    BY <1>2, <1>4, LifespanAssumption
  <2>1. at + 1 <= l /\ at + 1 \in Step /\ at + 1 \in 0 .. Modules + Steps
    BY <2>0, <1>2, <1>4, LifespanAssumption DEF Step
  <2>2. held' = Stack(l, j)
    <3>1. held' = Acquire(StepItem(at + 1)) /\ held = Stack(k, j)
      BY <1>1, <1>4 DEF StartupStep, Resources, HeldInOrder
    <3>2. CASE at < k
      BY <3>1, <3>2, <1>2, <2>0, <2>1, InStack DEF Acquire
    <3>3. CASE at = k
      <4>1. j = 0 /\ k \in 0 .. Steps - 1
        BY <3>3, <1>1, <1>2, <1>4, LifespanAssumption DEF Resources, HeldInOrder
      <4>2. held' = Append(Stack(k, 0), StepItem(k + 1))
        BY <3>1, <3>3, <4>1, <1>2, <2>1, InStack, LifespanAssumption DEF Acquire
      <4> QED
        BY <4>1, <4>2, <3>3, <2>0, PushStep
    <3> QED
      BY <3>2, <3>3, <1>2
  <2>3. TypeOK'
    <3>1. held' \in Seq(Items)
      BY <1>2, <2>2, StackType
    <3> QED
      BY <3>1, <1>4, <2>1 DEF IInv, StartupStep, Goto, TypeOK
  <2>4. HeldInOrder(l, j)'
    BY <1>1, <1>2, <1>4, <2>0, <2>2, LifespanAssumption DEF StartupStep, Resources, HeldInOrder
  <2>5. StepsDone(l, j)'
    BY <1>2, <1>4, <2>1, LifespanAssumption DEF StartupStep, Goto, StepsDone, Starting, Booting, Booted, Ending
  <2>6. ModulesUp(j)'
    BY <1>4 DEF StartupStep, Goto, ModulesUp, Booting, Booted, Preceding
  <2> QED
    BY <1>3, <2>3, <2>4, <2>5, <2>6 DEF IInv, Resources, StartupStep
<1>5. CASE ~(at < Steps)
  <2>1. TypeOK'
    BY <1>2, <1>5, LifespanAssumption DEF IInv, StartupStep, Goto, TypeOK
  <2>2. HeldInOrder(k, j)'
    BY <1>1, <1>5 DEF StartupStep, Resources, HeldInOrder
  <2>3. StepsDone(k, j)'
    BY <1>2, <1>5, LifespanAssumption DEF StartupStep, Goto, StepsDone, Starting, Booting, Booted, Ending
  <2>4. ModulesUp(j)'
    BY <1>5 DEF StartupStep, Goto, ModulesUp, Booting, Booted, Preceding
  <2> QED
    BY <1>3, <2>1, <2>2, <2>3, <2>4 DEF IInv, Resources, StartupStep
<1> QED
  BY <1>4, <1>5

LEMMA AnnounceStep == ASSUME IInv, Announce PROVE IInv'
<1> USE DEF Announce, NextModule, Goto
<1>1. TypeOK'
  BY LifespanAssumption DEF IInv, TypeOK
<1>2. RuntimeAsReached'
  BY DEF IInv, RuntimeAsReached, Booting, Booted
<1>3. PICK k \in 0 .. Steps, j \in 0 .. pending : Resources(k, j)
  BY DEF IInv
<1>4. HeldInOrder(k, j)'
  BY <1>3 DEF Resources, HeldInOrder
<1>5. StepsDone(k, j)'
  BY <1>3 DEF Resources, StepsDone, Starting, Booting, Booted, Ending
<1>6. pending \in Nat /\ (0 < pending \/ pending = 0)
  BY LifespanAssumption DEF IInv, TypeOK
<1>7. ModulesUp(j)'
  BY <1>3, <1>6 DEF Resources, ModulesUp, Booting, Booted, Preceding, Owns
<1> QED
  BY <1>1, <1>2, <1>4, <1>5, <1>7 DEF IInv, Resources

LEMMA ReleaseStep == ASSUME IInv, ShutdownStep PROVE IInv'
<1>1. PICK k \in 0 .. Steps, j \in 0 .. pending : Resources(k, j)
  BY DEF IInv
<1>2. pc = "release" /\ at = k /\ j = 0 /\ held = Stack(k, 0) /\ at \in Nat
  BY <1>1, LifespanAssumption DEF IInv, TypeOK, Resources, HeldInOrder, StepsDone, ShutdownStep
<1>3. RuntimeAsReached'
  BY DEF IInv, ShutdownStep, Goto, RuntimeAsReached, Booting, Booted
<1>4. CASE at > 0
  <2>0. k \in 1 .. Steps /\ k - 1 \in 0 .. Steps /\ 0 \in 0 .. Modules /\ at - 1 \in 0 .. Modules + Steps
    BY <1>2, <1>4, LifespanAssumption
  <2>1. held' = Stack(k - 1, 0)
    BY <1>2, <1>4, <2>0, PopStep DEF ShutdownStep, Release
  <2>2. TypeOK'
    <3>1. held' \in Seq(Items)
      BY <2>0, <2>1, StackType
    <3> QED
      BY <3>1, <1>4, <2>0 DEF IInv, ShutdownStep, Goto, TypeOK
  <2>3. HeldInOrder(k - 1, 0)'
    BY <2>1 DEF HeldInOrder
  <2>4. StepsDone(k - 1, 0)'
    BY <1>2, <1>4 DEF ShutdownStep, Goto, StepsDone, Starting, Booting, Booted, Ending
  <2>5. ModulesUp(0)'
    BY <1>4 DEF ShutdownStep, Goto, ModulesUp, Booting, Booted, Preceding
  <2> QED
    BY <1>2, <1>3, <2>0, <2>2, <2>3, <2>4, <2>5 DEF IInv, Resources, ShutdownStep
<1>5. CASE ~(at > 0)
  <2>1. TypeOK'
    BY <1>5 DEF IInv, ShutdownStep, Goto, TypeOK
  <2>2. HeldInOrder(0, 0)'
    BY <1>2, <1>5 DEF ShutdownStep, HeldInOrder
  <2>3. StepsDone(0, 0)'
    BY <1>5 DEF ShutdownStep, Goto, StepsDone, Starting, Booting, Booted, Ending
  <2>4. ModulesUp(0)'
    BY <1>5 DEF ShutdownStep, Goto, ModulesUp, Booting, Booted, Preceding
  <2> QED
    BY <1>3, <2>1, <2>2, <2>3, <2>4, LifespanAssumption DEF IInv, Resources, TypeOK
<1> QED
  BY <1>4, <1>5

LEMMA CheckStep == ASSUME IInv, Check \/ RaiseInCheck PROVE IInv'
<1> USE DEF Check, RaiseInCheck, Goto
<1>1. PICK k \in 0 .. Steps, j \in 0 .. pending : Resources(k, j)
  BY DEF IInv
<1>2. at \in 1 .. pending /\ at \in Mod /\ Id[at] \in Name
  BY <1>1, LifespanAssumption DEF IInv, TypeOK, Resources, ModulesUp, Booting, Mod
<1>3. TypeOK'
  BY <1>2, LifespanAssumption, Places DEF IInv, TypeOK
<1>4. RuntimeAsReached'
  BY DEF IInv, RuntimeAsReached, Booting, Booted
<1>5. HeldInOrder(k, j)'
  <2>1. \A m \in 1 .. j : m \in Mod /\ lifecycle[m] \notin BeforeStart
    BY <1>1, LifespanAssumption DEF Resources, HeldInOrder, IInv, TypeOK, Mod
  <2>2. \A m \in Mod : lifecycle'[m] = lifecycle[m] \/ lifecycle'[m] = "failed"
    BY DEF IInv, TypeOK
  <2> QED
    BY <1>1, <2>1, <2>2 DEF Resources, HeldInOrder, BeforeStart
<1>6. StepsDone(k, j)'
  BY <1>1 DEF Resources, StepsDone, Starting, Booting, Booted, Ending
<1>7. ModulesUp(j)'
  BY <1>1, <1>2 DEF Resources, ModulesUp, Booting, Booted, Preceding, Owns
<1> QED
  BY <1>1, <1>3, <1>4, <1>5, <1>6, <1>7 DEF IInv, Resources

LEMMA BindStep == ASSUME IInv, Bind \/ RaiseInBind PROVE IInv'
<1> USE DEF Bind, RaiseInBind, Goto
<1>1. PICK k \in 0 .. Steps, j \in 0 .. pending : Resources(k, j)
  BY DEF IInv
<1>2. at \in 1 .. pending /\ at \in Mod /\ booted = at - 1 /\ pc = "bind" /\ at \in 0 .. Modules
  BY <1>1, LifespanAssumption DEF IInv, TypeOK, Resources, ModulesUp, Booting, Mod
<1>3. TypeOK'
  <2>1. owner' \in [Capability -> 0 .. Modules]
    BY <1>2, LifespanAssumption DEF IInv, TypeOK
  <2>2. pc' \in Place
    BY Places
  <2> QED
    BY <2>1, <2>2 DEF IInv, TypeOK
<1>4. RuntimeAsReached'
  BY DEF IInv, RuntimeAsReached, Booting, Booted
<1>5. HeldInOrder(k, j)'
  BY <1>1 DEF Resources, HeldInOrder
<1>6. StepsDone(k, j)'
  BY <1>1 DEF Resources, StepsDone, Starting, Booting, Booted, Ending
<1>7. ModulesUp(j)'
  <2>1. CASE RaiseInBind
    BY <2>1 DEF ModulesUp, Booting, Booted, Preceding
  <2>2. CASE Bind
    <3>1. \A m \in 1 .. booted : lifecycle[m] = "ready" /\ Owns(m)
      BY <1>1, <1>2 DEF Resources, ModulesUp, Booting
    <3>2. \A m \in 1 .. booted : m \in Mod /\ m # 0 /\ Provides[m] \subseteq Capability
      BY <1>2, LifespanAssumption DEF Mod, IInv, TypeOK
    <3>3. \A m \in 1 .. booted : Owns(m)'
      BY <2>2, <3>1, <3>2 DEF Owns
    <3>4. Owns(at)'
      BY <2>2, <1>2, LifespanAssumption DEF Owns
    <3> QED
      BY <2>2, <1>1, <1>2, <3>1, <3>3, <3>4 DEF Resources, ModulesUp, Booting, Booted, Preceding
  <2> QED
    BY <2>1, <2>2
<1> QED
  BY <1>1, <1>3, <1>4, <1>5, <1>6, <1>7 DEF IInv, Resources

LEMMA ExitStep == ASSUME IInv, Exit PROVE IInv'
<1> USE DEF Exit, PreviousModule, Goto
<1>1. PICK k \in 0 .. Steps, j \in 0 .. pending : Resources(k, j)
  BY DEF IInv
<1>2. /\ pc = "serving" /\ k = Steps /\ j = booted /\ booted \in 0 .. pending
      /\ pending \in 0 .. Modules
      /\ \A m \in 1 .. booted : lifecycle[m] = "ready"
  BY <1>1 DEF IInv, TypeOK, Resources, StepsDone, ModulesUp, Booted
<1>3. TypeOK'
  BY <1>2, LifespanAssumption, Places DEF IInv, TypeOK
<1>4. RuntimeAsReached'
  BY DEF RuntimeAsReached, Booting, Booted
<1>5. HeldInOrder(k, j)'
  BY <1>1 DEF Resources, HeldInOrder
<1>6. StepsDone(k, j)'
  BY <1>2, LifespanAssumption DEF StepsDone, Starting, Booting, Booted, Ending
<1>7. ModulesUp(j)'
  <2>1. CASE booted = 0
    BY <1>2, <2>1 DEF ModulesUp, Booting, Booted, Preceding
  <2>2. CASE booted > 0
    <3>1. pc' = "stopped" /\ at' = booted /\ booted \in 1 .. pending /\ UNCHANGED <<lifecycle, pending>>
      BY <1>2, <2>2, LifespanAssumption
    <3> QED
      BY <3>1, <1>2 DEF ModulesUp, Booting, Booted, Preceding
  <2> QED
    BY <1>2, <2>1, <2>2, LifespanAssumption
<1> QED
  BY <1>1, <1>3, <1>4, <1>5, <1>6, <1>7 DEF IInv, Resources

LEMMA RaiseInHookStep == ASSUME IInv, RaiseInHook PROVE IInv'
<1> USE DEF RaiseInHook, Goto
<1>1. PICK k \in 0 .. Steps, j \in 0 .. pending : Resources(k, j)
  BY DEF IInv
<1>2. /\ at \in Mod /\ at \in 1 .. pending /\ pending \in 0 .. Modules
      /\ pc = "started" => k = Steps /\ j = at - 1
  BY <1>1, LifespanAssumption, Places
     DEF IInv, TypeOK, Resources, StepsDone, ModulesUp, Booting, Booted, Mod
<1>3. lifecycle' \in [Mod -> ModuleState]
  BY <1>2, Places DEF IInv, TypeOK
<1>4. \A m \in Mod : lifecycle'[m] = lifecycle[m] \/ lifecycle'[m] = "failed"
  BY DEF IInv, TypeOK
<1>5. RuntimeAsReached'
  BY DEF RuntimeAsReached, Booting, Booted
<1>6. \A i \in 0 .. pending : StepsDone(k, i)' /\ ModulesUp(i)'
  <2>1. pc' = "aborted"
    OBVIOUS
  <2> HIDE DEF RaiseInHook
  <2> QED
    BY <2>1 DEF StepsDone, ModulesUp, Starting, Booting, Booted, Ending, Preceding
<1>7. \A m \in 1 .. j : m \in Mod /\ lifecycle'[m] \notin BeforeStart
  <2>1. \A m \in 1 .. j : m \in Mod
    BY <1>2, LifespanAssumption DEF Mod
  <2>2. \A m \in 1 .. j : lifecycle[m] \notin BeforeStart
    BY <1>1 DEF Resources, HeldInOrder
  <2> HIDE DEF RaiseInHook
  <2> QED
    BY <1>4, <2>1, <2>2 DEF BeforeStart
<1>8. CASE held' = held
  <2>1. HeldInOrder(k, j)'
    BY <1>1, <1>7, <1>8 DEF Resources, HeldInOrder
  <2>2. TypeOK'
    BY <1>3, <1>8 DEF IInv, TypeOK
  <2> QED
    BY <1>5, <1>6, <2>1, <2>2 DEF IInv, Resources
<1>9. CASE held' # held
  <2>1. pc = "started" /\ held' = Acquire(ModuleItem(at)) /\ lifecycle'[at] = "failed"
    BY <1>2, <1>9 DEF IInv, TypeOK
  <2>2. j = at - 1 /\ k = Steps /\ held = Stack(k, j) /\ j \in 0 .. Modules - 1 /\ j \in 0 .. Modules
    BY <1>1, <1>2, <2>1, LifespanAssumption DEF Resources, HeldInOrder
  <2>3. held' = Stack(k, at)
    BY <2>1, <2>2, <1>2, <1>9, PushModule, LifespanAssumption DEF Acquire
  <2>4. \A m \in 1 .. at : lifecycle'[m] \notin BeforeStart
    BY <1>2, <1>7, <2>1, <2>2 DEF BeforeStart
  <2>5. PICK i \in 0 .. pending : i = at
    BY <1>2
  <2>6. HeldInOrder(k, i)'
    BY <2>2, <2>3, <2>4, <2>5 DEF HeldInOrder
  <2>7. TypeOK'
    <3>1. held' \in Seq(Items)
      BY <2>2, <2>3, <2>5, <1>2, StackType, LifespanAssumption
    <3> QED
      BY <3>1, <1>3 DEF IInv, TypeOK
  <2> QED
    BY <1>5, <1>6, <2>5, <2>6, <2>7 DEF IInv, Resources
<1> QED
  BY <1>8, <1>9

\* A hook of a module that returns and is accepted: what it leaves held is
\* the stack of the first i modules.
LEMMA HookStep == ASSUME IInv, Hook PROVE IInv'
<1>1. PICK k \in 0 .. Steps, j \in 0 .. pending : Resources(k, j)
  BY DEF IInv
<1>2. /\ k = Steps /\ held = Stack(k, j)
      /\ pc \in {"initialized", "configured", "registered", "started", "ready", "stopped", "disposed"}
  BY <1>1, Places DEF Hook, Resources, HeldInOrder, StepsDone, Booting
<1>3. /\ at \in 1 .. pending /\ pending \in 0 .. Modules /\ at \in Mod /\ at \in Nat
      /\ pending \in Nat /\ Modules \in Nat /\ Steps \in Nat /\ j \in Nat
      /\ booted \in 0 .. pending
  BY <1>1, <1>2, LifespanAssumption DEF IInv, TypeOK, Resources, ModulesUp, Booting, Mod
<1>4. \A m \in 1 .. j : m \in Mod /\ lifecycle[m] \notin BeforeStart
  BY <1>1, <1>3 DEF Resources, HeldInOrder, Mod
<1>5. /\ lifecycle' \in [Mod -> ModuleState] /\ lifecycle'[at] = pc
      /\ \A m \in Mod : m # at => lifecycle'[m] = lifecycle[m]
      /\ UNCHANGED <<pending, registry, owner, stage, starts>>
  BY <1>2, <1>3, Places DEF Hook, IInv, TypeOK
<1>6. /\ pc \in {"initialized", "configured", "registered", "started", "ready"} =>
            /\ booted = at - 1
            /\ \A m \in 1 .. booted : m \in Mod /\ lifecycle[m] = "ready" /\ Owns(m)
      /\ pc \in {"registered", "started", "ready"} => Owns(at)
      /\ pc \in {"stopped", "disposed"} =>
            /\ \A m \in 1 .. at - 1 : m \in Mod /\ lifecycle[m] = "ready"
            /\ j = IF pc = "stopped" \/ Closes[at] = "disposed" THEN at ELSE at - 1
      /\ pc \in DOMAIN Preceding => lifecycle[at] = Preceding[pc]
  BY <1>1, <1>3 DEF Resources, ModulesUp, Booting, Mod
<1>7. \A m : Owns(m) => Owns(m)'
  BY <1>5 DEF Owns
<1>8. \A m : m \in 1 .. at - 1 => m # at /\ m \in Mod
  BY <1>3 DEF Mod
\* It suffices to find how many modules hold their resource afterwards.
<1>9. ASSUME NEW i \in 0 .. pending,
             pc' \in Place, at' \in 0 .. Modules + Steps, booted' \in 0 .. pending,
             RuntimeAsReached', runtime' \in {"bootstrapping", "running", "stopped"},
             held' = Stack(k, i), \A m \in 1 .. i : lifecycle'[m] \notin BeforeStart,
             StepsDone(k, i)', ModulesUp(i)'
      PROVE  IInv'
  <2>1. HeldInOrder(k, i)'
    BY <1>2, <1>9 DEF HeldInOrder
  <2>2. held' \in Seq(Items)
    BY <1>3, <1>9, StackType
  <2>3. TypeOK'
    BY <1>5, <1>9, <2>2 DEF IInv, TypeOK
  <2> QED
    BY <1>5, <1>9, <2>1, <2>3 DEF IInv, Resources
<1>10. CASE pc \in {"initialized", "configured", "registered"}
  <2>1. /\ pc' = [initialized |-> "configured", configured |-> "bind", registered |-> "started"][pc]
        /\ runtime' = runtime /\ UNCHANGED <<at, booted>>
    BY <1>10 DEF Hook, Goto
  <2>2. held' = held
    BY <1>3, <1>10, LifespanAssumption DEF Hook
  <2>3. j = at - 1
    <3>1. CASE pc = "initialized"
      <4>1. lifecycle[at] = "created"
        <5>1. lifecycle[at] \in ModuleState /\ lifecycle[at] # "failed"
          BY <1>3 DEF Hook, CanAdvance, IInv, TypeOK
        <5> QED
          BY <5>1, <3>1, Places, Ranks DEF Hook, CanAdvance
      <4>2. ~(at \in 1 .. j)
        BY <1>4, <4>1 DEF BeforeStart
      <4> QED
        BY <1>1, <1>3, <3>1, <4>2 DEF Resources, ModulesUp, Booting
    <3>2. CASE pc # "initialized"
      BY <1>1, <1>10, <3>2 DEF Resources, ModulesUp, Booting
    <3> QED
      BY <3>1, <3>2
  <2>4. \A m \in 1 .. j : lifecycle'[m] \notin BeforeStart
    BY <1>4, <1>5, <1>8, <2>3
  <2>5. StepsDone(k, j)'
    BY <1>2, <1>10, <2>1 DEF StepsDone, Starting, Booting, Booted, Ending
  <2>6. ModulesUp(j)'
    BY <1>3, <1>5, <1>6, <1>7, <1>8, <1>10, <2>1, <2>3 DEF ModulesUp, Booting, Booted, Preceding
  <2>7. RuntimeAsReached'
    BY <1>5, <1>10, <2>1 DEF IInv, RuntimeAsReached, Booting, Booted
  <2>8. pc' \in Place /\ at' \in 0 .. Modules + Steps /\ booted' \in 0 .. pending /\ runtime' = runtime
    BY <1>3, <1>10, <2>1, Places
  <2> QED
    BY <1>2, <1>9, <2>2, <2>4, <2>5, <2>6, <2>7, <2>8 DEF IInv, TypeOK
<1>11. CASE pc = "started"
  <2>1. pc' = "ready" /\ runtime' = runtime /\ UNCHANGED <<at, booted>>
    BY <1>11 DEF Hook, Goto
  <2>2. j = at - 1 /\ j \in 0 .. Modules - 1 /\ j \in 0 .. Modules
    BY <1>1, <1>3, <1>11 DEF Resources, ModulesUp, Booting
  <2>3. held' = Acquire(ModuleItem(at))
    BY <1>3, <1>11, LifespanAssumption DEF Hook
  <2>4. held' = Append(held, ModuleItem(at))
    BY <1>2, <1>3, <2>2, <2>3, InStack DEF Acquire
  <2>5. PICK i \in 0 .. pending : i = at
    BY <1>3
  <2>6. held' = Stack(k, i)
    <3>1. i = j + 1
      BY <1>3, <2>2, <2>5
    <3>2. held' = Append(Stack(k, j), ModuleItem(j + 1))
      BY <1>2, <1>3, <2>2, <2>4
    <3> QED
      BY <2>2, <3>1, <3>2, PushModule
  <2>7. \A m \in 1 .. i : lifecycle'[m] \notin BeforeStart
    BY <1>3, <1>4, <1>5, <1>8, <1>11, <2>2, <2>5 DEF BeforeStart
  <2>8. StepsDone(k, i)'
    BY <1>2, <2>1 DEF StepsDone, Starting, Booting, Booted, Ending
  <2>9. ModulesUp(i)'
    BY <1>3, <1>5, <1>6, <1>7, <1>8, <1>11, <2>1, <2>5 DEF ModulesUp, Booting, Booted, Preceding
  <2>10. RuntimeAsReached'
    BY <1>5, <1>11, <2>1 DEF IInv, RuntimeAsReached, Booting, Booted
  <2>11. pc' \in Place /\ at' \in 0 .. Modules + Steps /\ booted' \in 0 .. pending /\ runtime' = runtime
    BY <1>3, <2>1, Places
  <2> QED
    BY <1>2, <1>9, <2>6, <2>7, <2>8, <2>9, <2>10, <2>11 DEF IInv, TypeOK
<1>12. CASE pc = "ready"
  <2>1. /\ booted' = at /\ runtime' = runtime
        /\ \/ at < pending /\ pc' = "check" /\ at' = at + 1
           \/ at = pending /\ pc' = "manifest" /\ at' = 0
    BY <1>3, <1>12 DEF Hook, NextModule, Goto
  <2>2. held' = held
    BY <1>3, <1>12, LifespanAssumption DEF Hook
  <2>3. j = at
    BY <1>1, <1>12 DEF Resources, ModulesUp, Booting
  <2>4. \A m \in 1 .. j : lifecycle'[m] \notin BeforeStart
    BY <1>4, <1>5, <1>12 DEF BeforeStart
  <2>5. StepsDone(k, j)'
    BY <1>2, <1>12, <2>1 DEF StepsDone, Starting, Booting, Booted, Ending
  <2>6. \A m \in 1 .. at : lifecycle'[m] = "ready" /\ Owns(m)'
    BY <1>3, <1>5, <1>6, <1>7, <1>8, <1>12
  <2>7. ModulesUp(j)'
    BY <1>3, <1>5, <2>1, <2>3, <2>6 DEF ModulesUp, Booting, Booted, Preceding
  <2>8. RuntimeAsReached'
    BY <1>5, <1>12, <2>1 DEF IInv, RuntimeAsReached, Booting, Booted
  <2>9. pc' \in Place /\ at' \in 0 .. Modules + Steps /\ booted' \in 0 .. pending /\ runtime' = runtime
    BY <1>3, <2>1, Places
  <2> QED
    BY <1>2, <1>9, <2>2, <2>4, <2>5, <2>7, <2>8, <2>9 DEF IInv, TypeOK
<1>13. CASE pc \in {"stopped", "disposed"}
  <2>1. /\ UNCHANGED <<booted, runtime>>
        /\ held' = IF pc = Closes[at] THEN Release(ModuleItem(at)) ELSE held
        /\ \/ pc = "stopped" /\ pc' = "disposed" /\ at' = at
           \/ pc = "disposed" /\ at > 1 /\ pc' = "stopped" /\ at' = at - 1
           \/ pc = "disposed" /\ at = 1 /\ pc' = "release" /\ at' = Steps
    BY <1>3, <1>13 DEF Hook, PreviousModule, Goto
  <2>2. Closes[at] \in {"stopped", "disposed"}
    BY <1>3, LifespanAssumption
  <2>3. j = IF pc = "stopped" \/ Closes[at] = "disposed" THEN at ELSE at - 1
    BY <1>6, <1>13
  <2>4. PICK i \in 0 .. pending :
           i = IF pc = "stopped" /\ Closes[at] = "disposed" THEN at ELSE at - 1
    BY <1>3
  <2>5. held' = Stack(k, i)
    <3>1. CASE pc = Closes[at]
      <4>1. j = at /\ i = at - 1 /\ at \in 1 .. Modules
        BY <1>3, <1>13, <2>3, <2>4, <3>1
      <4> QED
        BY <1>2, <2>1, <3>1, <4>1, PopModule DEF Release
    <3>2. CASE pc # Closes[at]
      BY <1>2, <1>13, <2>1, <2>2, <2>3, <2>4, <3>2
    <3> QED
      BY <3>1, <3>2
  <2>6. i <= at /\ i \in Nat
    BY <1>3, <2>4
  <2>7. \A m \in 1 .. i : lifecycle'[m] \notin BeforeStart
    BY <1>3, <1>5, <1>6, <1>8, <1>13, <2>6 DEF BeforeStart
  <2>8. StepsDone(k, i)'
    BY <1>2, <1>3, <1>13, <2>1, <2>4 DEF StepsDone, Starting, Booting, Booted, Ending
  <2>9. ModulesUp(i)'
    <3>1. CASE pc = "stopped"
      BY <1>3, <1>5, <1>6, <1>8, <2>1, <2>2, <2>4, <3>1 DEF ModulesUp, Booting, Booted, Preceding
    <3>2. CASE pc = "disposed"
      BY <1>3, <1>5, <1>6, <1>8, <2>1, <2>2, <2>4, <3>2 DEF ModulesUp, Booting, Booted, Preceding
    <3> QED
      BY <1>13, <3>1, <3>2
  <2>10. RuntimeAsReached'
    BY <2>1 DEF RuntimeAsReached, Booting, Booted
  <2>11. pc' \in Place /\ at' \in 0 .. Modules + Steps /\ booted' \in 0 .. pending /\ runtime' = runtime
    BY <1>3, <2>1, Places
  <2> QED
    BY <1>9, <2>5, <2>7, <2>8, <2>9, <2>10, <2>11 DEF IInv, TypeOK
<1> QED
  BY <1>2, <1>10, <1>11, <1>12, <1>13

LEMMA NextKeepsInvariant == ASSUME IInv, [Next]_vars PROVE IInv'
<1>1. CASE Begin
  BY <1>1, BeginStep
<1>2. CASE Running
  BY <1>2, RunStageStep, PassingStep, AcquireStep, AnnounceStep, ReleaseStep, CheckStep,
     HookStep, RaiseInHookStep, BindStep DEF Running, Passing
<1>3. CASE Exit
  BY <1>3, ExitStep
<1>4. CASE AddModule \/ \E m \in Mod : Unregister(m)
  BY <1>4, OutsideStep
<1>5. CASE UNCHANGED vars
  BY <1>5 DEF vars, IInv, TypeOK, RuntimeAsReached, Resources, HeldInOrder, StepsDone, ModulesUp, Owns
<1> QED
  BY <1>1, <1>2, <1>3, <1>4, <1>5 DEF Next

-----------------------------------------------------------------------------
(* The theorems.                                                           *)

LEMMA InvariantHolds == Spec => []IInv
<1> QED
  BY InitEstablishesInvariant, NextKeepsInvariant, PTL DEF Spec

\* Every variable stays in its range, for any application.
THEOREM TypeCorrect == Spec => []TypeOK
<1>1. IInv => TypeOK
  BY DEF IInv
<1> QED
  BY <1>1, InvariantHolds, PTL

\* However many modules, steps and aborted starts: a serving application has
\* every pipeline step done, every bootstrapped module ready, holding its
\* resource and owning its capabilities, and its Runtime at RUNNING.
THEOREM ServesWhatIsComplete == Spec => []ServingIsComplete
<1>1. IInv => ServingIsComplete
  <2> SUFFICES ASSUME IInv, pc = "serving" PROVE ServingIsComplete
    BY DEF ServingIsComplete
  <2>1. PICK k \in 0 .. Steps, j \in 0 .. pending : Resources(k, j)
    BY DEF IInv
  <2>2. k = Steps /\ j = booted /\ held = Stack(k, j) /\ j \in 0 .. Modules
    BY <2>1, LifespanAssumption DEF IInv, TypeOK, Resources, HeldInOrder, StepsDone, ModulesUp, Booted
  <2>3. \A m \in 1 .. booted : m \in Mod /\ lifecycle[m] = "ready" /\ Owns(m)
    BY <2>1, <2>2, LifespanAssumption DEF Resources, ModulesUp, Booted, Mod
  <2>4. /\ \A s \in Step : Held(StepItem(s))
        /\ \A m \in 1 .. booted : Held(ModuleItem(m))
    BY <2>2, <2>3, InStack, LifespanAssumption DEF Step
  <2> QED
    BY <2>3, <2>4 DEF ServingIsComplete, Owns, IInv, RuntimeAsReached, Booted
<1> QED
  BY <1>1, InvariantHolds, PTL

\* A lifespan that runs to its end has released everything any start of the
\* application acquired.
THEOREM EndsWithNothingHeld == Spec => []EndHoldsNothing
<1>1. IInv => EndHoldsNothing
  <2> SUFFICES ASSUME IInv, pc = "ended" PROVE held = <<>> /\ runtime = "stopped"
    BY DEF EndHoldsNothing
  <2>1. PICK k \in 0 .. Steps, j \in 0 .. pending : Resources(k, j)
    BY DEF IInv
  <2>2. held = Stack(0, 0)
    BY <2>1 DEF Resources, HeldInOrder, StepsDone, Ending
  <2>3. held \in Seq(Items) /\ Len(held) = 0
    BY <2>2, StackType, LifespanAssumption
  <2> QED
    BY <2>3 DEF IInv, RuntimeAsReached
<1> QED
  BY <1>1, InvariantHolds, PTL

\* Whatever a step releases is what was acquired last.
THEOREM ReleasesInReverse == Spec => ReleasedInReverse
<1> DEFINE Shrinks == Len(held') < Len(held) => held' = SubSeq(held, 1, Len(held) - 1)
<1>1. ASSUME IInv, [Next]_vars PROVE Shrinks \/ UNCHANGED vars
  <2> SUFFICES ASSUME Len(held') < Len(held) PROVE held' = SubSeq(held, 1, Len(held) - 1)
    OBVIOUS
  <2>1. PICK k \in 0 .. Steps, j \in 0 .. pending : Resources(k, j)
    BY <1>1 DEF IInv
  <2>2. j \in 0 .. Modules /\ held = Stack(k, j) /\ held \in Seq(Items) /\ Len(held) = k + j
    BY <1>1, <2>1, StackType, LifespanAssumption DEF IInv, TypeOK, Resources, HeldInOrder
  <2>3. \A x \in Items : Len(Acquire(x)) >= Len(held)
    BY <2>2 DEF Acquire
  <2>4. ASSUME StartupStep PROVE Len(held') >= Len(held)
    <3>1. at < Steps => at + 1 \in Step
      BY <1>1, LifespanAssumption DEF IInv, TypeOK, Step
    <3>2. at < Steps => StepItem(at + 1) \in Items
      BY <3>1 DEF Items
    <3> QED
      BY <2>2, <2>3, <2>4, <3>2 DEF StartupStep
  <2>5. ASSUME ShutdownStep PROVE held' = SubSeq(held, 1, Len(held) - 1)
    <3>1. k = at /\ j = 0 /\ at \in Nat
      BY <1>1, <2>1, <2>5, LifespanAssumption DEF ShutdownStep, IInv, TypeOK, Resources, StepsDone
    <3>2. at > 0 /\ held' = Release(StepItem(at))
      BY <2>2, <2>5, <3>1 DEF ShutdownStep
    <3>3. k \in 1 .. Steps /\ held = Stack(k, 0) /\ held' = RemoveFirst(held, StepItem(k))
      BY <2>2, <3>1, <3>2 DEF Release
    <3> QED
      BY <3>3, PopStep
  <2>6. ASSUME Hook PROVE held' = SubSeq(held, 1, Len(held) - 1)
    <3>1. at \in Mod /\ ModuleItem(at) \in Items
      BY <1>1, <2>1, <2>6, LifespanAssumption, Places
         DEF Hook, IInv, TypeOK, Resources, ModulesUp, Booting, Mod, Items
    <3>2. pc = Closes[at] /\ pc \in {"stopped", "disposed"} /\ held' = Release(ModuleItem(at))
      BY <2>2, <2>3, <2>6, <3>1, LifespanAssumption DEF Hook
    <3>3. j = at /\ at \in 1 .. Modules
      BY <2>1, <3>1, <3>2 DEF Resources, ModulesUp, Mod
    <3> QED
      BY <2>2, <3>2, <3>3, PopModule DEF Release
  <2>7. ASSUME RaiseInHook PROVE Len(held') >= Len(held)
    <3>1. at \in Mod /\ ModuleItem(at) \in Items
      BY <1>1, <2>1, <2>7, LifespanAssumption, Places
         DEF RaiseInHook, IInv, TypeOK, Resources, ModulesUp, Booting, Mod, Items
    <3> QED
      BY <2>2, <2>3, <2>7, <3>1 DEF RaiseInHook
  <2>8. Len(held') < Len(held) /\ Len(held) \in Nat
    BY <2>2
  <2>9. held' = held \/ StartupStep \/ ShutdownStep \/ Hook \/ RaiseInHook
    BY <1>1 DEF Next, Running, Begin, RunStage, ValidateAll, CheckGraph, Announce, Farewell,
       RaiseInRuntime, Check, RaiseInCheck, Bind, RaiseInBind, WriteManifest, Exit, AddModule,
       Unregister, vars
  <2> QED
    BY <2>2, <2>4, <2>5, <2>6, <2>7, <2>9
<1> QED
  BY <1>1, InvariantHolds, PTL DEF Spec, ReleasedInReverse
=============================================================================
