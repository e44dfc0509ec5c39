----------------------------- MODULE Container -----------------------------
(***************************************************************************)
(* ServiceContainer and ServiceScope (runtime/container.py): registration  *)
(* of providers by contract and their resolution, on several threads. The  *)
(* container has no lock: the stack of the resolution in progress,         *)
(* _resolving, and the singletons are shared by all the threads.           *)
(*                                                                         *)
(* A resolution is a stack of calls: _resolve finds no instance and calls  *)
(* _instantiate, whose factory resolves the contracts it needs, outside    *)
(* any scope because a factory receives the container. Threads interleave  *)
(* between the lookup, the check of the stack, the factory, the pop of     *)
(* `finally` and the storing of the instance.                              *)
(*                                                                         *)
(* A factory catches nothing, and each thread works in a scope of its own. *)
(* Metadata and Lazy, which calls resolve on first use, are left out.      *)
(***************************************************************************)
EXTENDS Integers, Sequences, FiniteSets, SequencesExt

CONSTANTS
    Thread,
    Contract,
    Registrable,  \* [contract, lifetime, needs]: what may be registered; needs
                  \* is the sequence of contracts the factory resolves
    MaxChanges,   \* bound on registrations and removals
    MaxBuilt,     \* bound on instances
    MaxDepth      \* bound on nested resolutions of a thread

Lifetime == {"singleton", "scoped", "transient"}

ASSUME ContainerAssumption ==
    /\ IsFiniteSet(Thread)
    /\ \A g \in Registrable : /\ g.contract \in Contract
                              /\ g.lifetime \in Lifetime
                              /\ g.needs \in Seq(Contract)
    /\ MaxChanges \in Nat
    /\ MaxBuilt \in Nat
    /\ MaxDepth \in Nat \ {0}

VARIABLES
    registrations,  \* _registrations[c]
    singletons,     \* _singletons[c]
    resolving,      \* _resolving
    scope,          \* scope[t]: _instances of the scope thread t works in
    stack,          \* stack[t]: calls of _resolve in progress on thread t
    raised,         \* raised[t]: an exception is unwinding the stack of t
    changes,        \* number of registrations and removals
    built,          \* number of instances
    handed,         \* history: instances of singleton c handed out
    contended,      \* history: contracts resolved by two calls at once, or
                    \* changed while one was resolving them
    overlapped      \* history: two threads have been resolving at once since
                    \* the container was last idle

vars == <<registrations, singletons, resolving, scope, stack, raised,
          changes, built, handed, contended, overlapped>>

-----------------------------------------------------------------------------

\* An instance is numbered, and remembers the registration that built it.
Instance == [serial : 1..MaxBuilt, by : 1..MaxChanges]
None == [serial |-> 0]

\* over: it replaced another registration of the contract.
Registration == [lifetime : Lifetime, needs : Seq(Contract),
                 id : 1..MaxChanges, over : BOOLEAN]
Unregistered == [lifetime |-> "none", needs |-> <<>>, id |-> 0, over |-> FALSE]

\* A call of _resolve: via tells the scope argument apart, phase how far it
\* is, next which contract its factory resolves next.
Call == [contract : Contract, registration : Registration,
         via : {"container", "scope"}, phase : {"found", "factory", "built"},
         next : Nat \ {0}, made : Instance \cup {None}]

Idle(t) == stack[t] = <<>>
Busy == {t \in Thread : ~Idle(t)}
Top(t) == Last(stack[t])
Running(t) == ~Idle(t) /\ ~raised[t]

\* The calls of thread t that are inside a factory, and those of all threads.
Building(t) == {i \in 1..Len(stack[t]) : stack[t][i].phase = "factory"}
Factories == {f \in Thread \X (1..MaxDepth) : f[2] \in Building(f[1])}

Resolves(t, c) == \E i \in 1..Len(stack[t]) : stack[t][i].contract = c
InFlight(c) == \E t \in Thread : Resolves(t, c)

\* The thread may begin a resolution of c: at the top, or from its factory.
MayResolve(t, c) ==
    \/ Idle(t)
    \/ /\ Running(t)
       /\ Top(t).phase = "factory"
       /\ Top(t).next <= Len(Top(t).registration.needs)
       /\ c = Top(t).registration.needs[Top(t).next]

\* What a call returned lets its caller, a factory, go on.
Resumed(s) == IF s = <<>> THEN s ELSE [s EXCEPT ![Len(s)].next = @ + 1]

\* Mutant: factories resolve in the scope of the resolution they are part of.
ViasInherited(t) == IF Idle(t) THEN {"container", "scope"} ELSE {Top(t).via}

\* resolve of the container or of a scope; a factory has only the container.
Vias(t) == IF Idle(t) THEN {"container", "scope"} ELSE {"container"}

\* Where _resolve looks for an instance of registration g.
Cache(t, g, via) ==
    CASE g.lifetime = "singleton" -> singletons
      [] g.lifetime = "scoped"    -> scope[t]
      [] OTHER                    -> [c \in Contract |-> None]

\* Calls on other threads from now on share _resolving with this one.
Overlap(t) == overlapped' = (overlapped \/ Busy \ {t} # {})

Handed(c, g, v) == handed' = IF g.lifetime = "singleton"
                             THEN [handed EXCEPT ![c] = @ \cup {v}] ELSE handed

-----------------------------------------------------------------------------
(* Registration.                                                           *)

TypeOK ==
    /\ registrations \in [Contract -> Registration \cup {Unregistered}]
    /\ singletons \in [Contract -> Instance \cup {None}]
    /\ resolving \in Seq(Contract)
    /\ scope \in [Thread -> [Contract -> Instance \cup {None}]]
    /\ stack \in [Thread -> Seq(Call)]
    /\ \A t \in Thread : \A i \in 1..Len(stack[t]) :
          (stack[t][i].phase = "built") <=> (stack[t][i].made # None)
    /\ raised \in [Thread -> BOOLEAN]
    /\ changes \in 0..MaxChanges
    /\ built \in 0..MaxBuilt
    /\ handed \in [Contract -> SUBSET Instance]
    /\ contended \subseteq Contract
    /\ overlapped \in BOOLEAN

Init ==
    /\ registrations = [c \in Contract |-> Unregistered]
    /\ singletons = [c \in Contract |-> None]
    /\ resolving = <<>>
    /\ scope = [t \in Thread |-> [c \in Contract |-> None]]
    /\ stack = [t \in Thread |-> <<>>]
    /\ raised = [t \in Thread |-> FALSE]
    /\ changes = 0
    /\ built = 0
    /\ handed = [c \in Contract |-> {}]
    /\ contended = {}
    /\ overlapped = FALSE

\* forgotten: the instance kept for c, if any, goes.
Changed(c, forgotten) ==
    /\ changes < MaxChanges
    /\ changes' = changes + 1
    /\ contended' = IF InFlight(c) THEN contended \cup {c}
                    ELSE IF forgotten THEN contended \ {c} ELSE contended
    /\ UNCHANGED <<resolving, scope, stack, raised, overlapped>>

Registered(c, lifetime, needs) ==
    registrations' = [registrations EXCEPT ![c] =
        [lifetime |-> lifetime, needs |-> needs, id |-> changes + 1,
         over |-> @ # Unregistered]]

\* register_singleton, register_scoped and register_transient: an instance of
\* the replaced registration stays in _singletons.
Register(g) ==
    /\ Changed(g.contract, FALSE)
    /\ Registered(g.contract, g.lifetime, g.needs)
    /\ UNCHANGED <<singletons, built, handed>>

\* register_instance.
RegisterInstance(c) ==
    /\ Changed(c, TRUE)
    /\ built < MaxBuilt
    /\ built' = built + 1
    /\ Registered(c, "singleton", <<>>)
    /\ singletons' = [singletons EXCEPT ![c] = [serial |-> built + 1, by |-> changes + 1]]
    /\ handed' = [handed EXCEPT ![c] = {}]

\* unregister; of a contract that has no provider it raises and changes nothing.
Unregister(c) ==
    /\ registrations[c] # Unregistered
    /\ Changed(c, TRUE)
    /\ registrations' = [registrations EXCEPT ![c] = Unregistered]
    /\ singletons' = [singletons EXCEPT ![c] = None]
    /\ handed' = [handed EXCEPT ![c] = {}]
    /\ UNCHANGED built

-----------------------------------------------------------------------------
(* Resolution.                                                             *)

\* _resolve finds an instance.
FindCached(t, c) ==
    LET g == registrations[c] IN
    /\ MayResolve(t, c)
    /\ g # Unregistered
    /\ \E via \in Vias(t) :
        /\ g.lifetime = "scoped" => via = "scope"
        /\ Cache(t, g, via)[c] # None
        /\ stack' = [stack EXCEPT ![t] = Resumed(@)]
        /\ Handed(c, g, Cache(t, g, via)[c])
    /\ UNCHANGED <<registrations, singletons, resolving, scope, raised, changes,
                   built, contended, overlapped>>

\* _resolve finds none and turns to _instantiate.
FindNone(t, c) ==
    LET g == registrations[c] IN
    /\ MayResolve(t, c)
    /\ Len(stack[t]) < MaxDepth
    /\ g # Unregistered
    /\ \E via \in Vias(t) :
        /\ g.lifetime = "scoped" => via = "scope"
        /\ Cache(t, g, via)[c] = None
        /\ stack' = [stack EXCEPT ![t] = Append(@,
                [contract |-> c, registration |-> g, via |-> via,
                 phase |-> "found", next |-> 1, made |-> None])]
    /\ contended' = IF InFlight(c) THEN contended \cup {c} ELSE contended
    /\ Overlap(t)
    /\ UNCHANGED <<registrations, singletons, resolving, scope, raised, changes,
                   built, handed>>

\* A factory needs a contract without provider, or one that is scoped:
\* ServiceNotRegisteredException. At the top nothing is left to unwind.
FindMissing(t) ==
    /\ Running(t)
    /\ \E c \in Contract :
        /\ MayResolve(t, c)
        /\ \/ registrations[c] = Unregistered
           \/ registrations[c].lifetime = "scoped" /\ "scope" \notin Vias(t)
    /\ raised' = [raised EXCEPT ![t] = TRUE]
    /\ UNCHANGED <<registrations, singletons, resolving, scope, stack, changes,
                   built, handed, contended, overlapped>>

\* _instantiate up to the factory, or CircularDependencyException.
Enter(t) ==
    /\ Running(t) /\ Top(t).phase = "found"
    /\ IF Top(t).contract \in Range(resolving)
       THEN raised' = [raised EXCEPT ![t] = TRUE] /\ UNCHANGED <<resolving, stack>>
       ELSE /\ resolving' = Append(resolving, Top(t).contract)
            /\ stack' = [stack EXCEPT ![t][Len(stack[t])].phase = "factory"]
            /\ UNCHANGED raised
    /\ UNCHANGED <<registrations, singletons, scope, changes, built, handed,
                   contended, overlapped>>

\* The factory returns; `finally` pops whatever is last in _resolving.
Leave(t) ==
    /\ Running(t) /\ Top(t).phase = "factory"
    /\ Top(t).next > Len(Top(t).registration.needs)
    /\ built < MaxBuilt
    /\ built' = built + 1
    /\ resolving' = Front(resolving)
    /\ stack' = [stack EXCEPT ![t] = Append(Front(@),
            [Top(t) EXCEPT !.phase = "built",
                           !.made = [serial |-> built + 1, by |-> Top(t).registration.id]])]
    /\ UNCHANGED <<registrations, singletons, scope, raised, changes, handed,
                   contended, overlapped>>

\* The factory raises.
FactoryRaises(t) ==
    /\ Running(t) /\ Top(t).phase = "factory"
    /\ raised' = [raised EXCEPT ![t] = TRUE]
    /\ UNCHANGED <<registrations, singletons, resolving, scope, stack, changes,
                   built, handed, contended, overlapped>>

\* Mutant: the instance of a singleton is returned without being kept.
ReturnUnkept(t) ==
    LET f == Top(t)  rest == Front(stack[t]) IN
    /\ Running(t) /\ f.phase = "built"
    /\ scope' = IF f.registration.lifetime = "scoped"
                THEN [scope EXCEPT ![t][f.contract] = f.made] ELSE scope
    /\ stack' = [stack EXCEPT ![t] = Resumed(rest)]
    /\ overlapped' = (overlapped /\ (rest # <<>> \/ Busy # {t}))
    /\ Handed(f.contract, f.registration, f.made)
    /\ UNCHANGED <<registrations, singletons, resolving, raised, changes, built, contended>>

\* _resolve keeps the instance where its lifetime says, and returns it.
Return(t) ==
    LET f == Top(t)  rest == Front(stack[t]) IN
    /\ Running(t) /\ f.phase = "built"
    /\ singletons' = IF f.registration.lifetime = "singleton"
                     THEN [singletons EXCEPT ![f.contract] = f.made] ELSE singletons
    /\ scope' = IF f.registration.lifetime = "scoped"
                THEN [scope EXCEPT ![t][f.contract] = f.made] ELSE scope
    /\ stack' = [stack EXCEPT ![t] = Resumed(rest)]
    /\ overlapped' = (overlapped /\ (rest # <<>> \/ Busy # {t}))
    /\ Handed(f.contract, f.registration, f.made)
    /\ UNCHANGED <<registrations, resolving, raised, changes, built, contended>>

\* Mutant: _resolving is popped after the factory instead of in `finally`.
UnwindWithoutFinally(t) ==
    LET rest == Front(stack[t]) IN
    /\ raised[t]
    /\ stack' = [stack EXCEPT ![t] = rest]
    /\ raised' = [raised EXCEPT ![t] = rest # <<>>]
    /\ overlapped' = (overlapped /\ (rest # <<>> \/ Busy # {t}))
    /\ UNCHANGED <<registrations, singletons, resolving, scope, changes, built,
                   handed, contended>>

\* The exception leaves one call: `finally` pops, if it was in its factory.
Unwind(t) ==
    LET rest == Front(stack[t]) IN
    /\ raised[t]
    /\ resolving' = IF Top(t).phase = "factory" THEN Front(resolving) ELSE resolving
    /\ stack' = [stack EXCEPT ![t] = rest]
    /\ raised' = [raised EXCEPT ![t] = rest # <<>>]
    /\ overlapped' = (overlapped /\ (rest # <<>> \/ Busy # {t}))
    /\ UNCHANGED <<registrations, singletons, scope, changes, built, handed, contended>>

\* ServiceScope.__exit__; the thread goes on with another scope.
ExitScope(t) ==
    /\ Idle(t)
    /\ scope' = [scope EXCEPT ![t] = [c \in Contract |-> None]]
    /\ UNCHANGED <<registrations, singletons, resolving, stack, raised, changes,
                   built, handed, contended, overlapped>>

Next ==
    \/ \E g \in Registrable : Register(g)
    \/ \E c \in Contract : RegisterInstance(c) \/ Unregister(c)
    \/ \E t \in Thread, c \in Contract : FindCached(t, c) \/ FindNone(t, c)
    \/ \E t \in Thread : \/ FindMissing(t)
                         \/ Enter(t)
                         \/ Leave(t)
                         \/ FactoryRaises(t)
                         \/ Return(t)
                         \/ Unwind(t)
                         \/ ExitScope(t)

Spec == Init /\ [][Next]_vars

-----------------------------------------------------------------------------
(* Properties.                                                             *)

\* However threads interleave and factories fail, _resolving has as many
\* entries as there are factories running, so an idle container starts every
\* resolution with an empty stack; and while a single thread has resolved
\* since it was idle, the entries are the contracts that thread is building,
\* in order, so a circular dependency it reports is one of its own. With two
\* threads `finally` may pop the entry of the other.
ResolvingIsBalanced ==
    /\ Len(resolving) = Cardinality(Factories)
    /\ ~overlapped => \A t \in Busy :
          /\ Building(t) = 1..Len(resolving)
          /\ \A i \in Building(t) : resolving[i] = stack[t][i].contract

\* Everyone who was handed a singleton has the one the container keeps, and
\* the current registration of the contract built it, or one that it replaced
\* without unregister (register_singleton keeps the old instance); unless two
\* calls were building it at once or it was registered while being built:
\* _resolve looks it up, builds it and stores it in separate steps.
OneInstance ==
    \A c \in Contract \ contended :
        /\ handed[c] \subseteq {singletons[c]}
        /\ singletons[c] # None =>
              /\ registrations[c] # Unregistered
              /\ registrations[c].over \/ singletons[c].by = registrations[c].id

\* Scoped instances are never shared: a factory cannot resolve one, so nothing
\* that outlives a scope holds one of its instances, and no two scopes and no
\* singleton have an instance in common.
ScopedStaysInScope ==
    /\ \A t \in Thread : \A i \in 2..Len(stack[t]) :
          stack[t][i].registration.lifetime # "scoped"
    /\ \A t \in Thread, c \in Contract : scope[t][c] # None =>
          /\ \A d \in Contract : singletons[d] # scope[t][c]
          /\ \A u \in Thread \ {t}, d \in Contract : scope[u][d] # scope[t][c]
=============================================================================
