------------------------------ MODULE MCRuntime ------------------------------
(***************************************************************************)
(* Instance of Runtime. In Platform, a plugin of two services and the      *)
(* handlers of the events of modules; in Container, two threads and two    *)
(* contracts that may need each other, one of which may be scoped; in      *)
(* Resolver, all graphs of three modules, with and without pins. The three *)
(* share no state: at any time at most one of them is away from its        *)
(* initial state.                                                          *)
(***************************************************************************)
EXTENDS Runtime, TLC

CONSTANTS m, c, s1, s2, p, flag, h1, h2, t1, t2, a, b

Provided(contract, l, n) == [contract |-> contract, lifetime |-> l, needs |-> n]

\* a needs b; b is plain, needs a, or is scoped, which a factory cannot resolve.
Providers == {Provided(a, "singleton", <<b>>),
              Provided(b, "transient", <<>>),
              Provided(b, "singleton", <<a>>),
              Provided(b, "scoped", <<>>)}

TwoServices == [x \in Plugin |-> <<s1, s2>>]
ModulesOn == {<<"module", "on">>}
Alike == Permutations(Handler) \cup Permutations(Thread)

Graphs ==
    UNION {[nodes -> UNION {[deps -> {NoPin}] : deps \in SUBSET ModuleId}] :
             nodes \in SUBSET ModuleId}

\* Two modules that depend on a third with pins, equal or not.
Pinned == {(1 :> (3 :> v)) @@ (2 :> (3 :> w)) @@ (3 :> <<>>) : v, w \in {NoPin, 1, 2}}

Manifests == Graphs \cup Pinned

-----------------------------------------------------------------------------
MCInit == Init /\ Bus!Init /\ Sdk!Init

Unused == published = <<>> /\ active = {} /\ subscribers = [n \in Watched |-> <<>>]

MCNext ==
    \/ changes = 0 /\ resolution = "idle" /\ Bus!Next /\ UNCHANGED <<vars, sdkVars>>
    \/ Unused /\ resolution = "idle" /\ Next /\ UNCHANGED <<busVars, sdkVars>>
    \/ Unused /\ changes = 0 /\ Sdk!Next /\ UNCHANGED <<vars, busVars>>

MCSpec == MCInit /\ [][MCNext]_<<vars, busVars, sdkVars>>
=============================================================================
