------------------------------ MODULE Resolver ------------------------------
(***************************************************************************)
(* ModuleDependencyResolver of the SDK over the DependencyGraph of the     *)
(* runtime: the version pins are compared, then the graph is searched for  *)
(* a cycle, depth first, and then ordered by the degrees that are left.    *)
(*                                                                         *)
(* A manifest declares dependencies in some order: any is tried. A step is *)
(* one iteration of a loop of the code.                                    *)
(***************************************************************************)
EXTENDS Integers, Sequences, FiniteSets, SequencesExt

CONSTANTS
    Module,       \* ids of modules, numbers in the order of their names
    Catalogues,   \* the collections of manifests resolve() may be called with
    NoPin         \* no version_constraint

\* A catalogue: for each module in it, the pins of the modules it depends on.
\* The module that instantiates this one assumes it.
ResolverAssumption ==
    /\ Module \subseteq Nat /\ IsFiniteSet(Module)
    /\ \A c \in Catalogues :
          /\ DOMAIN c \subseteq Module
          /\ \A m \in DOMAIN c : DOMAIN c[m] \subseteq Module

VARIABLES
    catalogue,    \* the manifests, by id
    phase,        \* where resolve() is
    colour,       \* detect_cycle: 0 not visited, 1 on the path, 2 finished
    path,         \* detect_cycle: the nodes being visited
    inDegree,     \* topological_order: dependencies not ordered yet
    ready,        \* topological_order: nodes with none
    order         \* the answer

vars == <<catalogue, phase, colour, path, inDegree, ready, order>>

Nodes == DOMAIN catalogue

\* edges(): dependencies on modules that are not there do not count.
Edges(m) == DOMAIN catalogue[m] \cap Nodes
Dependents(m) == {n \in Nodes : m \in Edges(n)}

\* Mutant: every edge ends the search at a node already seen.
FinishedAlways(m) == \A n \in Edges(m) : colour[n] # 0

\* visit() has gone through all the neighbours of a node.
Finished(m) == \A n \in Edges(m) : colour[n] = 2

\* detect_conflicts: two pins of one module that differ.
Conflicting ==
    \E m, n \in Nodes : \E d \in DOMAIN catalogue[m] \cap DOMAIN catalogue[n] :
        /\ catalogue[m][d] # NoPin /\ catalogue[n][d] # NoPin
        /\ catalogue[m][d] # catalogue[n][d]

\* sorted() of the names of nodes.
Sorted(nodes) ==
    CHOOSE s \in [1 .. Cardinality(nodes) -> nodes] :
        /\ ToSet(s) = nodes
        /\ \A i, j \in DOMAIN s : i < j => s[i] < s[j]

Init ==
    /\ catalogue = <<>>
    /\ phase = "idle"
    /\ colour = <<>>
    /\ path = <<>>
    /\ inDegree = <<>>
    /\ ready = <<>>
    /\ order = <<>>

-----------------------------------------------------------------------------
Resolve ==
    /\ phase = "idle"
    /\ \E c \in Catalogues :
         /\ catalogue' = c
         /\ colour' = [m \in DOMAIN c |-> 0]
    /\ phase' = "conflicts"
    /\ UNCHANGED <<path, inDegree, ready, order>>

DetectConflicts ==
    /\ phase = "conflicts"
    /\ phase' = IF Conflicting THEN "conflict" ELSE "search"
    /\ UNCHANGED <<catalogue, colour, path, inDegree, ready, order>>

\* visit(node), of a node of the loop over the nodes or of a neighbour.
Visit(m) ==
    /\ phase = "search" /\ colour[m] = 0
    /\ path # <<>> => m \in Edges(Last(path))
    /\ colour' = [colour EXCEPT ![m] = 1]
    /\ path' = Append(path, m)
    /\ UNCHANGED <<catalogue, phase, inDegree, ready, order>>

\* A neighbour on the path: what is left on it, from there, is the cycle.
CloseCycle(m) ==
    /\ phase = "search" /\ path # <<>>
    /\ m \in Edges(Last(path)) /\ colour[m] = 1
    /\ path' = SubSeq(path, CHOOSE i \in DOMAIN path : path[i] = m, Len(path))
    /\ phase' = "cycle"
    /\ UNCHANGED <<catalogue, colour, inDegree, ready, order>>

Return ==
    /\ phase = "search" /\ path # <<>>
    /\ Finished(Last(path))
    /\ colour' = [colour EXCEPT ![Last(path)] = 2]
    /\ path' = Front(path)
    /\ UNCHANGED <<catalogue, phase, inDegree, ready, order>>

\* detect_cycle is done: the nodes without dependencies are ready.
Acyclic ==
    /\ phase = "search" /\ path = <<>> /\ \A m \in Nodes : colour[m] = 2
    /\ phase' = "order"
    /\ inDegree' = [m \in Nodes |-> Cardinality(Edges(m))]
    /\ ready' = Sorted({m \in Nodes : Edges(m) = {}})
    /\ UNCHANGED <<catalogue, colour, path, order>>

Take ==
    /\ phase = "order" /\ ready # <<>>
    /\ LET current == Head(ready)
           left == [m \in Nodes |-> inDegree[m] - IF m \in Dependents(current) THEN 1 ELSE 0]
       IN  /\ inDegree' = left
           /\ ready' = Tail(ready) \o Sorted({m \in Dependents(current) : left[m] = 0})
           /\ order' = Append(order, current)
    /\ UNCHANGED <<catalogue, phase, colour, path>>

Ordered ==
    /\ phase = "order" /\ ready = <<>>
    /\ phase' = "ordered"
    /\ UNCHANGED <<catalogue, colour, path, inDegree, ready, order>>

\* The caller has its answer.
Forget ==
    /\ phase \in {"conflict", "cycle", "ordered"}
    /\ phase' = "idle"
    /\ catalogue' = <<>> /\ colour' = <<>> /\ path' = <<>>
    /\ inDegree' = <<>> /\ ready' = <<>> /\ order' = <<>>

Next ==
    \/ Resolve \/ DetectConflicts \/ Return \/ Acyclic \/ Take \/ Ordered \/ Forget
    \/ \E m \in Nodes : Visit(m) \/ CloseCycle(m)

Spec == Init /\ [][Next]_vars

-----------------------------------------------------------------------------
(* Properties.                                                             *)

\* An answer is right: an order has every module once, after those of its
\* dependencies that are there; the cycle refused is one of the graph, and
\* a catalogue without conflict is ordered exactly when no path of the search
\* could come back (a search that misses a cycle leaves modules out).
ResolutionIsSound ==
    /\ phase = "ordered" =>
         /\ ToSet(order) = Nodes /\ IsInjective(order)
         /\ \A i, j \in DOMAIN order : order[j] \in Edges(order[i]) => j < i
    /\ phase = "cycle" =>
         \A i \in DOMAIN path :
            path[(i % Len(path)) + 1] \in Edges(path[i])
    /\ phase = "search" => \A i \in DOMAIN path : colour[path[i]] = 1
=============================================================================
