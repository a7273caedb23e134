-------------------------------- MODULE Dag --------------------------------
(***************************************************************************)
(* What service/dag.py computes on the dependency graph of a task list,    *)
(* stated without its work lists and colours.  A graph maps each task id   *)
(* of the list to the set of ids in its depends_on, which may name ids     *)
(* that are not in the list.  DagAlgorithms follows the code's loops and   *)
(* is checked against these definitions.                                   *)
(***************************************************************************)
EXTENDS Integers, FiniteSets, Sequences

\* _build_adjacency: a dependency outside the list counts as satisfied.
Edges(g) == [t \in DOMAIN g |-> g[t] \cap DOMAIN g]

\* Some tasks depend on each other in a ring.
Cyclic(g) ==
    \E ring \in SUBSET DOMAIN g :
        ring # {} /\ \A t \in ring : g[t] \cap ring # {}

\* Largest element of a finite set of naturals, 0 when it is empty.
MaxOrZero(S) == CHOOSE m \in S \cup {0} : \A n \in S : n <= m

\* Chain lengths in nodes; an id that is not in the list is a chain of 1.
LengthOf(g) ==
    LET ids == DOMAIN g \cup UNION {g[t] : t \in DOMAIN g}
        length[t \in ids] ==
            1 + MaxOrZero({length[p] : p \in IF t \in DOMAIN g THEN g[t] ELSE {}})
    IN  length

\* Wrong variant, to confirm LengthIsLongestPath: leaves the new task out.
LengthWithoutSelf(deps, g) ==
    MaxOrZero({IF d \in DOMAIN g THEN LengthOf(g)[d] ELSE 1 : d \in deps})

\* chain_length (its memo only saves work): nodes on the longest chain that
\* ends at a new task.
ChainLength(deps, g) ==
    1 + MaxOrZero({IF d \in DOMAIN g THEN LengthOf(g)[d] ELSE 1 : d \in deps})

\* The ids of rest that have no dependency left in it.
Free(g, rest) == {t \in rest : g[t] \cap rest = {}}

\* Peel the free ids, layer after layer; a ring that can never be peeled is
\* emitted whole as the last layer.
Peeling(g) ==
    LET peel[rest \in SUBSET DOMAIN g] ==
            IF rest = {} THEN <<>>
            ELSE IF Free(g, rest) = {} THEN <<rest>>
            ELSE <<Free(g, rest)>> \o peel[rest \ Free(g, rest)]
    IN  peel

\* topological_layers
Layers(g) == Peeling(g)[DOMAIN g]

-----------------------------------------------------------------------------
\* Disjoint sets that together are rest.
Partition(layers, rest) ==
    /\ layers \in Seq(SUBSET rest)
    /\ \A t \in rest : \E i \in DOMAIN layers : t \in layers[i]
    /\ \A i, j \in DOMAIN layers : i # j => layers[i] \cap layers[j] = {}

\* No id stands before, or together with, an id of the layers it depends on.
Ordered(layers, g) ==
    \A i, j \in DOMAIN layers : \A t \in layers[i] :
        g[t] \cap layers[j] # {} => j < i
=============================================================================
