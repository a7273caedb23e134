--------------------------- MODULE DagAlgorithms ---------------------------
(***************************************************************************)
(* The loops of service/dag.py: Kahn layering with in-degree counters,     *)
(* three-colour depth-first search and the upward walk.  A task list is a  *)
(* function from ids to their depends_on LISTS, which may repeat an id or  *)
(* name ids outside the list.  `known_ids` is a Python set, so the order   *)
(* in which its ids are visited is an input.                               *)
(*                                                                         *)
(* A loop is a start and a step: its state after n steps is a function of  *)
(* n, a loop that has ended stays where it is, and the result is read when *)
(* it must have ended.                                                     *)
(***************************************************************************)
EXTENDS Dag, SequencesExt

\* The same task list as a graph for the definitions of Dag.
GraphOf(list) == [t \in DOMAIN list |-> ToSet(list[t])]

-----------------------------------------------------------------------------
\* topological_layers

\* Wrong variant, to confirm LayersAreOrdered: an id is counted once.
OncePerId(list, t, ids) == IF ToSet(list[t]) \cap ids = {} THEN 0 ELSE 1

\* Edges from t to ids: one per mention in depends_on.
Occurrences(list, t, ids) ==
    Cardinality({i \in DOMAIN list[t] : list[t][i] \in ids})

KahnStart(list) ==
    [remaining |-> DOMAIN list,
     in_degree |-> [t \in DOMAIN list |-> Occurrences(list, t, DOMAIN list)],
     layers |-> <<>>]

\* One round of the while loop: emit the ids of in-degree 0, then decrement
\* the rest once per edge; without such ids emit the residual and break.
KahnRound(list, s) ==
    LET layer == {t \in s.remaining : s.in_degree[t] = 0}
        left  == s.remaining \ layer
    IN  IF s.remaining = {} THEN s
        ELSE IF layer = {}
        THEN [remaining |-> {}, in_degree |-> s.in_degree,
              layers |-> Append(s.layers, s.remaining)]
        ELSE [remaining |-> left,
              in_degree |-> [t \in DOMAIN list |->
                                IF t \in left
                                THEN s.in_degree[t] - Occurrences(list, t, layer)
                                ELSE s.in_degree[t]],
              layers |-> Append(s.layers, layer)]

Kahn(list) ==
    LET after[n \in Nat] ==
            IF n = 0 THEN KahnStart(list) ELSE KahnRound(list, after[n - 1])
    IN  after

\* Every round but the last empties at least one id from `remaining'.
TopologicalLayers(list) == Kahn(list)[Cardinality(DOMAIN list)].layers

-----------------------------------------------------------------------------
\* detect_cycle

\* Wrong variant, to confirm CycleIsGenuine: the whole stack is the cycle.
BottomOf(stack, node) == 1

\* Position of a node on the depth-first stack (on_stack_index).
IndexOn(stack, node) == CHOOSE i \in DOMAIN stack : stack[i] = node

\* at: where the loop over the dependencies of a node is; root: where the loop
\* over known_ids is; found: the cycle that is returned, <<>> while there is none.
DfsStart(list) ==
    [color |-> [t \in DOMAIN list |-> "WHITE"], at |-> [t \in DOMAIN list |-> 1],
     stack |-> <<>>, root |-> 1, found |-> <<>>]

\* visit(node) begins.
Enter(s, node) ==
    LET grey == [s EXCEPT !.color[node] = "GREY"]
    IN  [grey EXCEPT !.stack = Append(@, node)]

\* The outer loop takes its next id.
NextRoot(order, s) ==
    LET node == order[s.root]
        next == [s EXCEPT !.root = @ + 1]
    IN  IF s.color[node] = "WHITE" THEN Enter(next, node) ELSE next

\* The innermost call looks at its next dependency; ids outside the list are in
\* no edge (_build_adjacency), and a grey one closes a cycle.
NextDependency(list, s) ==
    LET top  == Last(s.stack)
        dep  == list[top][s.at[top]]
        next == [s EXCEPT !.at[top] = @ + 1]
    IN  CASE dep \notin DOMAIN list -> next
          [] dep \in DOMAIN list /\ s.color[dep] = "BLACK" -> next
          [] dep \in DOMAIN list /\ s.color[dep] = "WHITE" -> Enter(next, dep)
          [] dep \in DOMAIN list /\ s.color[dep] = "GREY" ->
               [next EXCEPT !.found =
                   Append(SubSeq(s.stack, IndexOn(s.stack, dep), Len(s.stack)), dep)]

\* The innermost call has looked at all of them and returns None.
CallReturns(s) ==
    LET popped == [s EXCEPT !.stack = Front(@)]
    IN  [popped EXCEPT !.color[Last(s.stack)] = "BLACK"]

DfsStep(list, order, s) ==
    IF s.found # <<>> THEN s
    ELSE IF s.stack = <<>>
    THEN IF s.root <= Len(order) THEN NextRoot(order, s) ELSE s
    ELSE IF s.at[Last(s.stack)] <= Len(list[Last(s.stack)])
    THEN NextDependency(list, s)
    ELSE CallReturns(s)

Dfs(list, order) ==
    LET after[n \in Nat] ==
            IF n = 0 THEN DfsStart(list) ELSE DfsStep(list, order, after[n - 1])
    IN  after

\* The places that `at' goes through; behind the last dependency a call ends.
Places(list) == UNION {{t} \X (1 .. Len(list[t]) + 1) : t \in DOMAIN list}

\* <<>> stands for None.  Every step goes past a root or a place.
DetectCycle(list, order) ==
    Dfs(list, order)[Len(order) + Cardinality(Places(list))].found

-----------------------------------------------------------------------------
\* ancestor_tasks

WalkStart(depends_on) == [frontier |-> depends_on, seen |-> {}]

\* The frontier is a stack: pop takes its last id.
WalkStep(list, s) ==
    LET t    == Last(s.frontier)
        rest == Front(s.frontier)
    IN  IF s.frontier = <<>> THEN s
        ELSE IF t \in s.seen THEN [s EXCEPT !.frontier = rest]
        ELSE [frontier |-> IF t \in DOMAIN list THEN rest \o list[t] ELSE rest,
              seen |-> s.seen \cup {t}]

Walk(list, depends_on) ==
    LET after[n \in Nat] ==
            IF n = 0 THEN WalkStart(depends_on) ELSE WalkStep(list, after[n - 1])
    IN  after

\* Wrong variant, to confirm AncestorsAreClosure: direct dependencies only.
DirectDependencies(depends_on, list) == ToSet(depends_on) \cap DOMAIN list

\* The records collected are those of the ids seen.  Every step pops an id, and
\* no list is pushed twice.
AncestorTasks(depends_on, list) ==
    Walk(list, depends_on)[Len(depends_on) + Cardinality(Places(list))].seen
        \cap DOMAIN list

-----------------------------------------------------------------------------
(* What the loops promise. *)

\* Layering: the layers of Dag, in dependency order when there is no ring.
LayersAnswer(list, layers) ==
    /\ layers = Layers(GraphOf(list))
    /\ Partition(layers, DOMAIN list)
    /\ ~Cyclic(GraphOf(list)) => Ordered(layers, GraphOf(list))

\* A path along dependencies that ends where it began and passes no other id twice.
IsRing(path, g) ==
    /\ Len(path) >= 2 /\ path[1] = path[Len(path)]
    /\ \A i \in 1 .. Len(path) - 1 :
          /\ path[i] \in DOMAIN g /\ path[i + 1] \in Edges(g)[path[i]]
          /\ \A j \in 1 .. Len(path) - 1 : path[i] = path[j] => i = j

\* Cycle search: a ring when there is one, else nothing.
CycleAnswer(list, path) ==
    /\ path # <<>> <=> Cyclic(GraphOf(list))
    /\ path # <<>> => IsRing(path, GraphOf(list))

\* Sets of listed ids that contain the listed ones of deps and are closed upwards.
ClosedSets(g, deps) ==
    {S \in SUBSET DOMAIN g : /\ deps \cap DOMAIN g \subseteq S
                             /\ \A t \in S : Edges(g)[t] \subseteq S}

\* The walk: the least such set.
AncestorsAnswer(list, depends_on, answer) ==
    /\ answer \in ClosedSets(GraphOf(list), ToSet(depends_on))
    /\ \A S \in ClosedSets(GraphOf(list), ToSet(depends_on)) : answer \subseteq S
=============================================================================
