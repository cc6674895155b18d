------------------------------ MODULE TopoSort ------------------------------
(***************************************************************************)
(* executor.TopoSort (services/devops/internal/executor/dag.go): the       *)
(* validation of a step list and Kahn's algorithm, one action per          *)
(* iteration of its loops, for every step list in Inputs.                  *)
(***************************************************************************)
EXTENDS StepGraph, FiniteSets

CONSTANTS
    Names,       \* of steps, and of what they declare to depend on
    Inputs       \* the step lists TopoSort is called with

ASSUME InputsAssumption == Inputs \subseteq StepsOver(Names)

VARIABLES
    steps,       \* the argument
    pc,          \* "start", "roots", "pop", "relax", "done"
    inDegree,    \* dependency entries of each step that are not met yet
    queue,       \* steps whose dependencies are met, not yet sorted
    sorted,      \* the result so far
    node,        \* the step popped last
    cursor,      \* of the loops over inDegree and over adj[node]
    verdict      \* "none", then "ok" or the error returned

vars == <<steps, pc, inDegree, queue, sorted, node, cursor, verdict>>

Verdicts == {"none", "ok", "duplicate", "unknown", "cycle"}
Positions == DOMAIN steps

\* Times step k names step j: the entries k has in adj[j].
Entries(k, j) ==
    Cardinality({d \in DOMAIN steps[k].dependsOn : steps[k].dependsOn[d] = steps[j].name})

TypeOK ==
    /\ steps \in Inputs
    /\ pc \in {"start", "roots", "pop", "relax", "done"}
    /\ inDegree \in [Positions -> Nat]
    /\ queue \in Seq(Positions)
    /\ sorted \in Seq(Positions)
    /\ node \in Positions \cup {0}
    /\ cursor \in Nat
    /\ verdict \in Verdicts

Init ==
    /\ steps \in Inputs
    /\ pc = "start"
    /\ inDegree = [i \in Positions |-> 0]
    /\ queue = << >>
    /\ sorted = << >>
    /\ node = 0
    /\ cursor = 0
    /\ verdict = "none"

-----------------------------------------------------------------------------
Return(v, order) ==
    /\ pc' = "done"
    /\ verdict' = v
    /\ sorted' = order
    /\ UNCHANGED <<steps, inDegree, queue, node, cursor>>

\* No step declares a dependency (or there is no step): returned as defined.
ReturnAsDefined ==
    /\ pc = "start"
    /\ ~ HasDeps(steps)
    /\ Return("ok", [i \in Positions |-> i])

RejectDuplicate ==
    /\ pc = "start"
    /\ HasDeps(steps)
    /\ DuplicateName(steps)
    /\ Return("duplicate", << >>)

RejectUnknown ==
    /\ pc = "start"
    /\ HasDeps(steps)
    /\ ~ DuplicateName(steps)
    /\ UnknownDependency(steps)
    /\ Return("unknown", << >>)

\* The dependency entries of every step are counted.
BuildGraphFrom(degree) ==
    /\ pc = "start"
    /\ HasDeps(steps)
    /\ ~ DuplicateName(steps)
    /\ ~ UnknownDependency(steps)
    /\ inDegree' = degree
    /\ cursor' = 1
    /\ pc' = "roots"
    /\ UNCHANGED <<steps, queue, sorted, node, verdict>>

\* mutation: a dependency listed twice counted once
BuildGraphOfSets ==
    BuildGraphFrom([i \in Positions |->
                        Cardinality({j \in Positions : DependsOn(steps, i, j)})])
BuildGraph == BuildGraphFrom([i \in Positions |-> Len(steps[i].dependsOn)])

\* The initial queue: the steps that start with in-degree 0, in definition order.
Enqueue(longer) ==
    /\ pc = "roots"
    /\ cursor \in Positions
    /\ queue' = IF inDegree[cursor] = 0 THEN longer ELSE queue
    /\ cursor' = cursor + 1
    /\ UNCHANGED <<steps, pc, inDegree, sorted, node, verdict>>

\* mutation: the queue filled from the front
EnqueueInFront == Enqueue(<<cursor>> \o queue)
EnqueueRoot == Enqueue(Append(queue, cursor))

RootsEnqueued ==
    /\ pc = "roots"
    /\ cursor \notin Positions
    /\ pc' = "pop"
    /\ UNCHANGED <<steps, inDegree, queue, sorted, node, cursor, verdict>>

Pop ==
    /\ pc = "pop"
    /\ queue # << >>
    /\ node' = Head(queue)
    /\ queue' = Tail(queue)
    /\ sorted' = Append(sorted, Head(queue))
    /\ cursor' = 1
    /\ pc' = "relax"
    /\ UNCHANGED <<steps, inDegree, verdict>>

(***************************************************************************)
(* The entries one step has in adj[node] are contiguous, for the outer     *)
(* loop of the construction runs over the dependent steps: all of them are *)
(* taken at once.  The in-degree reaches 0 with the last entry at most.    *)
(***************************************************************************)
RelaxBy(taken, met) ==
    /\ pc = "relax"
    /\ cursor \in Positions
    /\ inDegree' = [inDegree EXCEPT ![cursor] = @ - taken]
    /\ queue' = IF taken > 0 /\ met THEN Append(queue, cursor) ELSE queue
    /\ cursor' = cursor + 1
    /\ UNCHANGED <<steps, pc, sorted, node, verdict>>

\* mutation: adj[node] a set, so an entry listed twice is taken once
RelaxOnce ==
    RelaxBy(IF Entries(cursor, node) > 0 THEN 1 ELSE 0, inDegree[cursor] = 1)
\* mutation: queued at the first dependency met
RelaxEager == RelaxBy(Entries(cursor, node), TRUE)
Relax == RelaxBy(Entries(cursor, node), inDegree[cursor] = Entries(cursor, node))

NeighborsDone ==
    /\ pc = "relax"
    /\ cursor \notin Positions
    /\ pc' = "pop"
    /\ UNCHANGED <<steps, inDegree, queue, sorted, node, cursor, verdict>>

\* The queue ran empty: every step is sorted, or those left are on a cycle.
FinishWhenAllSorted ==   \* mutation: for len(sorted) < len(steps)
    /\ pc = "pop"
    /\ queue = << >>
    /\ Len(sorted) = Len(steps)
    /\ Return("ok", sorted)
Finish ==
    /\ pc = "pop"
    /\ queue = << >>
    /\ IF Len(sorted) = Len(steps) THEN Return("ok", sorted) ELSE Return("cycle", << >>)

Next ==
    \/ ReturnAsDefined
    \/ RejectDuplicate
    \/ RejectUnknown
    \/ BuildGraph
    \/ EnqueueRoot
    \/ RootsEnqueued
    \/ Pop
    \/ Relax
    \/ NeighborsDone
    \/ Finish

Spec == Init /\ [][Next]_vars /\ WF_vars(Next)

-----------------------------------------------------------------------------
(***************************************************************************)
(* A successful call returns an order the caller may execute: all steps,   *)
(* each once, each after the steps it depends on ("TopoSort returns steps  *)
(* in dependency order", dag.go:9).                                        *)
(***************************************************************************)
OrderMeetsContract == verdict = "ok" => sorted \in ExecutionOrders(steps)

(***************************************************************************)
(* A list is refused exactly when it has no execution order; a cycle is    *)
(* reported for a cycle and for nothing else, whatever the dependencies    *)
(* that are listed twice do to the in-degrees (dag.go:72).                 *)
(***************************************************************************)
RefusalIsJustified ==
    pc = "done" =>
        /\ verdict # "ok" <=> Refused(steps)
        /\ verdict = "cycle" => Cyclic(steps)

(***************************************************************************)
(* Steps without dependencies keep the order of the definition (dag.go:11: *)
(* "Steps with no declared deps are ordered by their index (stable)").     *)
(***************************************************************************)
RootsStayInOrder ==
    verdict = "ok" =>
        \A a, b \in DOMAIN sorted :
            /\ steps[sorted[a]].dependsOn = << >>
            /\ steps[sorted[b]].dependsOn = << >>
            /\ a < b
            => sorted[a] < sorted[b]

\* Kahn's loop ends on every input, cyclic ones included (dag.go:60).
Returns == <>(pc = "done")
=============================================================================
