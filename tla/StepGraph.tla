----------------------------- MODULE StepGraph -----------------------------
(***************************************************************************)
(* The steps of a CI/CD pipeline and the dependencies they declare         *)
(* (services/devops/internal/domain/pipeline.go), and what a caller of     *)
(* executor.TopoSort may rely on.  Module TopoSort models the algorithm    *)
(* and is checked against this contract; module PipelineRuns only uses the *)
(* contract.                                                               *)
(*                                                                         *)
(* A step is a record [name, dependsOn]: dependsOn is the DependsOn slice, *)
(* a sequence of names in which a name may occur twice or be unknown.      *)
(* Image, commands and environment do not matter here.  An order is a      *)
(* sequence of positions in the definition.                                *)
(***************************************************************************)
EXTENDS Naturals, Sequences

\* Domain of the step lists over a set of names.
StepsOver(names) == Seq([name : names, dependsOn : Seq(names)])

HasDeps(steps) == \E i \in DOMAIN steps : steps[i].dependsOn # << >>

\* Step i waits for step j.
DependsOn(steps, i, j) ==
    \E d \in DOMAIN steps[i].dependsOn : steps[i].dependsOn[d] = steps[j].name

DuplicateName(steps) ==
    \E i, j \in DOMAIN steps : i # j /\ steps[i].name = steps[j].name

UnknownDependency(steps) ==
    \E i \in DOMAIN steps : \E d \in DOMAIN steps[i].dependsOn :
        \A j \in DOMAIN steps : steps[j].name # steps[i].dependsOn[d]

\* Every step of a non-empty set S waits for a step of S, for some S.
Cyclic(steps) ==
    \E S \in (SUBSET DOMAIN steps) \ {{}} :
        \A i \in S : \E j \in S : DependsOn(steps, i, j)

(***************************************************************************)
(* The contract.  A list with no dependency runs as it is defined, and its *)
(* names are not looked at; any other list runs in an order that holds     *)
(* every step once, each after all the steps it waits for, and is refused  *)
(* when it has no such order.                                              *)
(***************************************************************************)
DependenciesFirst(steps, order) ==
    \A a, b \in DOMAIN order : DependsOn(steps, order[a], order[b]) => b < a

\* As many positions as steps, and none missing.
EveryStepOnce(steps, order) ==
    /\ DOMAIN order = DOMAIN steps
    /\ \A i \in DOMAIN steps : \E a \in DOMAIN order : order[a] = i

Refused(steps) ==
    /\ HasDeps(steps)
    /\ DuplicateName(steps) \/ UnknownDependency(steps) \/ Cyclic(steps)

ExecutionOrders(steps) ==
    IF HasDeps(steps)
    THEN {order \in [DOMAIN steps -> DOMAIN steps] :
            /\ ~ Refused(steps)
            /\ EveryStepOnce(steps, order)
            /\ DependenciesFirst(steps, order)}
    ELSE {[i \in DOMAIN steps |-> i]}
=============================================================================
