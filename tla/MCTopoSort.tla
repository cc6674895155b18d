----------------------------- MODULE MCTopoSort -----------------------------
(***************************************************************************)
(* Inputs for TopoSort.  Every list of up to three steps over three names, *)
(* with up to two dependency entries each: duplicate step names,           *)
(* unknown names, self-dependencies, repeated entries and cycles all occur.*)
(* And every list of four distinct steps with up to two distinct           *)
(* dependencies each, where two-step and three-step cycles stand beside    *)
(* steps that can run.                                                     *)
(***************************************************************************)
EXTENDS TopoSort, FiniteSetsExt

CONSTANTS a, b, c, d

MCNames == {a, b, c, d}
Declared == [name : {a, b, c},
             dependsOn : {<< >>} \cup {<<x>> : x \in MCNames}
                           \cup {<<x, y>> : x, y \in {a, b}}]
Small == UNION {[1..n -> Declared] : n \in 0..3}

Pairs == {<<a, b>>, <<a, c>>, <<a, d>>, <<b, c>>, <<b, d>>, <<c, d>>}
Deps == {<< >>} \cup {<<x>> : x \in {a, b, c, d}} \cup Pairs
Wide == {[i \in 1..4 |-> [name |-> <<a, b, c, d>>[i], dependsOn |-> f[i]]] :
            f \in [1..4 -> Deps]}

MCInputs == Small \cup Wide
=============================================================================
