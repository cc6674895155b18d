--------------------------- MODULE MCPipelineRuns ---------------------------
(***************************************************************************)
(* Instances of PipelineRuns.  The step lists are: one step; two steps     *)
(* defined against their dependency; none; and a cycle, which TriggerRun   *)
(* refuses.                                                                *)
(***************************************************************************)
EXTENDS PipelineRuns, TLC

CONSTANTS build, test, p1, r1, r2

Step(name, deps) == [name |-> name, dependsOn |-> deps]

One     == <<Step(build, << >>)>>
Against == <<Step(test, <<build>>), Step(build, << >>)>>
Cycle   == <<Step(test, <<build>>), Step(build, <<test>>)>>

MCStepNames == {build, test}
RunLists    == {Against, Cycle, One}
StreamLists == {Against, << >>}

OnePipeline == {p1}
OneRun      == {r1}
TwoRuns     == {r1, r2}

\* Runs are interchangeable, and no liveness is checked with this.
RunSymmetry == Permutations(TwoRuns)
=============================================================================
