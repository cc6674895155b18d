--------------------------- MODULE TopoSortProofs ---------------------------
(***************************************************************************)
(* Proofs about TopoSort, for step lists of any length over any names.     *)
(***************************************************************************)
EXTENDS TopoSort, SequenceTheorems, FiniteSetTheorems, TLAPS

\* The steps that are sorted and then those that are queued, as one list: what
\* the loop does is to append to it, and to move the border.
Total == Len(sorted) + Len(queue)
Listed(p) == IF p <= Len(sorted) THEN sorted[p] ELSE queue[p - Len(sorted)]

\* The entries that step k has in adj[j] were taken from its in-degree.
Met(j, k) ==
    /\ \E p \in 1..Len(sorted) : sorted[p] = j
    /\ pc = "relax" /\ j = node => k < cursor

\* The entries of step k still counted.
Unmet(k) ==
    {d \in DOMAIN steps[k].dependsOn :
        \A j \in Positions : Met(j, k) => steps[k].dependsOn[d] # steps[j].name}

Accepted ==
    /\ HasDeps(steps) /\ ~ DuplicateName(steps) /\ ~ UnknownDependency(steps)
    /\ cursor \in 1..Len(steps) + 1
    /\ pc = "roots" => sorted = << >>
    /\ pc = "relax" => Len(sorted) > 0 /\ node = sorted[Len(sorted)]

Counted == \A k \in Positions : inDegree[k] = Cardinality(Unmet(k))

\* Listed are the steps whose dependencies are met, and no other; the first loop
\* has looked at those before the cursor.
ListedWhenMet ==
    \A k \in Positions :
        (\E p \in 1..Total : Listed(p) = k) <=>
            inDegree[k] = 0 /\ (pc = "roots" => k < cursor)

ListedOnce == \A p, q \in 1..Total : Listed(p) = Listed(q) => p = q

\* What a listed step waits for is sorted, and before it.
DependenciesListed ==
    \A p \in 1..Total, j \in Positions :
        DependsOn(steps, Listed(p), j) => \E q \in 1..Len(sorted) : q < p /\ sorted[q] = j

\* Every step of S waits for a step of S.
Closed(S) == \A i \in S : \E j \in S : DependsOn(steps, i, j)

CyclesUnlisted ==
    \A S \in SUBSET Positions : Closed(S) => \A p \in 1..Total : Listed(p) \notin S

RootsAscend ==
    \A p, q \in 1..Total :
        /\ steps[Listed(p)].dependsOn = << >> /\ steps[Listed(q)].dependsOn = << >>
        /\ p < q
        => Listed(p) < Listed(q)

\* The invariant of the algorithm from the construction of the graph on.
Kahn ==
    /\ Accepted /\ Counted /\ ListedWhenMet /\ ListedOnce
    /\ DependenciesListed /\ CyclesUnlisted /\ RootsAscend

Inv ==
    /\ TypeOK
    /\ pc = "start" => queue = << >> /\ sorted = << >>
    /\ pc # "done" => verdict = "none"
    /\ pc \in {"roots", "pop", "relax"} => Kahn

-----------------------------------------------------------------------------
(* The step list.                                                          *)

LEMMA Shape ==
    ASSUME steps \in Inputs
    PROVE  /\ Len(steps) \in Nat /\ Positions = 1..Len(steps)
           /\ IsFiniteSet(Positions) /\ Cardinality(Positions) = Len(steps)
           /\ \A k \in Positions :
                /\ Len(steps[k].dependsOn) \in Nat
                /\ DOMAIN steps[k].dependsOn = 1..Len(steps[k].dependsOn)
                /\ steps[k].dependsOn = << >> <=> Len(steps[k].dependsOn) = 0
                /\ IsFiniteSet(DOMAIN steps[k].dependsOn)
                /\ Cardinality(DOMAIN steps[k].dependsOn) = Len(steps[k].dependsOn)
<1> DEFINE Step == [name : Names, dependsOn : Seq(Names)]
<1>1. steps \in Seq(Step)
  BY InputsAssumption DEF StepsOver
<1>2. Len(steps) \in Nat /\ Positions = 1..Len(steps)
  BY <1>1, LenProperties DEF Positions
<1>3. \A k \in Positions : steps[k] \in Step
  BY <1>1, <1>2, ElementOfSeq
<1>4. \A k \in Positions : steps[k].dependsOn \in Seq(Names)
  BY <1>3
<1>5. ASSUME NEW n \in Nat
      PROVE  IsFiniteSet(1..n) /\ Cardinality(1..n) = n
  BY <1>5, FS_Interval
<1>6. ASSUME NEW s \in Seq(Names)
      PROVE  Len(s) \in Nat /\ DOMAIN s = 1..Len(s) /\ (s = << >> <=> Len(s) = 0)
  BY <1>6, LenProperties, EmptySeq
<1>7. QED
  BY <1>2, <1>4, <1>5, <1>6

LEMMA UnmetCounts ==
    ASSUME steps \in Inputs, NEW k \in Positions
    PROVE  /\ IsFiniteSet(Unmet(k)) /\ Cardinality(Unmet(k)) \in Nat
           /\ Cardinality(Unmet(k)) = 0 <=> Unmet(k) = {}
<1>1. Unmet(k) \in SUBSET DOMAIN steps[k].dependsOn
  BY DEF Unmet
<1>2. IsFiniteSet(Unmet(k))
  BY <1>1, Shape, FS_Subset
<1>3. QED
  BY <1>2, FS_CardinalityType, FS_EmptySet

\* Entries is how many entries of k name j.
EntriesOf(k, j) ==
    {d \in DOMAIN steps[k].dependsOn : steps[k].dependsOn[d] = steps[j].name}

LEMMA EntriesCount ==
    ASSUME steps \in Inputs, NEW k \in Positions, NEW j \in Positions
    PROVE  /\ IsFiniteSet(EntriesOf(k, j)) /\ Entries(k, j) = Cardinality(EntriesOf(k, j))
           /\ Entries(k, j) \in Nat
           /\ Entries(k, j) = 0 <=> EntriesOf(k, j) = {}
           /\ EntriesOf(k, j) # {} <=> DependsOn(steps, k, j)
<1>1. EntriesOf(k, j) \in SUBSET DOMAIN steps[k].dependsOn
  BY DEF EntriesOf
<1>2. IsFiniteSet(EntriesOf(k, j))
  BY <1>1, Shape, FS_Subset
<1>3. Entries(k, j) = Cardinality(EntriesOf(k, j))
  BY DEF Entries, EntriesOf
<1>4. EntriesOf(k, j) # {} <=> DependsOn(steps, k, j)
  BY DEF EntriesOf, DependsOn
<1>5. QED
  BY <1>2, <1>3, <1>4, FS_CardinalityType, FS_EmptySet

\* What is taken away from a finite set is what its cardinality loses.
LEMMA Removed ==
    ASSUME NEW S, IsFiniteSet(S), NEW T \in SUBSET S
    PROVE  Cardinality(S \ T) = Cardinality(S) - Cardinality(T)
<1>1. IsFiniteSet(T) /\ IsFiniteSet(S \ T)
  <2>1. S \ T \in SUBSET S
    OBVIOUS
  <2>2. QED
    BY <2>1, FS_Subset
<1>2. (S \ T) \cup T = S /\ (S \ T) \cap T = {}
  OBVIOUS
<1>3. Cardinality((S \ T) \cup T) =
        Cardinality(S \ T) + Cardinality(T) - Cardinality((S \ T) \cap T)
  BY <1>1, FS_Union
<1>4. Cardinality({}) = 0 /\ Cardinality(T) \in Nat /\ Cardinality(S \ T) \in Nat
  BY <1>1, FS_EmptySet, FS_CardinalityType
<1>5. Cardinality(S) = Cardinality(S \ T) + Cardinality(T) - 0
  BY <1>2, <1>3, <1>4, Zenon
<1>6. QED
  BY <1>4, <1>5

-----------------------------------------------------------------------------
(* The list.                                                               *)

LEMMA Lists ==
    ASSUME TypeOK
    PROVE  /\ Len(sorted) \in Nat /\ Len(queue) \in Nat /\ Total \in Nat
           /\ \A p \in 1..Total : Listed(p) \in Positions
           /\ \A p \in 1..Len(sorted) : Listed(p) = sorted[p] /\ p \in 1..Total
           /\ \A p \in 1..Len(sorted) : sorted[p] \in Positions
<1>1. Len(sorted) \in Nat /\ Len(queue) \in Nat
  BY LenProperties DEF TypeOK
<1>2. \A p \in 1..Len(sorted) : sorted[p] \in Positions
  BY ElementOfSeq DEF TypeOK
<1>3. \A p \in 1..Len(queue) : queue[p] \in Positions
  BY ElementOfSeq DEF TypeOK
<1>4. \A p \in 1..Total : p <= Len(sorted) \/ p - Len(sorted) \in 1..Len(queue)
  BY <1>1 DEF Total
<1>5. QED
  BY <1>1, <1>2, <1>3, <1>4 DEF Total, Listed

LEMMA ListGrows ==
    ASSUME TypeOK, NEW k \in Positions, queue' = Append(queue, k), sorted' = sorted
    PROVE  /\ Total' = Total + 1
           /\ \A p : p = Total + 1 => Listed(p)' = k
           /\ \A p \in 1..Total : Listed(p)' = Listed(p)
<1>1. Len(sorted) \in Nat /\ Len(queue) \in Nat
  BY Lists
<1>2. /\ Len(queue') = Len(queue) + 1 /\ queue'[Len(queue) + 1] = k
      /\ \A i \in 1..Len(queue) : queue'[i] = queue[i]
  BY AppendProperties DEF TypeOK
<1>3. \A p \in 1..Total : p <= Len(sorted) \/ p - Len(sorted) \in 1..Len(queue)
  BY <1>1 DEF Total
<1>4. QED
  BY <1>1, <1>2, <1>3 DEF Total, Listed

LEMMA ListKept ==
    ASSUME TypeOK, Pop
    PROVE  /\ Total' = Total /\ Len(sorted') = Len(sorted) + 1
           /\ sorted'[Len(sorted) + 1] = node'
           /\ \A p \in 1..Len(sorted) : sorted'[p] = sorted[p]
           /\ \A p \in 1..Total : Listed(p)' = Listed(p)
           /\ \A p : p = Len(sorted) + 1 => p \in 1..Total /\ Listed(p) = node'
<1>1. Len(sorted) \in Nat /\ Len(queue) \in Nat /\ queue # << >> /\ queue \in Seq(Positions)
  BY Lists DEF Pop, TypeOK
<1>2. /\ node' = queue[1] /\ node' \in Positions /\ Len(queue) > 0
      /\ Len(queue') = Len(queue) - 1
      /\ \A i \in 1..Len(queue') : queue'[i] = queue[i + 1]
  BY <1>1, HeadTailProperties, LenProperties, EmptySeq DEF Pop
<1>3. /\ Len(sorted') = Len(sorted) + 1 /\ sorted'[Len(sorted) + 1] = node'
      /\ \A p \in 1..Len(sorted) : sorted'[p] = sorted[p]
  <2>1. sorted' = Append(sorted, node')
    BY DEF Pop
  <2>2. QED
    BY <1>2, <2>1, AppendProperties DEF TypeOK
<1>4. Total' = Total
  BY <1>1, <1>2, <1>3 DEF Total
<1>5. ASSUME NEW p \in 1..Total
      PROVE  Listed(p)' = Listed(p)
  <2>1. CASE p <= Len(sorted)
    BY <1>1, <1>3, <2>1 DEF Listed
  <2>2. CASE p = Len(sorted) + 1
    BY <1>1, <1>2, <1>3, <2>2 DEF Listed
  <2>3. CASE p > Len(sorted) + 1
    <3>1. p - (Len(sorted) + 1) \in 1..Len(queue') /\ p - (Len(sorted) + 1) + 1 = p - Len(sorted)
      BY <1>1, <1>2, <2>3 DEF Total
    <3>2. queue'[p - (Len(sorted) + 1)] = queue[p - Len(sorted)]
      BY <1>2, <3>1
    <3>3. QED
      BY <1>1, <1>3, <2>3, <3>2 DEF Listed
  <2>4. QED
    BY <1>1, <2>1, <2>2, <2>3 DEF Total
<1>6. QED
  BY <1>1, <1>2, <1>3, <1>4, <1>5 DEF Listed, Total

-----------------------------------------------------------------------------
(* The steps.                                                              *)

\* What one step depends on says where it is in the list, and nothing else:
\* the parts of Kahn that are about the list alone survive a step that keeps
\* the list and sorts no less.
LEMMA ListPartsKept ==
    ASSUME TypeOK, DependenciesListed, CyclesUnlisted, ListedOnce, RootsAscend,
           steps' = steps, Total' = Total, \A p \in 1..Total : Listed(p)' = Listed(p),
           \A q \in 1..Len(sorted) : q \in 1..Len(sorted') /\ sorted'[q] = sorted[q]
    PROVE  DependenciesListed' /\ CyclesUnlisted' /\ ListedOnce' /\ RootsAscend'
<1>1. DependenciesListed'
  BY DEF DependenciesListed, Positions
<1>2. CyclesUnlisted'
  BY DEF CyclesUnlisted, Closed, Positions
<1>3. ListedOnce'
  BY DEF ListedOnce
<1>4. RootsAscend'
  BY DEF RootsAscend
<1>5. QED
  BY <1>1, <1>2, <1>3, <1>4

\* ... and a step that appends to it one whose dependencies are sorted, and
\* which is not listed; roots are appended in the order of their positions.
LEMMA ListPartsGrow ==
    ASSUME TypeOK, DependenciesListed, CyclesUnlisted, ListedOnce, RootsAscend,
           NEW k \in Positions, steps' = steps, sorted' = sorted, queue' = Append(queue, k),
           \A p \in 1..Total : Listed(p) # k,
           \A j \in Positions :
               DependsOn(steps, k, j) => \E q \in 1..Len(sorted) : sorted[q] = j,
           steps[k].dependsOn = << >> =>
               \A p \in 1..Total : steps[Listed(p)].dependsOn = << >> => Listed(p) < k
    PROVE  DependenciesListed' /\ CyclesUnlisted' /\ ListedOnce' /\ RootsAscend'
<1>1. /\ Total \in Nat /\ Total' = Total + 1
      /\ \A p \in 1..Total : Listed(p)' = Listed(p)
      /\ Len(sorted) \in Nat /\ Len(sorted) <= Total
      /\ \A p \in 1..Len(sorted) : Listed(p) = sorted[p] /\ p \in 1..Total
  BY Lists, ListGrows DEF Total
<1>2. \A p \in 1..Total' : p \in 1..Total \/ (p = Total + 1 /\ Listed(p)' = k)
  BY <1>1, ListGrows
<1>3. ASSUME NEW p \in 1..Total', NEW j \in Positions, DependsOn(steps, Listed(p)', j)
      PROVE  \E q \in 1..Len(sorted) : q < p /\ sorted[q] = j
  <2>1. CASE p \in 1..Total
    BY <1>1, <1>3, <2>1 DEF DependenciesListed
  <2>2. CASE p = Total + 1 /\ Listed(p)' = k
    BY <1>1, <1>3, <2>2
  <2>3. QED
    BY <1>2, <2>1, <2>2
<1>4. DependenciesListed'
  BY <1>3 DEF DependenciesListed, Positions
<1>5. ASSUME NEW S \in SUBSET Positions, Closed(S), NEW p \in 1..Total'
      PROVE  Listed(p)' \notin S
  <2>1. \A q \in 1..Total : Listed(q) \notin S
    BY <1>5 DEF CyclesUnlisted
  <2>2. k \notin S
    <3>1. SUFFICES ASSUME k \in S PROVE FALSE
      OBVIOUS
    <3>2. PICK j \in S : DependsOn(steps, k, j)
      BY <1>5, <3>1 DEF Closed
    <3>3. \E q \in 1..Len(sorted) : sorted[q] = j
      BY <3>2
    <3>4. QED
      BY <1>1, <2>1, <3>3
  <2>3. QED
    BY <1>1, <1>2, <2>1, <2>2
<1>6. CyclesUnlisted'
  BY <1>5 DEF CyclesUnlisted, Closed, Positions
<1>7. ListedOnce'
  BY <1>1, <1>2 DEF ListedOnce
<1>8. RootsAscend'
  <2>1. SUFFICES ASSUME NEW p \in 1..Total', NEW q \in 1..Total',
                        steps[Listed(p)'].dependsOn = << >>,
                        steps[Listed(q)'].dependsOn = << >>, p < q
                 PROVE  Listed(p)' < Listed(q)'
    BY DEF RootsAscend
  <2>2. p \in 1..Total
    BY <1>1, <1>2, <2>1
  <2>3. CASE q \in 1..Total
    BY <1>1, <2>1, <2>2, <2>3 DEF RootsAscend
  <2>4. CASE q = Total + 1 /\ Listed(q)' = k
    BY <1>1, <2>1, <2>2, <2>4
  <2>5. QED
    BY <1>2, <2>3, <2>4
<1>9. QED
  BY <1>4, <1>6, <1>7, <1>8

LEMMA BuildGraphKeeps ==
    ASSUME Inv, BuildGraph
    PROVE  Inv'
<1>1. /\ pc = "start" /\ steps' = steps /\ sorted = << >> /\ queue = << >> /\ verdict = "none"
      /\ sorted' = << >> /\ queue' = << >> /\ cursor' = 1 /\ pc' = "roots"
      /\ inDegree' = [i \in Positions |-> Len(steps[i].dependsOn)]
      /\ node' = node /\ verdict' = verdict
      /\ HasDeps(steps) /\ ~ DuplicateName(steps) /\ ~ UnknownDependency(steps)
  BY DEF BuildGraph, BuildGraphFrom, Inv
<1>2. TypeOK /\ steps \in Inputs
  BY DEF Inv, TypeOK
<1>3. Len(steps) \in Nat /\ Positions = 1..Len(steps) /\ Positions' = Positions
  BY <1>1, <1>2, Shape DEF Positions
<1>4. TypeOK'
  BY <1>1, <1>2, <1>3, Shape DEF TypeOK
<1>5. Total' = 0 /\ Len(sorted') = 0
  BY <1>1 DEF Total
<1>6. Accepted'
  BY <1>1, <1>3 DEF Accepted
<1>7. Counted'
  <2>1. ASSUME NEW k \in Positions
        PROVE  inDegree'[k] = Cardinality(Unmet(k)')
    <3>1. \A j : ~ Met(j, k)'
      BY <1>5 DEF Met
    <3>2. Unmet(k)' = DOMAIN steps[k].dependsOn
      BY <1>1, <3>1 DEF Unmet
    <3>3. Cardinality(DOMAIN steps[k].dependsOn) = Len(steps[k].dependsOn)
      BY <1>2, Shape
    <3>4. QED
      BY <1>1, <3>2, <3>3
  <2>2. QED
    BY <1>3, <2>1 DEF Counted
<1>8. ListedWhenMet'
  BY <1>1, <1>3, <1>5 DEF ListedWhenMet
<1>9. DependenciesListed' /\ CyclesUnlisted' /\ ListedOnce' /\ RootsAscend'
  BY <1>5 DEF DependenciesListed, CyclesUnlisted, ListedOnce, RootsAscend
<1>10. QED
  BY <1>1, <1>4, <1>6, <1>7, <1>8, <1>9 DEF Inv, Kahn

\* No entry counts, so no dependency is declared or all are met.
LEMMA AllMet ==
    ASSUME steps \in Inputs, ~ DuplicateName(steps), NEW k \in Positions,
           Unmet(k) = {}, NEW j \in Positions, DependsOn(steps, k, j)
    PROVE  Met(j, k)
<1>1. PICK d \in DOMAIN steps[k].dependsOn : steps[k].dependsOn[d] = steps[j].name
  BY DEF DependsOn
<1>2. PICK i \in Positions : Met(i, k) /\ steps[k].dependsOn[d] = steps[i].name
  BY DEF Unmet
<1>3. i = j
  BY <1>1, <1>2 DEF DuplicateName, Positions
<1>4. QED
  BY <1>2, <1>3

LEMMA EnqueueRootKeeps ==
    ASSUME Inv, EnqueueRoot
    PROVE  Inv'
<1>1. /\ pc = "roots" /\ cursor \in Positions
      /\ queue' = IF inDegree[cursor] = 0 THEN Append(queue, cursor) ELSE queue
      /\ cursor' = cursor + 1
      /\ steps' = steps /\ pc' = pc /\ inDegree' = inDegree /\ sorted' = sorted /\ node' = node
      /\ verdict' = verdict
  BY DEF EnqueueRoot, Enqueue
<1>2. TypeOK /\ steps \in Inputs /\ Kahn
  BY <1>1 DEF Inv, TypeOK
<1>3. /\ Len(steps) \in Nat /\ Positions = 1..Len(steps) /\ Positions' = Positions
      /\ sorted = << >> /\ Len(sorted) = 0 /\ ~ DuplicateName(steps)
  BY <1>1, <1>2, Shape DEF Positions, Kahn, Accepted
<1>4. TypeOK'
  <2>1. queue' \in Seq(Positions)
    BY <1>1, <1>2, AppendProperties DEF TypeOK
  <2>2. QED
    BY <1>1, <1>2, <1>3, <2>1 DEF TypeOK
<1>5. Accepted'
  BY <1>1, <1>2, <1>3 DEF Kahn, Accepted
<1>6. Counted'
  <2>1. \A j, k : Met(j, k)' <=> Met(j, k)
    BY <1>1 DEF Met
  <2>2. \A k \in Positions : Unmet(k)' = Unmet(k)
    BY <1>1, <1>3, <2>1 DEF Unmet
  <2>3. QED
    BY <1>1, <1>2, <1>3, <2>2 DEF Kahn, Counted
<1>7. CASE inDegree[cursor] # 0
  <2>1. queue' = queue /\ Total' = Total /\ \A p \in 1..Total : Listed(p)' = Listed(p)
    BY <1>1, <1>7 DEF Total, Listed
  <2>2. DependenciesListed' /\ CyclesUnlisted' /\ ListedOnce' /\ RootsAscend'
    BY <1>1, <1>2, <2>1, ListPartsKept DEF Kahn
  <2>3. ListedWhenMet'
    <3>1. \A k \in Positions : k # cursor => (k < cursor <=> k < cursor + 1)
      BY <1>1, <1>3
    <3>2. QED
      BY <1>1, <1>2, <1>3, <1>7, <2>1, <3>1 DEF Kahn, ListedWhenMet
  <2>4. QED
    BY <1>1, <1>2, <1>4, <1>5, <1>6, <2>2, <2>3 DEF Inv, Kahn
<1>8. CASE inDegree[cursor] = 0
  <2>1. /\ queue' = Append(queue, cursor) /\ Total' = Total + 1 /\ Total \in Nat
        /\ \A p : p = Total + 1 => Listed(p)' = cursor
        /\ \A p \in 1..Total : Listed(p)' = Listed(p)
    <3>1. queue' = Append(queue, cursor)
      BY <1>1, <1>8
    <3>2. QED
      BY <1>1, <1>2, <3>1, ListGrows, Lists
  <2>2. ListedWhenMet'
    <3>1. ASSUME NEW k \in Positions
          PROVE  (\E p \in 1..Total' : Listed(p)' = k) <=> inDegree[k] = 0 /\ k < cursor + 1
      <4>1. CASE k = cursor
        BY <1>3, <1>8, <2>1, <4>1
      <4>2. CASE k # cursor
        <5>1. k < cursor <=> k < cursor + 1
          BY <1>1, <1>3, <4>2
        <5>2. \A p \in 1..Total' : p \in 1..Total \/ p = Total + 1
          BY <2>1
        <5>3. QED
          BY <1>1, <1>2, <2>1, <4>2, <5>1, <5>2 DEF Kahn, ListedWhenMet
      <4>3. QED
        BY <4>1, <4>2
    <3>2. QED
      BY <1>1, <1>3, <3>1 DEF ListedWhenMet
  <2>3. \A p \in 1..Total : Listed(p) \in Positions /\ Listed(p) < cursor
    BY <1>1, <1>2, Lists DEF Kahn, ListedWhenMet
  <2>4. \A j \in Positions : ~ DependsOn(steps, cursor, j)
    <3>1. Unmet(cursor) = {}
      BY <1>1, <1>2, <1>8, UnmetCounts DEF Kahn, Counted
    <3>2. \A j \in Positions : ~ Met(j, cursor)
      BY <1>3 DEF Met
    <3>3. QED
      BY <1>1, <1>2, <1>3, <3>1, <3>2, AllMet
  <2>5. DependenciesListed' /\ CyclesUnlisted' /\ ListedOnce' /\ RootsAscend'
    <3>1. \A p \in 1..Total : Listed(p) # cursor
      BY <1>1, <1>3, <2>3
    <3>2. QED
      BY <1>1, <1>2, <2>1, <2>3, <2>4, <3>1, ListPartsGrow DEF Kahn
  <2>6. QED
    BY <1>1, <1>2, <1>4, <1>5, <1>6, <2>2, <2>5 DEF Inv, Kahn
<1>9. QED
  BY <1>7, <1>8

LEMMA RootsEnqueuedKeeps ==
    ASSUME Inv, RootsEnqueued
    PROVE  Inv'
<1>1. /\ pc = "roots" /\ cursor \notin Positions /\ pc' = "pop"
      /\ steps' = steps /\ inDegree' = inDegree /\ queue' = queue /\ sorted' = sorted
      /\ node' = node /\ cursor' = cursor /\ verdict' = verdict
  BY DEF RootsEnqueued
<1>2. TypeOK /\ steps \in Inputs /\ Kahn
  BY <1>1 DEF Inv, TypeOK
<1>3. /\ Len(steps) \in Nat /\ Positions = 1..Len(steps) /\ Positions' = Positions
      /\ \A k \in Positions : k < cursor
  BY <1>1, <1>2, Shape DEF Positions, Kahn, Accepted
<1>4. TypeOK' /\ Accepted'
  BY <1>1, <1>2, <1>3 DEF TypeOK, Kahn, Accepted
<1>5. /\ Total' = Total /\ \A p \in 1..Total : Listed(p)' = Listed(p)
      /\ \A j, k : Met(j, k)' <=> Met(j, k)
  BY <1>1 DEF Total, Listed, Met
<1>6. Counted'
  <2>1. \A k \in Positions : Unmet(k)' = Unmet(k)
    BY <1>1, <1>3, <1>5 DEF Unmet
  <2>2. QED
    BY <1>1, <1>2, <1>3, <2>1 DEF Kahn, Counted
<1>7. ListedWhenMet'
  BY <1>1, <1>2, <1>3, <1>5 DEF Kahn, ListedWhenMet
<1>8. DependenciesListed' /\ CyclesUnlisted' /\ ListedOnce' /\ RootsAscend'
  BY <1>1, <1>2, <1>5, ListPartsKept DEF Kahn
<1>9. QED
  BY <1>1, <1>2, <1>4, <1>6, <1>7, <1>8 DEF Inv, Kahn

LEMMA PopKeeps ==
    ASSUME Inv, Pop
    PROVE  Inv'
<1>1. /\ pc = "pop" /\ queue # << >> /\ pc' = "relax" /\ cursor' = 1
      /\ queue' = Tail(queue) /\ sorted' = Append(sorted, Head(queue)) /\ node' = Head(queue)
      /\ steps' = steps /\ inDegree' = inDegree /\ verdict' = verdict
  BY DEF Pop
<1>2. TypeOK /\ steps \in Inputs /\ Kahn
  BY <1>1 DEF Inv, TypeOK
<1>3. Len(steps) \in Nat /\ Positions = 1..Len(steps) /\ Positions' = Positions
  BY <1>1, <1>2, Shape DEF Positions
<1>4. /\ Total' = Total /\ Len(sorted') = Len(sorted) + 1 /\ Len(sorted) \in Nat
      /\ sorted'[Len(sorted) + 1] = node'
      /\ \A p \in 1..Len(sorted) : sorted'[p] = sorted[p]
      /\ \A p \in 1..Total : Listed(p)' = Listed(p)
      /\ \A p : p = Len(sorted) + 1 => p \in 1..Total /\ Listed(p) = node'
  BY <1>2, ListKept, Lists
<1>5. TypeOK'
  <2>1. Head(queue) \in Positions /\ Tail(queue) \in Seq(Positions)
    BY <1>1, <1>2, HeadTailProperties DEF TypeOK
  <2>2. Append(sorted, Head(queue)) \in Seq(Positions)
    BY <1>2, <2>1, AppendProperties DEF TypeOK
  <2>3. QED
    BY <1>1, <1>2, <1>3, <2>1, <2>2 DEF TypeOK
<1>6. Accepted'
  BY <1>1, <1>2, <1>3, <1>4 DEF Kahn, Accepted
<1>7. Counted'
  <2>1. ASSUME NEW j, NEW k \in Positions
        PROVE  Met(j, k)' <=> Met(j, k)
    <3>1. CASE j = node'
      <4>1. \A p \in 1..Len(sorted) : sorted[p] # j
        <5>1. \A p \in 1..Len(sorted) : p \in 1..Total /\ Listed(p) = sorted[p] /\ p # Len(sorted) + 1
          BY <1>2, <1>4, Lists
        <5>2. QED
          BY <1>2, <1>4, <3>1, <5>1 DEF Kahn, ListedOnce
      <4>2. ~ (k < 1)
        BY <1>3
      <4>3. QED
        BY <1>1, <3>1, <4>1, <4>2 DEF Met
    <3>2. CASE j # node'
      <4>1. (\E p \in 1..Len(sorted') : sorted'[p] = j) <=> \E p \in 1..Len(sorted) : sorted[p] = j
        BY <1>4, <3>2
      <4>2. QED
        BY <1>1, <3>2, <4>1 DEF Met
    <3>3. QED
      BY <3>1, <3>2
  <2>2. \A k \in Positions : Unmet(k)' = Unmet(k)
    BY <1>1, <1>3, <2>1 DEF Unmet
  <2>3. QED
    BY <1>1, <1>2, <1>3, <2>2 DEF Kahn, Counted
<1>8. ListedWhenMet'
  BY <1>1, <1>2, <1>3, <1>4 DEF Kahn, ListedWhenMet
<1>9. DependenciesListed' /\ CyclesUnlisted' /\ ListedOnce' /\ RootsAscend'
  BY <1>1, <1>2, <1>4, ListPartsKept DEF Kahn
<1>10. QED
  BY <1>1, <1>2, <1>5, <1>6, <1>7, <1>8, <1>9 DEF Inv, Kahn

\* At step c, of the step m that was popped.
LEMMA RelaxKeepsAt ==
    ASSUME Inv, Relax, NEW c, c = cursor, NEW m, m = node
    PROVE  Inv'
<1> DEFINE taken == Entries(c, m)
<1>1. /\ pc = "relax" /\ c \in Positions /\ cursor' = c + 1
      /\ inDegree' = [inDegree EXCEPT ![c] = @ - taken]
      /\ queue' = IF taken > 0 /\ inDegree[c] = taken THEN Append(queue, c) ELSE queue
      /\ steps' = steps /\ pc' = pc /\ sorted' = sorted /\ node' = node /\ verdict' = verdict
  BY DEF Relax, RelaxBy
<1>2. TypeOK /\ steps \in Inputs /\ Kahn
  BY <1>1 DEF Inv, TypeOK
<1>3. /\ Len(steps) \in Nat /\ Positions = 1..Len(steps) /\ Positions' = Positions
      /\ Len(sorted) \in Nat /\ Len(sorted) > 0 /\ m = sorted[Len(sorted)]
      /\ ~ DuplicateName(steps)
  BY <1>1, <1>2, Shape, Lists DEF Positions, Kahn, Accepted
<1>4. m \in Positions /\ \E p \in 1..Len(sorted) : sorted[p] = m
  BY <1>2, <1>3, Lists
<1>5. /\ Met(m, c)' /\ ~ Met(m, c)
      /\ \A j : j # m => (Met(j, c)' <=> Met(j, c))
      /\ \A k \in Positions : k # c => \A j : Met(j, k)' <=> Met(j, k)
  <2>1. c < c + 1 /\ ~ (c < c)
    BY <1>1, <1>3
  <2>2. \A k \in Positions : k # c => (k < c <=> k < c + 1)
    BY <1>1, <1>3
  <2>3. QED
    BY <1>1, <1>4, <2>1, <2>2 DEF Met
<1>6. /\ EntriesOf(c, m) \in SUBSET Unmet(c)
      /\ Unmet(c)' = Unmet(c) \ EntriesOf(c, m)
      /\ \A k \in Positions : k # c => Unmet(k)' = Unmet(k)
  <2>1. \A d \in EntriesOf(c, m) : \A j \in Positions :
          steps[c].dependsOn[d] = steps[j].name => j = m
    BY <1>3, <1>4 DEF EntriesOf, DuplicateName, Positions
  <2>2. EntriesOf(c, m) \in SUBSET Unmet(c)
    BY <1>5, <2>1 DEF Unmet, EntriesOf
  <2>3. Unmet(c)' = Unmet(c) \ EntriesOf(c, m)
    BY <1>1, <1>3, <1>4, <1>5 DEF Unmet, EntriesOf
  <2>4. \A k \in Positions : k # c => Unmet(k)' = Unmet(k)
    BY <1>1, <1>3, <1>5 DEF Unmet
  <2>5. QED
    BY <2>2, <2>3, <2>4
<1>7. /\ inDegree[c] = Cardinality(Unmet(c)) /\ inDegree[c] \in Nat /\ taken \in Nat
      /\ taken = Cardinality(EntriesOf(c, m))
      /\ Cardinality(Unmet(c)') = inDegree[c] - taken
      /\ inDegree[c] - taken \in Nat
  <2>1. inDegree[c] = Cardinality(Unmet(c)) /\ IsFiniteSet(Unmet(c)) /\ inDegree[c] \in Nat
    BY <1>1, <1>2, UnmetCounts DEF Kahn, Counted
  <2>2. taken \in Nat /\ taken = Cardinality(EntriesOf(c, m))
    BY <1>1, <1>2, <1>4, EntriesCount
  <2>3. Cardinality(Unmet(c) \ EntriesOf(c, m)) = Cardinality(Unmet(c)) - Cardinality(EntriesOf(c, m))
    BY <1>6, <2>1, Removed
  <2>4. Cardinality(EntriesOf(c, m)) <= Cardinality(Unmet(c))
    BY <1>6, <2>1, FS_Subset
  <2>5. QED
    BY <1>6, <2>1, <2>2, <2>3, <2>4
<1> HIDE DEF taken
<1>8. /\ inDegree'[c] = inDegree[c] - taken
      /\ \A k \in Positions : k # c => inDegree'[k] = inDegree[k]
      /\ inDegree' \in [Positions -> Nat]
  BY <1>1, <1>2, <1>7 DEF TypeOK
<1>9. TypeOK'
  <2>1. queue' \in Seq(Positions)
    BY <1>1, <1>2, AppendProperties DEF TypeOK
  <2>2. QED
    BY <1>1, <1>2, <1>3, <1>8, <2>1 DEF TypeOK
<1>10. Accepted'
  BY <1>1, <1>2, <1>3 DEF Kahn, Accepted
<1>11. Counted'
  <2>1. \A k \in Positions : inDegree'[k] = Cardinality(Unmet(k)')
    BY <1>2, <1>6, <1>7, <1>8 DEF Kahn, Counted
  <2>2. QED
    BY <1>3, <2>1 DEF Counted
<1>12. CASE ~ (taken > 0 /\ inDegree[c] = taken)
  <2>1. queue' = queue /\ Total' = Total /\ \A p \in 1..Total : Listed(p)' = Listed(p)
    BY <1>1, <1>12 DEF Total, Listed
  <2>2. inDegree'[c] = 0 <=> inDegree[c] = 0
    BY <1>7, <1>8, <1>12
  <2>3. ListedWhenMet'
    BY <1>1, <1>2, <1>3, <1>8, <2>1, <2>2 DEF Kahn, ListedWhenMet
  <2>4. DependenciesListed' /\ CyclesUnlisted' /\ ListedOnce' /\ RootsAscend'
    BY <1>1, <1>2, <2>1, ListPartsKept DEF Kahn
  <2>5. QED
    BY <1>1, <1>2, <1>9, <1>10, <1>11, <2>3, <2>4 DEF Inv, Kahn
<1>13. CASE taken > 0 /\ inDegree[c] = taken
  <2>1. /\ queue' = Append(queue, c) /\ Total' = Total + 1 /\ Total \in Nat
        /\ \A p : p = Total + 1 => Listed(p)' = c
        /\ \A p \in 1..Total : Listed(p)' = Listed(p)
    <3>1. queue' = Append(queue, c)
      BY <1>1, <1>13
    <3>2. QED
      BY <1>1, <1>2, <3>1, ListGrows, Lists
  <2>2. inDegree'[c] = 0 /\ inDegree[c] # 0
    BY <1>7, <1>8, <1>13
  <2>3. \A p \in 1..Total : Listed(p) # c
    BY <1>1, <1>2, <2>2 DEF Kahn, ListedWhenMet
  <2>4. ListedWhenMet'
    <3>1. ASSUME NEW k \in Positions
          PROVE  (\E p \in 1..Total' : Listed(p)' = k) <=> inDegree'[k] = 0
      <4>1. CASE k = c
        BY <2>1, <2>2, <4>1
      <4>2. CASE k # c
        <5>1. \A p \in 1..Total' : p \in 1..Total \/ p = Total + 1
          BY <2>1
        <5>2. QED
          BY <1>1, <1>2, <1>8, <2>1, <4>2, <5>1 DEF Kahn, ListedWhenMet
      <4>3. QED
        BY <4>1, <4>2
    <3>2. QED
      BY <1>1, <1>3, <3>1 DEF ListedWhenMet
  <2>5. ASSUME NEW j \in Positions, DependsOn(steps, c, j)
        PROVE  \E q \in 1..Len(sorted) : sorted[q] = j
    <3>1. Unmet(c) \ EntriesOf(c, m) = {}
      <4>1. Cardinality(Unmet(c) \ EntriesOf(c, m)) = 0
        BY <1>6, <1>7, <1>13
      <4>2. IsFiniteSet(Unmet(c) \ EntriesOf(c, m))
        BY <1>1, <1>2, UnmetCounts, FS_Subset
      <4>3. QED
        BY <4>1, <4>2, FS_EmptySet
    <3>2. PICK d \in DOMAIN steps[c].dependsOn : steps[c].dependsOn[d] = steps[j].name
      BY <2>5 DEF DependsOn
    <3>3. CASE d \in EntriesOf(c, m)
      <4>1. j = m
        BY <1>3, <1>4, <3>2, <3>3 DEF EntriesOf, DuplicateName, Positions
      <4>2. QED
        BY <1>4, <4>1
    <3>4. CASE d \notin Unmet(c)
      <4>1. PICK i \in Positions : Met(i, c) /\ steps[c].dependsOn[d] = steps[i].name
        BY <3>2, <3>4 DEF Unmet
      <4>2. i = j
        BY <1>3, <3>2, <4>1 DEF DuplicateName, Positions
      <4>3. QED
        BY <4>1, <4>2 DEF Met
    <3>5. QED
      BY <3>1, <3>3, <3>4
  <2>6. steps[c].dependsOn # << >>
    <3>1. EntriesOf(c, m) # {}
      BY <1>1, <1>2, <1>4, <1>7, <1>13, EntriesCount
    <3>2. PICK d : d \in DOMAIN steps[c].dependsOn
      BY <3>1 DEF EntriesOf
    <3>3. QED
      BY <1>1, <1>2, <3>2, Shape
  <2>7. DependenciesListed' /\ CyclesUnlisted' /\ ListedOnce' /\ RootsAscend'
    BY <1>1, <1>2, <2>1, <2>3, <2>5, <2>6, ListPartsGrow DEF Kahn
  <2>8. QED
    BY <1>1, <1>2, <1>9, <1>10, <1>11, <2>4, <2>7 DEF Inv, Kahn
<1>14. QED
  BY <1>12, <1>13

LEMMA RelaxKeeps ==
    ASSUME Inv, Relax
    PROVE  Inv'
<1>1. \A c, m : c = cursor /\ m = node => Inv'
  BY RelaxKeepsAt
<1>2. QED
  BY <1>1

LEMMA NeighborsDoneKeeps ==
    ASSUME Inv, NeighborsDone
    PROVE  Inv'
<1>1. /\ pc = "relax" /\ cursor \notin Positions /\ pc' = "pop"
      /\ steps' = steps /\ inDegree' = inDegree /\ queue' = queue /\ sorted' = sorted
      /\ node' = node /\ cursor' = cursor /\ verdict' = verdict
  BY DEF NeighborsDone
<1>2. TypeOK /\ steps \in Inputs /\ Kahn
  BY <1>1 DEF Inv, TypeOK
<1>3. /\ Len(steps) \in Nat /\ Positions = 1..Len(steps) /\ Positions' = Positions
      /\ \A k \in Positions : k < cursor
  BY <1>1, <1>2, Shape DEF Positions, Kahn, Accepted
<1>4. TypeOK' /\ Accepted'
  BY <1>1, <1>2, <1>3 DEF TypeOK, Kahn, Accepted
<1>5. /\ Total' = Total /\ \A p \in 1..Total : Listed(p)' = Listed(p)
      /\ \A k \in Positions : \A j : Met(j, k)' <=> Met(j, k)
  BY <1>1, <1>3 DEF Total, Listed, Met
<1>6. Counted'
  <2>1. \A k \in Positions : Unmet(k)' = Unmet(k)
    BY <1>1, <1>3, <1>5 DEF Unmet
  <2>2. QED
    BY <1>1, <1>2, <1>3, <2>1 DEF Kahn, Counted
<1>7. ListedWhenMet'
  BY <1>1, <1>2, <1>3, <1>5 DEF Kahn, ListedWhenMet
<1>8. DependenciesListed' /\ CyclesUnlisted' /\ ListedOnce' /\ RootsAscend'
  BY <1>1, <1>2, <1>5, ListPartsKept DEF Kahn
<1>9. QED
  BY <1>1, <1>2, <1>4, <1>6, <1>7, <1>8 DEF Inv, Kahn

LEMMA ReturnKeeps ==
    ASSUME Inv, ReturnAsDefined \/ RejectDuplicate \/ RejectUnknown \/ Finish
    PROVE  Inv'
<1>1. TypeOK /\ Positions' = Positions
  BY DEF Inv, Positions, ReturnAsDefined, RejectDuplicate, RejectUnknown, Finish, Return
<1>2. /\ pc' = "done" /\ verdict' \in Verdicts /\ sorted' \in Seq(Positions)
      /\ UNCHANGED <<steps, inDegree, queue, node, cursor>>
  <2>1. [i \in Positions |-> i] \in Seq(Positions)
    <3>1. Positions = 1..Len(steps) /\ Len(steps) \in Nat
      BY <1>1, Shape DEF TypeOK
    <3>2. QED
      BY <3>1, SeqDef
  <2>2. << >> \in Seq(Positions) /\ sorted \in Seq(Positions)
    BY <1>1 DEF TypeOK
  <2>3. QED
    BY <2>1, <2>2
       DEF ReturnAsDefined, RejectDuplicate, RejectUnknown, Finish, Return, Verdicts
<1>3. QED
  BY <1>1, <1>2 DEF Inv, TypeOK

LEMMA StepKeeps == Inv /\ [Next]_vars => Inv'
<1> SUFFICES ASSUME Inv, [Next]_vars PROVE Inv'
  OBVIOUS
<1>1. CASE UNCHANGED vars
  <2>1. /\ steps' = steps /\ pc' = pc /\ inDegree' = inDegree /\ queue' = queue
        /\ sorted' = sorted /\ node' = node /\ cursor' = cursor /\ verdict' = verdict
    BY <1>1 DEF vars
  <2>2. TypeOK' /\ (Kahn' <=> Kahn)
    BY <2>1 DEF Inv, TypeOK, Positions, Kahn, Accepted, Counted, ListedWhenMet, ListedOnce,
                DependenciesListed, CyclesUnlisted, Closed, RootsAscend, Total, Listed, Met, Unmet
  <2>3. QED
    BY <2>1, <2>2 DEF Inv
<1>2. QED
  BY <1>1, BuildGraphKeeps, EnqueueRootKeeps, RootsEnqueuedKeeps, PopKeeps, RelaxKeeps,
     NeighborsDoneKeeps, ReturnKeeps DEF Next

LEMMA InitInv == Init => Inv
<1> SUFFICES ASSUME Init PROVE Inv
  OBVIOUS
<1>1. << >> \in Seq(Positions)
  OBVIOUS
<1>2. QED
  BY <1>1 DEF Init, Inv, TypeOK, Verdicts

LEMMA Invariance == Spec => []Inv
BY InitInv, StepKeeps, PTL DEF Spec

\* The in-degrees never fall below 0, whatever a step lists twice, and the lists
\* hold positions of steps (dag.go:37-70).
THEOREM TypeCorrect == Spec => []TypeOK
<1>1. Inv => TypeOK
  BY DEF Inv
<1>2. QED
  BY <1>1, Invariance, PTL

-----------------------------------------------------------------------------
(* What is returned.                                                       *)

\* At the end of the loop: sorted is the list.
LEMMA SortedList ==
    ASSUME Inv, pc = "pop", queue = << >>
    PROVE  /\ TypeOK /\ Kahn /\ steps \in Inputs /\ Total = Len(sorted)
           /\ \A p \in 1..Len(sorted) : Listed(p) = sorted[p]
           /\ sorted \in Injection(1..Len(sorted), Positions)
           /\ Len(sorted) \in Nat /\ Cardinality(1..Len(sorted)) = Len(sorted)
<1>1. TypeOK /\ Kahn /\ steps \in Inputs
  BY DEF Inv, TypeOK
<1>2. /\ Len(sorted) \in Nat /\ Total = Len(sorted)
      /\ \A p \in 1..Len(sorted) : Listed(p) = sorted[p]
  BY <1>1, Lists DEF Total
<1>3. sorted \in [1..Len(sorted) -> Positions]
  BY <1>1, LenProperties DEF TypeOK
<1>4. \A p, q \in 1..Len(sorted) : sorted[p] = sorted[q] => p = q
  BY <1>1, <1>2 DEF Kahn, ListedOnce
<1>5. sorted \in Injection(1..Len(sorted), Positions)
  BY <1>3, <1>4 DEF Injection, IsInjective
<1>6. ASSUME NEW n \in Nat
      PROVE  Cardinality(1..n) = n
  BY <1>6, FS_Interval
<1>7. QED
  BY <1>1, <1>2, <1>5, <1>6

\* As long as the steps exactly when no step is missing.
LEMMA AllSorted ==
    ASSUME Inv, pc = "pop", queue = << >>
    PROVE  Len(sorted) = Len(steps) <=>
               \A k \in Positions : \E p \in 1..Len(sorted) : sorted[p] = k
<1> DEFINE D == 1..Len(sorted)
<1>1. /\ sorted \in Injection(D, Positions) /\ Cardinality(D) = Len(sorted)
      /\ IsFiniteSet(Positions) /\ Cardinality(Positions) = Len(steps)
  BY SortedList, Shape
<1>2. Cardinality(D) = Cardinality(Positions) <=> sorted \in Surjection(D, Positions)
  BY <1>1, FS_Injection
<1>3. sorted \in Surjection(D, Positions) <=> \A k \in Positions : \E p \in D : sorted[p] = k
  BY <1>1 DEF Injection, Surjection
<1>4. QED
  BY <1>1, <1>2, <1>3

\* Those left when the queue is empty wait for one another.
LEMMA LeftOnCycle ==
    ASSUME Inv, pc = "pop", queue = << >>, Len(sorted) # Len(steps)
    PROVE  Cyclic(steps)
<1> DEFINE left == {k \in Positions : \A p \in 1..Len(sorted) : sorted[p] # k}
<1>1. left # {} /\ left \in SUBSET Positions
  BY AllSorted
<1>2. ASSUME NEW k \in left
      PROVE  \E j \in left : DependsOn(steps, k, j)
  <2>1. Unmet(k) # {}
    <3>1. inDegree[k] # 0
      BY SortedList DEF Kahn, ListedWhenMet
    <3>2. inDegree[k] = Cardinality(Unmet(k))
      BY SortedList DEF Kahn, Counted
    <3>3. QED
      BY <3>1, <3>2, UnmetCounts, SortedList
  <2>2. PICK d \in DOMAIN steps[k].dependsOn :
          \A j \in Positions : Met(j, k) => steps[k].dependsOn[d] # steps[j].name
    BY <2>1 DEF Unmet
  <2>3. PICK j \in Positions : steps[j].name = steps[k].dependsOn[d]
    BY SortedList DEF Kahn, Accepted, UnknownDependency, Positions
  <2>4. j \in left
    BY <2>2, <2>3 DEF Met
  <2>5. QED
    BY <2>3, <2>4 DEF DependsOn
<1>3. QED
  BY <1>1, <1>2 DEF Cyclic, Positions

\* An order of all the steps leaves no room for a cycle.
LEMMA SortedHasNoCycle ==
    ASSUME Inv, pc = "pop", queue = << >>, Len(sorted) = Len(steps)
    PROVE  ~ Refused(steps) /\ sorted \in ExecutionOrders(steps)
<1>1. \A k \in Positions : \E p \in 1..Len(sorted) : sorted[p] = k
  BY AllSorted
<1>2. ~ Cyclic(steps)
  <2>1. SUFFICES ASSUME NEW S \in (SUBSET Positions) \ {{}}, Closed(S)
                 PROVE  FALSE
    BY DEF Cyclic, Closed, Positions
  <2>2. PICK k \in S : k \in Positions
    BY <2>1
  <2>3. PICK p \in 1..Len(sorted) : sorted[p] = k
    BY <1>1, <2>2
  <2>4. QED
    BY <2>1, <2>2, <2>3, SortedList DEF Kahn, CyclesUnlisted
<1>3. ~ Refused(steps) /\ HasDeps(steps)
  BY <1>2, SortedList DEF Refused, Kahn, Accepted
<1>4. DOMAIN sorted = DOMAIN steps /\ sorted \in [DOMAIN steps -> DOMAIN steps]
  <2>1. DOMAIN sorted = 1..Len(sorted) /\ sorted \in [1..Len(sorted) -> Positions]
    BY SortedList DEF Injection
  <2>2. 1..Len(sorted) = Positions
    BY SortedList, Shape
  <2>3. QED
    BY <2>1, <2>2 DEF Positions
<1>5. EveryStepOnce(steps, sorted)
  BY <1>1, <1>4, SortedList, Shape DEF EveryStepOnce, Positions
<1>6. DependenciesFirst(steps, sorted)
  <2>1. SUFFICES ASSUME NEW a \in 1..Len(sorted), NEW b \in 1..Len(sorted),
                        DependsOn(steps, sorted[a], sorted[b])
                 PROVE  b < a
    BY <1>4, SortedList, Shape DEF DependenciesFirst, Positions
  <2>2. sorted[b] \in Positions /\ Listed(a) = sorted[a] /\ a \in 1..Total
    BY SortedList, Lists
  <2>3. PICK q \in 1..Len(sorted) : q < a /\ sorted[q] = sorted[b]
    BY <2>1, <2>2, SortedList DEF Kahn, DependenciesListed
  <2>4. q = b
    BY <2>3, SortedList DEF Kahn, ListedOnce
  <2>5. QED
    BY <2>3, <2>4
<1>7. QED
  BY <1>3, <1>4, <1>5, <1>6 DEF ExecutionOrders

Outcome == OrderMeetsContract /\ RefusalIsJustified /\ RootsStayInOrder

LEMMA OutcomeStep ==
    ASSUME Inv, Outcome, [Next]_vars
    PROVE  Outcome'
<1>1. CASE UNCHANGED vars
  BY <1>1 DEF vars, Outcome, OrderMeetsContract, RefusalIsJustified, RootsStayInOrder
<1>2. CASE pc' # "done"
  <2>1. verdict' = "none"
    BY <1>2, StepKeeps DEF Inv
  <2>2. QED
    BY <1>2, <2>1 DEF Outcome, OrderMeetsContract, RefusalIsJustified, RootsStayInOrder
<1>3. CASE ReturnAsDefined
  <2>1. /\ steps' = steps /\ pc' = "done" /\ verdict' = "ok" /\ ~ HasDeps(steps)
        /\ sorted' = [i \in Positions |-> i]
    BY <1>3 DEF ReturnAsDefined, Return
  <2>2. sorted' \in ExecutionOrders(steps) /\ ~ Refused(steps)
    BY <2>1 DEF ExecutionOrders, Refused, Positions
  <2>3. QED
    BY <2>1, <2>2 DEF Outcome, OrderMeetsContract, RefusalIsJustified, RootsStayInOrder
<1>4. CASE RejectDuplicate \/ RejectUnknown
  <2>1. /\ steps' = steps /\ pc' = "done" /\ verdict' \in {"duplicate", "unknown"}
        /\ Refused(steps)
    BY <1>4 DEF RejectDuplicate, RejectUnknown, Return, Refused
  <2>2. QED
    BY <2>1 DEF Outcome, OrderMeetsContract, RefusalIsJustified, RootsStayInOrder
<1>5. CASE Finish
  <2>1. pc = "pop" /\ queue = << >> /\ steps' = steps /\ pc' = "done"
    BY <1>5 DEF Finish, Return
  <2>2. CASE Len(sorted) = Len(steps)
    <3>1. verdict' = "ok" /\ sorted' = sorted
      BY <1>5, <2>2 DEF Finish, Return
    <3>2. sorted \in ExecutionOrders(steps) /\ ~ Refused(steps)
      BY <2>1, <2>2, SortedHasNoCycle
    <3>3. RootsStayInOrder'
      <4>1. DOMAIN sorted = 1..Len(sorted)
        BY <2>1, SortedList DEF Injection
      <4>2. QED
        BY <2>1, <3>1, <4>1, SortedList DEF Kahn, RootsAscend, RootsStayInOrder
    <3>4. QED
      BY <2>1, <3>1, <3>2, <3>3 DEF Outcome, OrderMeetsContract, RefusalIsJustified
  <2>3. CASE Len(sorted) # Len(steps)
    <3>1. verdict' = "cycle"
      BY <1>5, <2>3 DEF Finish, Return
    <3>2. Cyclic(steps) /\ Refused(steps)
      BY <2>1, <2>3, LeftOnCycle, SortedList DEF Refused, Kahn, Accepted
    <3>3. QED
      BY <2>1, <3>1, <3>2 DEF Outcome, OrderMeetsContract, RefusalIsJustified, RootsStayInOrder
  <2>4. QED
    BY <2>2, <2>3
<1>6. CASE pc' = "done" /\ Next
  <2>1. ReturnAsDefined \/ RejectDuplicate \/ RejectUnknown \/ Finish
    BY <1>6 DEF Next, BuildGraph, BuildGraphFrom, EnqueueRoot, Enqueue, RootsEnqueued, Pop, Relax,
                RelaxBy, NeighborsDone
  <2>2. QED
    BY <1>3, <1>4, <1>5, <2>1
<1>7. QED
  BY <1>1, <1>2, <1>6

LEMMA Outcomes == Spec => []Outcome
<1>1. Init => Outcome
  BY DEF Init, Outcome, OrderMeetsContract, RefusalIsJustified, RootsStayInOrder
<1>2. Inv /\ Outcome /\ [Next]_vars => Outcome'
  BY OutcomeStep
<1>3. QED
  BY <1>1, <1>2, Invariance, PTL DEF Spec

\* What TopoSort returns for a list is an order of all its steps, each after those
\* it depends on ("TopoSort returns steps in dependency order", dag.go:9).
THEOREM ReturnsExecutionOrders == Spec => []OrderMeetsContract
<1>1. Outcome => OrderMeetsContract
  BY DEF Outcome
<1>2. QED
  BY <1>1, Outcomes, PTL

\* It refuses a list exactly when the list has no such order, and reports a cycle
\* only for a cycle (dag.go:29-45, 72).
THEOREM RefusesOnlyTheCyclic == Spec => []RefusalIsJustified
<1>1. Outcome => RefusalIsJustified
  BY DEF Outcome
<1>2. QED
  BY <1>1, Outcomes, PTL

\* Steps without dependencies keep the order of the definition (dag.go:11).
THEOREM RootsKeepTheirOrder == Spec => []RootsStayInOrder
<1>1. Outcome => RootsStayInOrder
  BY DEF Outcome
<1>2. QED
  BY <1>1, Outcomes, PTL
=============================================================================
