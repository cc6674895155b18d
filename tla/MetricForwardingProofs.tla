----------------------- MODULE MetricForwardingProofs -----------------------
(***************************************************************************)
(* Proofs about MetricForwarding, for any set of rows, any number of       *)
(* instances and failures, and any batch size.                             *)
(***************************************************************************)
EXTENDS MetricForwarding, FiniteSetTheorems, TLAPS

\* A batch is drawn from the rows it is selected from.
LEMMA OldestSubset == \A S, n : Oldest(S, n) \subseteq S
BY DEF Oldest

\* The first state is well typed.
LEMMA InitTyping == Init => TypeOK
BY MaxFaultsAssumption DEF Init, TypeOK

\* No action writes a value outside its type.
LEMMA TypingStep == TypeOK /\ [Next]_vars => TypeOK'
<1> SUFFICES ASSUME TypeOK, [Next]_vars PROVE TypeOK'
  OBVIOUS
<1> USE DEF TypeOK
<1>1. ASSUME NEW ok \in BOOLEAN, Call(ok)
      PROVE  faults' \in 0..MaxFaults
  BY <1>1, MaxFaultsAssumption DEF Call
<1>2. ASSUME NEW r \in Rows, PushMetrics(r)
      PROVE  TypeOK'
  BY <1>2 DEF PushMetrics
<1>3. ASSUME NEW i \in Ingesters, Start(i)
      PROVE  TypeOK'
  BY <1>1, <1>3 DEF Start, MoveTo
<1>4. ASSUME NEW i \in Ingesters, SelectBatch(i)
      PROVE  TypeOK'
  <2>1. PICK n \in 0..BatchSize :
            /\ Call(n = BatchSize)
            /\ MoveTo(i, IF Oldest(Pending, n) = {} THEN "ticking" ELSE "inserting",
                      Oldest(Pending, n))
    BY <1>4 DEF SelectBatch, SelectFrom
  <2>2. Oldest(Pending, n) \subseteq Rows
    BY OldestSubset DEF Pending
  <2>3. QED
    BY <1>1, <1>4, <2>1, <2>2 DEF SelectBatch, SelectFrom, MoveTo
<1>5. ASSUME NEW i \in Ingesters, InsertBatch(i)
      PROVE  TypeOK'
  <2>1. copies' \in [Rows -> Nat]
    BY <1>5 DEF InsertBatch, InsertOr
  <2>2. QED
    BY <1>1, <1>5, <2>1 DEF InsertBatch, InsertOr, MoveTo
<1>6. ASSUME NEW i \in Ingesters, MarkForwarded(i)
      PROVE  TypeOK'
  BY <1>1, <1>6 DEF MarkForwarded, MoveTo
<1>7. ASSUME NEW i \in Ingesters, Crash(i)
      PROVE  TypeOK'
  BY <1>1, <1>7 DEF Crash, MoveTo
<1>8. CASE UNCHANGED vars
  BY <1>8 DEF vars
<1>9. QED
  BY <1>2, <1>3, <1>4, <1>5, <1>6, <1>7, <1>8 DEF Next, Flush

\* Every variable keeps its type (the columns of 003's server_metrics).
THEOREM TypeCorrect == Spec => []TypeOK
BY InitTyping, TypingStep, PTL DEF Spec

-----------------------------------------------------------------------------
(***************************************************************************)
(* What makes the steps of the ingesters steps of AtLeastOnce: a batch is  *)
(* part of the table, and one that is about to be marked is in ClickHouse. *)
(***************************************************************************)
BatchesSafe ==
    \A i \in Ingesters :
        /\ batch[i] \subseteq stored
        /\ phase[i] = "marking" => batch[i] \subseteq Delivered

\* ClickHouse never loses a row it holds.
LEMMA InsertDelivers ==
    ASSUME TypeOK, NEW i \in Ingesters, InsertBatch(i)
    PROVE  /\ Delivered \subseteq Delivered'
           /\ phase'[i] = "marking" => batch'[i] \subseteq Delivered'
           /\ Delivered' = Delivered \/ Delivered' = Delivered \cup batch[i]
           /\ batch'[i] \subseteq batch[i]
<1> USE DEF TypeOK
<1>1. PICK ok \in BOOLEAN, committed \in BOOLEAN :
          /\ ok => committed
          /\ copies' = IF committed
                       THEN [r \in Rows |-> copies[r] + (IF r \in batch[i] THEN 1 ELSE 0)]
                       ELSE copies
          /\ phase' = [phase EXCEPT ![i] = IF ok THEN "marking" ELSE "ticking"]
          /\ batch' = [batch EXCEPT ![i] = IF ok THEN batch[i] ELSE {}]
  BY DEF InsertBatch, InsertOr, MoveTo
<1>2. CASE committed
  <2>1. \A r \in Rows : copies'[r] > 0 <=> copies[r] > 0 \/ r \in batch[i]
    BY <1>1, <1>2
  <2>2. Delivered' = Delivered \cup batch[i]
    BY <2>1 DEF Delivered
  <2>3. QED
    BY <1>1, <2>2
<1>3. CASE ~ committed
  BY <1>1, <1>3 DEF Delivered
<1>4. QED
  BY <1>2, <1>3

\* Neither a failure nor another instance takes a batch out of ClickHouse.
LEMMA BatchesSafeStep ==
    ASSUME TypeOK, BatchesSafe, [Next]_vars
    PROVE  BatchesSafe'
<1> USE DEF TypeOK, BatchesSafe
<1>1. ASSUME NEW r \in Rows, PushMetrics(r)
      PROVE  BatchesSafe'
  BY <1>1 DEF PushMetrics, Delivered
<1>2. ASSUME NEW i \in Ingesters, Start(i) \/ Crash(i)
      PROVE  BatchesSafe'
  BY <1>2 DEF Start, Crash, MoveTo, Delivered
<1>3. ASSUME NEW i \in Ingesters, SelectBatch(i)
      PROVE  BatchesSafe'
  <2>1. PICK n \in 0..BatchSize :
            MoveTo(i, IF Oldest(Pending, n) = {} THEN "ticking" ELSE "inserting",
                   Oldest(Pending, n))
    BY <1>3 DEF SelectBatch, SelectFrom
  <2>2. Oldest(Pending, n) \subseteq stored
    BY OldestSubset DEF Pending
  <2>3. QED
    BY <1>3, <2>1, <2>2 DEF SelectBatch, SelectFrom, MoveTo, Delivered
<1>4. ASSUME NEW i \in Ingesters, InsertBatch(i)
      PROVE  BatchesSafe'
  <2>1. /\ \A j \in Ingesters \ {i} : phase'[j] = phase[j] /\ batch'[j] = batch[j]
        /\ UNCHANGED stored
    BY <1>4 DEF InsertBatch, InsertOr, MoveTo
  <2>2. QED
    BY <1>4, <2>1, InsertDelivers
<1>5. ASSUME NEW i \in Ingesters, MarkForwarded(i)
      PROVE  BatchesSafe'
  BY <1>5 DEF MarkForwarded, MoveTo, Delivered
<1>6. CASE UNCHANGED vars
  BY <1>6 DEF vars, Delivered
<1>7. QED
  BY <1>1, <1>2, <1>3, <1>4, <1>5, <1>6 DEF Next, Flush

\* Every step of the service is a step of the promise, or none of it.
LEMMA StepRefines ==
    ASSUME TypeOK, BatchesSafe, [Next]_vars
    PROVE  [Promise!Next]_Promise!vars
<1> USE DEF TypeOK, BatchesSafe, Promise!Next, Promise!vars
<1>1. ASSUME NEW r \in Rows, PushMetrics(r)
      PROVE  [Promise!Next]_Promise!vars
  BY <1>1 DEF PushMetrics, Delivered, Promise!Accept
<1>2. ASSUME NEW i \in Ingesters, Start(i) \/ SelectBatch(i) \/ Crash(i)
      PROVE  [Promise!Next]_Promise!vars
  BY <1>2 DEF Start, SelectBatch, SelectFrom, Crash, Delivered
<1>3. ASSUME NEW i \in Ingesters, InsertBatch(i)
      PROVE  [Promise!Next]_Promise!vars
  <2>1. /\ UNCHANGED <<stored, forwarded>>
        /\ batch[i] \in SUBSET stored
    BY <1>3 DEF InsertBatch, InsertOr
  <2>2. CASE Delivered' = Delivered
    BY <2>1, <2>2
  <2>3. CASE Delivered' = Delivered \cup batch[i]
    BY <2>1, <2>3 DEF Promise!Deliver
  <2>4. QED
    BY <1>3, <2>2, <2>3, InsertDelivers
<1>4. ASSUME NEW i \in Ingesters, MarkForwarded(i)
      PROVE  [Promise!Next]_Promise!vars
  <2>1. /\ UNCHANGED <<stored, copies>>
        /\ forwarded' = forwarded \/ forwarded' = forwarded \cup batch[i]
        /\ batch[i] \in SUBSET Delivered
    BY <1>4 DEF MarkForwarded
  <2>2. QED
    BY <2>1 DEF Delivered, Promise!Settle
<1>5. CASE UNCHANGED vars
  BY <1>5 DEF vars, Delivered
<1>6. QED
  BY <1>1, <1>2, <1>3, <1>4, <1>5 DEF Next, Flush

(***************************************************************************)
(* A row is marked as forwarded only when ClickHouse holds it, and         *)
(* ClickHouse holds only rows that agents pushed: for any number of        *)
(* instances and any failures, the ingesters implement AtLeastOnce.        *)
(***************************************************************************)
THEOREM ForwardingIsAtLeastOnce == Spec => ForwardsAtLeastOnce
<1>1. Init => BatchesSafe /\ Promise!Init
  BY DEF Init, BatchesSafe, Delivered, Promise!Init
<1>2. TypeOK /\ BatchesSafe /\ [Next]_vars => BatchesSafe'
  BY BatchesSafeStep
<1>3. TypeOK /\ BatchesSafe /\ [Next]_vars => [Promise!Next]_Promise!vars
  BY StepRefines
<1>4. QED
  BY <1>1, <1>2, <1>3, TypeCorrect, PTL DEF Spec, ForwardsAtLeastOnce, Promise!Spec

-----------------------------------------------------------------------------
(* How often a row is repeated.                                            *)

\* The ingesters that hold row r and are at p.
HoldersAt(p, r) == {i \in Ingesters : phase[i] = p /\ r \in batch[i]}

(***************************************************************************)
(* What a copy of a row is owed to.  While the row is pending, a failure   *)
(* or crash, or an ingester that is about to mark it, answers for every    *)
(* copy.  Once it is marked, nobody takes it again, and those who still    *)
(* hold it insert it once each.                                            *)
(***************************************************************************)
CopiesAccounted(r) ==
    /\ r \notin forwarded => copies[r] <= Cardinality(HoldersAt("marking", r)) + faults
    /\ r \in forwarded =>
          copies[r] + Cardinality(HoldersAt("inserting", r)) <= Cardinality(Ingesters) + faults

AllCopiesAccounted == \A r \in Rows : CopiesAccounted(r)

\* Sets of ingesters can be counted.
LEMMA HoldersCounted ==
    ASSUME TypeOK, NEW r \in Rows
    PROVE  /\ Cardinality(Ingesters) \in Nat
           /\ copies[r] \in Nat /\ faults \in Nat
           /\ \A p : /\ IsFiniteSet(HoldersAt(p, r))
                     /\ Cardinality(HoldersAt(p, r)) \in Nat
                     /\ Cardinality(HoldersAt(p, r)) <= Cardinality(Ingesters)
           /\ Cardinality(HoldersAt("marking", r)) + Cardinality(HoldersAt("inserting", r))
                 <= Cardinality(Ingesters)
<1>1. /\ Cardinality(Ingesters) \in Nat
      /\ copies[r] \in Nat /\ faults \in Nat
  BY IngestersAssumption, FS_CardinalityType, MaxFaultsAssumption DEF TypeOK
<1>2. ASSUME NEW p
      PROVE  /\ IsFiniteSet(HoldersAt(p, r))
             /\ Cardinality(HoldersAt(p, r)) \in Nat
             /\ Cardinality(HoldersAt(p, r)) <= Cardinality(Ingesters)
  <2>1. HoldersAt(p, r) \in SUBSET Ingesters
    BY DEF HoldersAt
  <2>2. QED
    BY <2>1, IngestersAssumption, FS_Subset, FS_CardinalityType
<1>3. Cardinality(HoldersAt("marking", r)) + Cardinality(HoldersAt("inserting", r))
        <= Cardinality(Ingesters)
  <2> DEFINE M == HoldersAt("marking", r)
             I == HoldersAt("inserting", r)
  <2>1. M \cap I = {} /\ M \cup I \in SUBSET Ingesters
    BY DEF HoldersAt
  <2>2. /\ IsFiniteSet(M) /\ IsFiniteSet(I)
        /\ Cardinality(M) \in Nat /\ Cardinality(I) \in Nat
    BY <1>2
  <2> HIDE DEF M, I
  <2>3. Cardinality(M \cup I) = Cardinality(M) + Cardinality(I)
    <3>1. Cardinality(M \cup I) = Cardinality(M) + Cardinality(I) - Cardinality(M \cap I)
      BY <2>2, FS_Union
    <3>2. Cardinality(M \cap I) = 0
      BY <2>1, FS_EmptySet
    <3>3. QED
      BY <2>2, <3>1, <3>2
  <2>4. Cardinality(M \cup I) <= Cardinality(Ingesters)
    BY <2>1, IngestersAssumption, FS_Subset
  <2>5. QED
    BY <2>3, <2>4 DEF M, I
<1>4. QED
  BY <1>1, <1>2, <1>3

\* An ingester that moves on is counted where it comes to, no longer where it
\* was, and the others stay where they are.
LEMMA HoldersMove ==
    ASSUME TypeOK, NEW i \in Ingesters, NEW q, NEW held, MoveTo(i, q, held), NEW r \in Rows, NEW p
    PROVE  Cardinality(HoldersAt(p, r)') =
             Cardinality(HoldersAt(p, r))
               - (IF phase[i] = p /\ r \in batch[i] THEN 1 ELSE 0)
               + (IF q = p /\ r \in held THEN 1 ELSE 0)
<1> DEFINE H == HoldersAt(p, r)
           rest == H \ {i}
<1>1. IsFiniteSet(H) /\ Cardinality(H) \in Nat
  BY HoldersCounted
<1>2. HoldersAt(p, r)' = IF q = p /\ r \in held THEN rest \cup {i} ELSE rest
  BY DEF MoveTo, HoldersAt, TypeOK
<1>3. i \in H <=> phase[i] = p /\ r \in batch[i]
  BY DEF HoldersAt
<1> HIDE DEF H
<1>4. /\ IsFiniteSet(rest)
      /\ Cardinality(rest) = Cardinality(H) - (IF i \in H THEN 1 ELSE 0)
  BY <1>1, FS_RemoveElement
<1>5. Cardinality(rest \cup {i}) = Cardinality(rest) + 1
  BY <1>4, FS_AddElement
<1>6. QED
  BY <1>1, <1>2, <1>3, <1>4, <1>5 DEF H

LEMMA CopiesAccountedStep ==
    ASSUME TypeOK, AllCopiesAccounted, [Next]_vars
    PROVE  AllCopiesAccounted'
<1> SUFFICES ASSUME NEW r \in Rows
             PROVE  CopiesAccounted(r)'
  BY DEF AllCopiesAccounted
<1> DEFINE m == Cardinality(HoldersAt("marking", r))
           n == Cardinality(HoldersAt("inserting", r))
           N == Cardinality(Ingesters)
           \* The claim over counts and marks rather than sets.
           Accounted(in, c, marking, inserting, f) ==
             /\ ~ in => c <= marking + f
             /\ in => c + inserting <= N + f
<1>1. /\ m \in Nat /\ n \in Nat /\ N \in Nat /\ m + n <= N
      /\ copies[r] \in Nat /\ faults \in Nat
  BY HoldersCounted
<1>2. Accounted(r \in forwarded, copies[r], m, n, faults)
  BY DEF AllCopiesAccounted, CopiesAccounted
<1>3. CopiesAccounted(r)' <=> Accounted(r \in forwarded', copies'[r],
                                         Cardinality(HoldersAt("marking", r)'),
                                         Cardinality(HoldersAt("inserting", r)'), faults')
  BY DEF CopiesAccounted
<1> DEFINE Was(i, p) == IF phase[i] = p /\ r \in batch[i] THEN 1 ELSE 0
           Is(p, q, held) == IF q = p /\ r \in held THEN 1 ELSE 0
<1>4. ASSUME NEW i \in Ingesters, NEW q, NEW held, MoveTo(i, q, held)
      PROVE  /\ Cardinality(HoldersAt("marking", r)') = m - Was(i, "marking") + Is("marking", q, held)
             /\ Cardinality(HoldersAt("inserting", r)')
                  = n - Was(i, "inserting") + Is("inserting", q, held)
  BY <1>4, HoldersMove
<1> HIDE DEF m, n, N
<1>5. CASE UNCHANGED <<forwarded, copies, phase, batch, faults>>
  <2>1. HoldersAt("marking", r)' = HoldersAt("marking", r)
        /\ HoldersAt("inserting", r)' = HoldersAt("inserting", r)
    BY <1>5 DEF HoldersAt
  <2>2. QED
    BY <1>2, <1>3, <1>5, <2>1 DEF m, n
<1>6. ASSUME NEW i \in Ingesters, Start(i)
      PROVE  CopiesAccounted(r)'
  <2>1. PICK ok \in BOOLEAN : Call(ok) /\ MoveTo(i, IF ok THEN "ticking" ELSE "stopped", {})
    BY <1>6 DEF Start
  <2>2. /\ Cardinality(HoldersAt("marking", r)') = m
        /\ Cardinality(HoldersAt("inserting", r)') = n
    BY <1>1, <1>4, <1>6, <2>1 DEF Start
  <2>3. QED
    BY <1>1, <1>2, <1>3, <1>6, <2>1, <2>2 DEF Start, Call
<1>7. ASSUME NEW i \in Ingesters, SelectBatch(i)
      PROVE  CopiesAccounted(r)'
  <2>1. PICK k \in 0..BatchSize :
            /\ Call(k = BatchSize)
            /\ MoveTo(i, IF Oldest(Pending, k) = {} THEN "ticking" ELSE "inserting",
                      Oldest(Pending, k))
    BY <1>7 DEF SelectBatch, SelectFrom
  <2>2. r \in forwarded => r \notin Oldest(Pending, k)
    BY OldestSubset DEF Pending
  <2>3. /\ Cardinality(HoldersAt("marking", r)') = m
        /\ r \in forwarded => Cardinality(HoldersAt("inserting", r)') = n
    BY <1>1, <1>4, <1>7, <2>1, <2>2 DEF SelectBatch, SelectFrom
  <2>4. QED
    BY <1>1, <1>2, <1>3, <1>7, <2>1, <2>3 DEF SelectBatch, SelectFrom, Call
<1>8. ASSUME NEW i \in Ingesters, InsertBatch(i)
      PROVE  CopiesAccounted(r)'
  <2>1. PICK ok \in BOOLEAN, committed \in BOOLEAN :
            /\ phase[i] = "inserting" /\ forwarded' = forwarded
            /\ ok => committed
            /\ Call(ok)
            /\ copies' = IF committed
                         THEN [x \in Rows |-> copies[x] + (IF x \in batch[i] THEN 1 ELSE 0)]
                         ELSE copies
            /\ MoveTo(i, IF ok THEN "marking" ELSE "ticking", IF ok THEN batch[i] ELSE {})
    BY <1>8 DEF InsertBatch, InsertOr
  <2>2. /\ copies'[r] <= copies[r] + (IF r \in batch[i] THEN 1 ELSE 0)
        /\ copies'[r] \in Nat
        /\ faults' = IF ok THEN faults ELSE faults + 1
    BY <1>1, <2>1 DEF Call
  <2>3. /\ Cardinality(HoldersAt("marking", r)') = m + (IF ok /\ r \in batch[i] THEN 1 ELSE 0)
        /\ Cardinality(HoldersAt("inserting", r)') = n - (IF r \in batch[i] THEN 1 ELSE 0)
    BY <1>1, <1>4, <2>1
  <2>4. QED
    BY <1>1, <1>2, <1>3, <2>1, <2>2, <2>3
<1>9. ASSUME NEW i \in Ingesters, MarkForwarded(i)
      PROVE  CopiesAccounted(r)'
  <2>1. PICK ok \in BOOLEAN, applied \in BOOLEAN :
            /\ phase[i] = "marking" /\ copies' = copies
            /\ ok => applied
            /\ Call(ok)
            /\ forwarded' = IF applied THEN forwarded \cup batch[i] ELSE forwarded
            /\ MoveTo(i, "ticking", {})
    BY <1>9 DEF MarkForwarded
  <2>2. /\ Cardinality(HoldersAt("marking", r)') = m - (IF r \in batch[i] THEN 1 ELSE 0)
        /\ Cardinality(HoldersAt("inserting", r)') = n
    BY <1>1, <1>4, <2>1
  <2>3. faults' = IF ok THEN faults ELSE faults + 1
    BY <2>1 DEF Call
  <2>4. r \in forwarded' <=> r \in forwarded \/ (applied /\ r \in batch[i])
    BY <2>1
  <2>5. QED
    BY <1>1, <1>2, <1>3, <2>1, <2>2, <2>3, <2>4
<1>10. ASSUME NEW i \in Ingesters, Crash(i)
       PROVE  CopiesAccounted(r)'
  <2>1. /\ MoveTo(i, "starting", {}) /\ UNCHANGED <<forwarded, copies>> /\ faults' = faults + 1
    BY <1>10 DEF Crash, Call
  <2>2. /\ Cardinality(HoldersAt("marking", r)') \in {m, m - 1}
        /\ Cardinality(HoldersAt("inserting", r)') \in {n, n - 1}
    BY <1>1, <1>4, <2>1
  <2>3. QED
    BY <1>1, <1>2, <1>3, <2>1, <2>2
<1>11. QED
  BY <1>5, <1>6, <1>7, <1>8, <1>9, <1>10 DEF Next, Flush, PushMetrics, vars

(***************************************************************************)
(* ClickHouse holds a row no more often than there are instances, failures *)
(* and crashes (nothing removes duplicates there, clickhouse.go:202): an   *)
(* ingester takes a row again only after something went wrong.             *)
(***************************************************************************)
THEOREM CopiesAreBounded == Spec => []CopiesBounded
<1>1. Init => AllCopiesAccounted
  <2> SUFFICES ASSUME Init, NEW r \in Rows
               PROVE  CopiesAccounted(r)
    BY DEF AllCopiesAccounted
  <2>1. TypeOK /\ copies[r] = 0 /\ faults = 0 /\ r \notin forwarded
    BY InitTyping DEF Init
  <2>2. QED
    BY <2>1, HoldersCounted DEF CopiesAccounted
<1>2. TypeOK /\ AllCopiesAccounted /\ [Next]_vars => AllCopiesAccounted'
  BY CopiesAccountedStep
<1>3. TypeOK /\ AllCopiesAccounted => CopiesBounded
  <2> SUFFICES ASSUME TypeOK, AllCopiesAccounted, NEW r \in Rows
               PROVE  copies[r] <= Cardinality(Ingesters) + faults
    BY DEF CopiesBounded
  <2>1. CopiesAccounted(r)
    BY DEF AllCopiesAccounted
  <2>2. QED
    BY <2>1, HoldersCounted DEF CopiesAccounted
<1>4. QED
  BY <1>1, <1>2, <1>3, TypeCorrect, PTL DEF Spec
=============================================================================
