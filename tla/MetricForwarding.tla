-------------------------- MODULE MetricForwarding --------------------------
(***************************************************************************)
(* The metrics of remote servers on their way to ClickHouse                *)
(* (services/monitoring): the handler of the agents' pushes inserts a row  *)
(* in server_metrics, and the ingester of every instance of the service    *)
(* drains that table in batches (internal/ingester/clickhouse.go).  An     *)
(* instance may crash at any step and is started again by its supervisor;  *)
(* while a deployment rolls over, two instances run at once.               *)
(*                                                                         *)
(* A row is its collected_at.  The handlers stamp a row and insert it in   *)
(* two steps and run concurrently, so rows may arrive in any order.        *)
(***************************************************************************)
EXTENDS Naturals, FiniteSets

CONSTANTS
    Rows,         \* the rows agents push, by collected_at
    Ingesters,    \* instances of the service
    BatchSize,    \* LIMIT of the query
    MaxFaults     \* bound on failing calls and crashes

ASSUME IngestersAssumption == IsFiniteSet(Ingesters)
ASSUME RowsAssumption == Rows \subseteq Nat
ASSUME BatchSizeAssumption == BatchSize \in Nat \ {0}
ASSUME MaxFaultsAssumption == MaxFaults \in Nat

VARIABLES
    stored,       \* rows of server_metrics in PostgreSQL
    forwarded,    \* those with forwarded_to_ch = TRUE
    copies,       \* copies of each row in ClickHouse
    phase,        \* where the goroutine of each ingester is
    batch,        \* the batch it holds
    faults        \* calls that failed and crashes so far

vars == <<stored, forwarded, copies, phase, batch, faults>>

Pending == stored \ forwarded

TypeOK ==
    /\ stored \subseteq Rows
    /\ forwarded \subseteq Rows
    /\ copies \in [Rows -> Nat]
    /\ phase \in [Ingesters -> {"starting", "ticking", "inserting", "marking", "stopped"}]
    /\ batch \in [Ingesters -> SUBSET Rows]
    /\ \A i \in Ingesters : batch[i] # {} <=> phase[i] \in {"inserting", "marking"}
    /\ faults \in 0..MaxFaults

Init ==
    /\ stored = {}
    /\ forwarded = {}
    /\ copies = [r \in Rows |-> 0]
    /\ phase = [i \in Ingesters |-> "starting"]
    /\ batch = [i \in Ingesters |-> {}]
    /\ faults = 0

-----------------------------------------------------------------------------
\* A call succeeds, or fails within the bound.
Call(ok) ==
    /\ ok \/ faults < MaxFaults
    /\ faults' = IF ok THEN faults ELSE faults + 1

MoveTo(i, next, held) ==
    /\ phase' = [phase EXCEPT ![i] = next]
    /\ batch' = [batch EXCEPT ![i] = held]

\* A push that fails is dropped: the agent does not try again.
PushMetrics(r) ==
    /\ r \notin stored
    /\ stored' = stored \cup {r}
    /\ UNCHANGED <<forwarded, copies, phase, batch, faults>>

\* Ping and ensureTable; when one of them fails the goroutine returns for good.
Start(i) ==
    /\ phase[i] = "starting"
    /\ \E ok \in BOOLEAN :
        /\ Call(ok)
        /\ MoveTo(i, IF ok THEN "ticking" ELSE "stopped", {})
    /\ UNCHANGED <<stored, forwarded, copies>>

-----------------------------------------------------------------------------
(* flush.                                                                  *)

\* The n oldest rows of S.
Oldest(S, n) == {r \in S : Cardinality({x \in S : x < r}) < n}

(***************************************************************************)
(* The query.  An error while its rows are read is not looked at and       *)
(* leaves a shorter batch; an empty one ends the flush.                    *)
(***************************************************************************)
SelectFrom(S, i, onEmpty) ==
    /\ phase[i] = "ticking"
    /\ \E n \in 0..BatchSize :
        LET read == Oldest(S, n)
        IN  /\ Call(n = BatchSize)
            /\ MoveTo(i, IF read = {} THEN onEmpty ELSE "inserting", read)
    /\ UNCHANGED <<stored, forwarded, copies>>

\* mutations: forwarded_to_ch not looked at; only full batches are sent; an
\* empty batch is sent on
SelectStored(i) == SelectFrom(stored, i, "ticking")
SelectFull(i) ==
    SelectFrom(IF Cardinality(Pending) < BatchSize THEN {} ELSE Pending, i, "ticking")
SelectEmpty(i) == SelectFrom(Pending, i, "inserting")
SelectBatch(i) == SelectFrom(Pending, i, "ticking")

\* The transaction on ClickHouse; one that reports an error may have been
\* committed all the same.
InsertOr(i, failing) ==
    /\ phase[i] = "inserting"
    /\ \E ok, committed \in BOOLEAN :
        /\ ok => committed
        /\ Call(ok)
        /\ copies' = IF committed
                     THEN [r \in Rows |-> copies[r] + (IF r \in batch[i] THEN 1 ELSE 0)]
                     ELSE copies
        /\ LET next == IF ok THEN "marking" ELSE failing
           IN  MoveTo(i, next, IF next = "marking" THEN batch[i] ELSE {})
    /\ UNCHANGED <<stored, forwarded>>

InsertUnchecked(i) == InsertOr(i, "marking")   \* mutation: the error is only logged
InsertBatch(i) == InsertOr(i, "ticking")

\* The UPDATE; one that reports an error may have been applied.
MarkForwarded(i) ==
    /\ phase[i] = "marking"
    /\ \E ok, applied \in BOOLEAN :
        /\ ok => applied
        /\ Call(ok)
        /\ forwarded' = IF applied THEN forwarded \cup batch[i] ELSE forwarded
    /\ MoveTo(i, "ticking", {})
    /\ UNCHANGED <<stored, copies>>

-----------------------------------------------------------------------------
\* The process of an instance dies and is started again.
Crash(i) ==
    /\ Call(FALSE)
    /\ MoveTo(i, "starting", {})
    /\ UNCHANGED <<stored, forwarded, copies>>

Flush(i) == SelectBatch(i) \/ InsertBatch(i) \/ MarkForwarded(i)

Next ==
    \/ \E r \in Rows : PushMetrics(r)
    \/ \E i \in Ingesters : Start(i) \/ Flush(i) \/ Crash(i)

Spec == Init /\ [][Next]_vars

(***************************************************************************)
(* The ticker fires every 30 seconds, and every call to a database returns.*)
(***************************************************************************)
FairSpec == Spec /\ \A i \in Ingesters : WF_vars(Start(i)) /\ WF_vars(Flush(i))

-----------------------------------------------------------------------------
Delivered == {r \in Rows : copies[r] > 0}

(***************************************************************************)
(* The buffer and its ingesters implement AtLeastOnce: no row is marked    *)
(* that ClickHouse does not hold, whatever fails or crashes in between     *)
(* (clickhouse.go:121-135), with any number of instances at work.          *)
(***************************************************************************)
Promise == INSTANCE AtLeastOnce
             WITH accepted <- stored, delivered <- Delivered, settled <- forwarded
ForwardsAtLeastOnce == Promise!Spec

(***************************************************************************)
(* How often a row is repeated in ClickHouse, where nothing removes        *)
(* duplicates (MergeTree, clickhouse.go:202): each instance may hold it    *)
(* once, and each failure or crash lets one instance take it again.        *)
(***************************************************************************)
CopiesBounded == \A r \in Rows : copies[r] <= Cardinality(Ingesters) + faults

(***************************************************************************)
(* A row that waits is forwarded in the end, however many younger ones     *)
(* arrive (ORDER BY collected_at, clickhouse.go:92), as long as one        *)
(* ingester got past its start.                                            *)
(***************************************************************************)
PendingIsForwarded ==
    \A r \in Rows :
        r \in stored ~> (r \in forwarded \/ \A i \in Ingesters : phase[i] = "stopped")

(***************************************************************************)
(* What clickhouse.go:15-16 says: "If ClickHouse is unavailable it skips   *)
(* silently - the Postgres buffer retains rows with forwarded_to_ch=false  *)
(* for retry."  The code does not keep this: an ingester that finds        *)
(* ClickHouse unavailable when it starts returns, and nothing retries.     *)
(***************************************************************************)
RetriedUntilForwarded == \A r \in Rows : r \in stored ~> r \in forwarded
=============================================================================
