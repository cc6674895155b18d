---------------------------- MODULE AtLeastOnce ----------------------------
(***************************************************************************)
(* What the path of a metric from PostgreSQL to ClickHouse promises        *)
(* (services/monitoring/internal/ingester/clickhouse.go:14-16): a row that *)
(* was taken in is kept until it has been delivered, possibly more than    *)
(* once, and nothing is delivered that was not taken in.                   *)
(***************************************************************************)
CONSTANT Rows

VARIABLES
    accepted,     \* rows the buffer took in
    delivered,    \* rows the store holds at least once
    settled       \* rows the buffer will not send again

vars == <<accepted, delivered, settled>>

Init ==
    /\ accepted = {}
    /\ delivered = {}
    /\ settled = {}

Accept(r) ==
    /\ r \in Rows \ accepted
    /\ accepted' = accepted \cup {r}
    /\ UNCHANGED <<delivered, settled>>

Deliver(batch) ==
    /\ delivered' = delivered \cup batch
    /\ UNCHANGED <<accepted, settled>>

Settle(batch) ==
    /\ settled' = settled \cup batch
    /\ UNCHANGED <<accepted, delivered>>

Next ==
    \/ \E r \in Rows : Accept(r)
    \/ \E batch \in SUBSET accepted : Deliver(batch)
    \/ \E batch \in SUBSET delivered : Settle(batch)

Spec == Init /\ [][Next]_vars
=============================================================================
