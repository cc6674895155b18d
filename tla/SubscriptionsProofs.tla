------------------------ MODULE SubscriptionsProofs ------------------------
(***************************************************************************)
(* What is proved of Subscriptions for every set of organizations and      *)
(* workers, every cycle and grace, and any number of faults.               *)
(***************************************************************************)
EXTENDS Subscriptions, TLAPS

-----------------------------------------------------------------------------
\* What the first statement of a round does to the organizations it hits.
LEMMA SuspendEffect ==
  ASSUME NEW w \in Workers, Suspend(w)
  PROVE  /\ UNCHANGED <<now, sub, paid>>
         /\ \E hit \in SUBSET {o \in Orgs : Lapsed(sub[o])} :
               /\ org' = [o \in Orgs |-> IF o \in hit THEN "suspended" ELSE org[o]]
               /\ cause' = [o \in Orgs |-> IF o \in hit THEN sub[o] ELSE cause[o]]
         /\ \E ok \in BOOLEAN :
               /\ Call(ok)
               /\ phase' = [phase EXCEPT ![w] = IF ok THEN "reactivating" ELSE "waiting"]
<1> DEFINE Hit(ok) ==
             IF ok THEN {o \in {x \in Orgs : Lapsed(sub[x])} : org[o] = "active"} ELSE {}
<1>1. PICK ok \in BOOLEAN :
          /\ Call(ok)
          /\ org' = [o \in Orgs |-> IF o \in Hit(ok) THEN "suspended" ELSE org[o]]
          /\ cause' = [o \in Orgs |-> IF o \in Hit(ok) THEN sub[o] ELSE cause[o]]
          /\ phase' = [phase EXCEPT ![w] = IF ok THEN "reactivating" ELSE "waiting"]
  BY Zenon DEF Suspend, SuspendOr
<1>2. UNCHANGED <<now, sub, paid>>
  BY DEF Suspend, SuspendOr
<1>3. Hit(ok) \in SUBSET {o \in Orgs : Lapsed(sub[o])}
  OBVIOUS
<1> HIDE DEF Hit
<1> QED
  BY <1>1, <1>2, <1>3

-----------------------------------------------------------------------------
(***************************************************************************)
(* The type invariant, of the state of the handlers and of the worker.     *)
(***************************************************************************)
LEMMA InitTyping == Init => TypeOK
  BY TimesAssumption, MaxFaultsAssumption DEF Init, TypeOK, Rows, NoRow

LEMMA TypingStep == TypeOK /\ [Next]_vars => TypeOK'
<1> SUFFICES ASSUME TypeOK, [Next]_vars PROVE TypeOK'
  OBVIOUS
<1> USE DEF TypeOK, Rows
<1>1. ASSUME NEW o \in Orgs, NEW cycle \in Cycles, CreateSubscription(o, cycle)
      PROVE  TypeOK'
  BY <1>1, CyclesAssumption DEF CreateSubscription, WriteRow, HasRow
<1>2. ASSUME NEW o \in Orgs, CancelAtPeriodEnd(o) PROVE TypeOK'
  BY <1>2 DEF CancelAtPeriodEnd, WriteRow
<1>3. ASSUME NEW o \in Orgs, CancelNow(o) PROVE TypeOK'
  BY <1>3 DEF CancelNow, WriteRow
<1>4. ASSUME NEW o \in Orgs, PaymentFailed(o) PROVE TypeOK'
  BY <1>4 DEF PaymentFailed, WriteRow
<1>5. ASSUME NEW o \in Orgs, PaymentSucceeded(o) PROVE TypeOK'
  BY <1>5 DEF PaymentSucceeded, WriteRow
<1>6. ASSUME NEW w \in Workers, Suspend(w) PROVE TypeOK'
  <2>1. org' \in [Orgs -> {"active", "suspended"}] /\ cause' \in [Orgs -> Rows]
    BY <1>6, SuspendEffect
  <2>2. phase' \in [Workers -> {"waiting", "reactivating", "stopped"}]
        /\ faults' \in 0..MaxFaults
    BY <1>6, SuspendEffect, MaxFaultsAssumption DEF Call
  <2> QED
    BY <1>6, <2>1, <2>2, SuspendEffect
<1>7. ASSUME NEW w \in Workers, Reactivate(w) PROVE TypeOK'
  BY <1>7, MaxFaultsAssumption DEF Reactivate, ReactivateThose, Call
<1>8. ASSUME NEW w \in Workers, Crash(w) PROVE TypeOK'
  BY <1>8, MaxFaultsAssumption DEF Crash, Call
<1>9. CASE DayPasses
  BY <1>9, TimesAssumption DEF DayPasses
<1>10. CASE UNCHANGED vars
  BY <1>10 DEF vars
<1> QED
  BY <1>1, <1>2, <1>3, <1>4, <1>5, <1>6, <1>7, <1>8, <1>9, <1>10 DEF Next, Round

\* TypeOK is an invariant (suspension.go, billing.go).
THEOREM TypeCorrect == Spec => []TypeOK
<1>1. Init => TypeOK
  BY InitTyping
<1>2. TypeOK /\ [Next]_vars => TypeOK'
  BY TypingStep
<1> QED
  BY <1>1, <1>2, PTL DEF Spec

-----------------------------------------------------------------------------
(***************************************************************************)
(* NoFlapping.  What suspends an organization cannot reactivate it: a row  *)
(* that has lapsed is not valid, and time does not make a row valid.       *)
(***************************************************************************)
LEMMA LapsedIsNotValid ==
  ASSUME TypeOK, NEW row \in Rows, Lapsed(row)
  PROVE  ~ Valid(row)
  BY TimesAssumption DEF TypeOK, Rows, Lapsed, Valid

\* The row that suspended an organization is not valid any more.
CauseNotValid == \A o \in Orgs : org[o] = "suspended" => ~ Valid(cause[o])

LEMMA InitCause == Init => CauseNotValid
  BY DEF Init, CauseNotValid

LEMMA CauseStep == TypeOK /\ CauseNotValid /\ [Next]_vars => CauseNotValid'
<1> SUFFICES ASSUME TypeOK, CauseNotValid, [Next]_vars,
                    NEW o \in Orgs, org'[o] = "suspended"
             PROVE  ~ Valid(cause[o])'
  BY DEF CauseNotValid
<1>1. ASSUME UNCHANGED <<now, org, cause>> PROVE ~ Valid(cause[o])'
  BY <1>1 DEF CauseNotValid, Valid
<1>2. ASSUME NEW x \in Orgs, NEW row, WriteRow(x, row) PROVE ~ Valid(cause[o])'
  BY <1>1, <1>2 DEF WriteRow
<1>3. ASSUME NEW w \in Workers, Suspend(w) PROVE ~ Valid(cause[o])'
  <2>1. PICK hit \in SUBSET {x \in Orgs : Lapsed(sub[x])} :
            /\ org' = [x \in Orgs |-> IF x \in hit THEN "suspended" ELSE org[x]]
            /\ cause' = [x \in Orgs |-> IF x \in hit THEN sub[x] ELSE cause[x]]
            /\ now' = now
    BY <1>3, SuspendEffect
  <2>2. CASE o \in hit
    <3>1. cause'[o] = sub[o] /\ sub[o] \in Rows /\ Lapsed(sub[o])
      BY <2>1, <2>2 DEF TypeOK
    <3> QED
      BY <2>1, <3>1, LapsedIsNotValid DEF Valid
  <2>3. CASE o \notin hit
    BY <2>1, <2>3 DEF CauseNotValid, Valid
  <2> QED
    BY <2>2, <2>3
<1>4. ASSUME NEW w \in Workers, Reactivate(w) PROVE ~ Valid(cause[o])'
  BY <1>4 DEF Reactivate, ReactivateThose, CauseNotValid, Valid
<1>5. ASSUME NEW w \in Workers, Crash(w) PROVE ~ Valid(cause[o])'
  BY <1>1, <1>5 DEF Crash
<1>6. CASE DayPasses
  BY <1>6, TimesAssumption DEF DayPasses, CauseNotValid, Valid, TypeOK, Rows
<1>7. CASE UNCHANGED vars
  BY <1>1, <1>7 DEF vars
<1> QED
  BY <1>2, <1>3, <1>4, <1>5, <1>6, <1>7
     DEF Next, Round, CreateSubscription, CancelAtPeriodEnd, CancelNow, PaymentFailed,
         PaymentSucceeded

(***************************************************************************)
(* No organization is reactivated for the row it was suspended for         *)
(* (suspension.go:43-45 and 61-63 never overlap), with any number of       *)
(* workers, failures and restarts.                                         *)
(***************************************************************************)
THEOREM WorkersDoNotFlap == Spec => NoFlapping
<1>1. Init => TypeOK /\ CauseNotValid
  BY InitTyping, InitCause
<1>2. TypeOK /\ CauseNotValid /\ [Next]_vars => (TypeOK /\ CauseNotValid)'
  BY TypingStep, CauseStep
<1>3. TypeOK /\ CauseNotValid /\ [Next]_vars
      => [\A o \in Orgs : org[o] = "suspended" /\ org'[o] = "active"
                          => sub[o] # cause[o]]_vars
  <2> SUFFICES ASSUME TypeOK, CauseNotValid, Next, NEW o \in Orgs,
                      org[o] = "suspended", org'[o] = "active"
               PROVE  sub[o] # cause[o]
    OBVIOUS
  <2>1. ~ Valid(cause[o])
    BY DEF CauseNotValid
  <2>2. CASE org' = org
    BY <2>2
  <2>3. ASSUME NEW w \in Workers, Suspend(w) PROVE sub[o] # cause[o]
    <3>1. PICK hit \in SUBSET Orgs :
              org' = [x \in Orgs |-> IF x \in hit THEN "suspended" ELSE org[x]]
        BY <2>3, SuspendEffect
    <3> QED
      BY <3>1
  <2>4. ASSUME NEW w \in Workers, Reactivate(w) PROVE sub[o] # cause[o]
    <3>1. Valid(sub[o])
      BY <2>4 DEF Reactivate, ReactivateThose
    <3> QED
      BY <2>1, <3>1
  <2> QED
    BY <2>2, <2>3, <2>4
       DEF Next, Round, CreateSubscription, CancelAtPeriodEnd, CancelNow, PaymentFailed,
           PaymentSucceeded, WriteRow, Crash, DayPasses
<1> QED
  BY <1>1, <1>2, <1>3, PTL DEF Spec, NoFlapping
=============================================================================
