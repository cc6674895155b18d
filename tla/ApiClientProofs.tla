-------------------------- MODULE ApiClientProofs --------------------------
(***************************************************************************)
(* Proofs about ApiClient, for any number of tabs, requests and mishaps.   *)
(***************************************************************************)
EXTENDS ApiClient, SequenceTheorems, TLAPS

Rows == {"short", "long", "none"}

PairType ==
  [ access : BOOLEAN, row : Rows,
    fate : {"kept", "rotated", "lost", "revoked"}, by : SUBSET Tabs ]

\* Requests and refreshes when n pairs have been issued and m requests sent.
RequestType(n) ==
  [ tab : Tabs, kind : SignIns \cup {"call", "revoke"}, token : 0..n, retried : BOOLEAN,
    phase : Waiting \cup {"over"}, got : 0..n, applied : Nat ]

RefreshType(n, m) ==
  [ stage : {"none", "sent", "found", "refused", "issued"}, holder : 0..m,
    token : 0..n, got : 0..n ]

\* TypeOK looks at the elements of two sequences: that they are sequences is
\* what it lacks to be inductive.
Typed ==
  /\ pairs \in Seq(PairType)
  /\ storage \in 0..Len(pairs)
  /\ authentic \in [Tabs -> BOOLEAN] /\ mfa \in [Tabs -> BOOLEAN]
  /\ leaving \in [Tabs -> BOOLEAN]
  /\ refresh \in [Tabs -> RefreshType(Len(pairs), Len(requests))]
  /\ requests \in Seq(RequestType(Len(pairs)))
  /\ mishaps \in 0..MaxMishaps

-----------------------------------------------------------------------------
(* Sequences rebuilt element by element.                                   *)

LEMMA MapSeq ==
  ASSUME NEW S, NEW n \in Nat, NEW f \in [1..n -> S]
  PROVE  f \in Seq(S) /\ Len(f) = n
<1>1. f \in Seq(S)
  BY SeqDef
<1>2. 1..n = 1..Len(f) /\ Len(f) \in Nat
  BY <1>1, LenProperties
<1>3. QED
  BY <1>1, <1>2

\* What was issued or sent stays so.
LEMMA TypesGrow ==
  ASSUME NEW n \in Nat, NEW m \in Nat, NEW k \in Nat, NEW l \in Nat, n <= k, m <= l
  PROVE  RequestType(n) \subseteq RequestType(k) /\ RefreshType(n, m) \subseteq RefreshType(k, l)
BY DEF RequestType, RefreshType

-----------------------------------------------------------------------------
(* Types.                                                                  *)

LEMMA NewPair == \A row \in Rows : Pair(row) \in PairType
BY DEF Pair, PairType, Rows

\* A pair is exchanged, for the tab or for nobody.
LEMMA PairLives ==
  ASSUME NEW q \in PairType, NEW t \in Tabs, NEW left \in Rows
  PROVE  /\ Exchanged(q, t, left) \in PairType /\ Exchanged(q, t, left).by = q.by \cup {t}
         /\ Unclaimed(q, t, left) \in PairType /\ Unclaimed(q, t, left).by = q.by \ {t}
         /\ Unclaimed(q, t, left).fate = "lost"
<1>1. Exchanged(q, t, left) \in PairType /\ Exchanged(q, t, left).by = q.by \cup {t}
  BY DEF PairType, Exchanged
<1>2. /\ Unclaimed(q, t, left) \in PairType /\ Unclaimed(q, t, left).by = q.by \ {t}
      /\ Unclaimed(q, t, left).fate = "lost"
  BY DEF PairType, Unclaimed
<1>3. QED
  BY <1>1, <1>2

\* One pair changes.
LEMMA PairChanges ==
  ASSUME NEW P \in Seq(PairType), NEW p \in 0..Len(P), NEW e \in PairType
  PROVE  [P EXCEPT ![p] = e] \in Seq(PairType) /\ Len([P EXCEPT ![p] = e]) = Len(P)
<1>1. CASE p = 0
  <2>1. P \in [1..Len(P) -> PairType] /\ Len(P) \in Nat
    BY LenProperties
  <2>2. [P EXCEPT ![p] = e] \in [1..Len(P) -> PairType]
    BY <1>1, <2>1
  <2>3. QED
    BY <2>1, <2>2, MapSeq
<1>2. CASE p \in 1..Len(P)
  BY <1>2, ExceptSeq
<1>3. QED
  BY <1>1, <1>2, LenProperties

\* What each operation makes of the pairs; there is no pair 0.
LEMMA PairOperations ==
  ASSUME Typed, NEW p \in 0..Len(pairs), NEW t \in Tabs, NEW left, p # 0 => left \in Rows
  PROVE  /\ Len(pairs) \in Nat
         /\ Orphaned(p, t, left) \in Seq(PairType) /\ Len(Orphaned(p, t, left)) = Len(pairs)
         /\ \A row \in Rows :
              /\ Append(pairs, Pair(row)) \in Seq(PairType)
              /\ Len(Append(pairs, Pair(row))) = Len(pairs) + 1
              /\ Rotated(p, t, left, row) \in Seq(PairType)
              /\ Len(Rotated(p, t, left, row)) = Len(pairs) + 1
<1> DEFINE old == [pairs EXCEPT ![p] = Exchanged(@, t, left)]
           lost == [pairs EXCEPT ![p] = Unclaimed(@, t, left)]
<1>1. pairs \in Seq(PairType) /\ Len(pairs) \in Nat /\ DOMAIN pairs = 1..Len(pairs)
  BY LenProperties DEF Typed
<1>2. /\ lost \in Seq(PairType) /\ Len(lost) = Len(pairs)
      /\ old \in Seq(PairType) /\ Len(old) = Len(pairs)
  <2>1. CASE p = 0
    <3>1. lost = pairs /\ old = pairs
      BY <1>1, <2>1, LenProperties
    <3>2. QED
      BY <1>1, <3>1
  <2>2. CASE p # 0
    <3>1. pairs[p] \in PairType
      BY <1>1, <2>2, ElementOfSeq
    <3>2. Unclaimed(pairs[p], t, left) \in PairType /\ Exchanged(pairs[p], t, left) \in PairType
      BY <2>2, <3>1, PairLives
    <3>3. QED
      BY <1>1, <3>2, PairChanges
  <2>3. QED
    BY <2>1, <2>2
<1>3. Orphaned(p, t, left) = lost /\ \A row : Rotated(p, t, left, row) = Append(old, Pair(row))
  BY DEF Orphaned, Rotated
<1> HIDE DEF old, lost
<1>4. \A row \in Rows :
        /\ Append(pairs, Pair(row)) \in Seq(PairType)
        /\ Len(Append(pairs, Pair(row))) = Len(pairs) + 1
        /\ Append(old, Pair(row)) \in Seq(PairType)
        /\ Len(Append(old, Pair(row))) = Len(pairs) + 1
  BY <1>1, <1>2, NewPair, AppendProperties
<1>5. QED
  BY <1>1, <1>2, <1>3, <1>4

\* The row that stays behind when the token of a refresh is exchanged.
LEMMA RowLeft ==
  ASSUME Typed, NEW t \in Tabs
  PROVE  /\ refresh[t].token \in 0..Len(pairs)
         /\ refresh[t].token # 0 => pairs[refresh[t].token].row \in Rows
<1>1. refresh[t].token \in 0..Len(pairs)
  BY DEF Typed, RefreshType
<1>2. pairs \in [1..Len(pairs) -> PairType] /\ Len(pairs) \in Nat
  BY LenProperties DEF Typed
<1>3. QED
  BY <1>1, <1>2 DEF PairType

LEMMA PairExchanged ==
  ASSUME Typed, NEW t \in Tabs, RotateSession(t)
  PROVE  /\ \E left, row \in Rows : pairs' = Rotated(refresh[t].token, t, left, row)
         /\ Len(pairs') = Len(pairs) + 1
<1> DEFINE p == refresh[t].token
<1>1. PICK deleted, written \in BOOLEAN :
        pairs' = Rotated(p, t, IF deleted THEN "none" ELSE pairs[p].row,
                         IF written THEN "long" ELSE "none")
  BY DEF RotateSession
<1> DEFINE left == IF deleted THEN "none" ELSE pairs[p].row
           row == IF written THEN "long" ELSE "none"
<1>2. p \in 0..Len(pairs) /\ (p # 0 => left \in Rows) /\ row \in Rows
  BY RowLeft DEF Rows
<1>3. Len(Rotated(p, t, left, row)) = Len(pairs) + 1
  BY <1>2, PairOperations
<1>4. CASE p # 0
  BY <1>1, <1>2, <1>3, <1>4
<1>5. CASE p = 0
  <2>1. Rotated(p, t, left, row) = Rotated(p, t, "none", row)
    BY <1>5, LenProperties DEF Rotated, Typed
  <2>2. "none" \in Rows
    BY DEF Rows
  <2>3. QED
    BY <1>1, <1>2, <1>3, <2>1, <2>2
<1>6. QED
  BY <1>4, <1>5

\* No step forgets a pair.
LEMMA PairsStep ==
  ASSUME Typed, [Next]_vars
  PROVE  /\ pairs' \in Seq(PairType)
         /\ Len(pairs) \in Nat /\ Len(pairs') \in Nat /\ Len(pairs) <= Len(pairs')
<1>1. pairs \in Seq(PairType) /\ Len(pairs) \in Nat
  BY LenProperties DEF Typed
<1>2. ASSUME UNCHANGED pairs
      PROVE  pairs' \in Seq(PairType) /\ Len(pairs) <= Len(pairs')
  BY <1>1, <1>2
<1>3. ASSUME NEW t \in Tabs, Leave(t) \/ RotateSession(t) \/ RefreshFails(t) \/ OAuthReturn(t)
      PROVE  pairs' \in Seq(PairType) /\ Len(pairs) <= Len(pairs')
  <2> DEFINE p == refresh[t].token
             Left(left) == p # 0 => left \in Rows
  <2>1. p \in 0..Len(pairs) /\ Left("none") /\ Left(pairs[p].row)
    BY RowLeft DEF Rows
  <2>2. \/ pairs' = pairs
        \/ \E left : Left(left) /\ pairs' = Orphaned(p, t, left)
        \/ \E row \in Rows : pairs' = Append(pairs, Pair(row))
        \/ \E left : Left(left) /\ \E row \in Rows : pairs' = Rotated(p, t, left, row)
    BY <1>3, <2>1 DEF Leave, RotateSession, RefreshFails, OAuthReturn, Rows
  <2>3. \A left : Left(left) => /\ Len(Orphaned(p, t, left)) = Len(pairs)
                                /\ Orphaned(p, t, left) \in Seq(PairType)
    BY <2>1, PairOperations
  <2>4. \A row \in Rows :
          /\ Append(pairs, Pair(row)) \in Seq(PairType)
          /\ Len(Append(pairs, Pair(row))) = Len(pairs) + 1
          /\ \A left : Left(left) => /\ Rotated(p, t, left, row) \in Seq(PairType)
                                     /\ Len(Rotated(p, t, left, row)) = Len(pairs) + 1
    BY <2>1, PairOperations
  <2>5. \A n \in Nat : n <= n /\ n <= n + 1
    OBVIOUS
  <2>6. QED
    BY <1>1, <2>2, <2>3, <2>4, <2>5, Zenon
<1>4. ASSUME NEW i \in 1..Len(requests), ServeRevoke(i)
      PROVE  pairs' \in Seq(PairType) /\ Len(pairs) <= Len(pairs')
  <2>1. CASE UNCHANGED pairs
    BY <1>2, <2>1
  <2>2. CASE \E gone : pairs' = [p \in 1..Len(pairs) |->
                                   IF p \in gone
                                     THEN [pairs[p] EXCEPT !.row = "none", !.fate = "revoked"]
                                     ELSE pairs[p]]
    <3>1. \A p \in 1..Len(pairs) :
            /\ pairs[p] \in PairType
            /\ [pairs[p] EXCEPT !.row = "none", !.fate = "revoked"] \in PairType
      <4>1. \A p \in 1..Len(pairs) : pairs[p] \in PairType
        BY <1>1, ElementOfSeq
      <4>2. \A p \in 1..Len(pairs) :
              [pairs[p] EXCEPT !.row = "none", !.fate = "revoked"] \in PairType
        BY <4>1 DEF PairType, Rows
      <4>3. QED
        BY <4>1, <4>2
    <3>2. pairs' \in [1..Len(pairs) -> PairType]
      BY <2>2, <3>1
    <3>3. QED
      BY <1>1, <3>2, MapSeq
  <2>3. QED
    BY <1>4, <2>1, <2>2 DEF ServeRevoke
<1>5. ASSUME NEW i \in 1..Len(requests), ServeSignIn(i)
      PROVE  pairs' \in Seq(PairType) /\ Len(pairs) <= Len(pairs')
  <2>1. \/ pairs' = pairs
        \/ \E row \in {"short", "none"} : pairs' = Append(pairs, Pair(row))
    BY <1>5 DEF ServeSignIn, SignedIn
  <2>2. QED
    BY <1>1, <2>1, NewPair, AppendProperties DEF Rows
<1>6. ASSUME Expire
      PROVE  pairs' \in Seq(PairType) /\ Len(pairs) <= Len(pairs')
  <2> DEFINE e == [pairs[storage] EXCEPT !.access = FALSE]
  <2>1. storage \in 1..Len(pairs)
    BY <1>1, <1>6 DEF Typed, Expire
  <2>2. e \in PairType
    <3>1. pairs[storage] \in PairType
      BY <1>1, <2>1, ElementOfSeq
    <3>2. QED
      BY <3>1 DEF PairType
  <2>3. pairs' = [pairs EXCEPT ![storage] = e]
    BY <1>1, <1>6, <2>1, LenProperties DEF Expire
  <2>4. QED
    BY <1>1, <2>1, <2>2, <2>3, PairChanges
<1>7. pairs' \in Seq(PairType) /\ Len(pairs) <= Len(pairs')
  BY <1>2, <1>3, <1>4, <1>5, <1>6
     DEF Next, Answered, Refreshing, Call, Revoke, Send, SubmitLogin, SubmitRegister, SubmitCode,
         Back, FindSession, RefreshDone, Logout, Unload, Reload, ServeCall, ReceiveOk, Queue,
         StartRefresh, Reject, Lose, vars
<1>8. QED
  BY <1>1, <1>7, LenProperties

-----------------------------------------------------------------------------
(* What the steps make of the requests, element by element.                *)

\* Anything may replace an element; the length stays.
LEMMA ReplaceOne ==
  ASSUME NEW S, NEW s \in Seq(S), NEW i \in 1..Len(s), NEW v
  PROVE  /\ Len([s EXCEPT ![i] = v]) = Len(s)
         /\ [s EXCEPT ![i] = v][i] = v
         /\ \A j \in 1..Len(s) : j # i => [s EXCEPT ![i] = v][j] = s[j]
<1>1. s \in Seq(S \cup {v})
  BY SeqMonotonic
<1>2. v \in S \cup {v}
  OBVIOUS
<1>3. QED
  BY <1>1, <1>2, ExceptSeq

\* What one request becomes: carried out, answered without that, queued, the
\* holder of a refresh, or over.
Handled(i) ==
  LET r == requests[i]
      s == requests'[i]
  IN
  /\ Len(requests') = Len(requests)
  /\ \A j \in 1..Len(requests) : j # i => requests'[j] = requests[j]
  /\ \/ /\ r.phase \in {"sent", "ok", "denied"} /\ refresh' = refresh
        /\ s = Over(r)
     \/ /\ r.phase = "sent" /\ refresh' = refresh
        /\ s = [r EXCEPT !.phase = "ok", !.applied = @ + 1]
     \/ /\ r.phase = "sent" /\ refresh' = refresh /\ Len(pairs') = Len(pairs) + 1
        /\ s = [r EXCEPT !.phase = "ok", !.got = Len(pairs) + 1, !.applied = @ + 1]
     \/ /\ r.phase = "sent" /\ refresh' = refresh
        /\ s = [r EXCEPT !.phase = "ok"] \/ s = [r EXCEPT !.phase = "denied"]
     \/ /\ r.phase = "denied" /\ refresh' = refresh /\ refresh[r.tab].stage # "none"
        /\ s = [r EXCEPT !.phase = "queued"]
     \/ /\ r.phase = "denied" /\ refresh[r.tab].stage = "none"
        /\ refresh' = [refresh EXCEPT ![r.tab] =
                         [stage |-> "sent", holder |-> i, token |-> storage, got |-> 0]]
        /\ s = [r EXCEPT !.phase = "holder", !.retried = TRUE]

\* The same, as far as the waiting and the carrying out are concerned.
HandledAs(i) ==
  LET r == requests[i]
      s == requests'[i]
  IN
  /\ s.tab = r.tab
  /\ \/ /\ r.phase \in {"sent", "ok", "denied"} /\ refresh' = refresh
        /\ s.phase = "over" /\ s.applied = r.applied
     \/ /\ r.phase = "sent" /\ refresh' = refresh
        /\ s.phase = "ok" /\ s.applied = r.applied + 1
     \/ /\ r.phase = "sent" /\ refresh' = refresh
        /\ s.phase \in {"ok", "denied"} /\ s.applied = r.applied
     \/ /\ r.phase = "denied" /\ refresh' = refresh /\ refresh[r.tab].stage # "none"
        /\ s.phase = "queued" /\ s.applied = r.applied
     \/ /\ r.phase = "denied" /\ refresh[r.tab].stage = "none"
        /\ refresh' = [refresh EXCEPT ![r.tab] =
                         [stage |-> "sent", holder |-> i, token |-> storage, got |-> 0]]
        /\ s.phase = "holder" /\ s.applied = r.applied

LEMMA RequestsHandled ==
  ASSUME Typed, NEW i \in 1..Len(requests), Answered(i) \/ Lose(i)
  PROVE  Handled(i)
<1> DEFINE n == Len(pairs)
           r == requests[i]
           Becomes(v) == requests' = [requests EXCEPT ![i] = v]
<1>1. requests \in Seq(RequestType(n)) /\ DOMAIN requests = 1..Len(requests)
  BY LenProperties DEF Typed
<1>2. ASSUME NEW v, Becomes(v)
      PROVE  /\ Len(requests') = Len(requests) /\ requests'[i] = v
             /\ \A j \in 1..Len(requests) : j # i => requests'[j] = requests[j]
  BY <1>1, <1>2, ReplaceOne
<1>3. CASE ServeCall(i) \/ ServeRevoke(i)
  <2>1. /\ r.phase = "sent" /\ refresh' = refresh
        /\ \/ Becomes([r EXCEPT !.phase = "ok", !.applied = @ + 1])
           \/ Becomes([r EXCEPT !.phase = "denied"])
           \/ Becomes(Over(r))
    BY <1>1, <1>3 DEF ServeCall, ServeRevoke
  <2>2. QED
    BY <1>2, <2>1 DEF Handled
<1>4. CASE ServeSignIn(i)
  <2>1. /\ r.phase = "sent" /\ refresh' = refresh
        /\ \/ /\ Becomes([r EXCEPT !.phase = "ok", !.got = n + 1, !.applied = @ + 1])
              /\ \E row \in {"short", "none"} : pairs' = Append(pairs, Pair(row))
           \/ Becomes([r EXCEPT !.phase = "ok"])
           \/ Becomes([r EXCEPT !.phase = "denied"])
           \/ Becomes(Over(r))
    BY <1>1, <1>4 DEF ServeSignIn, SignedIn
  <2>2. \A row \in {"short", "none"} : Len(Append(pairs, Pair(row))) = n + 1
    BY NewPair, AppendProperties DEF Typed, Rows
  <2>3. QED
    BY <1>2, <2>1, <2>2 DEF Handled
<1>5. CASE ReceiveOk(i) \/ Reject(i) \/ Lose(i)
  <2>1. /\ r.phase \in {"sent", "ok", "denied"} /\ refresh' = refresh
        /\ Becomes(Over(r))
    BY <1>1, <1>5 DEF ReceiveOk, Reject, Lose
  <2>2. QED
    BY <1>2, <2>1 DEF Handled
<1>6. CASE Queue(i)
  <2>1. /\ r.phase = "denied" /\ refresh' = refresh /\ refresh[r.tab].stage # "none"
        /\ Becomes([r EXCEPT !.phase = "queued"])
    BY <1>1, <1>6 DEF Queue
  <2>2. QED
    BY <1>2, <2>1 DEF Handled
<1>7. CASE StartRefresh(i)
  <2>1. /\ r.phase = "denied" /\ refresh[r.tab].stage = "none"
        /\ refresh' = [refresh EXCEPT ![r.tab] =
                         [stage |-> "sent", holder |-> i, token |-> storage, got |-> 0]]
        /\ Becomes([r EXCEPT !.phase = "holder", !.retried = TRUE])
    BY <1>1, <1>7 DEF StartRefresh
  <2>2. QED
    BY <1>2, <2>1 DEF Handled
<1>8. QED
  BY <1>3, <1>4, <1>5, <1>6, <1>7 DEF Answered

\* What becomes of the requests when a tab's refresh ends, or the tab is left.
ReleasedOne(t, j) ==
  \/ /\ requests'[j] = requests[j]
     /\ \/ ~Replayed(t, j) /\ (leaving[t] => leaving'[t])
        \/ requests[j].tab # t \/ requests[j].phase \notin Waiting
  \/ /\ requests[j].tab = t \/ refresh[t].holder = j
     /\ requests'[j] = Over(requests[j])
  \/ /\ Replayed(t, j)
     /\ requests'[j] = [requests[j] EXCEPT !.phase = "sent", !.token = refresh[t].got]
  \/ /\ leaving'[t] /\ Replayed(t, j)
     /\ requests'[j] = [requests[j] EXCEPT !.phase = "dropped"]

Released(t) ==
  /\ Len(requests') = Len(requests)
  /\ refresh' = [refresh EXCEPT ![t] = NoRefresh]
  /\ \A j \in 1..Len(requests) : ReleasedOne(t, j)

LEMMA RequestsReleased ==
  ASSUME Typed, NEW t \in Tabs, RefreshDone(t) \/ RefreshFails(t) \/ Leave(t)
  PROVE  Released(t)
<1>1. Len(requests) \in Nat
  BY LenProperties DEF Typed
<1>2. Len(requests') = Len(requests)
  <2> DEFINE n == Len(requests)
             S == {requests'[i] : i \in 1..n}
  <2>1. requests' = [i \in 1..n |-> requests'[i]]
    BY DEF RefreshDone, RefreshFails, Leave
  <2>2. requests' \in [1..n -> S]
    BY <2>1
  <2> HIDE DEF S, n
  <2>3. Len(requests') = n
    BY <1>1, <2>2, MapSeq DEF n
  <2>4. QED
    BY <2>3 DEF n
<1>3. CASE RefreshDone(t)
  <2>1. refresh' = [refresh EXCEPT ![t] = NoRefresh] /\ leaving' = leaving
    BY <1>3 DEF RefreshDone
  <2>2. ASSUME NEW j \in 1..Len(requests)
        PROVE  ReleasedOne(t, j)
    <3>1. \/ requests'[j] = requests[j] /\ ~Replayed(t, j)
          \/ /\ Replayed(t, j)
             /\ requests'[j] = [requests[j] EXCEPT !.phase = "sent", !.token = refresh[t].got]
      BY <1>3, <2>2 DEF RefreshDone
    <3>2. QED
      BY <2>1, <3>1, Zenon DEF ReleasedOne
  <2>3. QED
    BY <1>2, <2>1, <2>2 DEF Released
<1>4. CASE RefreshFails(t)
  <2>1. refresh' = [refresh EXCEPT ![t] = NoRefresh] /\ leaving'[t]
    BY <1>4 DEF RefreshFails, Typed
  <2>2. ASSUME NEW j \in 1..Len(requests)
        PROVE  ReleasedOne(t, j)
    <3>1. \/ requests'[j] = requests[j] /\ ~Replayed(t, j)
          \/ refresh[t].holder = j /\ requests'[j] = Over(requests[j])
          \/ Replayed(t, j) /\ requests'[j] = [requests[j] EXCEPT !.phase = "dropped"]
      BY <1>4, <2>2 DEF RefreshFails, Replayed
    <3>2. QED
      BY <2>1, <3>1, Zenon DEF ReleasedOne
  <2>3. QED
    BY <1>2, <2>1, <2>2 DEF Released
<1>5. CASE Leave(t)
  <2>1. refresh' = [refresh EXCEPT ![t] = NoRefresh]
    BY <1>5 DEF Leave
  <2>2. ASSUME NEW j \in 1..Len(requests)
        PROVE  ReleasedOne(t, j)
    BY <1>5, <2>2 DEF Leave, ReleasedOne
  <2>3. QED
    BY <1>2, <2>1, <2>2 DEF Released
<1>6. QED
  BY <1>3, <1>4, <1>5

\* A request more, the others as they were.
LEMMA RequestAppended ==
  ASSUME Typed, NEW r, requests' = Append(requests, r)
  PROVE  /\ Len(requests') = Len(requests) + 1 /\ Len(requests) \in Nat
         /\ requests'[Len(requests) + 1] = r
         /\ \A j \in 1..Len(requests) : requests'[j] = requests[j]
<1>1. requests \in Seq(RequestType(Len(pairs)) \cup {r})
  BY SeqMonotonic DEF Typed
<1>2. QED
  BY <1>1, AppendProperties, LenProperties

-----------------------------------------------------------------------------
(* Type correctness.                                                       *)

\* The changes of a request stay in its type.
LEMMA RequestLives ==
  ASSUME NEW n \in Nat, NEW r \in RequestType(n), NEW token \in 0..n
  PROVE  /\ Over(r) \in RequestType(n)
         /\ \A phase \in Waiting :
              /\ [r EXCEPT !.phase = phase] \in RequestType(n)
              /\ [r EXCEPT !.phase = phase, !.token = token] \in RequestType(n)
         /\ [r EXCEPT !.phase = "holder", !.retried = TRUE] \in RequestType(n)
         /\ [r EXCEPT !.phase = "ok", !.applied = @ + 1] \in RequestType(n)
         /\ [r EXCEPT !.phase = "ok", !.got = token, !.applied = @ + 1] \in RequestType(n)
<1>1. /\ r.tab \in Tabs /\ r.kind \in SignIns \cup {"call", "revoke"}
      /\ r.token \in 0..n /\ r.retried \in BOOLEAN /\ r.got \in 0..n /\ r.applied \in Nat
      /\ r = [ tab |-> r.tab, kind |-> r.kind, token |-> r.token, retried |-> r.retried,
               phase |-> r.phase, got |-> r.got, applied |-> r.applied ]
  BY DEF RequestType
<1>2. "holder" \in Waiting /\ "ok" \in Waiting /\ 0 \in 0..n /\ r.applied + 1 \in Nat
  BY <1>1 DEF Waiting
<1>3. ASSUME NEW phase \in Waiting
      PROVE  /\ [r EXCEPT !.phase = phase] \in RequestType(n)
             /\ [r EXCEPT !.phase = phase, !.token = token] \in RequestType(n)
             /\ [r EXCEPT !.phase = phase, !.retried = TRUE] \in RequestType(n)
             /\ [r EXCEPT !.phase = phase, !.applied = r.applied + 1] \in RequestType(n)
             /\ [r EXCEPT !.phase = phase, !.got = token, !.applied = r.applied + 1]
                  \in RequestType(n)
  BY <1>1, <1>2 DEF RequestType
<1>4. Over(r) \in RequestType(n)
  BY <1>1, <1>2 DEF RequestType, Over
<1>5. QED
  BY <1>2, <1>3, <1>4

\* What they leave of the fields the waiting is about.
LEMMA RequestFields ==
  ASSUME NEW n, NEW r \in RequestType(n)
  PROVE  /\ Over(r).tab = r.tab /\ Over(r).phase = "over" /\ Over(r).applied = r.applied
         /\ Over(r).got = 0
         /\ \A phase :
              LET s == [r EXCEPT !.phase = phase]
              IN s.tab = r.tab /\ s.phase = phase /\ s.applied = r.applied /\ s.got = r.got
         /\ \A phase, retried :
              LET s == [r EXCEPT !.phase = phase, !.retried = retried]
              IN s.tab = r.tab /\ s.phase = phase /\ s.applied = r.applied /\ s.got = r.got
         /\ \A phase, token :
              LET s == [r EXCEPT !.phase = phase, !.token = token]
              IN s.tab = r.tab /\ s.phase = phase /\ s.applied = r.applied /\ s.got = r.got
         /\ \A phase, applied :
              LET s == [r EXCEPT !.phase = phase, !.applied = applied]
              IN s.tab = r.tab /\ s.phase = phase /\ s.applied = applied /\ s.got = r.got
         /\ \A phase, got, applied :
              LET s == [r EXCEPT !.phase = phase, !.got = got, !.applied = applied]
              IN s.tab = r.tab /\ s.phase = phase /\ s.applied = applied /\ s.got = got
BY DEF RequestType, Over

LEMMA RequestsStep ==
  ASSUME Typed, [Next]_vars
  PROVE  /\ requests' \in Seq(RequestType(Len(pairs')))
         /\ Len(requests) \in Nat /\ Len(requests') \in Nat /\ Len(requests) <= Len(requests')
<1> DEFINE m == Len(requests)
           k == Len(pairs')
<1>1. /\ m \in Nat /\ k \in Nat /\ Len(pairs) \in Nat /\ Len(pairs) <= k
      /\ requests \in Seq(RequestType(k))
      /\ 0..Len(pairs) \subseteq 0..k
  BY PairsStep, TypesGrow, SeqMonotonic, LenProperties DEF Typed
<1>2. \A j \in 1..m : requests[j] \in RequestType(k)
  BY <1>1, ElementOfSeq
<1>3. CASE UNCHANGED requests
  BY <1>1, <1>3
<1>4. ASSUME NEW r \in RequestType(k), requests' = Append(requests, r)
      PROVE  requests' \in Seq(RequestType(k)) /\ Len(requests') = m + 1
  BY <1>1, <1>4, AppendProperties
<1>5. ASSUME NEW t \in Tabs, NEW kind \in SignIns \cup {"call", "revoke"}
      PROVE  /\ Request(t, kind) \in RequestType(k)
             /\ [Over(Request(t, kind)) EXCEPT !.applied = 1] \in RequestType(k)
  <2>1. storage \in 0..k /\ 0 \in 0..k
    BY <1>1 DEF Typed
  <2>2. Request(t, kind) \in RequestType(k)
    BY <2>1 DEF Request, RequestType, Waiting
  <2>3. Over(Request(t, kind)) \in RequestType(k)
    BY <1>1, <2>1, <2>2, RequestLives
  <2>4. \A r \in RequestType(k) : [r EXCEPT !.applied = 1] \in RequestType(k)
    BY DEF RequestType
  <2>5. QED
    BY <2>2, <2>3, <2>4
<1>6. ASSUME NEW t \in Tabs, NEW kind \in SignIns \cup {"call", "revoke"}, Send(t, kind)
      PROVE  requests' \in Seq(RequestType(k)) /\ m <= Len(requests')
  <2>1. requests' = Append(requests, Request(t, kind)) /\ Request(t, kind) \in RequestType(k)
    BY <1>5, <1>6 DEF Send
  <2>2. QED
    BY <1>1, <1>4, <2>1
<1>7. ASSUME NEW t \in Tabs, OAuthReturn(t)
      PROVE  requests' \in Seq(RequestType(k)) /\ m <= Len(requests')
  <2> DEFINE r == [Over(Request(t, "login")) EXCEPT !.applied = 1]
  <2>1. requests' = Append(requests, r)
    BY <1>7 DEF OAuthReturn
  <2>2. r \in RequestType(k)
    BY <1>5 DEF SignIns
  <2> HIDE DEF r
  <2>3. QED
    BY <1>1, <1>4, <2>1, <2>2
<1>8. ASSUME NEW i \in 1..m, Answered(i) \/ Lose(i)
      PROVE  requests' \in Seq(RequestType(k)) /\ m <= Len(requests')
  <2>1. Handled(i)
    BY <1>8, RequestsHandled
  <2>2. requests'[i] \in RequestType(k)
    <3>1. Len(pairs') = Len(pairs) + 1 => Len(pairs) + 1 \in 0..k
      BY <1>1
    <3>2. 0 \in 0..k /\ requests[i] \in RequestType(k)
      BY <1>1, <1>2
    <3> DEFINE r == requests[i]
    <3>3. /\ Over(r) \in RequestType(k)
          /\ [r EXCEPT !.phase = "ok"] \in RequestType(k)
          /\ [r EXCEPT !.phase = "denied"] \in RequestType(k)
          /\ [r EXCEPT !.phase = "queued"] \in RequestType(k)
          /\ [r EXCEPT !.phase = "holder", !.retried = TRUE] \in RequestType(k)
          /\ [r EXCEPT !.phase = "ok", !.applied = @ + 1] \in RequestType(k)
      BY <1>1, <3>2, RequestLives DEF Waiting
    <3>4. Len(pairs') = Len(pairs) + 1 =>
            [r EXCEPT !.phase = "ok", !.got = Len(pairs) + 1, !.applied = @ + 1] \in RequestType(k)
      BY <1>1, <3>1, <3>2, RequestLives
    <3>5. QED
      BY <2>1, <3>3, <3>4 DEF Handled
  <2>3. /\ Len(requests') = m
        /\ \A j \in 1..m : j # i => requests'[j] = requests[j]
    BY <2>1 DEF Handled
  <2>4. requests' = [requests EXCEPT ![i] = requests'[i]]
    <3>1. requests \in [1..m -> RequestType(k)]
      BY <1>1, LenProperties
    <3>2. requests' = [j \in 1..m |-> requests'[j]]
      BY <1>8, <3>1 DEF Answered, ServeCall, ServeRevoke, ServeSignIn, SignedIn, ReceiveOk, Queue,
                        StartRefresh, Reject, Lose
    <3>3. QED
      BY <2>3, <3>1, <3>2
  <2>5. QED
    BY <1>1, <2>2, <2>3, <2>4, ExceptSeq
<1>9. ASSUME NEW t \in Tabs, RefreshDone(t) \/ RefreshFails(t) \/ Leave(t)
      PROVE  requests' \in Seq(RequestType(k)) /\ m <= Len(requests')
  <2>1. Released(t)
    BY <1>9, RequestsReleased
  <2>2. requests' = [j \in 1..m |-> requests'[j]]
    BY <1>9 DEF RefreshDone, RefreshFails, Leave
  <2>3. refresh[t].got \in 0..k
    BY <1>1 DEF Typed, RefreshType
  <2>4. ASSUME NEW j \in 1..m
        PROVE  requests'[j] \in RequestType(k)
    <3>1. ReleasedOne(t, j)
      BY <2>1 DEF Released
    <3>2. /\ requests[j] \in RequestType(k)
          /\ Over(requests[j]) \in RequestType(k)
          /\ [requests[j] EXCEPT !.phase = "dropped"] \in RequestType(k)
          /\ [requests[j] EXCEPT !.phase = "sent", !.token = refresh[t].got] \in RequestType(k)
      BY <1>1, <1>2, <2>3, RequestLives DEF Waiting
    <3>3. QED
      BY <3>1, <3>2 DEF ReleasedOne
  <2>5. requests' \in [1..m -> RequestType(k)]
    BY <2>2, <2>4
  <2>6. QED
    BY <1>1, <2>5, MapSeq
<1>10. requests' \in Seq(RequestType(k)) /\ m <= Len(requests')
  BY <1>1, <1>3, <1>6, <1>7, <1>8, <1>9
     DEF Next, Refreshing, Call, Revoke, SubmitLogin, SubmitRegister, SubmitCode, Back, FindSession,
         RotateSession, Logout, Unload, Reload, Expire, SignIns, vars
<1>11. QED
  BY <1>1, <1>10, LenProperties

LEMMA RefreshStep ==
  ASSUME Typed, [Next]_vars
  PROVE  refresh' \in [Tabs -> RefreshType(Len(pairs'), Len(requests'))]
<1> DEFINE n == Len(pairs')
           m == Len(requests')
           R == RefreshType(n, m)
<1>1. /\ n \in Nat /\ m \in Nat
      /\ Len(pairs) \in Nat /\ Len(requests) \in Nat /\ Len(pairs) <= n /\ Len(requests) <= m
  BY PairsStep, RequestsStep
<1>2. refresh \in [Tabs -> R]
  BY <1>1, TypesGrow DEF Typed
<1>3. NoRefresh \in R
  BY <1>1 DEF NoRefresh, RefreshType
<1>4. CASE UNCHANGED refresh
  BY <1>2, <1>4
<1>5. ASSUME NEW t \in Tabs, FindSession(t) \/ RotateSession(t)
      PROVE  refresh' \in [Tabs -> R]
  <2>1. RotateSession(t) => Len(pairs) + 1 \in 0..n
    BY <1>1, PairExchanged
  <2>2. refresh[t] \in R
    BY <1>2
  <2>3. \A stage \in {"found", "refused"} : [refresh[t] EXCEPT !.stage = stage] \in R
    BY <2>2 DEF RefreshType
  <2>4. RotateSession(t) => [refresh[t] EXCEPT !.stage = "issued", !.got = Len(pairs) + 1] \in R
    BY <2>1, <2>2 DEF RefreshType
  <2>5. \E r \in R : refresh' = [refresh EXCEPT ![t] = r]
    BY <1>2, <1>5, <2>3, <2>4 DEF FindSession, RotateSession
  <2>6. QED
    BY <1>2, <2>5
<1>6. ASSUME NEW t \in Tabs, refresh' = [refresh EXCEPT ![t] = NoRefresh]
      PROVE  refresh' \in [Tabs -> R]
  BY <1>2, <1>3, <1>6
<1>7. ASSUME NEW i \in 1..Len(requests), StartRefresh(i)
      PROVE  refresh' \in [Tabs -> R]
  <2> DEFINE r == [stage |-> "sent", holder |-> i, token |-> storage, got |-> 0]
  <2>1. r \in R
    BY <1>1 DEF Typed, RefreshType
  <2>2. refresh' = [refresh EXCEPT ![requests[i].tab] = r]
    BY <1>7 DEF StartRefresh
  <2> HIDE DEF r
  <2>3. QED
    BY <1>2, <2>1, <2>2
<1>8. QED
  BY <1>4, <1>5, <1>6, <1>7
     DEF Next, Answered, Refreshing, Call, Revoke, Send, SubmitLogin, SubmitRegister, SubmitCode,
         Back, RefreshDone, RefreshFails, Logout, Unload, Reload, Leave, OAuthReturn, ServeCall,
         ServeRevoke, ServeSignIn, ReceiveOk, Queue, Reject, Lose, Expire, vars

LEMMA TypedStep ==
  ASSUME Typed, [Next]_vars
  PROVE  Typed'
<1>1. /\ pairs' \in Seq(PairType) /\ Len(pairs) \in Nat /\ Len(pairs') \in Nat
      /\ Len(pairs) <= Len(pairs')
  BY PairsStep
<1>2. storage' \in 0..Len(pairs')
  <2>1. CASE storage' = storage \/ storage' = 0
    BY <1>1, <2>1 DEF Typed
  <2>2. ASSUME NEW i \in 1..Len(requests), ReceiveOk(i)
        PROVE  storage' \in 0..Len(pairs')
    <3>1. requests[i].got \in 0..Len(pairs)
      <4>1. requests[i] \in RequestType(Len(pairs))
        BY ElementOfSeq DEF Typed
      <4>2. QED
        BY <4>1 DEF RequestType
    <3>2. QED
      BY <1>1, <2>1, <2>2, <3>1 DEF ReceiveOk
  <2>3. ASSUME NEW t \in Tabs, RefreshDone(t)
        PROVE  storage' \in 0..Len(pairs')
    BY <1>1, <2>3 DEF RefreshDone, Typed, RefreshType
  <2>4. ASSUME NEW t \in Tabs, OAuthReturn(t)
        PROVE  storage' \in 0..Len(pairs')
    BY <1>1, <2>4 DEF OAuthReturn
  <2>5. QED
    BY <2>1, <2>2, <2>3, <2>4
       DEF Next, Answered, Refreshing, Call, Revoke, Send, SubmitLogin, SubmitRegister, SubmitCode,
           Back, FindSession, RotateSession, RefreshFails, Logout, Unload, Reload, ServeCall,
           ServeRevoke, ServeSignIn, Queue, StartRefresh, Reject, Lose, Expire, vars
<1>3. authentic' \in [Tabs -> BOOLEAN]
  <2>1. \/ authentic' = authentic
        \/ \E t \in Tabs : \E b \in BOOLEAN : authentic' = [authentic EXCEPT ![t] = b]
        \/ \E i \in 1..Len(requests) : authentic' = [authentic EXCEPT ![requests[i].tab] = TRUE]
    BY DEF Next, Answered, Refreshing, Call, Revoke, Send, SubmitLogin, SubmitRegister, SubmitCode,
           Back, FindSession, RotateSession, RefreshDone, RefreshFails, Logout, Unload, Reload,
           Leave, OAuthReturn, ServeCall, ServeRevoke, ServeSignIn, ReceiveOk, Queue,
           StartRefresh, Reject, Lose, Expire, vars
  <2>2. QED
    BY <2>1 DEF Typed
<1>4. mfa' \in [Tabs -> BOOLEAN]
  <2>1. ASSUME NEW i \in 1..Len(requests), ReceiveOk(i)
        PROVE  mfa' \in [Tabs -> BOOLEAN]
    <3> DEFINE r == requests[i]
    <3>1. r \in RequestType(Len(pairs))
      BY ElementOfSeq DEF Typed
    <3>2. \/ mfa' = [mfa EXCEPT ![r.tab] = (r.got = 0)]
          \/ mfa' = [mfa EXCEPT ![r.tab] = mfa[r.tab]]
      BY <2>1 DEF ReceiveOk
    <3>3. r.tab \in Tabs /\ (r.got = 0) \in BOOLEAN
      BY <3>1 DEF RequestType
    <3>4. QED
      BY <3>2, <3>3 DEF Typed
  <2>2. CASE \/ mfa' = mfa
             \/ \E t \in Tabs : \E b \in BOOLEAN : mfa' = [mfa EXCEPT ![t] = b]
    BY <2>2 DEF Typed
  <2>3. QED
    BY <2>1, <2>2
       DEF Next, Answered, Refreshing, Call, Revoke, Send, SubmitLogin, SubmitRegister, SubmitCode,
           Back, FindSession, RotateSession, RefreshDone, RefreshFails, Logout, Unload, Reload,
           Leave, OAuthReturn, ServeCall, ServeRevoke, ServeSignIn, Queue,
           StartRefresh, Reject, Lose, Expire, vars
<1>5. leaving' \in [Tabs -> BOOLEAN]
  <2>1. \/ leaving' = leaving
        \/ \E t \in Tabs : \E b \in BOOLEAN : leaving' = [leaving EXCEPT ![t] = b]
        \/ \E i \in 1..Len(requests) : leaving' = [leaving EXCEPT ![requests[i].tab] = TRUE]
    BY DEF Next, Answered, Refreshing, Call, Revoke, Send, SubmitLogin, SubmitRegister, SubmitCode,
           Back, FindSession, RotateSession, RefreshDone, RefreshFails, Logout, Unload, Reload,
           Leave, OAuthReturn, ServeCall, ServeRevoke, ServeSignIn, ReceiveOk, Queue,
           StartRefresh, Reject, Lose, Expire, vars
  <2>2. QED
    BY <2>1 DEF Typed
<1>6. mishaps' \in 0..MaxMishaps
  <2>1. mishaps' = mishaps \/ (mishaps < MaxMishaps /\ mishaps' = mishaps + 1)
    BY DEF Next, Answered, Refreshing, Call, Revoke, Send, SubmitLogin, SubmitRegister, SubmitCode,
           Back, FindSession, RotateSession, RefreshDone, RefreshFails, Logout, Unload, Reload,
           Leave, OAuthReturn, ServeCall, ServeRevoke, ServeSignIn, ReceiveOk, Queue,
           StartRefresh, Reject, Lose, Expire, vars
  <2>2. QED
    BY <2>1, ClientAssumption DEF Typed
<1>7. QED
  BY <1>1, <1>2, <1>3, <1>4, <1>5, <1>6, RequestsStep, RefreshStep DEF Typed

LEMMA InitTyped == Init => Typed
<1> SUFFICES ASSUME Init PROVE Typed
  OBVIOUS
<1>1. pairs \in Seq(PairType) /\ Len(pairs) = 1
  BY NewPair DEF Init, Rows
<1>2. requests \in Seq(RequestType(Len(pairs))) /\ Len(requests) = 0
  BY DEF Init
<1>3. refresh \in [Tabs -> RefreshType(Len(pairs), Len(requests))]
  BY <1>1, <1>2 DEF Init, NoRefresh, RefreshType
<1>4. QED
  BY <1>1, <1>2, <1>3, ClientAssumption DEF Init, Typed

LEMMA TypedIsTypeOK == Typed => TypeOK
<1> SUFFICES ASSUME Typed PROVE TypeOK
  OBVIOUS
<1>1. \A p \in 1..Len(pairs) : pairs[p] \in PairType
  BY ElementOfSeq DEF Typed
<1>2. \A i \in 1..Len(requests) : requests[i] \in RequestType(Len(pairs))
  BY ElementOfSeq DEF Typed
<1>3. QED
  BY <1>1, <1>2 DEF Typed, TypeOK, PairType, Rows, RequestType, RefreshType

\* The tables, the stores and the messages are well typed at every step.
LEMMA Typing == Spec => []Typed
BY InitTyped, TypedStep, PTL DEF Spec

\* Every token a store, a request or a refresh holds is one that was issued, and
\* every refresh is held by a request that was sent (auth_service.go:243-277, the
\* interceptors of client.ts).
THEOREM TypeCorrect == Spec => []TypeOK
BY Typing, TypedIsTypeOK, PTL

-----------------------------------------------------------------------------
(* Who waits for a refresh.                                                *)

\* WaitersAreAwaited, and what it rests on: a refresh is on its way exactly while
\* a request of its tab holds it, so that the end of the one releases the other.
Held ==
  /\ WaitersAreAwaited
  /\ \A t \in Tabs :
       /\ refresh[t].stage = "none" <=> refresh[t].holder = 0
       /\ refresh[t].holder # 0 => requests[refresh[t].holder].tab = t

\* One request, as WaitersAreAwaited looks at it.
Awaited(i) ==
  /\ requests[i].phase \in {"queued", "holder"} => refresh[requests[i].tab].stage # "none"
  /\ requests[i].phase = "holder" <=> refresh[requests[i].tab].holder = i
  /\ requests[i].phase = "dropped" => leaving[requests[i].tab]

\* One refresh.
HeldBy(t) ==
  /\ refresh[t].stage = "none" <=> refresh[t].holder = 0
  /\ refresh[t].holder # 0 => requests[refresh[t].holder].tab = t

LEMMA HeldPointwise ==
  /\ Held <=> /\ \A i \in 1..Len(requests) : Awaited(i)
              /\ \A t \in Tabs : HeldBy(t)
  /\ Held' <=> /\ \A i \in 1..Len(requests') : Awaited(i)'
               /\ \A t \in Tabs : HeldBy(t)'
BY DEF Held, WaitersAreAwaited, Awaited, HeldBy

\* What the types say of a request and of a refresh.
LEMMA Shapes ==
  ASSUME Typed
  PROVE  /\ Len(requests) \in Nat
         /\ \A i \in 1..Len(requests) :
              /\ requests[i] \in RequestType(Len(pairs))
              /\ requests[i].tab \in Tabs /\ requests[i].applied \in Nat
         /\ \A t \in Tabs : refresh[t].holder \in 0..Len(requests)
<1>1. \A i \in 1..Len(requests) : requests[i] \in RequestType(Len(pairs))
  BY ElementOfSeq DEF Typed
<1>2. QED
  BY <1>1, LenProperties DEF Typed, RequestType, RefreshType

\* A step that leaves the requests alone, and of a refresh only its holder
\* and that there is one.
LEMMA StillHeld ==
  ASSUME Typed, Held, requests' = requests,
         \A t \in Tabs : /\ refresh'[t].holder = refresh[t].holder
                         /\ refresh'[t].stage = "none" <=> refresh[t].stage = "none"
                         /\ leaving[t] => leaving'[t]
  PROVE  Held'
<1>1. \A i \in 1..Len(requests) : Awaited(i)'
  BY Shapes, HeldPointwise DEF Awaited
<1>2. \A t \in Tabs : HeldBy(t)'
  BY HeldPointwise DEF HeldBy
<1>3. QED
  BY <1>1, <1>2, HeldPointwise

\* A request more, which waits for nothing.
LEMMA HeldWithOneMore ==
  ASSUME Typed, Held, NEW r, requests' = Append(requests, r), r.tab \in Tabs,
         r.phase \notin {"queued", "holder", "dropped"}, refresh' = refresh, leaving' = leaving
  PROVE  Held'
<1> DEFINE m == Len(requests)
<1>1. /\ Len(requests') = m + 1 /\ m \in Nat /\ requests'[m + 1] = r
      /\ \A j \in 1..m : requests'[j] = requests[j]
  BY RequestAppended
<1>2. \A i \in 1..m : Awaited(i)'
  BY <1>1, Shapes, HeldPointwise DEF Awaited
<1>3. ASSUME NEW k, k = m + 1
      PROVE  Awaited(k)'
  <2>1. refresh[r.tab].holder # k /\ requests'[k] = r
    BY <1>1, <1>3, Shapes
  <2>2. QED
    BY <2>1 DEF Awaited
<1>4. \A t \in Tabs : HeldBy(t)'
  <2>1. \A t \in Tabs : refresh[t].holder = 0 \/ refresh[t].holder \in 1..m
    BY <1>1, Shapes
  <2>2. QED
    BY <1>1, <2>1, HeldPointwise DEF HeldBy
<1>5. \A i \in 1..Len(requests') : i \in 1..m \/ i = m + 1
  BY <1>1
<1>6. QED
  BY <1>2, <1>3, <1>4, <1>5, HeldPointwise

LEMMA HandledFields ==
  ASSUME Typed, NEW i \in 1..Len(requests), Answered(i) \/ Lose(i)
  PROVE  HandledAs(i)
<1>1. requests[i] \in RequestType(Len(pairs))
  BY Shapes
<1> DEFINE r == requests[i]
           phased(phase) == [r EXCEPT !.phase = phase]
           holding == [r EXCEPT !.phase = "holder", !.retried = TRUE]
           done == [r EXCEPT !.phase = "ok", !.applied = @ + 1]
           signedIn == [r EXCEPT !.phase = "ok", !.got = Len(pairs) + 1, !.applied = @ + 1]
           started == [refresh EXCEPT ![r.tab] =
                         [stage |-> "sent", holder |-> i, token |-> storage, got |-> 0]]
           Is(s, phase, applied) == s.tab = r.tab /\ s.phase = phase /\ s.applied = applied
<1>2. \/ /\ r.phase \in {"sent", "ok", "denied"} /\ refresh' = refresh
         /\ requests'[i] = Over(r)
      \/ r.phase = "sent" /\ refresh' = refresh /\ requests'[i] \in {done, signedIn}
      \/ /\ r.phase = "sent" /\ refresh' = refresh
         /\ requests'[i] \in {phased("ok"), phased("denied")}
      \/ /\ r.phase = "denied" /\ refresh' = refresh /\ refresh[r.tab].stage # "none"
         /\ requests'[i] = phased("queued")
      \/ /\ r.phase = "denied" /\ refresh[r.tab].stage = "none" /\ refresh' = started
         /\ requests'[i] = holding
  BY RequestsHandled, Zenon DEF Handled
<1>3. Is(Over(r), "over", r.applied)
  BY <1>1, RequestFields
<1>4. \A phase : Is(phased(phase), phase, r.applied)
  BY <1>1, RequestFields
<1>5. Is(holding, "holder", r.applied)
  BY <1>1, RequestFields
<1>6. Is(done, "ok", r.applied + 1) /\ Is(signedIn, "ok", r.applied + 1)
  BY <1>1, RequestFields
<1> HIDE DEF phased, holding, done, signedIn
<1>7. QED
  BY <1>2, <1>3, <1>4, <1>5, <1>6 DEF HandledAs

\* An answer, and what the interceptor does on it.
LEMMA HeldAnswered ==
  ASSUME Typed, Held, NEW i \in 1..Len(requests), Answered(i) \/ Lose(i)
  PROVE  Held'
<1> DEFINE r == requests[i]
           m == Len(requests)
<1>1. /\ Len(requests') = m /\ m \in Nat
      /\ \A j \in 1..m : j # i => requests'[j] = requests[j]
  BY RequestsHandled, Shapes DEF Handled
<1>2. r.tab \in Tabs /\ r \in RequestType(Len(pairs)) /\ refresh[r.tab].holder \in 0..m
  BY Shapes
<1>3. \A t \in Tabs : leaving[t] => leaving'[t]
  BY <1>2 DEF Typed, Answered, Lose, ServeCall, ServeRevoke, ServeSignIn, ReceiveOk, Queue,
              StartRefresh, Reject
<1>4. requests'[i].tab = r.tab /\ r.phase \in {"sent", "ok", "denied"}
  BY HandledFields DEF HandledAs
<1>5. refresh[r.tab].holder # i
  BY <1>4, HeldPointwise DEF Awaited
<1>6. CASE refresh' = refresh
  <2>1. \/ requests'[i].phase \in {"over", "ok", "denied"}
        \/ requests'[i].phase = "queued" /\ refresh[r.tab].stage # "none"
    <3>1. refresh' = [refresh EXCEPT ![r.tab] =
                        [stage |-> "sent", holder |-> i, token |-> storage, got |-> 0]]
            => refresh'[r.tab].stage = "sent"
      BY <1>2 DEF Typed
    <3>2. QED
      BY <1>6, <3>1, HandledFields DEF HandledAs
  <2>2. Awaited(i)'
    BY <1>4, <1>5, <1>6, <2>1 DEF Awaited
  <2>3. \A j \in 1..m : j # i => Awaited(j)'
    BY <1>1, <1>3, <1>6, Shapes, HeldPointwise DEF Awaited
  <2>4. \A t \in Tabs : HeldBy(t)'
    <3>1. \A t \in Tabs : refresh[t].holder # 0 =>
            requests'[refresh[t].holder].tab = requests[refresh[t].holder].tab
      BY <1>1, <1>4, Shapes
    <3>2. QED
      BY <1>6, <3>1, HeldPointwise DEF HeldBy
  <2>5. QED
    BY <1>1, <2>2, <2>3, <2>4, HeldPointwise
<1>7. CASE refresh' # refresh
  <2> DEFINE h == [stage |-> "sent", holder |-> i, token |-> storage, got |-> 0]
  <2>1. /\ refresh[r.tab].stage = "none" /\ refresh' = [refresh EXCEPT ![r.tab] = h]
        /\ requests'[i].phase = "holder"
    BY <1>7, HandledFields DEF HandledAs
  <2>2. refresh'[r.tab] = h /\ \A t \in Tabs : t # r.tab => refresh'[t] = refresh[t]
    BY <1>2, <2>1 DEF Typed
  <2>3. h.stage = "sent" /\ h.holder = i
    OBVIOUS
  <2> HIDE DEF h
  <2>4. Awaited(i)'
    BY <1>4, <2>1, <2>2, <2>3 DEF Awaited
  <2>5. refresh[r.tab].holder = 0
    BY <1>2, <2>1, HeldPointwise DEF HeldBy
  <2>6. ASSUME NEW j \in 1..m, j # i
        PROVE  Awaited(j)'
    <3>1. Awaited(j) /\ requests'[j] = requests[j] /\ requests[j].tab \in Tabs /\ j # 0
      BY <1>1, <2>6, Shapes, HeldPointwise
    <3>2. CASE requests[j].tab = r.tab
      BY <1>3, <2>2, <2>3, <2>5, <2>6, <3>1, <3>2 DEF Awaited
    <3>3. CASE requests[j].tab # r.tab
      BY <1>3, <2>2, <3>1, <3>3 DEF Awaited
    <3>4. QED
      BY <3>2, <3>3
  <2>7. ASSUME NEW t \in Tabs
        PROVE  HeldBy(t)'
    <3>1. CASE t = r.tab
      BY <1>4, <2>2, <2>3, <3>1 DEF HeldBy
    <3>2. CASE t # r.tab
      <4>1. refresh'[t] = refresh[t] /\ HeldBy(t) /\ refresh[t].holder \in 0..m
        BY <2>2, <3>2, Shapes, HeldPointwise
      <4>2. refresh[t].holder # 0 =>
              requests'[refresh[t].holder].tab = requests[refresh[t].holder].tab
        BY <1>1, <1>4, <4>1
      <4>3. QED
        BY <4>1, <4>2 DEF HeldBy
    <3>3. QED
      BY <3>1, <3>2
  <2>8. QED
    BY <1>1, <2>4, <2>6, <2>7, HeldPointwise
<1>8. QED
  BY <1>6, <1>7

\* The end of a refresh, or of a document.
LEMMA ReleasedFields ==
  ASSUME Typed, NEW t \in Tabs, Released(t), NEW j \in 1..Len(requests)
  PROVE  LET r == requests[j]
             s == requests'[j]
         IN
         /\ s.tab = r.tab /\ s.applied = r.applied
         /\ \/ /\ s.phase = r.phase
               /\ \/ ~Replayed(t, j) /\ (leaving[t] => leaving'[t])
                  \/ r.tab # t \/ r.phase \notin Waiting
            \/ s.phase = "over" /\ (r.tab = t \/ refresh[t].holder = j)
            \/ s.phase = "sent" /\ Replayed(t, j)
            \/ s.phase = "dropped" /\ Replayed(t, j) /\ leaving'[t]
<1> DEFINE r == requests[j]
           again == [r EXCEPT !.phase = "sent", !.token = refresh[t].got]
           dropped == [r EXCEPT !.phase = "dropped"]
           Is(s, phase) == s.tab = r.tab /\ s.phase = phase /\ s.applied = r.applied
<1>1. r \in RequestType(Len(pairs))
  BY Shapes
<1>2. \/ /\ requests'[j] = r
         /\ \/ ~Replayed(t, j) /\ (leaving[t] => leaving'[t])
            \/ r.tab # t \/ r.phase \notin Waiting
      \/ requests'[j] = Over(r) /\ (r.tab = t \/ refresh[t].holder = j)
      \/ requests'[j] = again /\ Replayed(t, j)
      \/ requests'[j] = dropped /\ Replayed(t, j) /\ leaving'[t]
  <2>1. ReleasedOne(t, j)
    BY DEF Released
  <2>2. QED
    BY <2>1, Zenon DEF ReleasedOne
<1>3. Is(Over(r), "over")
  BY <1>1, RequestFields
<1>4. Is(again, "sent")
  BY <1>1, RequestFields
<1>5. Is(dropped, "dropped")
  BY <1>1, RequestFields
<1> HIDE DEF again, dropped
<1>6. QED
  BY <1>2, <1>3, <1>4, <1>5

LEMMA HeldReleased ==
  ASSUME Typed, Held, NEW t \in Tabs, Released(t),
         \A u \in Tabs : u # t => leaving'[u] = leaving[u]
  PROVE  Held'
<1>1. /\ Len(requests') = Len(requests) /\ Len(requests) \in Nat
      /\ refresh'[t].stage = "none" /\ refresh'[t].holder = 0
      /\ \A u \in Tabs : u # t => refresh'[u] = refresh[u]
  BY Shapes DEF Released, Typed, NoRefresh
<1>2. ASSUME NEW j \in 1..Len(requests)
      PROVE  Awaited(j)'
  <2>1. /\ Awaited(j) /\ HeldBy(t) /\ requests[j].tab \in Tabs /\ j # 0
        /\ requests'[j].tab = requests[j].tab
    BY Shapes, HeldPointwise, ReleasedFields
  <2>2. CASE requests[j].tab = t
    <3>1. requests'[j].phase \notin {"queued", "holder"}
      BY <2>1, <2>2, ReleasedFields DEF Awaited, Replayed, Waiting
    <3>2. requests'[j].phase = "dropped" => leaving'[t]
      BY <2>1, <2>2, ReleasedFields DEF Awaited, Waiting
    <3>3. QED
      BY <1>1, <2>1, <2>2, <3>1, <3>2 DEF Awaited
  <2>3. CASE requests[j].tab # t
    <3>1. ~Replayed(t, j) /\ refresh[t].holder # j
      BY <2>1, <2>3 DEF HeldBy, Replayed
    <3>2. requests'[j].phase = requests[j].phase
      BY <2>3, <3>1, ReleasedFields
    <3>3. QED
      BY <1>1, <2>1, <2>3, <3>2 DEF Awaited
  <2>4. QED
    BY <2>2, <2>3
<1>3. ASSUME NEW u \in Tabs
      PROVE  HeldBy(u)'
  <2>1. CASE u = t
    BY <1>1, <2>1 DEF HeldBy
  <2>2. CASE u # t
    <3>1. refresh[u].holder # 0 =>
            requests'[refresh[u].holder].tab = requests[refresh[u].holder].tab
      BY Shapes, ReleasedFields
    <3>2. HeldBy(u) /\ refresh'[u] = refresh[u]
      BY <1>1, <2>2, HeldPointwise
    <3>3. QED
      BY <3>1, <3>2 DEF HeldBy
  <2>3. QED
    BY <2>1, <2>2
<1>4. QED
  BY <1>1, <1>2, <1>3, HeldPointwise

LEMMA HeldStep ==
  ASSUME Typed, Held, [Next]_vars
  PROVE  Held'
<1>1. ASSUME requests' = requests, refresh' = refresh, \A t \in Tabs : leaving[t] => leaving'[t]
      PROVE  Held'
  BY <1>1, StillHeld
<1>2. ASSUME NEW t \in Tabs, NEW kind, Send(t, kind)
      PROVE  Held'
  <2>1. Request(t, kind).tab = t /\ Request(t, kind).phase = "sent"
    BY DEF Request
  <2> DEFINE r == Request(t, kind)
  <2>2. requests' = Append(requests, r) /\ refresh' = refresh /\ leaving' = leaving
    BY <1>2 DEF Send
  <2> HIDE DEF r
  <2>3. r.tab \in Tabs /\ r.phase \notin {"queued", "holder", "dropped"}
    BY <2>1 DEF r
  <2>4. QED
    BY <2>2, <2>3, HeldWithOneMore
<1>3. ASSUME NEW t \in Tabs, OAuthReturn(t)
      PROVE  Held'
  <2> DEFINE r == [Over(Request(t, "login")) EXCEPT !.applied = 1]
  <2>1. requests' = Append(requests, r) /\ refresh' = refresh /\ leaving' = leaving
    BY <1>3 DEF OAuthReturn
  <2>2. r.tab = t /\ r.phase = "over"
    BY DEF Over, Request
  <2> HIDE DEF r
  <2>3. QED
    BY <2>1, <2>2, HeldWithOneMore
<1>4. ASSUME NEW i \in 1..Len(requests), Answered(i) \/ Lose(i)
      PROVE  Held'
  BY <1>4, HeldAnswered
<1>5. ASSUME NEW t \in Tabs, FindSession(t) \/ RotateSession(t)
      PROVE  Held'
  <2>1. requests' = requests /\ leaving' = leaving
    BY <1>5 DEF FindSession, RotateSession
  <2>2. \A u \in Tabs : /\ refresh'[u].holder = refresh[u].holder
                        /\ refresh'[u].stage = "none" <=> refresh[u].stage = "none"
    <3>1. /\ refresh[t] \in RefreshType(Len(pairs), Len(requests))
          /\ refresh[t].stage # "none"
          /\ refresh \in [Tabs -> RefreshType(Len(pairs), Len(requests))]
      BY <1>5 DEF FindSession, RotateSession, Typed
    <3>2. ASSUME NEW stage \in {"found", "refused", "issued"}, NEW got
          PROVE  LET r == [refresh[t] EXCEPT !.stage = stage]
                     s == [refresh[t] EXCEPT !.stage = stage, !.got = got]
                 IN /\ r.holder = refresh[t].holder /\ r.stage # "none"
                    /\ s.holder = refresh[t].holder /\ s.stage # "none"
      BY <3>1 DEF RefreshType
    <3>3. PICK r : /\ refresh' = [refresh EXCEPT ![t] = r]
                   /\ r.holder = refresh[t].holder /\ r.stage # "none"
      <4> DEFINE found == [refresh[t] EXCEPT !.stage =
                             IF Usable(refresh[t].token) THEN "found" ELSE "refused"]
                 issued == [refresh[t] EXCEPT !.stage = "issued", !.got = Len(pairs) + 1]
      <4>1. found.holder = refresh[t].holder /\ found.stage # "none"
        BY <3>2
      <4>2. issued.holder = refresh[t].holder /\ issued.stage # "none"
        BY <3>2
      <4>3. \/ refresh' = [refresh EXCEPT ![t] = found]
            \/ refresh' = [refresh EXCEPT ![t] = issued]
        BY <1>5, <3>1 DEF FindSession, RotateSession
      <4> HIDE DEF found, issued
      <4>4. QED
        BY <4>1, <4>2, <4>3
    <3>4. /\ refresh'[t].holder = refresh[t].holder /\ refresh'[t].stage # "none"
          /\ \A u \in Tabs : u # t => refresh'[u] = refresh[u]
      BY <3>1, <3>3
    <3>5. QED
      BY <3>1, <3>4
  <2>3. QED
    BY <2>1, <2>2, StillHeld
<1>6. ASSUME NEW t \in Tabs, RefreshDone(t) \/ RefreshFails(t) \/ Leave(t)
      PROVE  Held'
  <2>1. \A u \in Tabs : u # t => leaving'[u] = leaving[u]
    BY <1>6 DEF RefreshDone, RefreshFails, Leave, Typed
  <2>2. QED
    BY <1>6, <2>1, RequestsReleased, HeldReleased
<1>7. CASE \/ UNCHANGED vars \/ Expire
           \/ \E t \in Tabs : Back(t) \/ Logout(t)
  BY <1>1, <1>7 DEF vars, Expire, Back, Logout, Typed
<1>8. QED
  BY <1>2, <1>3, <1>4, <1>5, <1>6, <1>7
     DEF Next, Refreshing, Call, Revoke, SubmitLogin, SubmitRegister, SubmitCode, Unload, Reload

LEMMA InitHeld == Init => Held
BY DEF Init, Held, WaitersAreAwaited, NoRefresh

LEMMA HoldersHold == Spec => []Held
<1>1. Init => Held
  BY InitHeld
<1>2. Typed /\ Held /\ [Next]_vars => Held'
  BY HeldStep
<1>3. QED
  BY <1>1, <1>2, Typing, PTL DEF Spec

\* A request waits only for a refresh of its own tab that is on its way and held
\* by a request of that tab; what is dropped belongs to a page about to unload
\* (isRefreshing and refreshQueue, client.ts:29-102).
THEOREM NobodyWaitsForNothing == Spec => []WaitersAreAwaited
<1>1. Held => WaitersAreAwaited
  BY DEF Held
<1>2. QED
  BY <1>1, HoldersHold, PTL

-----------------------------------------------------------------------------
(* What is carried out once.                                               *)

\* AppliedOnce, and what it rests on: a request that was carried out is never one
\* that may be sent again.
CarriedOut(i) ==
  /\ requests[i].applied <= 1
  /\ requests[i].applied = 1 => requests[i].phase \in {"ok", "over"}

CarriedOutOnce == \A i \in 1..Len(requests) : CarriedOut(i)

LEMMA CarriedOutStep ==
  ASSUME Typed, Held, CarriedOutOnce, [Next]_vars
  PROVE  CarriedOutOnce'
<1> DEFINE m == Len(requests)
<1>1. m \in Nat /\ \A i \in 1..m : requests[i].applied \in Nat
  BY Shapes
<1>2. CASE requests' = requests
  BY <1>2 DEF CarriedOutOnce, CarriedOut
<1>3. ASSUME NEW r, requests' = Append(requests, r), r.applied \in {0, 1},
             r.applied = 1 => r.phase = "over"
      PROVE  CarriedOutOnce'
  <2>1. /\ Len(requests') = m + 1 /\ requests'[m + 1] = r
        /\ \A j \in 1..m : requests'[j] = requests[j]
    BY <1>3, RequestAppended
  <2>2. \A i \in 1..Len(requests') : i \in 1..m \/ requests'[i] = r
    BY <1>1, <2>1
  <2>3. QED
    BY <1>3, <2>1, <2>2 DEF CarriedOutOnce, CarriedOut
<1>4. ASSUME NEW t \in Tabs, NEW kind, Send(t, kind)
      PROVE  CarriedOutOnce'
  <2> DEFINE r == Request(t, kind)
  <2>1. requests' = Append(requests, r) /\ r.applied = 0
    BY <1>4 DEF Send, Request
  <2> HIDE DEF r
  <2>2. QED
    BY <1>3, <2>1
<1>5. ASSUME NEW t \in Tabs, OAuthReturn(t)
      PROVE  CarriedOutOnce'
  <2> DEFINE r == [Over(Request(t, "login")) EXCEPT !.applied = 1]
  <2>1. requests' = Append(requests, r)
    BY <1>5 DEF OAuthReturn
  <2>2. r.applied = 1 /\ r.phase = "over"
    BY DEF Over, Request
  <2> HIDE DEF r
  <2>3. QED
    BY <1>3, <2>1, <2>2
<1>6. ASSUME NEW i \in 1..m, Answered(i) \/ Lose(i)
      PROVE  CarriedOutOnce'
  <2>1. Len(requests') = m /\ \A j \in 1..m : j # i => requests'[j] = requests[j]
    BY <1>6, RequestsHandled DEF Handled
  <2>2. CarriedOut(i)'
    <3>1. /\ requests[i].applied \in Nat /\ requests[i].applied <= 1
          /\ requests[i].applied = 1 => requests[i].phase \in {"ok", "over"}
      BY <1>1 DEF CarriedOutOnce, CarriedOut
    <3>2. requests[i].phase \in {"sent", "denied"} => requests[i].applied = 0
      BY <3>1
    <3>3. \/ requests'[i].phase \in {"ok", "over"} /\ requests'[i].applied = requests[i].applied
          \/ /\ requests[i].phase \in {"sent", "denied"}
             /\ \/ requests'[i].applied = requests[i].applied
                \/ requests'[i].phase = "ok" /\ requests'[i].applied = requests[i].applied + 1
      BY <1>6, HandledFields DEF HandledAs
    <3>4. QED
      BY <3>1, <3>2, <3>3 DEF CarriedOut
  <2>3. QED
    BY <2>1, <2>2 DEF CarriedOutOnce, CarriedOut
<1>7. ASSUME NEW t \in Tabs, RefreshDone(t) \/ RefreshFails(t) \/ Leave(t)
      PROVE  CarriedOutOnce'
  <2>1. Released(t)
    BY <1>7, RequestsReleased
  <2>2. ASSUME NEW j \in 1..m
        PROVE  CarriedOut(j)'
    <3>1. CarriedOut(j) /\ Awaited(j) /\ HeldBy(t) /\ j # 0
      BY <1>1, HeldPointwise DEF CarriedOutOnce
    <3>2. Replayed(t, j) => requests[j].phase \in {"queued", "holder"}
      BY <3>1 DEF Replayed, Awaited, HeldBy
    <3>3. QED
      BY <1>1, <2>1, <3>1, <3>2, ReleasedFields DEF CarriedOut
  <2>3. QED
    BY <2>1, <2>2 DEF CarriedOutOnce, Released
<1>8. QED
  BY <1>2, <1>4, <1>5, <1>6, <1>7
     DEF Next, Refreshing, Call, Revoke, SubmitLogin, SubmitRegister, SubmitCode, Unload, Reload,
         FindSession, RotateSession, Back, Logout, Expire, vars

\* However often a request is refused, queued and sent again, it is carried out at
\* most once: only a request that was refused is replayed (client.ts:33-102).
THEOREM OnlyTheRefusedIsReplayed == Spec => []AppliedOnce
<1>1. Init => CarriedOutOnce
  BY DEF Init, CarriedOutOnce
<1>2. Typed /\ Held /\ CarriedOutOnce /\ [Next]_vars => CarriedOutOnce'
  BY CarriedOutStep
<1>3. CarriedOutOnce => AppliedOnce
  BY DEF CarriedOutOnce, CarriedOut, AppliedOnce
<1>4. QED
  BY <1>1, <1>2, <1>3, Typing, HoldersHold, PTL DEF Spec

-----------------------------------------------------------------------------
(* Which token serves when.  A pair that was issued is, until a page stores  *)
(* it, in one place only: the answer of one sign-in or of one refresh.       *)

\* The refresh token of pair g was not presented yet, and nobody can: no page
\* has stored it.
Unused(g) ==
  /\ storage # g /\ pairs[g].fate # "rotated" /\ pairs[g].by = {}
  /\ \A t \in Tabs : refresh[t].token # g

NewPairsUnused ==
  /\ \A i \in 1..Len(requests) : requests[i].got # 0 => Unused(requests[i].got)
  /\ \A t \in Tabs : refresh[t].got # 0 => refresh[t].stage = "issued" /\ Unused(refresh[t].got)
  /\ \A i, j \in 1..Len(requests) :
       requests[i].got # 0 /\ requests[i].got = requests[j].got => i = j
  /\ \A i \in 1..Len(requests), t \in Tabs :
       requests[i].got # 0 => requests[i].got # refresh[t].got
  /\ \A t, u \in Tabs : refresh[t].got # 0 /\ refresh[t].got = refresh[u].got => t = u

\* A token that was exchanged stays in localStorage only until the tabs that
\* exchanged it have their answers.
StoredBeingRotated ==
  storage # 0 =>
    /\ \A t \in pairs[storage].by : refresh[t].stage = "issued" /\ refresh[t].token = storage
    /\ pairs[storage].fate = "rotated" => pairs[storage].by # {}

\* NoTabExchangesAgain, with what a refresh on its way holds.
PresentedOnce ==
  /\ \A t \in Tabs : /\ refresh[t].stage # "none" => refresh[t].token # 0
                     /\ refresh[t].stage = "issued" => refresh[t].got # 0
  /\ NoTabExchangesAgain

TokensInOrder == NewPairsUnused /\ StoredBeingRotated /\ PresentedOnce

\* What a step makes of the history of pair p ...
PairAfter(p) ==
  \/ pairs'[p].fate = pairs[p].fate /\ pairs'[p].by = pairs[p].by
  \/ pairs'[p].fate \in {"lost", "revoked"} /\ pairs'[p].by \subseteq pairs[p].by
  \/ \E t \in Tabs :
       /\ refresh[t].token = p /\ refresh'[t].token = p /\ refresh'[t].stage = "issued"
       /\ pairs'[p].by = pairs[p].by \cup {t}

\* ... of the refresh of tab t ...
RefreshAfter(t) ==
  \/ /\ refresh'[t].token = refresh[t].token /\ refresh'[t].got = refresh[t].got
     /\ \/ refresh'[t].stage = refresh[t].stage
        \/ refresh[t].stage = "sent" /\ refresh'[t].stage \in {"found", "refused"}
  \/ /\ refresh'[t].stage = "none" /\ refresh'[t].token = 0 /\ refresh'[t].got = 0
     /\ refresh[t].stage = "issued" =>
          storage' \in {0, refresh[t].got} \/ t \notin pairs'[refresh[t].token].by
  \/ /\ refresh[t].stage = "none" /\ refresh'[t].stage = "sent" /\ refresh'[t].got = 0
     /\ storage # 0 /\ refresh'[t].token = storage /\ storage' = storage /\ pairs' = pairs
  \/ /\ refresh[t].stage = "found" /\ refresh'[t].stage = "issued"
     /\ refresh'[t].token = refresh[t].token
     /\ refresh'[t].got = Len(pairs) + 1 /\ Len(pairs') = Len(pairs) + 1
     /\ storage' = storage /\ requests' = requests
     /\ \A u \in Tabs : u # t => refresh'[u] = refresh[u]

\* ... of the pair that request j brings ...
RequestAfter(j) ==
  \/ requests'[j].got = 0
  \/ j \in 1..Len(requests) /\ requests'[j].got = requests[j].got
  \/ /\ requests'[j].got = Len(pairs) + 1 /\ Len(pairs') = Len(pairs) + 1
     /\ storage' = storage /\ refresh' = refresh
     /\ \A k \in 1..Len(requests') : k # j => requests'[k].got # Len(pairs) + 1

\* ... and of localStorage.
StorageAfter ==
  \/ storage' \in {0, storage}
  \/ /\ pairs' = pairs
     /\ \E i \in 1..Len(requests) :
          requests[i].got # 0 /\ storage' = requests[i].got /\ requests'[i].got = 0
  \/ /\ pairs' = pairs
     /\ \E t \in Tabs :
          refresh[t].stage = "issued" /\ storage' = refresh[t].got /\ refresh'[t].got = 0
  \/ /\ storage' = Len(pairs) + 1 /\ Len(pairs') = Len(pairs) + 1 /\ refresh' = refresh
     /\ \A j \in 1..Len(requests') : requests'[j].got # Len(pairs) + 1

NewPairKept ==
  \/ Len(pairs') = Len(pairs)
  \/ /\ Len(pairs') = Len(pairs) + 1
     /\ pairs'[Len(pairs) + 1].fate = "kept" /\ pairs'[Len(pairs) + 1].by = {}

TokensAfter ==
  /\ NewPairKept /\ StorageAfter
  /\ \A p \in 1..Len(pairs) : PairAfter(p)
  /\ \A t \in Tabs : RefreshAfter(t)
  /\ \A j \in 1..Len(requests') : RequestAfter(j)


\* The numbers of pairs that are held are numbers of pairs that were issued.
LEMMA Numbers ==
  ASSUME Typed
  PROVE  /\ Len(pairs) \in Nat /\ Len(requests) \in Nat /\ storage \in 0..Len(pairs)
         /\ \A t \in Tabs : refresh[t].token \in 0..Len(pairs) /\ refresh[t].got \in 0..Len(pairs)
         /\ \A i \in 1..Len(requests) : requests[i].got \in 0..Len(pairs)
<1>1. \A i \in 1..Len(requests) : requests[i] \in RequestType(Len(pairs))
  BY Shapes
<1>2. QED
  BY <1>1, LenProperties DEF Typed, RequestType, RefreshType

LEMMA UnusedAfter ==
  ASSUME Typed, TokensInOrder, TokensAfter, NEW g \in 1..Len(pairs), Unused(g), storage' # g
  PROVE  Unused(g)'
<1>1. pairs'[g].fate # "rotated" /\ pairs'[g].by = {}
  <2>1. PairAfter(g)
    BY DEF TokensAfter
  <2>2. QED
    BY <2>1 DEF PairAfter, Unused
<1>2. \A t \in Tabs : refresh'[t].token # g
  BY Numbers DEF TokensAfter, RefreshAfter, Unused
<1>3. QED
  BY <1>1, <1>2 DEF Unused

LEMMA NewPairsUnusedAfter ==
  ASSUME Typed, TokensInOrder, TokensAfter
  PROVE  NewPairsUnused'
<1> DEFINE n == Len(pairs)
           m == Len(requests)
<1>1. n \in Nat /\ storage \in 0..n /\ n + 1 \notin 0..n
  BY Numbers
<1>2. /\ \A j \in 1..m : requests[j].got \in 0..n
      /\ \A t \in Tabs : refresh[t].got \in 0..n /\ refresh[t].token \in 0..n
  BY Numbers
<1>3. /\ \A j \in 1..Len(requests') : RequestAfter(j)
      /\ \A t \in Tabs : RefreshAfter(t)
      /\ StorageAfter /\ NewPairKept
  BY DEF TokensAfter
<1>4. NewPairsUnused
  BY DEF TokensInOrder
<1>5. ASSUME NEW j \in 1..Len(requests'), requests'[j].got # 0
      PROVE  Unused(requests[j].got)'
  <2> DEFINE g == requests'[j].got
  <2>1. CASE g \in 1..n
    <3>1. j \in 1..m /\ g = requests[j].got
      BY <1>1, <1>3, <1>5, <2>1 DEF RequestAfter
    <3>2. Unused(g)
      BY <1>4, <1>5, <3>1 DEF NewPairsUnused
    <3>3. storage' # g
      <4>1. g # storage /\ g # 0 /\ g # n + 1
        BY <1>1, <1>5, <2>1, <3>2 DEF Unused
      <4>2. \A i \in 1..m : requests[i].got = g => requests'[i].got # 0
        BY <1>4, <1>5, <3>1 DEF NewPairsUnused
      <4>3. \A t \in Tabs : refresh[t].got # g
        BY <1>4, <1>5, <3>1 DEF NewPairsUnused
      <4>4. QED
        BY <1>3, <4>1, <4>2, <4>3 DEF StorageAfter
    <3> HIDE DEF g
    <3>4. ASSUME NEW h, h = g
          PROVE  Unused(h)'
      BY <2>1, <3>2, <3>3, <3>4, UnusedAfter
    <3>5. QED
      BY <3>4 DEF g, Unused
  <2>2. CASE g \notin 1..n
    <3>1. g = n + 1 /\ storage' = storage /\ refresh' = refresh /\ Len(pairs') = n + 1
      BY <1>1, <1>2, <1>3, <1>5, <2>2 DEF RequestAfter
    <3>2. pairs'[n + 1].fate = "kept" /\ pairs'[n + 1].by = {}
      BY <1>1, <1>3, <3>1 DEF NewPairKept
    <3>3. \A t \in Tabs : refresh'[t].token # n + 1
      BY <1>1, <1>2, <3>1
    <3>4. QED
      BY <1>1, <3>1, <3>2, <3>3 DEF Unused
  <2>3. QED
    BY <2>1, <2>2
<1>6. ASSUME NEW t \in Tabs, refresh'[t].got # 0
      PROVE  refresh'[t].stage = "issued" /\ Unused(refresh[t].got)'
  <2> DEFINE g == refresh'[t].got
  <2>1. CASE g \in 1..n
    <3>1. g = refresh[t].got /\ refresh[t].stage = "issued" /\ refresh'[t].stage = "issued"
      BY <1>1, <1>3, <1>4, <1>6, <2>1 DEF RefreshAfter, NewPairsUnused
    <3>2. Unused(g)
      BY <1>4, <1>6, <3>1 DEF NewPairsUnused
    <3>3. storage' # g
      <4>1. g # storage /\ g # 0 /\ g # n + 1
        BY <1>1, <1>6, <2>1, <3>2 DEF Unused
      <4>2. \A i \in 1..m : requests[i].got # g
        BY <1>4, <1>6, <3>1 DEF NewPairsUnused
      <4>3. \A u \in Tabs : refresh[u].got = g => refresh'[u].got # 0
        BY <1>4, <1>6, <3>1 DEF NewPairsUnused
      <4>4. QED
        BY <1>3, <4>1, <4>2, <4>3 DEF StorageAfter
    <3> HIDE DEF g
    <3>4. ASSUME NEW h, h = g
          PROVE  Unused(h)'
      BY <2>1, <3>2, <3>3, <3>4, UnusedAfter
    <3>5. QED
      BY <3>1, <3>4 DEF g, Unused
  <2>2. CASE g \notin 1..n
    <3>1. /\ g = n + 1 /\ storage' = storage /\ Len(pairs') = n + 1
          /\ refresh'[t].stage = "issued" /\ refresh'[t].token = refresh[t].token
          /\ \A u \in Tabs : u # t => refresh'[u] = refresh[u]
      BY <1>1, <1>2, <1>3, <1>6, <2>2 DEF RefreshAfter
    <3>2. pairs'[n + 1].fate = "kept" /\ pairs'[n + 1].by = {}
      BY <1>1, <1>3, <3>1 DEF NewPairKept
    <3>3. \A u \in Tabs : refresh'[u].token # n + 1
      BY <1>1, <1>2, <3>1
    <3>4. QED
      BY <1>1, <3>1, <3>2, <3>3 DEF Unused
  <2>3. QED
    BY <2>1, <2>2
<1>7. ASSUME NEW i \in 1..Len(requests'), NEW j \in 1..Len(requests'),
             requests'[i].got # 0, requests'[i].got = requests'[j].got
      PROVE  i = j
  BY <1>1, <1>2, <1>3, <1>4, <1>7 DEF RequestAfter, NewPairsUnused
<1>8. ASSUME NEW i \in 1..Len(requests'), NEW t \in Tabs, requests'[i].got # 0
      PROVE  requests'[i].got # refresh'[t].got
  BY <1>1, <1>2, <1>3, <1>4, <1>8 DEF RequestAfter, RefreshAfter, NewPairsUnused
<1>9. ASSUME NEW t \in Tabs, NEW u \in Tabs, refresh'[t].got # 0,
             refresh'[t].got = refresh'[u].got
      PROVE  t = u
  BY <1>1, <1>2, <1>3, <1>4, <1>9 DEF RefreshAfter, NewPairsUnused
<1>10. QED
  BY <1>5, <1>6, <1>7, <1>8, <1>9 DEF NewPairsUnused

LEMMA StoredBeingRotatedAfter ==
  ASSUME Typed, TokensInOrder, TokensAfter, storage' # 0
  PROVE  /\ \A t \in pairs'[storage'].by :
              refresh'[t].stage = "issued" /\ refresh'[t].token = storage'
         /\ pairs'[storage'].fate = "rotated" => pairs'[storage'].by # {}
<1> DEFINE n == Len(pairs)
<1>1. n \in Nat /\ storage \in 0..n
  BY Numbers
<1>2. CASE storage' # storage
  <2>1. /\ \A i \in 1..Len(requests) : requests[i].got # 0 => Unused(requests[i].got)
        /\ \A t \in Tabs : refresh[t].stage = "issued" => Unused(refresh[t].got)
    BY DEF TokensInOrder, NewPairsUnused, PresentedOnce
  <2>2. StorageAfter /\ NewPairKept
    BY DEF TokensAfter
  <2>3. \/ pairs' = pairs /\ \E g : g = storage' /\ Unused(g)
        \/ storage' = n + 1 /\ Len(pairs') = n + 1
    BY <1>2, <2>1, <2>2 DEF StorageAfter
  <2>4. CASE pairs' = pairs /\ \E g : g = storage' /\ Unused(g)
    BY <2>4 DEF Unused
  <2>5. CASE storage' = n + 1 /\ Len(pairs') = n + 1
    BY <1>1, <2>2, <2>5 DEF NewPairKept
  <2>6. QED
    BY <2>3, <2>4, <2>5
<1>3. CASE storage' = storage
  <2>1. PairAfter(storage)
    BY <1>1, <1>3 DEF TokensAfter
  <2>2. /\ \A t \in pairs[storage].by : refresh[t].stage = "issued" /\ refresh[t].token = storage
        /\ pairs[storage].fate = "rotated" => pairs[storage].by # {}
    BY <1>3 DEF TokensInOrder, StoredBeingRotated
  <2>3. pairs[storage].by \subseteq Tabs
    <3>1. storage \in 1..n
      BY <1>1, <1>3
    <3>2. pairs[storage] \in PairType
      BY <3>1, ElementOfSeq DEF Typed
    <3>3. QED
      BY <3>2 DEF PairType
  <2>4. ASSUME NEW t \in pairs[storage].by, t \in pairs'[storage].by
        PROVE  refresh'[t].stage = "issued" /\ refresh'[t].token = storage
    <3>1. t \in Tabs /\ refresh[t].stage = "issued" /\ refresh[t].token = storage
      BY <2>2, <2>3, <2>4
    <3>2. refresh[t].got # storage
      BY <3>1 DEF TokensInOrder, NewPairsUnused, PresentedOnce, Unused
    <3>3. RefreshAfter(t)
      BY <3>1 DEF TokensAfter
    <3>4. QED
      BY <1>3, <2>4, <3>1, <3>2, <3>3 DEF RefreshAfter
  <2>5. \A t \in pairs'[storage].by :
          refresh'[t].stage = "issued" /\ refresh'[t].token = storage
    BY <2>1, <2>4 DEF PairAfter
  <2>6. pairs'[storage].fate = "rotated" => pairs'[storage].by # {}
    BY <2>1, <2>2 DEF PairAfter
  <2>7. QED
    BY <1>3, <2>5, <2>6
<1>4. QED
  BY <1>2, <1>3

LEMMA PresentedOnceAfter ==
  ASSUME Typed, TokensInOrder, TokensAfter
  PROVE  PresentedOnce'
<1> DEFINE n == Len(pairs)
<1>1. n \in Nat /\ storage \in 0..n /\ \A t \in Tabs : refresh[t].token \in 0..n
  BY Numbers
<1>2. ASSUME NEW t \in Tabs
      PROVE  /\ refresh'[t].stage # "none" => refresh'[t].token # 0
             /\ refresh'[t].stage = "issued" => refresh'[t].got # 0
  <2>1. RefreshAfter(t) /\ PresentedOnce
    BY DEF TokensAfter, TokensInOrder
  <2>2. QED
    BY <1>1, <2>1 DEF RefreshAfter, PresentedOnce
<1>3. ASSUME NEW t \in Tabs, refresh'[t].stage \in {"sent", "found", "refused"}
      PROVE  t \notin pairs'[refresh'[t].token].by
  <2> DEFINE p == refresh'[t].token
  <2>1. RefreshAfter(t) /\ PresentedOnce /\ p # 0
    BY <1>2, <1>3 DEF TokensAfter, TokensInOrder
  <2>2. CASE p = refresh[t].token /\ refresh[t].stage \in {"sent", "found", "refused"}
    <3>1. PairAfter(p)
      BY <1>1, <2>1, <2>2 DEF TokensAfter
    <3>2. t \notin pairs[p].by
      BY <2>1, <2>2 DEF PresentedOnce, NoTabExchangesAgain
    <3> HIDE DEF p
    <3>3. t \notin pairs'[p].by
      BY <1>3, <3>1, <3>2 DEF PairAfter
    <3>4. QED
      BY <3>3 DEF p
  <2>3. CASE refresh[t].stage = "none" /\ storage # 0 /\ p = storage /\ pairs' = pairs
    BY <2>3 DEF TokensInOrder, StoredBeingRotated
  <2>4. QED
    BY <1>3, <2>1, <2>2, <2>3 DEF RefreshAfter
<1>4. QED
  BY <1>2, <1>3 DEF PresentedOnce, NoTabExchangesAgain

LEMMA TokensInOrderAfter ==
  ASSUME Typed, TokensInOrder, TokensAfter
  PROVE  TokensInOrder'
BY NewPairsUnusedAfter, StoredBeingRotatedAfter, PresentedOnceAfter
   DEF TokensInOrder, StoredBeingRotated

\* The operations on the pairs, one pair at a time.
LEMMA PairOperationsAt ==
  ASSUME Typed, NEW p \in 0..Len(pairs), NEW t \in Tabs, NEW left, p # 0 => left \in Rows,
         NEW q \in 1..Len(pairs)
  PROVE  /\ q # p => Orphaned(p, t, left)[q] = pairs[q]
         /\ q = p => /\ Orphaned(p, t, left)[q].fate = "lost"
                    /\ Orphaned(p, t, left)[q].by = pairs[q].by \ {t}
         /\ \A row \in Rows :
              /\ q # p => Rotated(p, t, left, row)[q] = pairs[q]
              /\ q = p => Rotated(p, t, left, row)[q].by = pairs[q].by \cup {t}
<1> DEFINE old == [pairs EXCEPT ![p] = Exchanged(@, t, left)]
<1>1. /\ pairs \in Seq(PairType) /\ Len(pairs) \in Nat
      /\ pairs \in [1..Len(pairs) -> PairType]
  BY LenProperties DEF Typed
<1>2. pairs[q] \in PairType
  BY <1>1
<1>3. q = p => /\ Exchanged(pairs[q], t, left) \in PairType
               /\ Exchanged(pairs[q], t, left).by = pairs[q].by \cup {t}
               /\ Unclaimed(pairs[q], t, left).by = pairs[q].by \ {t}
               /\ Unclaimed(pairs[q], t, left).fate = "lost"
  <2>1. q = p => left \in Rows
    OBVIOUS
  <2>2. \A e \in PairType, l \in Rows :
          /\ Exchanged(e, t, l) \in PairType /\ Exchanged(e, t, l).by = e.by \cup {t}
          /\ Unclaimed(e, t, l).by = e.by \ {t} /\ Unclaimed(e, t, l).fate = "lost"
    BY PairLives, Zenon
  <2>3. QED
    BY <1>2, <2>1, <2>2
<1>4. /\ q # p => Orphaned(p, t, left)[q] = pairs[q]
      /\ q = p => /\ Orphaned(p, t, left)[q].fate = "lost"
                 /\ Orphaned(p, t, left)[q].by = pairs[q].by \ {t}
  BY <1>1, <1>3 DEF Orphaned
<1>5. old[q] = IF q = p THEN Exchanged(pairs[q], t, left) ELSE pairs[q]
  BY <1>1
<1>6. old \in Seq(PairType) /\ Len(old) = Len(pairs)
  <2>1. CASE p = 0
    <3>1. old = pairs
      BY <1>1, <2>1
    <3>2. QED
      BY <1>1, <3>1
  <2>2. CASE p # 0
    <3>1. pairs[p] \in PairType
      BY <1>1, <2>2
    <3>2. Exchanged(pairs[p], t, left) \in PairType
      BY <2>2, <3>1, PairLives
    <3>3. QED
      BY <1>1, <3>2, PairChanges
  <2>3. QED
    BY <2>1, <2>2
<1>7. \A row : Rotated(p, t, left, row) = Append(old, Pair(row))
  BY DEF Rotated
<1> HIDE DEF old
<1>8. \A row \in Rows : Append(old, Pair(row))[q] = old[q]
  BY <1>1, <1>6, NewPair, AppendProperties
<1>9. QED
  BY <1>3, <1>4, <1>5, <1>7, <1>8

\* The pair that an exchange or a sign-in appends.
LEMMA PairAppended ==
  ASSUME NEW P \in Seq(PairType), NEW row \in Rows
  PROVE  /\ Len(Append(P, Pair(row))) = Len(P) + 1
         /\ Append(P, Pair(row))[Len(P) + 1].fate = "kept"
         /\ Append(P, Pair(row))[Len(P) + 1].by = {}
         /\ \A q \in 1..Len(P) : Append(P, Pair(row))[q] = P[q]
<1>1. Pair(row) \in PairType /\ Pair(row).fate = "kept" /\ Pair(row).by = {}
  BY NewPair DEF Pair
<1>2. QED
  BY <1>1, AppendProperties

LEMMA PairsAfter ==
  ASSUME Typed, [Next]_vars
  PROVE  NewPairKept /\ \A p \in 1..Len(pairs) : PairAfter(p)
<1> DEFINE n == Len(pairs)
           Goal == NewPairKept /\ \A p \in 1..n : PairAfter(p)
<1>1. /\ pairs \in Seq(PairType) /\ n \in Nat /\ pairs \in [1..n -> PairType]
      /\ 0 \in 0..n
  BY LenProperties DEF Typed
<1>2. ASSUME UNCHANGED pairs
      PROVE  Goal
  BY <1>2 DEF NewPairKept, PairAfter
<1>3. ASSUME NEW t \in Tabs,
             NEW left \in {"none", pairs[refresh[t].token].row},
             pairs' = Orphaned(refresh[t].token, t, left)
      PROVE  Goal
  <2> DEFINE p == refresh[t].token
  <2>1. p \in 0..n /\ (p # 0 => left \in Rows)
    BY RowLeft DEF Rows
  <2> HIDE DEF p
  <2>2. pairs' = Orphaned(p, t, left)
    BY <1>3 DEF p
  <2>3. Len(pairs') = n
    BY <2>1, <2>2, PairOperations
  <2>4. ASSUME NEW q \in 1..n
        PROVE  PairAfter(q)
    <3>1. /\ q # p => pairs'[q] = pairs[q]
          /\ q = p => pairs'[q].fate = "lost" /\ pairs'[q].by = pairs[q].by \ {t}
      BY <2>1, <2>2, PairOperationsAt
    <3>2. QED
      BY <3>1 DEF PairAfter
  <2>5. QED
    BY <2>3, <2>4 DEF NewPairKept
<1>4. ASSUME NEW row \in Rows, pairs' = Append(pairs, Pair(row))
      PROVE  Goal
  <2>1. /\ Len(pairs') = n + 1 /\ pairs'[n + 1].fate = "kept" /\ pairs'[n + 1].by = {}
        /\ \A q \in 1..n : pairs'[q] = pairs[q]
    BY <1>1, <1>4, PairAppended
  <2>2. QED
    BY <2>1 DEF NewPairKept, PairAfter
<1>5. ASSUME NEW t \in Tabs, RotateSession(t)
      PROVE  Goal
  <2> DEFINE p == refresh[t].token
  <2>1. p \in 0..n
    BY Numbers
  <2>2. PICK left, row \in Rows : pairs' = Rotated(p, t, left, row)
    BY <1>5, PairExchanged
  <2>3. refresh'[t].token = p /\ refresh'[t].stage = "issued"
    <3> DEFINE r == [refresh[t] EXCEPT !.stage = "issued", !.got = n + 1]
    <3>1. refresh[t] \in RefreshType(n, Len(requests))
      BY DEF Typed
    <3>2. r.token = p /\ r.stage = "issued"
      BY <3>1 DEF RefreshType
    <3>3. refresh' = [refresh EXCEPT ![t] = r]
      BY <1>5 DEF RotateSession, Typed
    <3> HIDE DEF r
    <3>4. refresh'[t] = r
      BY <3>3 DEF Typed
    <3>5. QED
      BY <3>2, <3>4
  <2>4. refresh[t].token = p
    OBVIOUS
  <2> HIDE DEF p
  <2>5. ASSUME NEW q \in 1..n
        PROVE  PairAfter(q)
    <3>1. /\ q # p => pairs'[q] = pairs[q]
          /\ q = p => pairs'[q].by = pairs[q].by \cup {t}
      BY <2>1, <2>2, PairOperationsAt
    <3>2. QED
      BY <2>3, <2>4, <3>1 DEF PairAfter
  <2>6. NewPairKept
    <3> DEFINE old == [pairs EXCEPT ![p] = Exchanged(@, t, left)]
    <3>1. old \in Seq(PairType) /\ Len(old) = n
      <4>1. CASE p = 0
        <5>1. old = pairs
          BY <1>1, <4>1
        <5>2. QED
          BY <1>1, <5>1
      <4>2. CASE p # 0
        <5>1. pairs[p] \in PairType
          BY <1>1, <2>1, <4>2
        <5>2. Exchanged(pairs[p], t, left) \in PairType
          BY <5>1, PairLives
        <5>3. QED
          BY <1>1, <2>1, <5>2, PairChanges
      <4>3. QED
        BY <4>1, <4>2
    <3>2. pairs' = Append(old, Pair(row))
      BY <2>2 DEF Rotated
    <3> HIDE DEF old
    <3>3. QED
      BY <3>1, <3>2, PairAppended DEF NewPairKept
  <2>7. QED
    BY <2>5, <2>6
<1>6. ASSUME NEW i \in 1..Len(requests), ServeRevoke(i)
      PROVE  Goal
  <2>1. CASE \E gone : pairs' = [p \in 1..n |->
                                   IF p \in gone
                                     THEN [pairs[p] EXCEPT !.row = "none", !.fate = "revoked"]
                                     ELSE pairs[p]]
    <3>1. ASSUME NEW p \in 1..n
          PROVE  pairs'[p] \in PairType /\ PairAfter(p)
      <4> DEFINE e == [pairs[p] EXCEPT !.row = "none", !.fate = "revoked"]
      <4>1. pairs'[p] = pairs[p] \/ pairs'[p] = e
        BY <2>1
      <4>2. pairs[p] \in PairType
        BY <1>1
      <4>3. e.fate = "revoked" /\ e \in PairType /\ e.by = pairs[p].by
        BY <4>2 DEF PairType, Rows
      <4> HIDE DEF e
      <4>4. QED
        BY <4>1, <4>2, <4>3 DEF PairAfter
    <3>2. pairs' = [p \in 1..n |-> pairs'[p]]
      BY <2>1
    <3>3. pairs' \in [1..n -> PairType]
      BY <3>1, <3>2
    <3>4. Len(pairs') = n
      BY <1>1, <3>3, MapSeq
    <3>5. QED
      BY <3>1, <3>4 DEF NewPairKept
  <2>2. QED
    BY <1>2, <1>6, <2>1 DEF ServeRevoke
<1>7. ASSUME Expire
      PROVE  Goal
  <2> DEFINE e == [pairs[storage] EXCEPT !.access = FALSE]
  <2>1. storage \in 1..n
    BY <1>1, <1>7 DEF Typed, Expire
  <2>2. pairs[storage] \in PairType
    BY <1>1, <2>1
  <2>3. e \in PairType /\ e.fate = pairs[storage].fate /\ e.by = pairs[storage].by
    BY <2>2 DEF PairType
  <2>4. pairs' = [pairs EXCEPT ![storage] = e]
    BY <1>1, <1>7, <2>1 DEF Expire
  <2> HIDE DEF e
  <2>5. Len(pairs') = n
    BY <1>1, <2>1, <2>3, <2>4, PairChanges
  <2>6. \A p \in 1..n : pairs'[p] = IF p = storage THEN e ELSE pairs[p]
    BY <1>1, <2>1, <2>4
  <2>7. QED
    BY <2>3, <2>5, <2>6 DEF NewPairKept, PairAfter
<1>8. ASSUME NEW t \in Tabs, RefreshFails(t) \/ Leave(t) \/ OAuthReturn(t)
      PROVE  Goal
  <2>1. \/ UNCHANGED pairs
        \/ \E left \in {"none", pairs[refresh[t].token].row} :
             pairs' = Orphaned(refresh[t].token, t, left)
        \/ \E row \in Rows : pairs' = Append(pairs, Pair(row))
    BY <1>8 DEF RefreshFails, Leave, OAuthReturn, Rows
  <2>2. QED
    BY <1>2, <1>3, <1>4, <2>1
<1>9. ASSUME NEW i \in 1..Len(requests), ServeSignIn(i)
      PROVE  Goal
  <2>1. UNCHANGED pairs \/ \E row \in Rows : pairs' = Append(pairs, Pair(row))
    BY <1>9 DEF ServeSignIn, SignedIn, Rows
  <2>2. QED
    BY <1>2, <1>4, <2>1
<1>10. QED
  BY <1>2, <1>5, <1>6, <1>7, <1>8, <1>9
     DEF Next, Answered, Refreshing, Call, Revoke, Send, SubmitLogin, SubmitRegister, SubmitCode,
         Back, FindSession, RefreshDone, Logout, Unload, Reload, ServeCall, ReceiveOk, Queue,
         StartRefresh, Reject, Lose, vars

LEMMA StorageStep ==
  ASSUME Typed, [Next]_vars
  PROVE  StorageAfter
<1> DEFINE n == Len(pairs)
           m == Len(requests)
<1>1. CASE storage' \in {0, storage}
  BY <1>1 DEF StorageAfter
<1>2. ASSUME NEW i \in 1..m, ReceiveOk(i)
      PROVE  StorageAfter
  <2>1. CASE requests[i].got = 0
    BY <1>1, <1>2, <2>1 DEF ReceiveOk
  <2>2. CASE requests[i].got # 0
    <3>1. storage' = requests[i].got /\ pairs' = pairs
      BY <1>2, <2>2 DEF ReceiveOk
    <3>2. requests'[i].got = 0
      <4> DEFINE v == Over(requests[i])
      <4>1. v.got = 0
        BY RequestFields, Shapes
      <4>2. requests' = [requests EXCEPT ![i] = v]
        BY <1>2 DEF ReceiveOk
      <4>3. requests'[i] = v
        BY <4>2, LenProperties DEF Typed
      <4>4. QED
        BY <4>1, <4>3
    <3>3. QED
      BY <2>2, <3>1, <3>2 DEF StorageAfter
  <2>3. QED
    BY <2>1, <2>2
<1>3. ASSUME NEW t \in Tabs, RefreshDone(t)
      PROVE  StorageAfter
  <2>1. /\ refresh[t].stage = "issued" /\ storage' = refresh[t].got /\ pairs' = pairs
        /\ refresh'[t].got = 0
    BY <1>3 DEF RefreshDone, NoRefresh, Typed
  <2>2. QED
    BY <2>1 DEF StorageAfter
<1>4. ASSUME NEW t \in Tabs, OAuthReturn(t)
      PROVE  StorageAfter
  <2> DEFINE r == [Over(Request(t, "login")) EXCEPT !.applied = 1]
  <2>1. requests' = Append(requests, r) /\ refresh' = refresh
    BY <1>4 DEF OAuthReturn
  <2>2. r.got = 0
    BY DEF Over, Request
  <2> HIDE DEF r
  <2>3. /\ Len(requests') = m + 1 /\ m \in Nat /\ requests'[m + 1] = r
        /\ \A j \in 1..m : requests'[j] = requests[j]
    BY <2>1, RequestAppended
  <2>4. Len(pairs') = n + 1 /\ storage' = n + 1 /\ n \in Nat
    <3>1. pairs' = Append(pairs, Pair("short")) /\ storage' = Len(pairs')
      BY <1>4 DEF OAuthReturn
    <3>2. QED
      BY <3>1, NewPair, AppendProperties, Numbers DEF Typed, Rows
  <2>5. \A j \in 1..Len(requests') : requests'[j].got # n + 1
    BY <2>2, <2>3, <2>4, Numbers
  <2>6. QED
    BY <2>1, <2>4, <2>5 DEF StorageAfter
<1>5. QED
  BY <1>1, <1>2, <1>3, <1>4
     DEF Next, Answered, Refreshing, Call, Revoke, Send, SubmitLogin, SubmitRegister, SubmitCode,
         Back, FindSession, RotateSession, RefreshFails, Logout, Unload, Reload, ServeCall,
         ServeRevoke, ServeSignIn, Queue, StartRefresh, Reject, Lose, Expire, vars

LEMMA RequestsAfter ==
  ASSUME Typed, [Next]_vars, NEW j \in 1..Len(requests')
  PROVE  RequestAfter(j)
<1> DEFINE n == Len(pairs)
           m == Len(requests)
<1>1. m \in Nat /\ n \in Nat /\ \A i \in 1..m : requests[i].got \in 0..n
  BY Numbers
<1>2. CASE requests' = requests
  BY <1>2 DEF RequestAfter
<1>3. ASSUME NEW r, requests' = Append(requests, r), r.got = 0
      PROVE  RequestAfter(j)
  BY <1>1, <1>3, RequestAppended DEF RequestAfter
<1>4. ASSUME NEW t \in Tabs, NEW kind, Send(t, kind)
      PROVE  RequestAfter(j)
  <2> DEFINE r == Request(t, kind)
  <2>1. requests' = Append(requests, r) /\ r.got = 0
    BY <1>4 DEF Send, Request
  <2> HIDE DEF r
  <2>2. QED
    BY <1>3, <2>1
<1>5. ASSUME NEW t \in Tabs, OAuthReturn(t)
      PROVE  RequestAfter(j)
  <2> DEFINE r == [Over(Request(t, "login")) EXCEPT !.applied = 1]
  <2>1. requests' = Append(requests, r)
    BY <1>5 DEF OAuthReturn
  <2>2. r.got = 0
    BY DEF Over, Request
  <2> HIDE DEF r
  <2>3. QED
    BY <1>3, <2>1, <2>2
<1>6. ASSUME NEW i \in 1..m, Answered(i) \/ Lose(i)
      PROVE  RequestAfter(j)
  <2> DEFINE r == requests[i]
             done == [r EXCEPT !.phase = "ok", !.applied = @ + 1]
             signedIn == [r EXCEPT !.phase = "ok", !.got = n + 1, !.applied = @ + 1]
             phased(phase) == [r EXCEPT !.phase = phase]
             holding == [r EXCEPT !.phase = "holder", !.retried = TRUE]
  <2>1. /\ Len(requests') = m /\ \A k \in 1..m : k # i => requests'[k] = requests[k]
        /\ \/ requests'[i] = Over(r) \/ requests'[i] = done
           \/ \E phase : requests'[i] = phased(phase)
           \/ requests'[i] = holding
           \/ requests'[i] = signedIn /\ Len(pairs') = n + 1 /\ refresh' = refresh
    BY <1>6, RequestsHandled, Zenon DEF Handled
  <2>2. r \in RequestType(n)
    BY Shapes
  <2>3. Over(r).got = 0 /\ done.got = r.got
    BY <2>2, RequestFields
  <2>4. signedIn.got = n + 1 /\ holding.got = r.got
    BY <2>2, RequestFields
  <2>5. \A phase : phased(phase).got = r.got
    BY <2>2, RequestFields
  <2>6. Len(pairs') = n + 1 => storage' = storage
    <3>1. pairs' = pairs \/ storage' = storage
      BY <1>6
         DEF Answered, Lose, ServeCall, ServeRevoke, ServeSignIn, ReceiveOk, Queue, StartRefresh,
             Reject
    <3>2. QED
      BY <1>1, <3>1
  <2> HIDE DEF done, signedIn, phased, holding
  <2>7. CASE requests'[i].got \in {0, r.got}
    BY <2>1, <2>7 DEF RequestAfter
  <2>8. CASE requests'[i].got = n + 1 /\ Len(pairs') = n + 1 /\ refresh' = refresh
    <3>1. \A k \in 1..m : k # i => requests'[k].got # n + 1
      BY <1>1, <2>1
    <3>2. QED
      BY <2>1, <2>6, <2>8, <3>1 DEF RequestAfter
  <2>9. QED
    BY <2>1, <2>3, <2>4, <2>5, <2>7, <2>8
<1>7. ASSUME NEW t \in Tabs, Released(t)
      PROVE  RequestAfter(j)
  <2>1. j \in 1..m /\ ReleasedOne(t, j) /\ requests[j] \in RequestType(n)
    BY <1>7, Shapes DEF Released
  <2> DEFINE again == [requests[j] EXCEPT !.phase = "sent", !.token = refresh[t].got]
             dropped == [requests[j] EXCEPT !.phase = "dropped"]
  <2>2. again.got = requests[j].got
    BY <2>1, RequestFields
  <2>3. dropped.got = requests[j].got
    BY <2>1, RequestFields
  <2>4. Over(requests[j]).got = 0
    BY <2>1, RequestFields
  <2>5. \/ requests'[j] = requests[j] \/ requests'[j] = Over(requests[j])
        \/ requests'[j] = again \/ requests'[j] = dropped
    BY <2>1, Zenon DEF ReleasedOne
  <2> HIDE DEF again, dropped
  <2>6. QED
    BY <2>1, <2>2, <2>3, <2>4, <2>5 DEF RequestAfter
<1>8. QED
  BY <1>2, <1>4, <1>5, <1>6, <1>7, RequestsReleased
     DEF Next, Refreshing, Call, Revoke, SubmitLogin, SubmitRegister, SubmitCode, Unload, Reload,
         FindSession, RotateSession, Back, Logout, Expire, vars

LEMMA RefreshesAfter ==
  ASSUME Typed, PresentedOnce, [Next]_vars, NEW u \in Tabs
  PROVE  RefreshAfter(u)
<1> DEFINE n == Len(pairs)
           m == Len(requests)
<1>1. /\ refresh \in [Tabs -> RefreshType(n, m)] /\ n \in Nat
      /\ refresh[u].token \in 0..n
  BY Numbers DEF Typed
<1>2. ASSUME refresh'[u] = refresh[u]
      PROVE  RefreshAfter(u)
  BY <1>2 DEF RefreshAfter
<1>3. ASSUME FindSession(u)
      PROVE  RefreshAfter(u)
  <2> DEFINE r == [refresh[u] EXCEPT !.stage =
                     IF Usable(refresh[u].token) THEN "found" ELSE "refused"]
  <2>1. refresh[u].stage = "sent" /\ refresh' = [refresh EXCEPT ![u] = r]
    BY <1>1, <1>3 DEF FindSession
  <2>2. r.token = refresh[u].token /\ r.got = refresh[u].got /\ r.stage \in {"found", "refused"}
    BY <1>1 DEF RefreshType
  <2> HIDE DEF r
  <2>3. refresh'[u] = r
    BY <1>1, <2>1
  <2>4. QED
    BY <2>1, <2>2, <2>3 DEF RefreshAfter
<1>4. ASSUME RotateSession(u)
      PROVE  RefreshAfter(u)
  <2> DEFINE r == [refresh[u] EXCEPT !.stage = "issued", !.got = n + 1]
  <2>1. /\ refresh[u].stage = "found" /\ storage' = storage /\ requests' = requests
        /\ refresh' = [refresh EXCEPT ![u] = r]
    BY <1>1, <1>4 DEF RotateSession
  <2>2. r.token = refresh[u].token /\ r.got = n + 1 /\ r.stage = "issued"
    BY <1>1 DEF RefreshType
  <2> HIDE DEF r
  <2>3. refresh'[u] = r /\ \A t \in Tabs : t # u => refresh'[t] = refresh[t]
    BY <1>1, <2>1
  <2>4. Len(pairs') = n + 1
    BY <1>4, PairExchanged
  <2>5. QED
    BY <2>1, <2>2, <2>3, <2>4 DEF RefreshAfter
<1>5. ASSUME NEW i \in 1..m, StartRefresh(i)
      PROVE  RefreshAfter(u)
  <2> DEFINE r == [stage |-> "sent", holder |-> i, token |-> storage, got |-> 0]
             t == requests[i].tab
  <2>1. /\ refresh[t].stage = "none" /\ storage # 0 /\ storage' = storage /\ pairs' = pairs
        /\ refresh' = [refresh EXCEPT ![t] = r]
    BY <1>5 DEF StartRefresh
  <2>2. r.stage = "sent" /\ r.token = storage /\ r.got = 0
    OBVIOUS
  <2> HIDE DEF r, t
  <2>3. refresh'[u] = IF u = t THEN r ELSE refresh[u]
    BY <1>1, <2>1
  <2>4. QED
    BY <1>2, <2>1, <2>2, <2>3 DEF RefreshAfter
<1>6. ASSUME NEW t \in Tabs, RefreshDone(t) \/ RefreshFails(t) \/ Leave(t)
      PROVE  RefreshAfter(u)
  <2>1. refresh' = [refresh EXCEPT ![t] = NoRefresh]
    BY <1>6 DEF RefreshDone, RefreshFails, Leave
  <2>2. CASE u # t
    BY <1>1, <1>2, <2>1, <2>2
  <2>3. CASE u = t
    <3>1. refresh'[u].stage = "none" /\ refresh'[u].token = 0 /\ refresh'[u].got = 0
      BY <1>1, <2>1, <2>3 DEF NoRefresh
    <3>2. ASSUME refresh[u].stage = "issued"
          PROVE  storage' \in {0, refresh[u].got} \/ u \notin pairs'[refresh[u].token].by
      <4>1. CASE RefreshDone(t) \/ RefreshFails(t)
        BY <2>3, <4>1 DEF RefreshDone, RefreshFails
      <4>2. CASE Leave(t)
        <5> DEFINE p == refresh[u].token
                   left == pairs[p].row
        <5>1. pairs' = Orphaned(p, u, left)
          BY <2>3, <3>2, <4>2 DEF Leave
        <5>2. p \in 1..n /\ p \in 0..n /\ left \in Rows
          BY <1>1, <3>2, RowLeft DEF PresentedOnce
        <5> HIDE DEF p, left
        <5>3. pairs'[p].by = pairs[p].by \ {u}
          BY <5>1, <5>2, PairOperationsAt
        <5>4. QED
          BY <5>3 DEF p
      <4>3. QED
        BY <1>6, <4>1, <4>2
    <3>3. QED
      BY <3>1, <3>2 DEF RefreshAfter
  <2>4. QED
    BY <2>2, <2>3
<1>7. ASSUME NEW t \in Tabs, t # u, FindSession(t) \/ RotateSession(t)
      PROVE  RefreshAfter(u)
  <2>1. \E r : refresh' = [refresh EXCEPT ![t] = r]
    BY <1>1, <1>7 DEF FindSession, RotateSession
  <2>2. QED
    BY <1>1, <1>2, <1>7, <2>1
<1>8. QED
  BY <1>2, <1>3, <1>4, <1>5, <1>6, <1>7
     DEF Next, Answered, Refreshing, Call, Revoke, Send, SubmitLogin, SubmitRegister, SubmitCode,
         Back, Logout, Unload, Reload, OAuthReturn, ServeCall, ServeRevoke, ServeSignIn, ReceiveOk,
         Queue, Reject, Lose, Expire, vars

LEMMA InitTokensInOrder == Init => TokensInOrder
<1> SUFFICES ASSUME Init PROVE TokensInOrder
  OBVIOUS
<1>1. /\ storage = 1 /\ pairs[1].fate = "kept" /\ pairs[1].by = {} /\ Len(requests) = 0
      /\ \A t \in Tabs : refresh[t].got = 0 /\ refresh[t].stage = "none"
  BY DEF Init, Pair, NoRefresh
<1>2. QED
  BY <1>1 DEF TokensInOrder, NewPairsUnused, StoredBeingRotated, PresentedOnce, NoTabExchangesAgain

LEMMA TokensInOrderHolds == Spec => []TokensInOrder
<1>1. Init => TokensInOrder
  BY InitTokensInOrder
<1>2. Typed /\ TokensInOrder /\ [Next]_vars => TokensInOrder'
  <2> SUFFICES ASSUME Typed, TokensInOrder, [Next]_vars PROVE TokensInOrder'
    OBVIOUS
  <2>1. PresentedOnce
    BY DEF TokensInOrder
  <2>2. TokensAfter
    BY <2>1, PairsAfter, StorageStep, RefreshesAfter, RequestsAfter DEF TokensAfter
  <2>3. QED
    BY <2>2, TokensInOrderAfter
<1>3. QED
  BY <1>1, <1>2, Typing, PTL DEF Spec

\* No tab presents a refresh token again that it exchanged for a pair it got, or is
\* waiting for: its requests share one refresh, and the next one starts from the
\* token stored last (isRefreshing, refreshQueue and setTokens, client.ts:29-102).
\* Two tabs may exchange one token (AuthService.Refresh, auth_service.go:243-277).
THEOREM NoTabPresentsATokenTwice == Spec => []NoTabExchangesAgain
<1>1. TokensInOrder => NoTabExchangesAgain
  BY DEF TokensInOrder, PresentedOnce
<1>2. QED
  BY <1>1, TokensInOrderHolds, PTL

\* The refresh token in localStorage is one the server takes, but for a row that was
\* never written, expired, was revoked or rotated for a page that is gone, or is
\* being rotated now (auth.store.ts, client.ts:52-102).
THEOREM TheStoredTokenServes == Spec => []StoredTokenUsable
<1>1. Typed /\ TokensInOrder => StoredTokenUsable
  <2> SUFFICES ASSUME Typed, TokensInOrder, storage # 0 PROVE StoredTokenUsable
    BY DEF StoredTokenUsable
  <2>1. pairs[storage] \in PairType
    BY ElementOfSeq, Numbers DEF Typed
  <2>2. pairs[storage].row \in {"short", "long", "none"}
    BY <2>1 DEF PairType, Rows
  <2>3. pairs[storage].fate \in {"kept", "rotated", "lost", "revoked"}
    BY <2>1 DEF PairType
  <2>4. pairs[storage].by \subseteq Tabs
    BY <2>1 DEF PairType
  <2>5. QED
    BY <2>2, <2>3, <2>4 DEF TokensInOrder, StoredBeingRotated, StoredTokenUsable, Usable
<1>2. QED
  BY <1>1, TokensInOrderHolds, Typing, PTL
=============================================================================
