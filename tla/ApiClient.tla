------------------------------ MODULE ApiClient ------------------------------
(***************************************************************************)
(* The session of the panel in the tabs of one browser: the interceptors   *)
(* of lib/api/client.ts, which attach the stored access token, refresh it  *)
(* when a request is refused and replay what was refused; the store of     *)
(* lib/stores/auth.store.ts, kept in every tab and in localStorage; the    *)
(* pages that sign in and out; and the token pairs and session rows of the *)
(* auth service (services/auth/internal/service/auth_service.go), where a  *)
(* refresh exchanges the pair and deletes the row, if it can.              *)
(*                                                                         *)
(* localStorage is shared by the tabs and written by whole; the store in   *)
(* authentic, isRefreshing and refreshQueue belong to a tab.               *)
(***************************************************************************)
EXTENDS Naturals, Sequences

CONSTANTS
  Tabs,          \* the tabs of the browser
  MaxRequests,   \* requests sent in a behaviour, replays not counted
  MaxMishaps     \* requests and answers lost, pages reloaded, and rows not
                 \* written or not deleted, together

ASSUME ClientAssumption ==
  MaxRequests \in Nat /\ MaxMishaps \in Nat

VARIABLES
  pairs,      \* the token pairs issued, in order, with their session rows
  storage,    \* the pair in localStorage under "xp-auth", 0 for none
  authentic,  \* isAuthenticated in the store of each tab, whose tokens nobody reads
  mfa,        \* whether the tab asks for the code of a second factor
  leaving,    \* whether location.href was assigned: the tab is about to unload
  refresh,    \* the refresh each tab has on its way
  requests,   \* the requests sent through apiClient
  mishaps

vars == <<pairs, storage, authentic, mfa, leaving, refresh, requests, mishaps>>

-----------------------------------------------------------------------------
(* Token pairs.  "access" says that the access token has not expired;      *)
(* "row" is the session row of the refresh token: "short" when it expires  *)
(* with the access token (expires_at = pair.ExpiresAt, as sign-in writes   *)
(* it), "long" when it has seven days (as a refresh writes it), "none"     *)
(* when there is no row.  "fate" records what became of the row:           *)
(* "rotated" into a new pair, "lost" when the page never got that pair,    *)
(* "revoked" by the user; "by" the tabs that exchanged the refresh token   *)
(* and got the new pair, or are about to.                                  *)

Pair(row) == [access |-> TRUE, row |-> row, fate |-> "kept", by |-> {}]

Usable(p) == pairs[p].row = "long" \/ (pairs[p].row = "short" /\ pairs[p].access)

\* The pair q once the tab t has exchanged it; "left" is the row by then.
Exchanged(q, t, left) ==
  [ access |-> q.access, row |-> left, by |-> q.by \cup {t},
    fate |-> IF left = "none" THEN "rotated" ELSE q.fate ]

\* mutation: the row is deleted, and no pair is issued.
RotatedAway(p, t, left, row) == [pairs EXCEPT ![p] = Exchanged(@, t, left)]

\* Refresh deletes the row of the token and issues a pair with a row of its own.
\* It looks at neither error: the old row may stay, the new one be missing.
Rotated(p, t, left, row) == Append([pairs EXCEPT ![p] = Exchanged(@, t, left)], Pair(row))

\* The tab t will not get the pair its refresh token, of q, was exchanged for.
Unclaimed(q, t, left) ==
  [access |-> q.access, row |-> left, by |-> q.by \ {t}, fate |-> "lost"]

Orphaned(p, t, left) == [pairs EXCEPT ![p] = Unclaimed(@, t, left)]

-----------------------------------------------------------------------------
(* Requests: "call" stands for any call of the panel's pages, "revoke" for *)
(* the revocation of sessions, the others sign in.  A request is "sent",   *)
(* answered "ok" or "denied" (401, or 403 for missing permissions), held   *)
(* up by a refresh as its "holder" or "queued" behind it, or "over":       *)
(* resolved, rejected, or gone with its page.  A request is "dropped" when *)
(* the queue is emptied under it: its promise never settles.               *)

Waiting  == {"sent", "ok", "denied", "holder", "queued", "dropped"}
SignIns  == {"login", "verify", "register"}

\* The routes that sign in look at no token.
Request(t, kind) ==
  [ tab |-> t, kind |-> kind, token |-> IF kind \in SignIns THEN 0 ELSE storage, retried |-> FALSE,
    phase |-> "sent", got |-> 0, applied |-> 0 ]

\* Nothing of a request that is over is looked at again.
Over(r) ==
  [r EXCEPT !.phase = "over", !.kind = "call", !.token = 0, !.retried = FALSE, !.got = 0]

Send(t, kind) ==
  /\ Len(requests) < MaxRequests /\ ~leaving[t]
  /\ requests' = Append(requests, Request(t, kind))
  /\ UNCHANGED <<pairs, storage, authentic, mfa, leaving, refresh, mishaps>>

\* A panel page is rendered only while the store of its tab is authenticated.
Call(t) == authentic[t] /\ Send(t, "call")

\* settings/security: "Revoke all others", or the button of another session.
Revoke(t) == authentic[t] /\ Send(t, "revoke")

\* The auth pages are left for the dashboard as soon as the store is authenticated.
SubmitLogin(t)    == ~authentic[t] /\ ~mfa[t] /\ Send(t, "login")
SubmitRegister(t) == ~authentic[t] /\ ~mfa[t] /\ Send(t, "register")
SubmitCode(t)     == ~authentic[t] /\ mfa[t] /\ Send(t, "verify")

Back(t) ==
  /\ mfa[t]
  /\ mfa' = [mfa EXCEPT ![t] = FALSE]
  /\ UNCHANGED <<pairs, storage, authentic, leaving, refresh, requests, mishaps>>

-----------------------------------------------------------------------------
(* The server.                                                             *)

Authorized(r) == r.token # 0 /\ pairs[r.token].access

\* The gateway passes on a call with a valid token, unless a permission is
\* missing among its claims; the service behind it may answer with an error.
ServeCall(i) ==
  /\ requests[i].phase = "sent" /\ requests[i].kind = "call"
  /\ \/ /\ Authorized(requests[i])
        /\ requests' = [requests EXCEPT ![i].phase = "ok", ![i].applied = @ + 1]
     \/ requests' = [requests EXCEPT ![i].phase = "denied"]
     \/ Authorized(requests[i]) /\ requests' = [requests EXCEPT ![i] = Over(@)]
  /\ UNCHANGED <<pairs, storage, authentic, mfa, leaving, refresh, mishaps>>

\* The rows of the user go, all of them or one, except that of the session the
\* access token names.
ServeRevoke(i) ==
  LET r == requests[i]
      others == {p \in 1..Len(pairs) : p # r.token /\ pairs[p].row # "none"}
  IN /\ r.phase = "sent" /\ r.kind = "revoke"
     /\ IF Authorized(r)
          THEN /\ \E gone \in {others} \cup {{p} : p \in others} :
                    pairs' = [p \in 1..Len(pairs) |->
                                IF p \in gone
                                  THEN [pairs[p] EXCEPT !.row = "none", !.fate = "revoked"]
                                  ELSE pairs[p]]
               /\ requests' = [requests EXCEPT ![i].phase = "ok", ![i].applied = @ + 1]
          ELSE /\ requests' = [requests EXCEPT ![i].phase = "denied"]
               /\ UNCHANGED pairs
     /\ UNCHANGED <<storage, authentic, mfa, leaving, refresh, mishaps>>

\* A pair with the row of a sign-in; none is written after a second factor
\* (mfa.go:94) or when the INSERT fails.
SignedIn(i, row) ==
  /\ pairs' = Append(pairs, Pair(row))
  /\ requests' = [requests EXCEPT ![i].phase = "ok", ![i].got = Len(pairs) + 1,
                                  ![i].applied = @ + 1]

\* A wrong password is answered 401, and so is a temporary token that has
\* expired; a locked account 429, a taken name 409 and a wrong code 400.
ServeSignIn(i) ==
  LET r == requests[i] IN
  /\ r.phase = "sent" /\ r.kind \in SignIns
  /\ \/ SignedIn(i, IF r.kind = "verify" THEN "none" ELSE "short")
     \/ /\ r.kind = "login"
        /\ requests' = [requests EXCEPT ![i].phase = "ok"] /\ UNCHANGED pairs
     \/ /\ r.kind # "register"
        /\ requests' = [requests EXCEPT ![i].phase = "denied"] /\ UNCHANGED pairs
     \/ requests' = [requests EXCEPT ![i] = Over(@)] /\ UNCHANGED pairs
  /\ UNCHANGED <<storage, authentic, mfa, leaving, refresh, mishaps>>

\* The stored access token expires; Bound: one that was replaced does not.
Expire ==
  /\ storage # 0 /\ pairs[storage].access
  /\ pairs' = [pairs EXCEPT ![storage].access = FALSE]
  /\ UNCHANGED <<storage, authentic, mfa, leaving, refresh, requests, mishaps>>

\* mutation: an error of the network is taken for a 401.
LoseAndReplay(i) ==
  /\ requests[i].phase \in {"sent", "ok", "denied"} /\ mishaps < MaxMishaps
  /\ requests' = [requests EXCEPT ![i].phase = "denied"]
  /\ mishaps' = mishaps + 1
  /\ UNCHANGED <<pairs, storage, authentic, mfa, leaving, refresh>>

\* The request or its answer does not arrive within 30 s.
Lose(i) ==
  /\ requests[i].phase \in {"sent", "ok", "denied"} /\ mishaps < MaxMishaps
  /\ requests' = [requests EXCEPT ![i] = Over(@)]
  /\ mishaps' = mishaps + 1
  /\ UNCHANGED <<pairs, storage, authentic, mfa, leaving, refresh>>

-----------------------------------------------------------------------------
(* The answers.                                                            *)

\* setTokens writes the store of the tab and, whole, localStorage.  A login
\* answered with mfaRequired brings the page to ask for the code.
ReceiveOk(i) ==
  LET r == requests[i] IN
  /\ r.phase = "ok"
  /\ requests' = [requests EXCEPT ![i] = Over(@)]
  /\ IF r.got = 0 THEN UNCHANGED <<storage, authentic>>
     ELSE storage' = r.got /\ authentic' = [authentic EXCEPT ![r.tab] = TRUE]
  /\ mfa' = [mfa EXCEPT ![r.tab] = IF r.kind \in SignIns THEN r.got = 0 ELSE @]
  /\ UNCHANGED <<pairs, leaving, refresh, mishaps>>

NoRefresh == [stage |-> "none", holder |-> 0, token |-> 0, got |-> 0]

\* Behind a refresh of its tab a request waits, without being marked as retried.
Queue(i) ==
  LET r == requests[i] IN
  /\ r.phase = "denied" /\ ~r.retried /\ refresh[r.tab].stage # "none"
  /\ requests' = [requests EXCEPT ![i].phase = "queued"]
  /\ UNCHANGED <<pairs, storage, authentic, mfa, leaving, refresh, mishaps>>

\* mutation: the refresh is asked for with the pair the request was sent with.
StartRefreshOfRequest(i) ==
  LET r == requests[i] IN
  /\ r.phase = "denied" /\ ~r.retried /\ refresh[r.tab].stage = "none" /\ storage # 0
  /\ refresh' = [refresh EXCEPT ![r.tab] =
                   [ stage |-> "sent", holder |-> i,
                     token |-> IF r.token = 0 THEN storage ELSE r.token, got |-> 0 ]]
  /\ requests' = [requests EXCEPT ![i].phase = "holder", ![i].retried = TRUE]
  /\ UNCHANGED <<pairs, storage, authentic, mfa, leaving, mishaps>>

\* The refresh is asked for with the token in localStorage at this moment.
StartRefresh(i) ==
  LET r == requests[i] IN
  /\ r.phase = "denied" /\ ~r.retried /\ refresh[r.tab].stage = "none" /\ storage # 0
  /\ refresh' = [refresh EXCEPT ![r.tab] =
                   [stage |-> "sent", holder |-> i, token |-> storage, got |-> 0]]
  /\ requests' = [requests EXCEPT ![i].phase = "holder", ![i].retried = TRUE]
  /\ UNCHANGED <<pairs, storage, authentic, mfa, leaving, mishaps>>

\* mutation: without a stored token the interceptor returns, and nothing settles
\* the request.
RejectReplays(i) ==
  /\ requests[i].phase = "denied" /\ requests[i].retried
  /\ requests' = [requests EXCEPT ![i] = Over(@)]
  /\ UNCHANGED <<pairs, storage, authentic, mfa, leaving, refresh, mishaps>>

\* Without a stored token, and after a replay that was refused again, the
\* request is rejected; the first also sends the tab to the login page.
Reject(i) ==
  LET r == requests[i] IN
  /\ r.phase = "denied"
  /\ \/ /\ r.retried /\ UNCHANGED leaving
     \/ /\ ~r.retried /\ refresh[r.tab].stage = "none" /\ storage = 0
        /\ leaving' = [leaving EXCEPT ![r.tab] = TRUE]
  /\ requests' = [requests EXCEPT ![i] = Over(@)]
  /\ UNCHANGED <<pairs, storage, authentic, mfa, refresh, mishaps>>

-----------------------------------------------------------------------------
(* A refresh.  The server finds the session of the token and rotates it,   *)
(* in two statements; two refreshes with one token may both find it.       *)

FindSession(t) ==
  /\ refresh[t].stage = "sent"
  /\ refresh' = [refresh EXCEPT ![t].stage =
                   IF Usable(refresh[t].token) THEN "found" ELSE "refused"]
  /\ UNCHANGED <<pairs, storage, authentic, mfa, leaving, requests, mishaps>>

RotateSession(t) ==
  /\ refresh[t].stage = "found"
  /\ \E deleted, written \in BOOLEAN :
       LET p == refresh[t].token
           left == IF deleted THEN "none" ELSE pairs[p].row
           row == IF written THEN "long" ELSE "none"
       IN /\ pairs' = Rotated(p, t, left, row)
          /\ \/ deleted /\ written /\ UNCHANGED mishaps
             \/ (~deleted \/ ~written) /\ mishaps < MaxMishaps /\ mishaps' = mishaps + 1
  /\ refresh' = [refresh EXCEPT ![t].stage = "issued", ![t].got = Len(pairs) + 1]
  /\ UNCHANGED <<storage, authentic, mfa, leaving, requests>>

Replayed(t, i) ==
  \/ requests[i].phase = "queued" /\ requests[i].tab = t
  \/ refresh[t].holder = i

\* mutation: the access token is stored, and the refresh token that was used up
\* stays.
RefreshDoneKeepsToken(t) ==
  /\ refresh[t].stage = "issued"
  /\ requests' = [i \in 1..Len(requests) |->
                    IF Replayed(t, i)
                      THEN [requests[i] EXCEPT !.phase = "sent", !.token = refresh[t].got]
                      ELSE requests[i]]
  /\ refresh' = [refresh EXCEPT ![t] = NoRefresh]
  /\ UNCHANGED <<pairs, storage, authentic, mfa, leaving, mishaps>>

\* localStorage is written, the queue and the holder are sent again with the
\* new token; the store in memory is not told.
RefreshDone(t) ==
  /\ refresh[t].stage = "issued"
  /\ storage' = refresh[t].got
  /\ requests' = [i \in 1..Len(requests) |->
                    IF Replayed(t, i)
                      THEN [requests[i] EXCEPT !.phase = "sent", !.token = refresh[t].got]
                      ELSE requests[i]]
  /\ refresh' = [refresh EXCEPT ![t] = NoRefresh]
  /\ UNCHANGED <<pairs, authentic, mfa, leaving, mishaps>>

\* mutation: the queue is left as it is when the refresh is refused.
RefreshFailsAlone(t) ==
  LET r == refresh[t] IN
  /\ r.stage = "refused"
  /\ storage' = 0
  /\ requests' = [requests EXCEPT ![r.holder] = Over(@)]
  /\ leaving' = [leaving EXCEPT ![t] = TRUE]
  /\ refresh' = [refresh EXCEPT ![t] = NoRefresh]
  /\ UNCHANGED <<pairs, authentic, mfa, mishaps>>

\* Refused, or not answered: the queue is emptied, localStorage too, whatever
\* it holds by then, and the tab goes to the login page.
RefreshFails(t) ==
  LET r == refresh[t] IN
  /\ \/ /\ r.stage = "refused" /\ UNCHANGED <<pairs, mishaps>>
     \/ /\ r.stage \in {"sent", "found", "issued"} /\ mishaps < MaxMishaps
        /\ mishaps' = mishaps + 1
        /\ pairs' = IF r.stage = "issued" THEN Orphaned(r.token, t, pairs[r.token].row)
                     ELSE pairs
  /\ storage' = 0
  /\ requests' = [i \in 1..Len(requests) |->
                    IF r.holder = i THEN Over(requests[i])
                    ELSE IF Replayed(t, i) THEN [requests[i] EXCEPT !.phase = "dropped"]
                    ELSE requests[i]]
  /\ leaving' = [leaving EXCEPT ![t] = TRUE]
  /\ refresh' = [refresh EXCEPT ![t] = NoRefresh]
  /\ UNCHANGED <<authentic, mfa>>

-----------------------------------------------------------------------------
(* Pages.                                                                  *)

\* "Sign out" of the top bar: the store is emptied, in memory and in
\* localStorage; the server is not told.
Logout(t) ==
  /\ authentic[t] /\ ~leaving[t]
  /\ authentic' = [authentic EXCEPT ![t] = FALSE]
  /\ storage' = 0
  /\ leaving' = [leaving EXCEPT ![t] = TRUE]
  /\ UNCHANGED <<pairs, mfa, refresh, requests, mishaps>>

\* A document is left: what it waited for is gone with it, and the next one
\* reads its store from localStorage.  A refresh that had reached the server is
\* carried out all the same, for nobody, and deletes the row if it can.
Leave(t) ==
  LET r == refresh[t] IN
  /\ \/ r.stage = "issued" /\ pairs' = Orphaned(r.token, t, pairs[r.token].row)
     \/ /\ r.stage \in {"sent", "found"} /\ Usable(r.token)
        /\ pairs' = Orphaned(r.token, t, "none")
     \/ r.stage # "issued" /\ UNCHANGED pairs
  /\ requests' = [i \in 1..Len(requests) |->
                    IF requests[i].tab = t /\ requests[i].phase \in Waiting
                      THEN Over(requests[i]) ELSE requests[i]]
  /\ authentic' = [authentic EXCEPT ![t] = storage # 0]
  /\ mfa' = [mfa EXCEPT ![t] = FALSE]
  /\ leaving' = [leaving EXCEPT ![t] = FALSE]
  /\ refresh' = [refresh EXCEPT ![t] = NoRefresh]

Unload(t) == leaving[t] /\ Leave(t) /\ UNCHANGED <<storage, mishaps>>

\* The user reloads, or follows a plain link such as those of the user menu.
Reload(t) ==
  /\ ~leaving[t] /\ mishaps < MaxMishaps /\ mishaps' = mishaps + 1
  /\ Leave(t) /\ UNCHANGED storage

\* The tab comes back from a provider with a pair in the address.
OAuthReturn(t) ==
  /\ ~authentic[t] /\ ~leaving[t] /\ Len(requests) < MaxRequests
  /\ \A i \in 1..Len(requests) : requests[i].tab = t => requests[i].phase \notin Waiting
  /\ pairs' = Append(pairs, Pair("short"))
  /\ storage' = Len(pairs')
  /\ authentic' = [authentic EXCEPT ![t] = TRUE]
  /\ mfa' = [mfa EXCEPT ![t] = FALSE]
  /\ requests' = Append(requests,
       [Over(Request(t, "login")) EXCEPT !.applied = 1])
  /\ UNCHANGED <<leaving, refresh, mishaps>>

-----------------------------------------------------------------------------
\* Signed in, in every tab, by one sign-in.
Init ==
  /\ pairs = <<Pair("short")>>
  /\ storage = Len(pairs)
  /\ authentic = [t \in Tabs |-> TRUE]
  /\ mfa = [t \in Tabs |-> FALSE] /\ leaving = [t \in Tabs |-> FALSE]
  /\ refresh = [t \in Tabs |-> NoRefresh]
  /\ requests = <<>> /\ mishaps = 0

Refreshing(t) == FindSession(t) \/ RotateSession(t) \/ RefreshDone(t) \/ RefreshFails(t)

Answered(i) ==
  \/ ServeCall(i) \/ ServeRevoke(i) \/ ServeSignIn(i)
  \/ ReceiveOk(i) \/ Queue(i) \/ StartRefresh(i) \/ Reject(i)

Next ==
  \/ \E t \in Tabs :
       \/ Call(t) \/ Revoke(t)
       \/ SubmitLogin(t) \/ SubmitRegister(t) \/ SubmitCode(t) \/ Back(t)
       \/ Refreshing(t) \/ Logout(t) \/ Unload(t) \/ Reload(t) \/ OAuthReturn(t)
  \/ \E i \in 1..Len(requests) : Answered(i) \/ Lose(i)
  \/ Expire

\* The server answers what reached it, scripts run, and a navigation begun is
\* carried out: one of these steps is taken as long as there is one to take.
\* What the user does is not fair.
Progress ==
  \/ \E i \in 1..Len(requests) : Answered(i)
  \/ \E t \in Tabs : Refreshing(t) \/ Unload(t)

Spec == Init /\ [][Next]_vars /\ WF_vars(Progress)

-----------------------------------------------------------------------------
(* Properties.                                                             *)

\* Every token a store, a request or a refresh holds is one that was issued, and
\* the tab and request behind it exist.
TypeOK ==
  /\ \A p \in 1..Len(pairs) :
       pairs[p] \in [ access : BOOLEAN, row : {"short", "long", "none"},
                      fate : {"kept", "rotated", "lost", "revoked"}, by : SUBSET Tabs ]
  /\ storage \in 0..Len(pairs)
  /\ authentic \in [Tabs -> BOOLEAN]
  /\ mfa \in [Tabs -> BOOLEAN] /\ leaving \in [Tabs -> BOOLEAN]
  /\ refresh \in
       [Tabs -> [ stage : {"none", "sent", "found", "refused", "issued"},
                  holder : 0..Len(requests), token : 0..Len(pairs), got : 0..Len(pairs) ]]
  /\ \A i \in 1..Len(requests) :
       requests[i] \in
         [ tab : Tabs, kind : SignIns \cup {"call", "revoke"}, token : 0..Len(pairs),
           retried : BOOLEAN, phase : Waiting \cup {"over"},
           got : 0..Len(pairs), applied : Nat ]
  /\ mishaps \in 0..MaxMishaps

\* However often a request is refused, queued and sent again, the server carries
\* it out at most once: only what was refused is replayed.
AppliedOnce == \A i \in 1..Len(requests) : requests[i].applied <= 1

\* A request waits only for something that is on its way: behind a refresh of
\* its own tab, which some request of that tab holds; and what was dropped from
\* the queue, and never settles, belongs to a page about to unload.
WaitersAreAwaited ==
  \A i \in 1..Len(requests) :
    LET r == requests[i] IN
    /\ r.phase \in {"queued", "holder"} => refresh[r.tab].stage # "none"
    /\ r.phase = "holder" <=> refresh[r.tab].holder = i
    /\ r.phase = "dropped" => leaving[r.tab]

\* The refresh token in localStorage is one the server takes, unless its row
\* never was (a second factor, a failed INSERT), expired with the access token,
\* was revoked or rotated for a page that is gone, or a tab is rotating it.
StoredTokenUsable ==
  storage # 0 =>
    \/ Usable(storage)
    \/ pairs[storage].row = "short"
    \/ pairs[storage].row = "none" /\ pairs[storage].fate \in {"kept", "lost", "revoked"}
    \/ \E t \in Tabs : refresh[t].stage = "issued" /\ refresh[t].token = storage

\* No tab presents a refresh token again that it exchanged for a pair it got, or
\* that it is waiting for: its replays and queued requests share one refresh, and
\* a later one starts from the token stored last (isRefreshing, the queue and
\* setTokens of client.ts).  Two tabs may exchange the same token, and the server
\* takes it as long as the row is there.
NoTabExchangesAgain ==
  \A t \in Tabs :
    refresh[t].stage \in {"sent", "found", "refused"} => t \notin pairs[refresh[t].token].by

Pending(i) == i <= Len(requests) /\ requests[i].phase \in Waiting

\* Every request settles, or goes with its page: none is held up by a refresh
\* that ended without it (the interceptors of client.ts).
RequestsSettle == \A i \in 1..MaxRequests : Pending(i) ~> ~Pending(i)

\* "Auto-refresh on 401" (lib/api/client.ts:32): a 401 is recovered from by a
\* refresh, so that only a sign-out takes a tab that is signed in to the login
\* page.  It does not hold: the row of a sign-in expires with its access token
\* (auth_service.go:236), which is when the first refresh is asked for.
AutoRefresh ==
  [][\A t \in Tabs : leaving'[t] /\ ~leaving[t] => ~authentic'[t]]_vars
=============================================================================
