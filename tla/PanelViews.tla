----------------------------- MODULE PanelViews -----------------------------
(***************************************************************************)
(* The panel of one browser window at work: the components of its pages    *)
(* mounted on the screen, the query cache of react-query behind them       *)
(* (src/apps/web/src/components/providers/query-provider.tsx configures    *)
(* it), the mutations they send, and the server that applies them.         *)
(*                                                                         *)
(* Components meet only in the query keys they read and refresh, so a      *)
(* behaviour follows one key, chosen at the start, and the components that *)
(* read it, refresh it or change what its query reads.                     *)
(***************************************************************************)
EXTENDS HostingPages, MailPages, OperationsPages, AccountPages,
        Naturals, Sequences, FiniteSets

CONSTANTS
  QueryKeys,     \* the keys a behaviour may follow
  MaxEvents      \* mutations sent, changes made by others and fetches that
                 \* fail, together, in a behaviour

VARIABLES
  key,       \* the key this behaviour follows
  shown,     \* the components mounted now
  fading,    \* the dialogs among them that are closed and still fade out
  query,     \* the entry of the query cache under the key
  version,   \* the changes the server has applied to what the query reads
  writes,    \* the mutations sent, in order
  acked,     \* the last write that a page was told of and the key should show
  mishaps    \* changes made by others and fetches that failed

screen == <<shown, fading>>
vars == <<key, shown, fading, query, version, writes, acked, mishaps>>

-----------------------------------------------------------------------------
(* The components a key concerns.                                          *)

Components ==
  HostingComponents @@ MailComponents @@ OperationsComponents @@ AccountComponents

\* The components c is mounted in: a dialog may sit in a tab, a tab in a route.
HoldersIn(panel, c) ==
  LET on == panel[c].on IN
  IF on = "" THEN {} ELSE {on} \cup ({panel[on].on} \ {""})

\* What the key k has to do with the components of a panel: which read it, from
\* which collections; which mutations change what it shows or fetch it; and,
\* beside a reader of it, those that change what no query reads.
ConcernedBy(k, panel) ==
  LET names      == DOMAIN panel
      readers    == {c \in names : k \in DOMAIN panel[c].reads}
      sources    == UNION {panel[c].reads[k] : c \in readers}
      allSources == UNION {UNION {panel[c].reads[j] : j \in DOMAIN panel[c].reads} : c \in names}
      acts == [c \in names |->
                 { a \in DOMAIN panel[c].acts :
                     LET act == panel[c].acts[a] IN
                     \/ act.changes \cap sources # {}
                     \/ k \in act.refresh
                     \/ act.changes \cap allSources = {} /\ panel[c].on \in readers }]
      involved == readers \cup {c \in names : acts[c] # {}}
  IN [ c \in involved \cup UNION {HoldersIn(panel, c) : c \in involved} |->
         [ kind |-> panel[c].kind, on |-> panel[c].on,
           reads |-> c \in readers, polls |-> k \in panel[c].polls,
           button |-> k \in panel[c].button,
           acts |-> [ a \in acts[c] |->
                        LET act == panel[c].acts[a] IN
                        [ changes |-> act.changes \cap sources # {},
                          refresh |-> k \in act.refresh,
                          guarded |-> act.guarded, then |-> act.then ] ] ] ]

\* The writes that change what a key shows and whose component does not refresh
\* it: component, mutation and key.
Overlooked ==
    \* the numbers among the usage, and the installations an app counts
  { <<"DomainsPage", "delete", "billing-usage">>,
    <<"DomainDetailPage", "delete", "billing-usage">>,
    <<"AddDomainModal", "create", "billing-usage">>,
    <<"MailboxTab", "delete", "billing-usage">>,
    <<"AddMailboxModal", "create", "billing-usage">>,
    <<"DatabasesTab", "delete", "billing-usage">>,
    <<"CreateDBModal", "create", "billing-usage">>,
    <<"InstallModal", "install", "marketplace-apps">>,
    \* what goes, or changes, with the row that is deleted
    <<"DatabasesTab", "delete", "db-users">>, <<"DevOpsPage", "delete", "pipeline-runs">>,
    <<"AlertsPage", "delete", "incidents">>,
    \* the page of a row that is gone
    <<"DomainsPage", "delete", "domain">>, <<"DomainDetailPage", "delete", "domain">>,
    <<"DNSPage", "delete", "dns-zone">>, <<"DevOpsPage", "delete", "pipeline">>,
    \* the list, or the page, of a row changed on the other
    <<"DomainDetailPage", "suspend", "domains">>,
    <<"DevOpsPage", "trigger", "pipeline">>, <<"DevOpsPage", "trigger", "pipeline-runs">>,
    <<"PipelineDetailPage", "trigger", "pipelines">>,
    \* the second key of the compose projects
    <<"DockerPage", "composeAction", "compose-projects">>,
    <<"DockerPage", "deleteCompose", "compose-projects">>,
    <<"CreateComposeModal", "create", "compose-projects">>,
    <<"ComposePage", "action", "docker-compose">>,
    <<"ComposePage", "delete", "docker-compose">>,
    <<"NewProjectModal", "create", "docker-compose">>,
    \* no refresh at all
    <<"DockerPage", "removeImage", "docker-images">>,
    <<"SecurityEventsPage", "blockIP", "ip-blocklist">>,
    <<"BillingPage", "subscribe", "billing-usage">> }

\* The forms whose control can be used again while their mutation is pending:
\* the Enter key of dns/page.tsx:67 and the Save of ftp/page.tsx:115.
Repeatable == {<<"NewZoneForm", "create">>, <<"FTPPasswordForm", "changePw">>}

\* How the components of a key hold together: a dialog, a form or a tab is mounted
\* in something, nothing is mounted in itself, and a mutation leads to a route.
\* Those that change what the key shows refresh it, the overlooked ones and no
\* others apart, and the forms that close are disabled while they are sent, the
\* repeatable ones apart.
Sound(k, panel) ==
  \A c \in DOMAIN panel :
    /\ panel[c].on \in DOMAIN panel \cup {""}
    /\ panel[c].kind = "route" <=> panel[c].on = ""
    /\ c \notin HoldersIn(panel, c)
    /\ \A h \in HoldersIn(panel, c) : HoldersIn(panel, h) \subseteq HoldersIn(panel, c)
    /\ \A a \in DOMAIN panel[c].acts :
         LET act == panel[c].acts[a] IN
         /\ act.then \in DOMAIN panel => panel[act.then].kind = "route"
         /\ act.then = "closes" => panel[c].kind # "route"
         /\ <<c, a, k>> \in Overlooked <=> act.changes /\ ~act.refresh
         /\ act.then = "closes" /\ <<c, a>> \notin Repeatable => act.guarded

ASSUME EventsAssumption == MaxEvents \in Nat
ASSUME PanelAssumption == \A k \in QueryKeys : Sound(k, ConcernedBy(k, Components))

\* The components the key of the behaviour concerns, as far as they concern it.
Concerned  == [k \in QueryKeys |-> ConcernedBy(k, Components)]
component  == Concerned[key]
Parts      == DOMAIN component
Holders(c) == HoldersIn(component, c)
Observed   == \E c \in shown : component[c].reads
Polled     == \E c \in shown : component[c].polls

MoreEvents == Len(writes) + mishaps < MaxEvents

-----------------------------------------------------------------------------
(* The entry of the query cache holds the version its data shows (0 before *)
(* any data), whether it is stale, and its fetch: "idle", "asked" or       *)
(* "read", with the version the server read.  "failed" says that the last  *)
(* fetch failed and the old data stays, "raced" that a write was           *)
(* acknowledged while a fetch was on its way that was not restarted.       *)

NoData ==
  [ seen |-> 0, stale |-> TRUE, fetch |-> "idle", reading |-> 0,
    failed |-> FALSE, raced |-> FALSE ]

Asking(q) == [q EXCEPT !.fetch = "asked", !.reading = 0, !.raced = FALSE]

\* An observer that mounts fetches what is missing or stale, or joins the
\* fetch on its way.
Fresh(q) == q.seen > 0 /\ ~q.stale
OnMount(q) == IF Fresh(q) \/ q.fetch # "idle" THEN q ELSE Asking(q)

\* A fetch on its way is dropped for a new one only if there is data.
Refetched(q) ==
  IF q.fetch = "idle" \/ q.seen > 0 THEN Asking(q) ELSE [q EXCEPT !.raced = TRUE]

\* invalidateQueries marks the entry and, when it is observed, fetches it.
Invalidated(q) ==
  LET marked == [q EXCEPT !.stale = TRUE] IN
  IF Observed THEN Refetched(marked)
  ELSE [marked EXCEPT !.raced = q.raced \/ q.fetch # "idle"]

AfterMount(q, components) ==
  IF \E c \in components : component[c].reads THEN OnMount(q) ELSE q

AfterSuccess(q, act) == IF act.refresh THEN Invalidated(q) ELSE q

-----------------------------------------------------------------------------
(* The user moves about.                                                   *)

\* A mutation in flight outlives the components that sent it: "live" holds
\* those of the mounts it will look for that are still there.
Unmounting(components) ==
  [i \in 1..Len(writes) |-> [writes[i] EXCEPT !.live = @ \ components]]

\* What a step does to the screen: the components of "gone" unmount, those of
\* "arrived" mount, and those of "closed" begin to fade out.
ScreenMoves(gone, arrived, closed) ==
  /\ shown' = (shown \ gone) \cup arrived
  /\ fading' = (fading \cup closed) \ gone

\* mutation: the page left behind stays mounted
VisitBeside(p) ==
  /\ component[p].kind = "route" /\ p \notin shown
  /\ ScreenMoves({}, {p}, {})
  /\ query' = AfterMount(query, {p})
  /\ UNCHANGED <<key, version, writes, acked, mishaps>>

\* Navigation unmounts the page that was on the screen with all it holds.
Visit(p) ==
  /\ component[p].kind = "route" /\ p \notin shown
  /\ ScreenMoves(shown, {p}, {})
  /\ writes' = Unmounting(shown)
  /\ query' = AfterMount(query, {p})
  /\ UNCHANGED <<key, version, acked, mishaps>>

\* To a page that has nothing to do with the key.
GoElsewhere ==
  /\ shown # {}
  /\ ScreenMoves(shown, {}, {})
  /\ writes' = Unmounting(shown)
  /\ UNCHANGED <<key, query, version, acked, mishaps>>

Within(c) == {d \in shown : d = c \/ c \in Holders(d)}

\* A dialog covers the page under it, also while it fades out.
Covered(c) == \E d \in shown : component[d].kind = "dialog" /\ d # c

\* Only the chosen tab of a page is mounted.
ChooseTab(c) ==
  /\ component[c].kind = "tab" /\ component[c].on \in shown /\ c \notin shown /\ ~Covered(c)
  /\ LET tabs == {d \in shown : component[d].kind = "tab" /\ component[d].on = component[c].on}
         gone == UNION {Within(d) : d \in tabs}
     IN ScreenMoves(gone, {c}, {}) /\ writes' = Unmounting(gone)
  /\ query' = AfterMount(query, {c})
  /\ UNCHANGED <<key, version, acked, mishaps>>

Open(c) ==
  /\ component[c].kind \in {"dialog", "form"} /\ component[c].on \in shown /\ c \notin shown
  /\ ~Covered(c)
  /\ ScreenMoves({}, {c}, {})
  /\ UNCHANGED <<key, query, version, writes, acked, mishaps>>

\* A form that is closed unmounts at once; a dialog sits in AnimatePresence and
\* stays mounted, its buttons at work, until it has faded out.
Fades(c) == component[c].kind = "dialog"
UnmountedBy(c) == IF Fades(c) THEN {} ELSE Within(c)
FadingBy(c) == IF Fades(c) THEN {c} \cap shown ELSE {}

\* A dialog can be cancelled at any time, while its mutation is pending too.
Cancel(c) ==
  /\ component[c].kind \in {"dialog", "form"} /\ c \in shown \ fading
  /\ ScreenMoves(UnmountedBy(c), {}, FadingBy(c))
  /\ writes' = Unmounting(UnmountedBy(c))
  /\ UNCHANGED <<key, query, version, acked, mishaps>>

FadeOut(c) ==
  /\ c \in fading
  /\ ScreenMoves(Within(c), {}, {})
  /\ writes' = Unmounting(Within(c))
  /\ UNCHANGED <<key, query, version, acked, mishaps>>

-----------------------------------------------------------------------------
(* Mutations.                                                              *)

\* The component whose useMutation observes the act: a form is part of its
\* page, everything else has its own.
Observer(c) == IF component[c].kind = "form" THEN component[c].on ELSE c

Pending(c, a) ==
  \E i \in 1..Len(writes) :
    /\ writes[i].by = c /\ writes[i].act = a
    /\ writes[i].client = "pending" /\ Observer(c) \in writes[i].live

\* The writes the opening of the form on the screen has sent before.
Earlier(c, a) ==
  {i \in 1..Len(writes) : writes[i].by = c /\ writes[i].act = a /\ c \in writes[i].live}

\* The mounts an answer will look for: a form's, to close it, and that of what
\* keeps the button disabled.
LookedFor(c, act) ==
  (IF act.then = "closes" THEN {c, component[c].on} ELSE {})
    \cup (IF act.guarded THEN {Observer(c)} ELSE {})

\* Bound: the writes of a behaviour are one mutation of a row, or one form's, in
\* one opening of the form or from one opening to the next.
Repeats(c, a) ==
  \A i \in 1..Len(writes) :
    writes[i].by = c /\ writes[i].act = a /\ component[c].acts[a].then = "closes"

Submitted(c, a, enabled) ==
  LET act == component[c].acts[a] IN
  /\ c \in shown /\ ~Covered(c)
  /\ MoreEvents /\ Repeats(c, a)
  /\ enabled
  /\ writes' = Append(writes,
       [ by |-> c, act |-> a, live |-> LookedFor(c, act), after |-> Earlier(c, a),
         server |-> "waiting", at |-> 0, client |-> "pending" ])
  /\ UNCHANGED <<key, screen, query, version, acked, mishaps>>

\* mutation: the button does not look at isPending
SendWhilePending(c, a) == Submitted(c, a, TRUE)
Send(c, a) == Submitted(c, a, component[c].acts[a].guarded => ~Pending(c, a))

ActOf(w) == component[w.by].acts[w.act]
Changes(w) == ActOf(w).changes

\* The server may get to a request after the client has given it up.
Apply(i) ==
  /\ writes[i].server = "waiting"
  /\ version' = IF Changes(writes[i]) THEN version + 1 ELSE version
  /\ writes' = [writes EXCEPT ![i].server = "applied",
                              ![i].at = IF writes[i].client = "pending" THEN version' ELSE 0]
  /\ UNCHANGED <<key, screen, query, acked, mishaps>>

\* What success does to the screen.  The callback of the mutation runs even
\* when its component is gone, but the setter it calls belongs to the mount of
\* the holder that sent it; the router belongs to no mount.
Leaves(w) == ActOf(w).then \notin {"stays", "closes"} /\ ActOf(w).then \notin shown
Closes(w) == ActOf(w).then = "closes" /\ component[w.by].on \in w.live

GoneBy(w) ==
  IF Leaves(w) THEN shown
  ELSE IF Closes(w) THEN UnmountedBy(w.by)
  ELSE {}
ArrivedBy(w) == IF Leaves(w) THEN {ActOf(w).then} \cap Parts ELSE {}
ClosedBy(w)  == IF Closes(w) THEN FadingBy(w.by) ELSE {}

Succeeded(i, refreshing) ==
  LET w == writes[i]
  IN /\ w.client = "pending" /\ w.server = "applied"
     /\ ScreenMoves(GoneBy(w), ArrivedBy(w), ClosedBy(w))
     /\ writes' = [Unmounting(GoneBy(w)) EXCEPT ![i].client = "ok", ![i].at = 0]
     /\ query' = AfterMount(IF refreshing THEN AfterSuccess(query, ActOf(w)) ELSE query,
                            ArrivedBy(w))
     /\ acked' = IF Changes(w) /\ <<w.by, w.act, key>> \notin Overlooked /\ w.at > acked
                   THEN w.at ELSE acked
     /\ UNCHANGED <<key, version, mishaps>>

\* mutation: the refresh is a callback of mutate(), which a component that is
\* gone no longer gets
SucceedWhileMounted(i) == Succeeded(i, Observer(writes[i].by) \in shown)
Succeed(i) == Succeeded(i, TRUE)

\* The server refused, or 30 s passed without an answer; a request given up
\* may still be applied later, and one refused never is.
Fail(i) ==
  /\ writes[i].client = "pending"
  /\ writes' = [writes EXCEPT ![i].client = "failed", ![i].at = 0]
  /\ UNCHANGED <<key, screen, query, version, acked, mishaps>>

-----------------------------------------------------------------------------
(* Fetches.                                                                *)

Idle == query.fetch = "idle"

\* mutation: the interval ends with the first error
PollUntilFailure ==
  /\ Polled /\ Idle /\ ~query.failed
  /\ query' = Asking(query)
  /\ UNCHANGED <<key, screen, version, writes, acked, mishaps>>

Poll ==
  /\ Polled /\ Idle
  /\ query' = Asking(query)
  /\ UNCHANGED <<key, screen, version, writes, acked, mishaps>>

\* The window gets the focus back: what is stale is fetched.
Focus ==
  /\ Observed /\ Idle /\ ~Fresh(query)
  /\ query' = Asking(query)
  /\ UNCHANGED <<key, screen, version, writes, acked, mishaps>>

PressRefetch ==
  /\ \E c \in shown : component[c].button /\ ~Covered(c)
  /\ query' = Refetched(query)
  /\ UNCHANGED <<key, screen, version, writes, acked, mishaps>>

ServerReads ==
  /\ query.fetch = "asked"
  /\ query' = [query EXCEPT !.fetch = "read", !.reading = version]
  /\ UNCHANGED <<key, screen, version, writes, acked, mishaps>>

Arrive ==
  /\ query.fetch = "read"
  /\ query' = [query EXCEPT !.seen = query.reading, !.stale = FALSE, !.failed = FALSE,
                            !.fetch = "idle", !.reading = 0]
  /\ UNCHANGED <<key, screen, version, writes, acked, mishaps>>

\* With the retries of query-provider.tsx used up: the old data stays.
FetchFails ==
  /\ ~Idle /\ MoreEvents
  /\ query' = [query EXCEPT !.fetch = "idle", !.reading = 0, !.failed = TRUE]
  /\ mishaps' = mishaps + 1
  /\ UNCHANGED <<key, screen, version, writes, acked>>

\* staleTime has passed.
GoStale ==
  /\ Fresh(query)
  /\ query' = [query EXCEPT !.stale = TRUE]
  /\ UNCHANGED <<key, screen, version, writes, acked, mishaps>>

\* Another user, or a job of the server, changes what the query reads.  Bound:
\* a key that some page polls.
OthersChange ==
  /\ MoreEvents /\ \E c \in Parts : component[c].polls
  /\ mishaps' = mishaps + 1 /\ version' = version + 1
  /\ UNCHANGED <<key, screen, query, writes, acked>>

-----------------------------------------------------------------------------
Init ==
  /\ key \in QueryKeys
  /\ shown = {} /\ fading = {} /\ query = NoData /\ acked = 0
  /\ version = 1 /\ writes = <<>> /\ mishaps = 0

Next ==
  \/ \E c \in Parts : Visit(c) \/ ChooseTab(c) \/ Open(c) \/ Cancel(c) \/ FadeOut(c)
  \/ GoElsewhere
  \/ \E c \in Parts : \E a \in DOMAIN component[c].acts : Send(c, a)
  \/ \E i \in 1..Len(writes) : Apply(i) \/ Succeed(i) \/ Fail(i)
  \/ Poll \/ Focus \/ PressRefetch \/ ServerReads \/ Arrive \/ FetchFails \/ GoStale
  \/ OthersChange

Spec ==
  /\ Init /\ [][Next]_vars
  /\ WF_vars(Poll) /\ SF_vars(ServerReads) /\ SF_vars(Arrive)

-----------------------------------------------------------------------------
(* Properties.                                                             *)

\* The screen holds one page at most, and nothing without what it is mounted
\* in, wherever a late answer or a dialog left the user (the `onSuccess`
\* callbacks, the conditional rendering of tabs and dialogs); no data and no
\* acknowledgement is newer than what the server has.
TypeOK ==
  /\ shown \subseteq Parts
  /\ \A c \in shown : Holders(c) \subseteq shown
  /\ \A c \in fading : c \in shown /\ Fades(c)
  /\ \A c, d \in shown : component[c].kind = "route" /\ component[d].kind = "route" => c = d
  /\ version \in Nat /\ acked \in 0..version /\ mishaps \in 0..MaxEvents
  /\ query \in
       [ seen : 0..version, stale : BOOLEAN, fetch : {"idle", "asked", "read"},
         reading : 0..version, failed : BOOLEAN, raced : BOOLEAN ]
  /\ \A i \in 1..Len(writes) :
       /\ writes[i].by \in Parts /\ writes[i].act \in DOMAIN component[writes[i].by].acts
       /\ writes[i].live \subseteq Parts /\ writes[i].after \subseteq 1..(i - 1)
       /\ writes[i].server \in {"waiting", "applied"} /\ writes[i].at \in 0..version
       /\ writes[i].client \in {"pending", "ok", "failed"}

\* Data that the panel takes for fresh holds every write the user was told of,
\* the writes of Overlooked apart: the refresh of a mutation's success never
\* leaves the answer of an older fetch standing, except where the fetch was not
\* restarted, failed, or is still on its way.
ReadsOwnWrites ==
  Fresh(query) /\ query.seen < acked => query.raced \/ query.failed \/ ~Idle

\* When a form was applied twice from one opening of it, the first submission is
\* settled: given up (an answer lost or late), or successful in a dialog, which
\* takes a submission more while it fades out.  None is pending then: the
\* button is disabled while the mutation is pending, also in a form closed and
\* opened again meanwhile, and success takes a form of the page away at once.
\* Those of Repeatable apart.
AppliedAgainOnlyOnceSettled ==
  \A j \in 1..Len(writes) : \A i \in writes[j].after :
    /\ ActOf(writes[j]).then = "closes"
    /\ <<writes[j].by, writes[j].act>> \notin Repeatable
    /\ writes[i].server = "applied" /\ writes[j].server = "applied"
    => writes[i].client = "failed" \/ (writes[i].client = "ok" /\ Fades(writes[j].by))

\* A page that gives its query a refetchInterval shows, again and again while
\* it is open, what the server has, whoever changed it and whatever failed.
PolledKeyCatchesUp == []<>(Polled => query.seen = version)

\* On a page that stays open the user's own write is shown at last, with no
\* polling, focus or button needed, unless its refresh raced with a first load
\* or failed.
OwnWriteIsShown ==
  []<>(Observed /\ query.seen < acked => query.raced \/ query.failed)
=============================================================================
