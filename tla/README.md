# XP-Panel: specifications and proofs

XP-Panel is a hosting control panel: seventeen Go services (`src/services/*`, about
18,600 lines) behind a gateway, a Next.js front end (`src/apps/web`), one
PostgreSQL database that all services share, Redis, ClickHouse, PowerDNS and the
Docker daemon. There are no Go tests in the services, so the code itself, its
comments and its migrations are the reference. This directory holds TLA+ modules
of the parts whose difficulty lies in the order of steps, what TLC checks of
them, and what TLAPS proves of them.

Run from this directory:

    tlc -config MCPipelineRuns.cfg MCPipelineRuns.tla
    tlapm PipelineRunsProofs.tla

`PROJECT.json` lists components, runs, the lines every definition stands for, the
hazards and the mutations each property was tried against. A definition whose
comment says "mutation" belongs to no specification: it is a plausible bug that
one of the properties detects when it takes the place of the definition after it.

## Inventory

| Component (service) | State | Operations | What is hard | What makes it correct |
|---|---|---|---|---|
| CI/CD engine (devops) | `pipelines`, `pipeline_runs`, `pipeline_run_logs`, a workspace directory per run, one container at a time per run | create, update, delete, trigger; the executor goroutine: clone, steps, skip, persist | overlapping runs of one pipeline, edits and deletion under a run, two nested timeouts, dropped errors, crashes | dependencies before dependents; the rows of a run and of its pipeline agree with what happened; a run settles |
| Step ordering (devops) | none (`executor.TopoSort`) | validation and Kahn's algorithm | duplicate entries, cycles, unknown names | a correct order or the right refusal, always |
| Log streams (devops) | `lastID` of an SSE connection | two reads per tick | reads race with the executor's writes; deletion; clients that leave | whole log before the end; final status; ends |
| Webhooks (devops) | none: their INSERT names columns and a status the table lacks and always fails | - | - | - |
| Metric forwarding (monitoring) | `server_metrics.forwarded_to_ch`, the ClickHouse table | push, flush (select, insert, mark) | partial failures, ambiguous commits, several instances, crashes | at least once, bounded repetition, no starvation |
| Alerting (monitoring) | `alert_rules`, `alert_incidents` | evaluation every 60 s, remediation | check then insert; goroutines that resolve whatever happened | one open incident per rule |
| Subscriptions (billing) | `subscriptions`, `organizations.status`, the clock | subscribe, cancel, Stripe events, worker rounds | unordered and repeated events, two statements per round, several workers, time | suspended and reactivated as the subscription says, without oscillation |
| Backups (backup) | `backup_jobs` rows, files, remote objects | a goroutine per API request; an asynq worker pool nobody enqueues to | deletion under a running job, unchecked upload | a completed row has a file |
| Certificates (webserver) | `ssl_certificates`, files | issue, renew, renewal loop, delete | background goroutines that write one row | no certificate stuck in pending or renewing |
| Accounts, sessions, MFA (auth) | `users`, `user_sessions`, counters | register, login, refresh, logout, reset | counters read before they are written; a refresh that finds a session and deletes it in two statements, and looks at no error of either | lockout counts, a refresh leads to one live pair |
| Panel pages (web) | the query cache of react-query, open tabs and dialogs, mutations on their way | mount and leave pages, submit, invalidate, poll, refetch | answers that arrive after their dialog or page is gone; fetches on their way at an invalidation; answers lost | what the user was told is done is what the page shows; polled pages catch up; no form applied twice while its first submission is pending |
| Session client (web) | `localStorage` (shared by the tabs), the store and the refresh of each tab | request, refresh and replay, sign in and out, reload | one rotating token in several tabs, requests queued behind a refresh, reloads in between | requests applied once, nothing waits for ever, no tab exchanges a token twice |
| File explorer, AI chat (web) | local state of a page | list, upload, edit; stream an answer | - | - |
| Zones and records (dns) | `dns_zones`, `dns_records`, PowerDNS | zone and record handlers | two copies, written one after the other | the copies agree |
| Installations (marketplace) | `app_installations`, containers | install, remove | the installer goroutine finishes after removal | a removed installation stays removed |
| Rate limit (gateway) | a sorted set per client in Redis | four pipelined commands | interleaving of replicas | the limit holds within a window |
| Mailboxes (mail), vhosts (webserver) | rows and configuration files | single-row handlers | check then insert | - |
| domains, dbmanager, docker, filemanager, security, notification, ai | mostly none of their own | pass one request to an external system | - | - |

**How they interact.** The web front end calls the gateway, which authenticates,
limits the rate, and forwards to the services over HTTP. The services do not call
each other in the paths modelled here: they meet in the PostgreSQL tables (the
billing worker writes `organizations`, a table of auth; the ingester and the push
handler share `server_metrics`) and in goroutines that outlive the request that
started them. The Kubernetes manifests let every service but auth scale, to three
instances at least in production (`overlays/production/kustomization.yaml`), so a
model never assumes that a goroutine is the only one of its kind, and a restarted
process (`restart: unless-stopped`, a Deployment) finds only what the database kept.

## Modules

| Module | Models | Extended or used by |
|---|---|---|
| `StepGraph` | step lists, and the contract of `TopoSort` (`ExecutionOrders`, `Refused`) | `TopoSort`, `PipelineRuns` |
| `TopoSort` | `executor/dag.go`, one action per loop iteration | `MCTopoSort`, `TopoSortProofs` |
| `PipelineRuns` | pipelines, runs, executors, log streams of devops | `MCPipelineRuns`, `PipelineRunsProofs`, `PipelineResultsProofs`, `PipelineStreamsProofs` |
| `AtLeastOnce` | what forwarding promises, abstractly | `MetricForwarding` (refinement) |
| `MetricForwarding` | push handler and ingesters of monitoring | `MCMetricForwarding`, `MetricForwardingProofs` |
| `Subscriptions` | billing handlers, Stripe events, suspension worker | `MCSubscriptions`, `SubscriptionsProofs` |
| `PanelApi` | `lib/api/*.ts`: which collections of the services each call reads or changes | `PanelComponents` |
| `PanelComponents` | the form in which a page is written down | the four modules below |
| `HostingPages`, `MailPages`, `OperationsPages`, `AccountPages` | the pages of `app/(panel)`: queries, mutations, dialogs, polling | `PanelViews` |
| `PanelViews` | the screen, the query cache and the mutations of one browser window | `MCPanelViews`, `PanelViewsProofs` |
| `ApiClient` | `lib/api/client.ts`, `auth.store.ts`, the sign-in pages, token pairs and session rows of auth | `MCApiClient`, `ApiClientProofs` |

### StepGraph and TopoSort

A step is `[name, dependsOn]`; image, commands and environment do not matter to
the order. `TopoSort` follows `dag.go`: the early return when no step declares a
dependency, the two validations, the in-degrees (which count duplicate entries),
the queue: one action for each step the initial queue is filled from, one for each
node taken, and one for all entries a neighbour has in `adj[node]`. The lists are over
any set of names (`Names`, `InputsAssumption`).
`StepGraph` states separately what the caller may rely on; `PipelineRuns` takes any
order that contract allows, so it holds for another algorithm too.

### PipelineRuns

| Code | Model |
|---|---|
| `handler/pipeline.go` Create, Update, DeletePipeline | actions of the same name; the deletion cascades to runs and lines |
| `TriggerRun` (`pipeline_service.go:38-75`) | `LoadPipeline`, `CreateRun`, `MarkPipelineRunning` |
| `executeRun`, `failRun` (77-159) | `CloneSucceeds`, `SetupFails`, `StartStep`, ..., `RecordStep`, `AllStepsDone`, `PersistRun`, `PublishPipeline`, `Cleanup`; `pc` says where the goroutine is |
| `RunStep` (`runner.go:36-140`) | `StartStep`, `StepNotStarted`, `StepExits`, `StepWaitFails`, `StepTimesOut` |
| the context of `runTimeout` | `RunTimeout`, at any moment; the timeout of a step is implied by `StepTimesOut` being possible whenever a step waits |
| `StreamRunLogs` | `OpenStream`, `PollStatus` and `SendLines` (the two reads of a tick), `Disconnect` |
| death of an instance | `Crash`: any of the executors and streams at work |

Every statement is an action of its own, because any other executor or handler may
act in between. A statement either has its effect or fails without one, up to
`MaxFaults` times; the executors ignore the failure of all of theirs. `broken`
collects the runs whose executor died or lost its final UPDATE: it is bookkeeping
for the properties, and no action reads it. `PipelineStatusJustified` and `RunSettles`
excuse those runs, for nothing in the code looks for them again: that such rows stay
"running", or disagree with their pipeline, is a fact of the code and not something
the properties rule out.

Left out or abstracted: log text (a line is the result it reports), commit hashes,
durations and timestamps, `ListDeployments` (nothing writes that table), the reads,
and the value of `lastID` (its position in the log). The write deadline of the HTTP
server is a `Disconnect`. `c.Params` is taken as the value at the time of the call.

### MetricForwarding

Rows are their `collected_at`; `PushMetrics` inserts them in any order because the
handlers stamp and insert in two steps. Each ingester starts (ping, `ensureTable`)
and then repeats `SelectBatch`, `InsertBatch`, `MarkForwarded`. Calls may fail; a
failing ClickHouse commit or PostgreSQL UPDATE may have taken effect all the same;
a read that stops half way leaves a shorter batch. `Crash` puts an ingester back to
its start. `AtLeastOnce` is the promise of `clickhouse.go:14-16` in three sets, and
`Promise == INSTANCE AtLeastOnce WITH accepted <- stored, delivered <- Delivered,
settled <- forwarded` maps the tables to it.

### Subscriptions

`CreateSubscription` either inserts an active row or, on a row that is there, moves
the period and leaves status and cancellation as they are; the other handlers and
the Stripe events write one column each. The worker of every instance alternates
`Suspend` and `Reactivate`, each one UPDATE over all organizations; when the first
fails the round ends. `Lapsed` and `Valid` are the two WHERE clauses. Time is a
counter of days; `cause` (the row that suspended an organization) and `paid` (rows
last written by a payment) are bookkeeping. Each UPDATE is taken as atomic: its
subquery and its write use one moment. A handler whose statement fails changes
nothing and is left out. The statuses `trialing` and `paused` of the table, and
`trial` and `cancelled` of `organizations`, are written by no code.

### PanelApi, the page modules and PanelViews

A service is a set of collections; `PanelApi` says of every call which of them it
reads or changes. A component of a page is a record: the query keys it observes with
the calls behind them, its `refetchInterval`s and refetch buttons, and its mutations
with what their success invalidates, whether their control is disabled while pending
(`isPending`), and whether success closes a dialog or leaves for another page. The
page modules are nothing but these records, read off `useQuery`, `useMutation` and
the handlers of the JSX. What a call changes is read off the services: a number counted
from other tables (`GetUsage`, `billing.go:168-186`), a counter beside the row
(`marketplace.go:149`) and what a deletion takes with it are collections of their own
or of the same call.

`PanelViews` is the engine over them. Components meet only in the keys they read and
refresh, so a behaviour follows one key, any of them, with every component that
reads it, refreshes it or changes what it shows (`ConcernedBy`; `component` is those of
the key that is followed).
A reload of the window is a new behaviour: it keeps none of this state.

| Code | Model |
|---|---|
| links of `Sidebar`, tabs, `showForm` and `Modal` | `Visit`, `GoElsewhere`, `ChooseTab`, `Open`, `Cancel` |
| `AnimatePresence` and the `exit` of a dialog | `fading` and `FadeOut`: a dialog that was closed, by the user or by success, stays mounted and takes clicks until it has faded out; a form of a page goes at once |
| `mutate`, the service, `onSuccess` / `onError` | `Send`, `Apply`, `Succeed` / `Fail`: the answer may come when the dialog was closed and opened again, or the page left; a request given up after 30 s may still be applied |
| a fetch | `Asking`, `ServerReads`, `Arrive` or `FetchFails` (retries used up: the old data stays) |
| `invalidateQueries`, `refetch` | `Invalidated`, `Refetched`: a fetch on its way is dropped for a new one only when there is data |
| `refetchInterval`, focus, `staleTime` | `Poll`, `Focus`, `GoStale` |
| other users, jobs of the server | `OthersChange` |

The query engine is react-query, which is not part of the repository: it is modelled
from how the pages use it, with the defaults of `query-provider.tsx`.

`Overlooked` lists the writes whose component forgets a key they change, such as
"remove image" (`docker/page.tsx:214`), which is not even a mutation, the Compose
projects, read under two keys, or a new domain, which the usage of the billing page
counts. `ReadsOwnWrites` and `OwnWriteIsShown` make no claim about them: the panel
shows old data as fresh there. They hold of every other write, and `PanelAssumption`
makes the list exact with respect to `PanelApi`: a write is in it if and only if it
changes what a key shows and does not refresh it. `Repeatable` lists the two forms whose control can be
used again while the first submission is pending. That both lists are complete is part
of `PanelAssumption`, which says of every key how its components hold together (`Sound`):
dialogs, forms and tabs are mounted in something, what changes a key fetches it
exactly when it is not in `Overlooked`, what closes on success and is not in `Repeatable` is disabled
while it is pending. It is an assumption of the engine about data, and TLC evaluates it
for every key of the panel's pages before it explores a state.

The fading dialogs are why `AppliedAgainOnlyOnceSettled` has two exceptions. A form may
be applied twice from one opening when its first submission was given up, and also
when it was successful: `isPending` is false again and the button enabled while the
dialog fades out (`domains/page.tsx:179-181`, 252), so a second click in that moment
sends the form again, and a second row is created where nothing in it is unique. What the property excludes is a second submission that is
applied while the first is still pending, across closing and opening the form again.

### ApiClient

| Code | Model |
|---|---|
| request interceptor (`client.ts:11-27`) | `Request`: the token is read from `localStorage` when the request is sent |
| response interceptor (33-102) | `Queue`, `StartRefresh`, `RefreshDone`, `RefreshFails`, `Reject` |
| `AuthService.Refresh` (`auth_service.go:243-277`) | `FindSession` and `RotateSession`; `refused` when the row is gone or has expired. `RotateSession` deletes the old row and inserts the new one; the errors of both are dropped (258, 273), so the old row may survive and the new one be missing |
| login, register, two-factor and callback pages | `SubmitLogin`, `SubmitRegister`, `SubmitCode`, `Back`, `OAuthReturn`, and `ReceiveOk` for `setTokens` |
| gateway, handlers of sign-in and of sessions | `ServeCall`, `ServeSignIn`, `ServeRevoke` |
| `logout`, navigation, plain links of `UserMenu` | `Logout`, `Unload`, `Reload`: the document is gone with its requests and its refresh, and the next one reads `localStorage` |
| timeouts, failing INSERTs and DELETEs | `Lose`, and the second disjuncts of `RotateSession` and `RefreshFails` |

A pair carries the session row of its refresh token: "short" as a sign-in writes it,
"long" as a refresh does, or none. The store in memory is only its `isAuthenticated`,
because requests read `localStorage` alone. `fate` and `by` of a pair and `applied`
of a request are bookkeeping: `by` holds the tabs that exchanged the token of a pair and
got, or wait for, the pair it was exchanged for. Two tabs may exchange one token, when
both find the session before either deletes it, or when the DELETE fails: nothing in the
code prevents that and no property claims it. `NoTabExchangesAgain` says that a single
tab never does. Left out: the expiry of a seven-day row, an access
token that expires after it was replaced, a request the server carries out after the
client has given it up, and sign-out of the server's session (no page calls it).

## What TLC checks

| Run | Instance | Shows |
|---|---|---|
| `toposort` | all lists of up to three steps, and of four distinct steps with at most two dependencies | `OrderMeetsContract`, `RefusalIsJustified`, `RootsStayInOrder`; `Returns` under weak fairness of the algorithm's steps |
| `pipeline_runs` | one pipeline, two runs, lists `Against` (defined against its dependency), `Cycle`, `One`, one failing statement; 2.8 million states | `DependenciesSucceedFirst`, `OutcomeMatchesResults`, `PipelineStatusJustified`, `StepsHaveWorkspace` |
| `pipeline_streams` | one pipeline, one run, one stream, one failing statement, a list with two steps and an empty one | `StreamDeliversWholeLog`, `DoneStatusIsFinal`, and the liveness `RunSettles`, `StreamEndsWithRun` |
| `metric_forwarding` | three rows, two ingesters, batches of two, two faults | refinement `ForwardsAtLeastOnce`, `CopiesBounded`, liveness `PendingIsForwarded` |
| `subscriptions` | one organization, two workers, cycles of 1 and 3 days, 1 day of grace, 6 days, two faults; 114,000 states | `NoFlapping`, liveness `LapsedIsSuspended` (once the period, and the grace of an active or unpaid row, is over), `ValidIsReactivated` |
| `panel_views` | every query key of the panel in turn, with at most two mutations, changes by others and failed fetches together; 669,000 states | `ReadsOwnWrites`, `AppliedAgainOnlyOnceSettled`, liveness `PolledKeyCatchesUp`, `OwnWriteIsShown` |
| `api_client` | two tabs, two requests, one mishap; 557,000 states | `AppliedOnce`, `WaitersAreAwaited`, `StoredTokenUsable`, `NoTabExchangesAgain`, liveness `RequestsSettle` |

Five runs are expected to fail, each on a sentence of the source:

| Run | The source says | The code does |
|---|---|---|
| `step_timeout` | `runner.go:35`: "Returns the combined output and exit code" | at a deadline `select` may take `errCh`, which leaves exit code 0: "success" for a command that never exited |
| `stream_end` | `handler/pipeline.go:182`: the stream ends "when the run leaves 'running' state or the client disconnects" | a deleted run reads as an empty status, and no write error is looked at: the loop goes on |
| `metric_retry` | `clickhouse.go:14-16`: the buffer "retains rows ... for retry" | an ingester that cannot start returns, and nothing retries while the process lives |
| `payment_recovery` | `suspension.go:56`: "Reactivate orgs that have a valid subscription again (e.g. payment recovered)" | the event sets only the status; the period has ended and only `CreateSubscription` moves it |
| `auto_refresh` | `client.ts:32`: "Auto-refresh on 401" | the session row of a sign-in expires with its access token (`auth_service.go:236`, 246): the first refresh is refused and the tab is thrown out |

One more disagreement is stated and not run: the comments of `suspension.go` (11-12,
"expired or been cancelled past period end"; 38, "period ended") limit suspension to
periods that are over, but the first statement suspends every row that is neither
active nor trialing, whatever its period (43). A subscription created, cancelled at once
and met by a round of the worker, all on one day, suspends its organization; so does a
failed payment. `LapsedIsSuspended` claims only the direction the code keeps, that an
organization whose period is over is suspended.

**Bounds and why they are enough.** Two runs are the smallest number that can
disagree about a pipeline, and the update of a pipeline names no run, so a third
adds no new kind of conflict; the lists cover a dependency against the definition, a
single step, no step and a refusal. One fault lets every statement of every executor
fail once and two let a fault follow a fault; crashes of executors are not bounded.
Symmetry (the two runs) is used only in `pipeline_runs`, which checks no liveness.
Three rows with batches of two give a full batch, a partial one and an overtaken
row; two ingesters and two faults give a batch held twice and inserted again. Six
days let a one-day period lapse through its grace, be renewed and lapse again
around a three-day one; organizations do not influence each other, hence one. The
theorems below hold without these bounds.

In `PanelViews` (`MaxEvents`) two events let a write follow a write, a form be
submitted twice, a write meet a failed fetch, and a change by others follow either.
The writes of one behaviour are of one mutation, which must be the submission of a
form for there to be two (`Repeats`): different mutations of a key differ only in
what they invalidate, and each is followed by itself. Only keys that some page polls are
changed by others: no page promises to notice otherwise. Visits, dialogs, focus and
polls are not bounded. In `ApiClient` two requests are the fewest that make one wait
behind the refresh of another, in one tab, or refresh one token from two; `MaxMishaps`
counts losses, reloads and failing INSERTs and DELETEs, and one is enough to lose any message of
any exchange. The run keeps to one because of its liveness property; the theorems need no bound.

**Deadlock** is not checked where the system may come to rest: `PipelineRuns` (every
run ended, streams closed), `MetricForwarding` (everything forwarded, every ingester
stopped), `TopoSort` (it returns) and `ApiClient` (no request is left to send). In
`Subscriptions` the workers never stop, in `PanelViews` the user can always move on,
and deadlock is checked.

**Fairness.** Weak fairness of `Progress(r)` says that goroutines are scheduled,
that PostgreSQL answers or reports an error, and that each wait inside `RunStep` ends
with its context (15 minutes per step, 60 per run): the timeout is the only way out
that is assumed, for a command need not exit. Weak fairness of `Tick(s)`, `Start(i)`,
`Flush(i)` and `Round(w)` says that tickers fire and calls return. No fairness is
assumed of users, agents, clients, Stripe, crashes or the clock. In `PanelViews`
the interval fires (weak fairness of `Poll`, which holds for a window in view: react-query
suspends intervals in a hidden one), and a fetch that is asked for again and
again is read and answered at last (strong fairness of `ServerReads` and `Arrive`: an
invalidation may drop the fetch before, and a failure may end it). In `ApiClient`
weak fairness of `Progress` says that while a server can answer, a script run or a
navigation be carried out, one of them is. Requests of `apiClient` end after 30 s, but the
refresh is a plain `axios.post` without a timeout (`client.ts:61`): for it the fairness
assumes that the network answers or reports an error.

## What is proved

All theorems are for arbitrary constants that satisfy the named assumptions: the
step lists are lists over the names (`StepListsAssumption`, `InputsAssumption`),
`MaxFaults`, `BatchSize`, `MaxRequests`, `MaxMishaps` and `MaxEvents` are numbers, there
is a pipeline, a run and a list, rows are ordered by numbers, the ingesters are finitely
many (`IngestersAssumption`), times are numbers, `NoTab` is not a tab, and the pages of
the panel hold together (`PanelAssumption`, above). Nothing else is assumed.

| Theorem | Of | Argument |
|---|---|---|
| `TypeCorrect` (TopoSortProofs) | `TypeOK` | from `Accepted` and `Counted` below: an in-degree is the number of entries still counted, hence never negative, whatever a step lists twice |
| `ReturnsExecutionOrders` | `OrderMeetsContract` | `Kahn`, inductive: the steps sorted and then those queued, read as one list (`Listed`), hold each step at most once (`ListedOnce`), are exactly those whose in-degree is used up (`ListedWhenMet`), and what a listed step depends on is sorted before it (`DependenciesListed`). While the entries of one neighbour after the other are taken, an in-degree counts the entries of steps not yet `Met`, which is what `Counted` says |
| `RefusesOnlyTheCyclic` | `RefusalIsJustified` | `CyclesUnlisted`: no set of steps that each depend on one of the set is ever listed. If the queue is empty and a step is missing, the steps that are missing are such a set (`ListedWhenMet`), and no order can contain one |
| `RootsKeepTheirOrder` | `RootsStayInOrder` | `RootsAscend`: the listed steps without dependencies ascend, because they are listed by the first loop, in its order, and never later |
| `Typing`, `TypeCorrect` (PipelineRunsProofs) | `TypeOK` | `TypeOK /\ StepsInBounds` is inductive: that `results` never outgrows `order` is needed to type `NextStep`, and `StepsInBounds` ties the lengths to `pc` |
| `WorkspacesStay` | `StepsHaveWorkspace` | inductive with the type: `WorkspaceOf` is injective, so a `Cleanup` touches no other run |
| `StatusJustified` | `PipelineStatusJustified` | the property alone is not inductive: `RowsFollowExecutors` ties the row of a run to `pc`: it is "running" while its final UPDATE is owed, and holds `final` once it was made, unless the run is broken or deleted; the update that is owed justifies "running", the one that was made the final status |
| `ResultsTold` (PipelineResultsProofs) | - | `ResultsTell(r)`, inductive with the type: it says for every place of the executor what the results are - none before the first step, successes only before each further step, complete and explained by `final` once the loop is left; `order` is an execution order of `steps` throughout |
| `OutcomeExplained` | `OutcomeMatchesResults` | from `ResultsTold`; the property alone is not inductive, since it looks at the results only when the row is final |
| `DependenciesRespected` | `DependenciesSucceedFirst` | from `ResultsTold` and `DependencyIsBefore`, which uses the contract of `StepGraph` and nothing of Kahn's algorithm |
| `StreamsTold` (PipelineStreamsProofs) | - | `StreamsTell`, inductive with the type and `RowsFollowExecutors`. Every step of the system is shown to be `GrowsUntilFinal` to a stream: a log grows while its run is not final, and stands still afterwards |
| `WholeLogDelivered`, `DoneIsFinal` | `StreamDeliversWholeLog`, `DoneStatusIsFinal` | from `StreamsTold`; a final status read before the lines means that the lines read after it are all there will be |
| `TypeCorrect` (MetricForwardingProofs) | `TypeOK` | includes that a batch is held exactly while it is inserted and marked |
| `ForwardingIsAtLeastOnce` | `ForwardsAtLeastOnce` | `BatchesSafe`: every batch is stored, and one being marked is delivered; under it every step maps to a step of `AtLeastOnce` or a stutter |
| `CopiesAreBounded` | `CopiesBounded` | the property alone is not inductive. `CopiesAccounted` says what answers for a copy: while the row is pending, a failure or crash, or an ingester that is about to mark it; once it is marked nobody takes it again, and those who still hold it insert it once each. The ingesters enter through the cardinalities of two sets, which every step moves by at most one (`HoldersMove`) |
| `TypeCorrect` (SubscriptionsProofs) | `TypeOK` | by the actions |
| `WorkersDoNotFlap` | `NoFlapping` | `CauseNotValid`: the row that suspended an organization is not valid, and time never makes it so, because `Lapsed` and `Valid` exclude each other and `Valid` is only lost with time |
| `TypeCorrect` (ApiClientProofs) | `TypeOK` | from `Typed`, which adds that the pairs and the requests are sequences; neither ever gets shorter, so a token or a holder that named one keeps naming one |
| `NobodyWaitsForNothing` | `WaitersAreAwaited` | `Held`, inductive with the type: a refresh is on its way exactly while a request of the same tab holds it. Without that the end of a refresh in one tab might release, or drop, a request of another |
| `OnlyTheRefusedIsReplayed` | `AppliedOnce` | `CarriedOutOnce`, inductive with `Held`: a request that was carried out is answered "ok" or over, and a refresh replays only what is queued behind it or holds it |
| `NoTabPresentsATokenTwice` | `NoTabExchangesAgain` | `TokensInOrder`, inductive with the type: a pair that was issued is, until a page stores it, in the answer of one sign-in or one refresh only, and was presented by nobody (`NewPairsUnused`); a token that was exchanged stays in `localStorage` only until every tab that exchanged it has its answer (`StoredBeingRotated`), although its row may have survived; and the property holds from the moment a token is presented (`PresentedOnce`). `TokensAfter` collects what any step can do to pairs, refreshes, requests and storage |
| `TheStoredTokenServes` | `StoredTokenUsable` | from the same invariant: `StoredBeingRotated` is the case that the property alone does not preserve |
| `TypeCorrect` (PanelViewsProofs) | `TypeOK` | `ScreenOK`, inductive under `PanelAssumption`: every step that moves the screen takes away a `Branch`, a component with all it holds, so nothing is left without what it is mounted in (`Moves`, `ScreenStays`) |
| `FreshDataHoldsOwnWrites` | `ReadsOwnWrites` | the property alone is not inductive: an answer read before a write was acknowledged may still be on its way. `Serves` adds that such an answer is marked as raced; a fetch that starts, and every refresh, serves any write |
| `FormsApplyOnce` | `AppliedAgainOnlyOnceSettled` | `FormsOK`: as long as the form that sent a mutation is on the screen, so are the mounts its answer looks for (`Mounted`), and success takes a form of the page off it (`Closed`), a dialog once it has faded out; when a form is sent again, the first submission is therefore settled (`Settled`), and stays so |

Only model-checked: all liveness (`Returns`, `RunSettles`, `StreamEndsWithRun`,
`PendingIsForwarded`, `LapsedIsSuspended`, `ValidIsReactivated`, `PolledKeyCatchesUp`,
`OwnWriteIsShown`, `RequestsSettle`), which is out of the prover's reach. Every
invariant that a passing run checks is the subject of a theorem.

## Plan

Done: StepGraph and TopoSort, PipelineRuns, AtLeastOnce and MetricForwarding,
Subscriptions, the panel's pages (`PanelViews`) and its session client (`ApiClient`),
each with the proofs that the table above lists.

Next, in this order:

1. `Certificates` (webserver `ssl_service.go`): issue, re-issue, renewal loop,
   deletion; that no row is stuck in pending or renewing, against the comment that
   certificates near expiry are renewed (277); a failed renewal is the hard case.
2. `AlertEngine` (monitoring `engine.go`, `remediation.go`): one open incident per
   rule, with several instances and failing counts.
3. `Accounts` (auth): registration as separate statements, login counters, reset.
4. `Backups`, `DnsSync`, `Installations`, `RateLimit`, as far as runs allow.

Proofs to add: that the pipeline's use of `StepGraph` and the orders `TopoSort` returns
meet in one theorem (the contract is proved on both sides, in two modules), and the
invariants of each new module as it is written.

## Not modelled, and why

Archive and encryption code, storage drivers, the collectors and WebSocket views,
and the language-model and notification adapters have no control worth a model. Of
the front end: pages of sample data (dashboard, geomap, scanner, reseller overview,
administration), the AI chat and the terminal, which relay a stream, one-shot look-ups
(DMARC, DNS propagation, CSR, disk and bandwidth reports), the fields and validation
of forms, charts and layout; the file explorer keeps listings of its own, outside the
query cache, and is left for later. Two parts of the front end call what no service answers:
the catch-all tab of `email/page.tsx`, whose query and deletion reach handlers that read a
parameter their routes do not have (`mail.go:175`, 210; `main.go:70`, 72), so the query is
always answered 404 and its key never has data; and `reseller/packages` and
`reseller/users`, whose paths no service routes. OAuth and passkeys are protocols of external providers. The services listed
last in the inventory pass one request on. The hazards of everything planned are in
`PROJECT.json`, at their lines.
