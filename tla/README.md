# FlowState in TLA+

FlowState runs users' workflows: a trigger (a webhook, a polled endpoint or a button) starts an
*execution*, which runs the workflow's *actions* (HTTP request, email, Telegram message, log,
delay) one after the other and hands each action's output to the next. The repository implements
this twice over one dashboard:

| runtime | where | storage | background work |
|---|---|---|---|
| Worker | `worker/` | D1 (SQLite) | Cloudflare Workflows, Durable Objects, cron |
| backend | `backend/` | PostgreSQL (Prisma), Redis | BullMQ jobs, NestJS events |

`frontend/` is the dashboard, `packages/api-types` the types they share. The README of the
repository says never to run both runtimes at once, so no model mixes them. The Worker imports
the backend's pure code (change detection, action executors, limits, hashing), so a definition
translated from such a file speaks of both.

Paths below are relative to the repository's root. Everything here was translated from the code;
where a comment, the README or a name promises more than the code does, the model follows the
code; the disagreement is a finding (section 4) or an observation (section 5).

## 1. Inventory

### Run engine (Worker) - `worker/src/engine/run-workflow.ts`, `worker/src/repo/executions.ts`

* State: one `workflow_executions` row for each execution (status, output), an
  `action_executions` row for each attempt of an action, and the durable state the platform keeps
  for each `RunWorkflow` instance: the results of the steps it completed.
* Operations: `load`, the loop of action steps, `runStep` (a row, the action, a batch of row and
  checkpoint), `fail`, `finish`; from outside the create of an instance, cancel
  (`worker/src/routes/executions.ts`) and the operator's retry (`worker/src/routes/public.ts`).
* Interaction: instances, attempts of their steps and request handlers share nothing but the D1
  rows, and most of their writes are unconditional.
* Hard: an isolate that dies between a commit and the platform's note of it; an attempt abandoned
  by a timeout and still running; two instances on one row; a cancel between a read and a write.
* Correct when: SUCCEEDED means every action succeeded, in order; the checkpoint (`output`) and
  the rows agree, so that a retry resumes with the right payload and repeats nothing that
  succeeded; a run that started ends; a cancelled run stops.

### Ingress and admission (Worker) - `worker/src/routes/public.ts`, `worker/src/engine/admission.ts`, `worker/src/durable/rate-limiter.ts`

* State: `webhook_events` with a unique `(workflow_id, idempotency_key)`, the runs in flight of a
  workflow, the RateLimiter's counter of each hour.
* Operations: a delivery (checks, lookup, insert, answer), a manual fire, the payloads of a poll;
  then `admit`: workflow active, concurrency ceiling, hourly budget, row, hand-off; marking the
  event.
* Interaction: the sender is answered before `admit` starts (`waitUntil`).
* Hard: duplicates racing each other, a count that is stale by the time of the insert - for another
  trigger, or for an operator's retry that asks no gate -, the end of an isolate anywhere, a pause in
  the middle, the hour that changes between gates.
* Correct when: a key becomes one run at most, a duplicate has no effect, the log says what
  happened, the limits hold, an accepted trigger is decided.

### Poller (Worker) - `worker/src/durable/poller.ts`, `worker/src/engine/polling.ts`, `backend/src/scheduler/poll-change.ts`

* State: the trigger and its workflow in D1; in the Durable Object an alarm, a config and the
  last-seen state.
* Operations: `start`, `stop`, `alarm`/`pollOnce`; the requests that edit a trigger or a workflow
  and then sync the poller; the cron that reconciles.
* Hard: requests write D1 in one order and call the object in the other; `stop` in the middle of
  `alarm`; a stale decision to stop; eviction between the state and the runs; a state stored under
  an older configuration.
* Correct when: a change starts its runs once, what was seen is not news, news starts a run, and
  polling follows the trigger whatever raced.

### Sessions (Worker, backend, dashboard) - `worker/src/auth/session.ts`, `backend/src/auth/auth.service.ts`, `frontend/src/lib/api-client.ts`, `frontend/src/lib/auth-store.ts`

* State: `refresh_tokens` (revoked, replaced by), the refresh token in the browser's localStorage
  that all tabs share, an access token and a refresh in flight in each tab.
* Operations: sign-in, refresh (rotation), sign-out; in a tab the single-flight refresh, its retry
  of a 401, `clear`.
* Hard: two tabs and one token; an answer that is lost after the token was spent; a late answer
  after a sign-out. The Worker revokes first and conditionally; the backend issues first and
  revokes unconditionally.
* Correct when: a session has one live token, a signed-out session stays out, a token whose successor
  arrived is not taken again, what the tabs store is alive, and nobody waits for ever for a refresh
  (section 4 says where the runtimes differ).

### Google sign-in and one-time values - `worker/src/auth/google.ts`, `worker/src/durable/one-time-store.ts`, `backend/src/auth/google/google-auth.service.ts`, `frontend/src/lib/api.ts`

* State: users, connections (a Google account of a user), one-time `state` and `code` values with a
  lifetime, the nonce in each tab's sessionStorage.
* Operations: start, callback (take the state, exchange Google's code, upsert the user, put a
  handoff code), exchange (take the code, compare the nonce), the purge.
* Hard: the callback twice, two first sign-ins of one account, two accounts with one email, expiry
  racing `take`, a link opened in another tab.
* Correct when: a value is taken once at most and never after its time; the session goes to the tab
  that began and is that of the account that was picked; racing sign-ins need no second retry; a
  conflict is one.

### Job processor (backend) - `backend/src/events/triggered.listener.ts`, `backend/src/executions/workflow.processor.ts`, `backend/src/executions/executions.service.ts`, `backend/src/admin/admin.controller.ts`

* State: the execution rows in PostgreSQL, the job of each execution in BullMQ (waiting, active,
  delayed, completed, failed; attempts made, stalls, the owner of its lock).
* Operations: row and job; `process` and `onFailed`; cancel; the operator's retry.
* Hard: stalled jobs and processors that outlive their lock, a cancel of a job that has just become
  active, a retry that requeues the job before it writes the row, a hook that reads before it writes.
* Correct when: SUCCEEDED means every action succeeded, a later attempt repeats nothing and loses
  nothing, row and job agree once nobody works on them, and every job ends.

### Webhooks and gates (backend) - `backend/src/webhooks/`, `backend/src/events/triggered.listener.ts`

* State: `webhook_events`, the hourly counters in Redis, each with its expiry.
* Hard and correct: as the Worker's ingress; INCR and EXPIRE are two calls.

### Scheduler and polling worker (backend) - `backend/src/scheduler/`, `backend/src/triggers/`

* State: repeatable jobs, the last-seen state in Redis with a lifetime.
* Hard: requests and boots that list, remove and add jobs at once; two processes that poll one
  trigger; a state that expires, or that an edit of what is watched leaves behind; a process that dies
  between the state and the payloads.
* Correct when: a wanted trigger has one job at its interval and another none; a change is emitted
  once unless two polls overlapped or one found it again in the state of another watch; nothing is
  stored as seen that was not emitted.

### Workflow, action and trigger editing - `worker/src/repo/workflows.ts`, `worker/src/routes/workflows.ts`, `backend/src/workflows/`, `backend/src/triggers/`

* State: workflows with an owner and a status, actions with a position each, one trigger a workflow
  with its webhook secret.
* Hard: no transaction spans two queries of a request: two actions appended at once, a reorder over
  a list that changed, two saves that each make a secret, a pause that saw a workflow before it was
  deleted, a clone of what is being edited.
* Correct when: steps have an order, secrets are kept and shared by nobody, what is deleted stays
  deleted, a clone is whole - up to the races the code does not exclude, which the properties name.

### Dashboard builder page - `frontend/src/views/workflows/WorkflowDetailPage.tsx`, `frontend/src/features/`

* State: react-query's cache of workflow, trigger, actions and runs; mutations in flight.
* Operations: reorder (optimistic, with a rollback), add and remove steps, save the trigger (with a
  question before a webhook is replaced), switch on and off, test run, cancel; polling while a run
  is in flight.
* Hard: a fetch answered before the mutation beside it, a rollback to an older list, a question asked
  of a stale cache, a test run that is admitted after the page has looked.
* Correct when: a page at rest shows the truth, no secret is lost unasked, a test run is followed.

### Without a protocol of their own

Templates, the Telegram bot (one upsert and a reply), the dashboard's lists, landing page and forms,
HTTP plumbing, guards, health, DTOs, the audit log, the one-off migration script: section 8.

## 2. Modules

```
PollChange <- Poller <- MCPoller              Run <- (INSTANCE) RunEngine <- MCRunEngine
PollChange <- NestPolling <- MCNestPolling                      RunEngine <- RunEngineProofs
Admission  <- MCAdmission                     GoogleSignIn <- MCGoogleSignIn
Poller      <- PollerProofs                   NestPolling <- NestPollingProofs
Admission  <- AdmissionProofs                 GoogleSignIn <- GoogleSignInProofs
Sessions   <- MCSessions                      Editing      <- MCEditing
Dashboard  <- MCDashboard                     Editing      <- EditingProofs
NestEngine <- MCNestEngine                    NestEngine   <- NestEngineProofs
QueuedRun  <- (INSTANCE) NestEngine
Dashboard, Sessions <- ClientProofs
```

| module | models |
|---|---|
| `Run` | the life of an execution as the API promises it: the abstract specification |
| `RunEngine` | the Worker's run engine, its handlers, and the faults of its platform |
| `QueuedRun` | the same life under a queue that runs a job at least once: what is left of `Run` in the backend |
| `NestEngine` | the backend's: the BullMQ job of a run, its processors, hook and handlers |
| `Admission` | ingress, gates, limits and delivery log of either runtime |
| `PollChange` | `evaluatePoll` and its helpers as operators |
| `Poller` | the Worker's poller: the Durable Object of one trigger, the edits around it, the cron |
| `NestPolling` | the backend's: repeatable jobs, the edits and boots that register them, the polls |
| `Sessions` | refresh tokens in the API of either runtime, and the tabs that share one of them |
| `GoogleSignIn` | sign-in with Google in either runtime: tab, Google, callback, one-time store |
| `Editing` | the requests that edit workflows, steps and triggers, query by query, either runtime |
| `Dashboard` | the builder page as a cache over the API |
| `...Proofs` | the theorems about the module they extend; `ClientProofs` is about the two that have the browser in them |
| `MC...` | values of the constants for TLC |

Where both runtimes have one protocol, one module has a variable `runtime` that is chosen at the
start and never changes (`Admission`, `Sessions`, `Editing`), or the two do the same at the grain of
the model (`GoogleSignIn`). Where they have different machinery there are two modules.

The modules meet at rows and values, not at shared variables: `Admission` ends where it has created a
run and handed it off, which is where `RunEngine` and `NestEngine` begin; `Poller` and `NestPolling`
end at a payload, which is a request of source "poll" in `Admission`; `Editing` leaves to the pollers
what a save or a status does to polling; `GoogleSignIn` ends at a session, which is `SignIn` in
`Sessions`; `Dashboard` has the API's answers and runs as its server. Each module lets its neighbour
do anything the neighbour's code can do at that boundary.

### How state and actions correspond to the code

**RunEngine.** `status`, `output` and `succeeded` are the columns of `workflow_executions` and the
actions with a SUCCEEDED row. A payload is the set of actions whose output it holds: the
properties ask whose output a step sees, never what is in it. `launch`, `cancel` and `retry` say
where the three handlers are. An instance has `pc`, what `load` returned (`plan`, `payload`), the
loop variable (`step`) and the attempts of the current `step.do` (`tries`). `att[i][a][n]` is the
`n`-th call of action `a`'s callback in instance `i`; it is state of its own because a callback
that timed out runs beside the next one. Each await of the source that touches shared state is one
action: `LoadFind` and `LoadPlan` are the queries of `load` (not one snapshot), `LoadWrite` its
update; `Commit` is the batch of step row and checkpoint. `LoseCallback` and `LoseAttempt` are the
death of the isolate or a failed D1 call anywhere in a callback, `TimeOut` is STEP_TIMEOUT,
`LaunchLost` and `RetryLost` are lost handlers.

**Admission.** `at` says where each request is between its awaits: the ingress (a delivery with its
`LookUp`, `InsertEvent` and `ReportWinner`, a manual fire, a payload of a poll) and then `admit` or
`handleTriggered`: workflow active, count, budget, row, hand-off, mark. The backend's budget is two
calls, INCR and EXPIRE; `ttl` says which counters will expire. `event` and `run`
are the rows a request inserted, `bucket` the RateLimiter's counters. `usedHour` (whose budget was
used) and `raced` (another run was created or came back between a request's count and its own insert)
are history: they are read by properties only. What the engine does with a run is module `RunEngine`;
here a run may be cancelled before it was handed off, ends at some time (`EndRun`) and may come back
(`RetryRun`: the operator's retry, or an engine that writes RUNNING over a row that has ended), with no
gate asked.

**Poller.** `trigger`, `active`, `config` are D1, `alarm`, `interval`, `state` the object's
storage, `tick` and the variables beside it the running `alarm()`. A Durable Object runs one
`alarm()` at a time and lets an RPC in where `alarm()` awaits something outside its storage, so
`Evaluate` (read, evaluate, write) is one action and `Start` and `Stop` are atomic. A time is its
interval: alarms carry no clock, only what they were set to. Responses are sequences of opaque
items. All configurations are of one endpoint and stateKey, and of one changeMode unless `ModeEdits`:
what an edit of those does to change detection, whose code both runtimes share, is in `NestPolling`.
`fired`, `twice` and `polled` are history.

**Sessions.** A token is the number of its row; `row` and `next` are `revoked_at` and
`replaced_by_token_id`. `runtime` is chosen at the start and never changes. A `call` is a request in
the API, one action for each await of its handler: `Find`, then `Spend` and `Issue` (Worker) or
`Issue` and `RevokeOld` (backend); `EndSession`; `Issue` alone for a sign-in. Of a tab, `access` is
its memory (an access token may expire at any time, so a tab with one may always get a 401),
`refreshing` its `refreshInFlight`, `button` the sign-in or sign-out it awaits; `stored` is the
localStorage all tabs share. `Open`, `Unauthorized`, `SignIn` and `SignOut` send, `RefreshSettled`
and `ButtonSettled` take the answer; what a tab does between two answers is one action. `LoseCall`,
`ConnectionLost` and `Leave` lose a handler, an answer, a page. `session`, `answered` and `ended`
are history. Left out: the seven days of a token (one that has expired is refused as a revoked one
is), its signature and hash (its identity), other users (they share no row).

**NestEngine.** `job` is the job in Redis, `proc` the `process()` call of each worker slot: the reads
(`FindExecution` and the queries after it), RUNNING, then for each action a row, the executor, and one
transaction of row and checkpoint; a throw, and BullMQ's reaction to it (`delayed` or `failed`).
`Stall` takes the lock from a processor that is dead or that lives and goes on beside its successor;
releases of BullMQ differ on whether a stalled job's death counts as an attempt, so both are there.
`hook` is `onFailed`, between its read and its write; `cancel` and `retry` are the two handlers. A
payload is the number of the action whose HTTP answer was merged last. `zombie` and `late` are
history: they name what the code does not exclude.

**NestPolling.** `handler` is a request or a boot between its awaits: upsert, read back, list the
repeatable jobs, remove, add, delete the row. `jobs` is the set of intervals registered, as a
repeatable job is its interval. A configuration is an interval and a `watch`: the changeMode and a
source, which stands for endpoint, method, headers and stateKey. An edit stores any configuration and
leaves the state in Redis as it is. `poll` is the poll of each process: find (the watch), fetch,
evaluate (with the state it read), write, emit. `fired`, `twice`, `excused`, `retold`, `origin` (the
watch the state is of) and `overlapped` are history; a payload there is one of a watch.
`schedule` says whether anything may still be said about the jobs: it is lost when handlers race or die, and comes back with a boot that nobody disturbs.

**GoogleSignIn.** A sign-in stands for its random values: state, code and nonce. `call` is a callback
request with one action for each of its awaits; `Insert` is the batch (in the backend, the
transaction) in which the unique constraints decide, `Violation` the single retry. `pending` and
`handoff` are the one-time store; a stale value is one whose time has passed. `overtaken` is history:
a connection of the same account was inserted between the two queries of the call.

**Editing.** A request is `read`, then `write`, with what it has read in between; a clone has a read
for each relation. An operation that needs nothing starts at its write. `overlapped` and `tangled`
are history and name the races after which the code promises less.

**Dashboard.** `server` is what the API would answer, `data` what each query shows, `fetch` a query in
flight and, once answered, the value on its way. A mutation is a `click`: pressed, applied or refused by
the server, then its callbacks (`onError`, `onSuccess`, `onSettled`). `Poll` is `refetchInterval`,
`Admit` and `Refuse` are the server's background admission of what was fired. `behind` and `missed` are history.

## 3. Runs

| run | question | bounds | result |
|---|---|---|---|
| `run_settled` | do rows, checkpoint and retries agree when the operator retries settled runs only, does a run end, and is that the life of a run? | 1 execution, 3 actions, 2 attempts, 2 retries, 2 crashes | holds, and implements `Run` |
| `run_chaos` | what survives cancels, retries of live runs and late attempts? | 1 execution, 2 actions, 2 attempts, 1 retry, 1 timeout | success is complete, steps are in order |
| `run_cancel` | does a cancelled run stop? | 1 action, no fault | **no**, finding 1 |
| `nest_engine` | the same questions of the backend: is it the life of a queued run, does it resume, do row and job agree, does a job end? | 1 execution, 2 actions, 2 slots, 2 attempts, 1 stall, 1 retry, 2 faults | holds, and implements `QueuedRun` |
| `admission` | dedup, delivery log, decision, hourly budget, expiring counters, the ceiling without a race | a delivery, its redelivery, a manual fire, a payload; 2 hours, limits of 1, 1 fault, any ends, cancels and retries of runs, either runtime | holds |
| `poller` | what fires, and does polling follow the trigger? | 2 edits, the cron, 1 item, 2 intervals, 2 modes, 1 fault | holds |
| `nest_polling` | does the schedule follow the trigger, is a change emitted once, is none lost? | 2 handlers, 2 items, 2 intervals, 3 watches of 2 modes and 2 sources; 2 processes with an edit or a fault to come, one with 2 edits, or an edit and a fault, none with 3 edits and a fault | holds |
| `sessions` | has a session one live token and is a sign-out final (Worker), is no answered token taken again and is what the tabs store alive (both)? | 2 tabs, 3 requests at a time, 3 tokens, 1 fault, either runtime | holds |
| `sessions_tabs` | is a rejected refresh the end of the session? | 2 tabs, no fault, the Worker | **no**, finding 2 |
| `sign_in` | whose session, in which tab, how often; is one retry enough and a conflict real? | 2 tabs, 2 sign-ins, 3 callbacks, 4 identities of 3 accounts and 2 emails, 1 fault | holds |
| `editing` | order of steps, secrets, deletion, clones | 3 requests, 2 users, 3 workflows, 6 steps, 4 menus, either runtime | holds |
| `dashboard` | does a page at rest show the truth, is a webhook replaced only when asked, is a test run followed? | 2 mutations, 2 steps and a third, 2 runs, 1 foreign edit, 1 fault, 4 menus | holds |

Why the bounds are enough for what they are asked:

* An execution's rows are touched by its own instances, or its own job, only: one execution is all of
  an engine's interaction. Three actions give a first, a middle and a last one: a checkpoint that
  forgets, or a resume that skips, shows; with the backend's single merged answer two do. Two
  retries give fail, retry, fail, retry; two crashes make a crash after a crash. Two slots are a
  processor and the one that outlived its lock; two attempts are the least with a retry by the queue.
* Dedup and the ceiling are pairwise races: two deliveries of a key and two more triggers of the same
  workflow are every pair. Limits of one are passed by a second request. Two hours let a request
  count in one and another in the next, with the alarm in between.
* Two edits, the cron and `alarm()` are four processes over one poller: the orders of write and call,
  and a stop between any two of them, are there. With one item a poll is the baseline, news or old.
  In the backend two handlers are every pair of racing edits, deletions and boots, and two processes
  every pair of overlapping polls. Two edits take a trigger to another watch and back while one process
  polls; three handlers in a row, which the repair of a racing edit by a boot takes, touch the jobs
  only and are asked without polls. Of the two sources one stays empty: what matters of another source
  is that its state has none of the items. The proofs (section 6) have no such bounds.
* Two tabs are every pair of clients over one storage; three requests let a refresh of each meet a
  sign-out; three tokens are a sign-in and two that follow it, or two sign-ins and a refresh. A
  request that may issue a token is sent only while one is left for it, so that the bound stops
  senders and never a handler in the middle. One fault is the lost answer of a spent token.
* The four identities are an account, another with the same email, the first account after a change
  of its email, and an unverified one; one of the emails has a user from before Google sign-in. Two
  sign-ins with three callbacks are two racing accounts, one of which repeats its redirect. The
  proofs (section 6) say that nothing changes with more.
* Three editing requests are a race of two with a third before, between or after. Requests of one
  behaviour come from one menu: what is in two menus shares no rows but the workflow, and `clone`,
  which reads everything, is in three.
* The counters `crashes`, `timeouts`, `faults`, `failures`, `retries`, `MaxRuns`, `MaxElsewhere`, `MaxClicks`,
  `MaxStep`, `MaxToken` and `LastHour` are bounds; the system has no such limits. `MaxAttempts`,
  `MaxStalls`, `MaxInFlight`, `MaxPerHour` and `DefaultAttempts` are limits the system has, at smaller
  values.
* `CHECK_DEADLOCK FALSE` everywhere: every model stops when its requests are served and its bounds
  used up, as the system does when nobody asks for anything.
* Symmetry is used in the runs without liveness only, over sets whose members differ in nothing.

### Fairness

Weak fairness is assumed of what the platform promises to go on with and of nothing else:

* `RunEngine`: instances and their step callbacks (Cloudflare Workflows is durable: it calls a
  lost callback again), and a handler that was not lost. Not the owner who cancels, not the
  operator who retries, not a fault. `RunsEnd` holds as long as `load`, `fail` and `finish` fail
  less often than the platform retries them (`MaxCrashes` 2 below `DefaultAttempts` 3; the
  platform's default is 5 retries): when D1 is away for longer, run() itself fails and the row
  stays RUNNING, which is a hazard of `PROJECT.json`.
* `NestEngine`: a processor that lives goes on, a free slot takes a waiting job, BullMQ promotes a
  delayed job and finds a lock nobody renews, and hooks and handlers that were not lost go on.
* `Poller`: an alarm that is set goes off, at least once (Durable Object alarms), `alarm()` goes
  on, a request that was made too, and the cron comes back. Not the endpoint, not the users.
* `Sessions`: the API serves what reached it and a tab takes an answer that is there (a fetch ends
  in an answer or an error). Not users, reloads, expiring tokens or faults.
* `Dashboard`: the API answers, the page takes answers and polls, what was accepted is admitted or
  refused and runs go on. Not users, other clients or faults.

## 4. Findings

1. **A cancelled run starts** (`run_cancel`). The cancel handler reads PENDING and writes
   CANCELLED later; `load` has read PENDING in between and writes RUNNING over it. The comment
   beside the code says that the first step "sees CANCELLED and stops".
2. **A second tab signs both out** (`sessions_tabs`). Single flight is per tab, the token is not:
   of two tabs that send it, one is refused, takes that for the end of the session as the comment
   says, and removes the new token the other has just stored.

Where the two runtimes differ, the property says for which it is stated: `OneLivePerSession` and
`SignOutEndsSession` are promised by a comment of the Worker only and hold of the Worker only. The
backend issues before it revokes, so refreshes that race on a token all succeed, and one that races
a sign-out leaves a live token. `NoReplay` holds of both.

## 5. Observations

What the models had to allow because the code does it, without a run of its own. Where a property
above has an exception, this is the exception.

* **Worker's engine.** The operator's retry does not look at the status
  (`worker/src/routes/public.ts:147-156`): of a run that is still running it starts a second instance,
  and the checkpoint of one overwrites the other's, so that a row says SUCCEEDED without its output
  (`RetryAnyStatus = TRUE` refutes `CheckpointMatchesRows`, which a comment of `runStep` promises).
  When the create of the retry's instance throws, the row stays PENDING with nobody to run it.
* **Limits.** Triggers that race pass the concurrency ceiling together: the count and the insert are
  awaits apart, in both runtimes. The operator's retry (`worker/src/routes/public.ts:147-156`,
  `backend/src/admin/admin.controller.ts:82-96`) puts a run back in flight and asks neither the ceiling
  nor the hourly budget. `CeilingUnlessRaced` is what is left.
* **Ingress.** The backend accepts a delivery whose body is not JSON where express has parsed it
  otherwise; the Worker answers 400.
* **Change detection.** array_length does not fire when the array shrinks, although the
  repository's README says that it fires when the length changes. Saving another changeMode keeps
  the state of the old one, so that what was seen fires again (`ModeEdits = TRUE` refutes
  `NothingOldFires`), and so does another endpoint or stateKey. In the backend
  (`backend/src/triggers/triggers.service.ts:60-73` stores the configuration and leaves the key in
  Redis) array_length to another watch and back emits the same items twice, with one process and no
  overlap (`retold`), and items that both sources have are taken for old and never emitted, which
  `NothingMissed` excuses for the one poll that compares across the edit.
* **Backend's engine.** A late FAILED of `onFailed` and a late PENDING of the operator's retry
  overwrite what the row says by then. A process that dies after it wrote SUCCEEDED makes the row go
  back to RUNNING. A job that dies of stalling before its last attempt leaves the row RUNNING:
  `onFailed` takes its early return. `job.retry()` keeps the attempts made. When `queue.add` fails the
  row stays PENDING.
* **Backend's polling.** Two edits that race leave two jobs, or none, until the next boot; two polls
  that overlap emit a change twice.
* **Google sign-in.** Two racing first sign-ins of one account can end in `account_conflict` for the
  slower one, although a comment says that the retry sees the winner: its two queries are no
  snapshot.
* **Editing.** Steps appended at once get equal positions, and so does a reorder of a stale list. A
  pause, resume or patch that looked before a deletion brings the workflow back. Of two saves that
  make a trigger a WEBHOOK each draws a secret. A comment in `triggers.service.ts` mentions a
  rotate-secret endpoint that does not exist. Deleting an action while a run goes on cascades to the
  run's step rows, which no model has.
* **Dashboard.** A test run admitted after the one refetch that follows the click is never shown, nor
  one fired while the list loads for the first time. A click on another trigger type right after a
  webhook was saved replaces it without the question. When the answer of a mutation other than the
  reorder is lost, the page shows old data. `pollHistory` is typed as an array, while the API
  answers an object with `data`.

## 6. Proofs

Eight modules of theorems, checked by TLAPS for every value of the constants the named assumptions
allow; TLC evaluates the assumptions in each run. Each inductive invariant below was also checked by
TLC on the instance of its run before it was proved.

`RunEngineProofs`, under `ConstantsAssumption`:

* `TypeCorrect`: `Spec => []TypeOK`.
* `OrderInvariant`: `Spec => []OrderInv`. Neither of the two properties that matter is inductive.
  SUCCEEDED is written by `FinishWrite`, which looks at nothing but its own position; so
  `FinishesAtEnd` says that position is past the last action, `PassedSucceeded` that what an
  instance has passed is in the rows, and this in turn needs `SkipsSucceeded` (what it skips was
  read from the rows) and `CommittedSucceeded` (what it moves on from was committed). All of them
  rest on one fact: no step takes an action out of `succeeded`.
* `SuccessIsComplete` (`SucceededRanEverything`) and `ActionsRunInOrder` (`StepsInOrder`) follow.
  They hold with cancels, retries of live runs, crashes and timeouts: no constant is restricted.
* `CheckpointKept` (`CheckpointMatchesRows`) and `StepsSeeOutputs` (`StepSeesEarlierOutput`) have two
  hypotheses, `Quiet`: the operator retries settled runs only and no callback is abandoned while it
  runs, which is how `run_settled` sets the constants. Without either they are false (section 5).
  Crashes and cancels are not restricted. `QuietInvariant` rests on `OneClaim`: of the instances of
  an execution one at most still lives, is about to be created or has a callback out. So whoever
  writes is alone, and `PayloadFits` can say that what `run()` holds is what the rows say, up to the
  step it is at; `OneAttempt` says it of the callback and `StatusFits` of the status that the next
  retry will look at.
* `EngineImplementsRun` (`ImplementsRun`) is the refinement: under `Quiet`, and when nothing is
  cancelled, each action of the engine is a step of `Run` or leaves its three variables alone. A
  cancel is excluded because finding 1 is a step that no life of a run has.

`AdmissionProofs`, under `AdmissionAssumption`:

* `AdmissionTypes`: `Spec => []TypeOK`, for any set of requests, finite or not.
* `AdmissionInvariant`: `Spec => []AdmissionInv`, which adds to the type invariant `PlaceTells`
  (what a request's place says of its rows), `DeliveryIsStored`, `OneEventPerKey` and
  `CounterCounts`.
* `DedupHolds` (`OneRunPerKey`): the property alone is not inductive, as `CreateRun` looks at no
  key. A delivery that runs has its event (`DeliveryIsStored`), and of a key there is one event
  (`OneEventPerKey`, kept by the unique constraint in `InsertEvent`).
* `BudgetHolds` (`HourlyLimit`): the limiter compares its own counter and not what was used.
  `CounterCounts` says that the counter of the current hour is at least what was used of it; the
  alarm deletes counters of other hours only, and later hours are unused.
* `DuplicatesDoNothing` and `LogIsTrue` are parts of the invariant that rest on `PlaceTells`.
* `AcceptedTriggersDecided` (`AcceptedIsDecided`) and `CountersAreForgotten` (`CountersExpire`) each
  need a strengthening of their own over `AdmissionInv`: what a request that was accepted still has
  ahead of it, and which request still owes a counter its expiry.
* `CeilingHolds` (`CeilingUnlessRaced`): `CreateRun` looks at no count. `CeilingInv` carries the count
  to it: while no run of the workflow was created and none came back since a request counted, the runs in
  flight are still fewer than the ceiling. `CreateRun` and `RetryRun` alone add to that set, and both
  mark who has counted (`Races`); every other step takes runs out of it or leaves it.

`GoogleSignInProofs`, under `GoogleSignInAssumption`:

* `SignInInvariant`: `Spec => [](TypeOK /\ SignInInv)`, one induction: a callback reads the columns
  of an identity only because the invariant says that it has one. `CallInv` says of each callback
  what it knows at its place (`Picked`, `HasUser`), which races it can still lose (`Races`) and what
  an answer to its first query is worth by its second (`Overtaking`); `OneAtATime` that a sign-in has
  a state in the store, or one callback, or a code; `CodesOnce`, `CodesHaveUsers` and `NoncesAreOwn`
  follow codes and nonces.
* `OneRetryIsEnough` is the surprising one. A retry is needed at all only when a connection of the
  account or of the email was inserted meanwhile; connections are never taken back (`Grows`), so the
  second round finds the account, or the email with a connection and answers a conflict: it never
  comes to an insert. `ConflictsAreReal` needs the same and `Overtaking`.
* `NothingTwice` rests on `OneAtATime`, `RightUserRightTab` on `CodesHaveUsers` and `NoncesAreOwn`.
  `OfflineAccessStays` and `NothingLeftBehind` (the purge alarm) have no run.
* In the proof of the step an action first becomes an effect on its callback (`Keeps`, `Grows`), and
  `OthersStay` and `CallbackInv` say once for all actions what such an effect leaves alone.

`ClientProofs`, of the session, under `SessionsAssumption`:

* `SessionsInvariant`: `Spec => [](Awaiting /\ SessionsInv)`. Its core is `OneClaim`: in the Worker a
  session is one live token, or one refresh that has spent its token and will issue the next
  (`Holder`), or over. `OneLivePerSession` is not inductive without it: `Issue` looks at no other row,
  and what keeps a second live token away is that `Spend` turned the one there was into the claim.
* `OneTokenASession` (`OneLivePerSession`) and `SignedOutForGood` (`SignOutEndsSession`) are two of its
  conjuncts. Neither holds of the backend, which issues before it revokes.
* `AnsweredIsSpent` (`NoReplay`) holds of both: `CallOK` says that a refresh that is answered has its
  token revoked, by `Spend` in the Worker and by `RevokeOld` in the backend, and no row comes back
  to life (`Ages`).
* `LiveTokenStored` (`StoredIsLive`) holds of both too. `Kept` says that while nothing was lost each
  token that a request has issued is live, is known to that request alone and will reach a tab that
  waits for it, and that what is stored is live or has been sent by a request still under way.

`ClientProofs`, of the builder page, under `DashboardAssumption` (the two modules share no variable):

* `PageInvariant`: `PageSpec => []PageInv`, for any number of clicks, steps, runs, failures and edits
  by others.
* `SettledPageIsTrue` (`SettledIsTrue`): the property speaks of a page at rest, which says nothing of how
  it came to rest. `InStep` says it of a page at work: a query other than the runs shows, or is about
  to be told, what the API would answer, unless it is `Excused`: a failure or another client left it
  behind, or a mutation of it is done on one side only (`OneSided`: a reorder is on the page before the
  API, any other on the API before the page). What ends the excuse is the fetch that follows a
  success, and that fetch starts only because what a mutation touches was shown when it was pressed
  (`Grounded`): react-query lets a first load go on, which may have been answered too early.
* `WebhookIsAskedFor` (`WebhookNotLostUnasked`) carries the look at the click to the moment the API
  writes. `Harmless` says it of a save under way that did not ask; it needs `InStep` at the click, and
  `SavesMeet` (two saves under way each know of the other), as the other could make it a webhook
  in between.
* The attempt to prove it found `NextItem` written with overlapping CASE arms, of which TLA+ does
  not say which is taken; it is a chain of conditions now, as in the source.

`NestEngineProofs`, under `NestAssumption`:

* `NestInvariant`: `Spec => []NestInv`. Two of its parts need no lock. `NoneSkipped`: what a processor
  will not run has a SUCCEEDED row, and rows are never taken back. `EnqueuedOnce`: the job of a run
  is enqueued by its listener once.
* `NestSuccessIsComplete` (`SucceededRanEverything`) follows from `NoneSkipped`, stalls, zombies and
  lost locks included: two processors of one run can repeat an action, never leave one out.
* `RetryResumes` (`ResumesWhereItStopped`) needs the lock. `Locked`, `Resumable` and `Agrees` say that
  while no living processor of a run lost its lock, whoever works on the run holds it, the rows are
  of the actions 1 to k, the output is the last that an action produced, and the processor knows
  both. That the next action is the least one left (`Current`) uses that a set of naturals has a
  least element.
* `RowAndJobAgree` (`RowFollowsJob`): `JobInv` adds to it that a processor that has returned left
  SUCCEEDED behind, which is what BullMQ's `completed` will be held against. Cancelled runs, late
  writes and processors that outlive their lock are excluded by the property itself.

* `NestLivesAsQueued` (`LivesAsQueued`) is the refinement of `QueuedRun`, without a hypothesis: what the
  backend does not promise is a step of that specification, `Disturb`, and its `disturbed` is mapped to
  the runs that were cancelled, written late or had a processor outlive its lock. `InLife` says that the
  row of any other run says RUNNING while a processor works on it, and NONE only before its
  listener; with `Resumable` it makes `Commit` the next action of the life and with its answer. `SUCCEEDED`
  is not for good there, as it is in `Run`: a process that dies before the queue has heard of it is
  followed by another attempt (section 5). `SucceededRanEverything` is part of what `QueuedRun` says.

`EditingProofs`, under `EditingAssumption`, for any users, workflows, steps and requests:

* `EditInvariant`: `Spec => []EditInv`. `Begun` says of a request in flight that its workflow belongs
  to its caller and that the trigger it has read is sound; `UpToDate` that at its write what it has
  read still holds, unless another edit overlapped it. A read and a write are each one lemma
  (`ReadInv`, `WriteInv`), and every action is shown to be one of them.
* `OwnSecrets` (`SecretsAreOwn`) is not inductive: a save writes back the secret it has read, whatever
  was stored meanwhile. `Apart` therefore follows a secret into the saves that hold it: it is that of
  one workflow, stored or in flight. A clone draws its own.
* `SecretStays` (`SecretKept`) and `DeletedForGood` (`DeletedStaysDeleted`) are `UpToDate` at the write of a
  save and of a status.
* `StepsHaveAnOrder` (`OrderIsTotal`): the writes look at positions they have read, so `StepsInvariant`
  has `Tracks`: the positions a request has read are numbers under some bound, the steps it is aimed at are
  still of its workflow or deleted, and what a clone has read still holds unless an edit overlapped it.
  A write that gives two steps one position is one that `tangled` records. The attempt to prove it
  showed a case the model had wrong: the clone of a list that is tangled already is tangled too.
* `CopiesAreFaithful` (`CloneIsFaithful`) needs a bijection between the rows a clone has read and those
  it writes.

`PollerProofs`, under `PollerAssumption` and `ModeEdits = FALSE`:

* `PollInvariant`: `Spec => []PollInv`. `StateIsLast` says that the stored state is that of the last
  response that was polled, `TickHolds` that what `alarm()` has fetched is as late, and `Covers` that
  what is about to fire, or has fired, stands for what was polled. As items never leave the endpoint's
  array in another order, `getNewItems` then returns nothing that was polled (`NewItems`).
* `ChangesFireOnce` (`FiresOnce`) and `OnlyNewsFires` (`NothingOldFires`) follow, with edits, stops in
  the middle of a poll, evictions and lost requests. The hypothesis is the run's: an edit of the
  changeMode makes the second false (section 5).

`NestPollingProofs`, under `NestPollingAssumption` alone:

* `ScheduleInvariant` and `ScheduleIsRight` (`ScheduleFollowsTrigger`): `OnTrack` says of the one handler
  at work what it has read and what it still has to do, `Settled` what the jobs are when none is.
* `PollsInvariant` has three parts: `HoldInv` (what a poll holds is an answer of the source it watches
  and a state of some watch that it can have read), `MissInv` (all that a state has seen, the stored one
  or one about to be written, is accounted for under its watch) and `OnceInv`. The last one names a
  witness, for every watch the last answer that was written: while no two polls have worked at once,
  whatever fired or is about to under that watch stands for items of that answer, a poll at work has
  read one at least as late, and a state is the one its watch's answer left. A poll that finds the state
  of its own watch then has news only (`OnceNew`); one that finds another's marks what it tells again.
* `NoChangeIsMissed` (`NothingMissed`) and `OnlyOverlapOrEditFiresTwice` (`FiresOnceUnlessRetold`) follow.

`getNewItems` filters an array. Its definition in `PollChange` picks the kept positions in ascending
order (`Increasing`) and not with the recursive `SelectSeq`, whose results could not be reasoned about;
TLC finds the two equal on every short array.

Model-checked only: liveness (`RunsEnd`, `JobEnds`, `FollowsTrigger`, `NewsFires`, `RefreshSettles`,
`TestRunIsFollowed`), which is out of the prover's reach, and what holds under `ModeEdits = TRUE`.

## 7. Plan

Every part of the system with a protocol of its own has a module, both engines implement an abstract
life of a run, and every safety property of a passing run is a theorem. What is left is what the prover
cannot do, liveness, and what section 8 leaves out.

## 8. Not modelled

* Templates and what the executors send (`template.util.ts`, the bodies of the executors): text and
  I/O. The engines keep the two results of an action and which actions change the payload.
* The Telegram bot: one upsert for a message, and a formatted reply.
* The dashboard's lists, landing page, layout and forms: rendering over the API.
* HTTP plumbing, validation, health, DTOs and the audit log. The owner checks and the status codes
  that decide a request are guards of `Editing` and `Admission`.
* Cryptography (signatures, hashes, PKCE, encryption of tokens): a random value is its identity.
* The one-off migration script. The constraints of the schema are in the modules that rely on them.
