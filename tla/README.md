# GovCrawler in TLA+

Specifications, model-checking runs and machine-checked proofs for GovCrawler: a crawler of
government web sites whose agents run on operators' machines, a cloud tier that owns the shared
database, and an e-mail outreach system on top of it. Source paths below are relative to `src/`.

## 1. The system

| Component | State it keeps | Operations | Talks to | Module |
|---|---|---|---|---|
| E-mail dispatcher (`cloud/api/dispatcher.py`, `cloud/dispatch_service.py`) | `campaign_emails` while they are sent, per-credential pacing in memory, the poll loop's tasks | dispatch, claim, mark sent/failed, requeue, recover stuck rows | mail servers, the handlers through the database | `Dispatch` |
| Campaigns, templates, blacklist (`cloud/api/campaigns.py`, `templates.py`, `blacklist.py`, `cloud/services/campaign_service.py`) | `campaigns`, `campaign_emails`, `campaign_credentials`, `templates`, `blacklist` | create, add, select, edit, delete, pause, cancel, choose a pool | dispatcher, lead store | `Desk` (and `Dispatch`) |
| SMTP credentials and OAuth (`cloud/api/credentials.py`, `oauth.py`, `cloud/security/`) | `smtp_credentials`, `oauth_pending_flows`, the encryption key | create, edit, test, delete, connect, refresh a token, rotate the key | mail servers, providers, dispatcher | `Desk` (and `Dispatch`) |
| Lead outbox (`agent/local_store.py`, `agent/cloud_client.py`) | one SQLite file per job: `outbox`, `outbox_dead` | enqueue, flush, ack, fail, drain | the engine's database thread, the cloud's batch endpoint | `LeadOutbox` |
| Lead store (`cloud/db/mixins/lead_mixin.py`, `crawl_snapshot_mixin.py`, `shared/scoring.py`) | `leads`, `lead_occurrences`, `crawl_snapshots`, scores, weights | save or enrich, upload, edit, recompute, filter, count | coordination endpoints, catalog | `LeadStore` |
| Domain catalog (`cloud/db/mixins/domain_mixin.py`, `cloud/services/importer.py`, `cloud/api/imports.py`) | `domains`, the netloc cache, the import lock | import, upload, edit a URL, resolve a host | lead store, crawl jobs | `LeadStore` |
| Crawl jobs (`cloud/api/coordination.py`, `cloud/db/mixins/job_mixin.py`, `agent/api.py`) | `crawl_jobs`, the agents' registries of engines | create, heartbeat, reap, cancel, finish, resume | engine, outbox, portal | `CrawlJob` |
| Crawl engine and frontier (`agent/crawler/engine.py`, `pagination.py`, `agent/localdb.py`) | queue, pending items, visited set, chain budgets, checkpoint, history | take, fetch, discover, checkpoint, rehydrate | outbox, job registry, web | `Frontier` |
| Sessions and RBAC (`cloud/api/auth.py`, `admin.py`, `roles.py`, `cloud/db/mixins/auth_mixin.py`, `agent/identity.py`) | users, roles, overrides, sessions with rotating refresh tokens; the agent's identity and keyring | sign in, refresh, sign out, revoke, deactivate, reset, change roles | every endpoint, launcher | `Session` |
| Launcher (`agent/launcher/app.py`, `agent/bff/local_system.py`) | `AppState`, the server's thread, timers and dialogs | start, poll, stop, drain, force, quit | Tk loop, uvicorn, agent server | `Launcher` |
| Page parser, BFF, frontends, catalogue scraper, migrations | - | - | - | not modelled (section 7) |

What makes each hard, and what *correct* means for it:

* **Dispatcher.** Coroutines of several campaigns share credentials; in `external` mode every HTTP
  handler is in another process. A row is claimed, waits minutes for its credential's slot, is
  accepted by a server and only then recorded; crashes, a kill switch, the recovery sweep and
  another coroutine may come in between. Exclusive claims, duplicates only where the code accepts
  them, final outcomes stay final, deselected rows are not sent, the kill switch takes effect within
  one message, rows never stay `SENDING`, a running campaign progresses. Where the code lets a late
  writer win (a sweep of a live claim, an edit written after it was read), the properties say how far
  that goes and count it.
* **Desk.** Rows are read before a wait for a provider or a mail server and written after it;
  deletions cascade through pools; leads are added again and again. Nobody gets two mails of one
  production campaign, a consent's code is exchanged once, a campaign restricted to some credentials stays so.
* **Outbox.** Two coroutines flush the same rows over an unreliable connection; `fail()` commits
  row by row; the agent may die at any time and the job be resumed on the same file. No lead
  disappears, none is given up early, the queue is oldest-first and cannot wedge.
* **Lead store and catalog.** Event loop, import thread and recomputation threads interleave over a
  cached map, frozen snapshots and scores. Leads only get better, stay attributed to where they came
  from, are scored by the weights in force, and every one can be found through the filters.
* **Jobs.** Heartbeats, the reaper, cancel, finish and resume race over one status; a cancel is
  only a flag. A job ends, a terminal status stays until somebody resumes, a cancel is eventually
  obeyed, no more engines work on a job than requests to resume it overlapped.
* **Frontier.** A checkpoint is assembled in a thread from structures that the event loop changes
  between the reads. Nothing held at a checkpoint is forgotten, the queue's count is exact, budgets
  hold over resumptions, a finished job leaves no checkpoint, and the crawl ends.
* **Sessions.** Refresh tokens rotate, three callers on one machine share one, and answers get lost;
  administrators act on each other. An administrator remains, ended sessions stay ended, the agent
  keeps the token the cloud will accept.
* **Launcher.** Callbacks of timers and threads arrive under open dialogs and after their stage has
  passed. It keeps polling, stops crawls only with consent or on an answer that none was running, and a stop ends.

The hazards are listed one by one, at their lines and with the properties about them, in
`PROJECT.json` "hazards"; those that no run covers are in section 5.

## 2. The modules

| Module | What it is |
|---|---|
| `EmailDelivery` | abstract: what a row of a campaign may go through |
| `Dispatch`, `MCDispatch`, `Dispatch_proofs` | the dispatcher, its handlers, sweep, poll loop and restarts; instances; theorems |
| `Desk`, `MCDesk`, `Desk_proofs` | campaigns, templates, blacklist, credentials, OAuth, key rotation; instances; theorems |
| `LeadDelivery` | abstract: what agent and cloud promise about an extracted lead |
| `LeadOutbox`, `LeadOutbox_proofs` | the outbox, its two flushers, the batch endpoint, crashes; theorems |
| `LeadStore`, `MCLeadStore`, `LeadStore_proofs` | leads, snapshots, scores, catalog, netloc cache, imports; instances; theorems |
| `CrawlJob`, `MCCrawlJob`, `CrawlJob_proofs` | a job's row, the reaper, the agents' handlers, registries and tasks; instances; theorems |
| `Frontier`, `MCFrontier`, `Frontier_proofs` | one job's engine: queue, workers, discovery, checkpoint, resumption; instances; theorems |
| `Session`, `Session_proofs` | accounts, roles, sessions, and the agent that holds one of them; theorems |
| `Launcher`, `Launcher_proofs` | the desktop launcher, its server thread and the requests between them; theorems |

`Dispatch` and `Desk` share tables and divide the handlers: `Dispatch` has those that race with
its coroutines, in the detail the race needs; `Desk` has all of them and of the dispatcher only
what it does to rows. `LeadOutbox` sees the lead store as an idempotent sink, `CrawlJob` sees
outbox and engine as phases of a task, `Session` has the launcher's refresh.

Operators named `X_Something` beside an operator `X` are variants of `X` with a plausible mistake;
nothing uses them except the mutation runs listed in `PROJECT.json` "mutants", each of which shows
that a property notices the mistake.

### Dispatch

A dispatch coroutine `t` is a program counter `pc[t]`: `start` (task created), `check` (head of the
loop, campaign re-read), `claim`, `pick` (credential), `slot` (asleep until the credential is
free), `smtp` (dialogue until acceptance), `quit` (accepted, `quit()` awaited). The stretches
`check`-`claim`-`pick` contain no `await`, so in one process nothing else of that process runs
between them (`TaskTurn`, `ApiTurn`); in `external` mode handlers do. The row's column
`sending_since` is the Boolean `overdue` (past the 600 s threshold); `cooldown_until` is one of
null, past, future; `sent_at` is reduced to the credential that sent a row today (`sentVia`).

One action per handler (`DispatchCampaign`, `UpdateCampaignStatus`, `UpdateCampaignCredentials`,
`SelectionRead`, `BulkToggleEmailSelection`, `DeleteCampaignEmail`, `AddEmailsToCampaign`,
`TestCredential`), one per exit of the loop body (`MarkSent`, `AuthFails`, `HardBounce`,
`TemporaryFailure`, `PermanentFailure`, `NoCredential`, `Drained`), and the environment: `Poll`,
`RecoverStuckSending`, `Sigterm`, `Restart`, `ThresholdPasses`, `CooldownExpires`, `Midnight`.

Two functions read in one statement and write in a later one whose `WHERE` repeats none of what was
checked, so each is two steps: `set_email_selection` (`SelectionRead`, `SelectionWrite`, with what was
read in `edit`) and the API process's `recover_stuck_sending` (`SweepRead`, `SweepWrite`, with `sweep`).
In embedded mode nothing comes between them; in `external` mode the dispatcher does. `polled` is the
private map `active` of `_poll_loop`: which task it started for which campaign. `Poll` starts a task where
the map has none or one that is done, enters it, and drops the entries that are done, in one stretch.

What those races, long waits and late errors do is not assumed away but counted, in history variables
that no guard of the code reads: `taken` (a row was taken from a live coroutine, by a sweep past the
threshold or by a late write, or a recorded outcome was taken back), `resent` (it was requeued after the
server accepted it, because `quit()` is in the same `try`), `crossed` (an edit of its selection was
written over a status other than the one read). `MaxAgain` bounds the first and the last of the causes.

Abstractions. The retry loop of `claim_next_queued_email` (at most 5 rounds) is one atomic claim.
The round-robin choice is any credential of the pool, which includes it. The order in which
coroutines obtain a credential's slot is any order. A test campaign's single credential is an
assigned pool of one. Text edits, templates, `pause_reason` and token refresh leave the modelled
state alone. The other handlers are atomic: each is one synchronous stretch around its transactions,
except that in external mode it interleaves with the coroutines between its call and theirs.
`Init` allows credentials whose cooldown lies in the past and campaigns without an owner: the
former are credentials that cooled down once, the latter come from `alembic/versions/0014`, which
skips its backfill when there is no admin, and campaigns whose owner was deleted.

### LeadOutbox

`outbox`, `attempts` and `dead` are the file; `pc[f]`, `batch[f]` belong to the flusher `f`:
`"loop"` is `_flush_loop`, `"drain"` is `finish_job` (and `best_effort_drain` before it, with one
deadline for both). A flusher is `posting` from reading its batch until the answer, `failing`
during the loop over `fail()`, `asleep` in the back-off. `served[f]` says the cloud has processed
the request; a request whose sender is gone stays on the `wire` and may be processed later.
`fail()` is an action per row, because it commits per row and a crash may fall in between; the
other flusher runs only at awaits (`Turn`). `stored` and `rejected` are the cloud: `bulk_save_leads`
saves every item it can, reports the others in the body of a 200 answer, and is idempotent.
`found` and `failures` are history variables.

Abstractions. The idle and busy sleeps are the absence of a step. Backpressure only slows
discovery. If the `finish` request itself fails, the job's status is affected, not the outbox.
An agent may be restarted and the job resumed at any time, also after `finish`
(`resume_job` does not look at the status).

### CrawlJob

`status`, `cancel`, `host`, `beat`, `started` are the row (`cancel_requested`, `agent_hostname`,
`last_heartbeat_at`, `started_at`); the two times are null, fresh, or old (past the reaper's 150 s).
The cloud's coordination handlers are synchronous after their dependencies and one process runs
them, so each is one step. A task `_run_crawl` is a program counter: `created` (nothing has run
yet), `crawling` (the engine waits for its queue), `ending` (the `finally` of `run`, up to its last
heartbeat), `draining` and `posting` (`finish_job`, and `best_effort_drain` before it), `closing`
(unregistered, in `aclose`). `outcome` is the status it is about to report. `Interrupt` is
`task.cancel()`: which `except` clause it lands in depends on where the task is, and inside the
clauses that report `cancelled` or `failed` it ends the task without a report. Create, resume and cancel requests of the agent
are split at their awaits (`startPc`, `cancelAgent`). `latePulse`, `lateFinish`
and `lateResume` are requests whose sender is gone and which may still arrive. `resume_job` checks the registry, awaits
the cloud and starts a task without looking again: `overlaps` counts the requests that were begun on an
agent while another was between those two points.

Abstractions. One job; jobs share nothing but the agent's identity. The answer to a heartbeat is
read in the step that serves it. A cancel request that arrives late is a `RemoteCancel`. The outbox
is left to `LeadOutbox`: draining ends at some point, by its deadline at the latest. `Init` also
allows an interrupted job without an agent, created before jobs were stamped with one
(docstring of `claim_or_verify_job_agent`).

### Desk

`camps`, `mails`, `creds` and `flows` are the tables; sequences, because ids are handed out in
order. Handlers without an `await` are atomic. The three that wait (a connection test, the OAuth
callback, a message being sent) leave an element in `waits` with what they read, and end in an
action each (`TalkAccepted`, `TalkRefused`, `TalkPostponed`, `TalkBounced`, `EndCallback`), which
writes back whatever has happened to the row meanwhile, a refreshed token included. `keys` and
`script` follow the runbook of a key rotation. `asked`, `exchanges` and the fields `grant` and
`connected` are history.

Abstractions. The text of a mail is the version of its template, 0 once edited by hand. There is one
template; `PUT /api/credentials` changes password and activity only. Foreign keys are enforced, as in
PostgreSQL (on SQLite they are not, and dangling assignments remain). `QueueMails` may happen at any
time while a campaign is `RUNNING`, which includes every moment `Dispatch` allows. Owned campaigns
queue and are never sent, and a credential that never cooled down is never used (the two faults of
sections 3 and 5), so `Init` also allows an older deployment's campaign without an owner and a
credential that cooled down once. The page bounds the inputs: a mail is edited through its own
campaign, Connect is offered for OAuth credentials. Restarts that lose `waits` are left to
`Dispatch`, and so is a dispatcher in another process coming between two statements of a handler. A test
campaign is created from a list of recipients, one mail for each entry, repetitions included
(`campaigns.py:142`). Ownership checks, pacing and limits are left out.

### LeadStore

`domains` is the catalog by id, `cache` the netloc map with its build in two steps (`StartBuild`,
`FinishBuild`), `imp` the import thread (`ReadFile` or `FetchDirectory`, `ReplaceCatalog`,
`Invalidate`, `EndImport`: commit and invalidation are two steps), `rec` the recomputation threads:
`ReadRows` reads all rows, `ScoreRow` reads the weights anew for each row and computes its score,
`CommitScores` makes them all visible at once, and `RollBack` discards them. `rescored`, `shaken` and
`outdated` are the history that `ScoreAgrees` needs to say which leads are owed the right score. Handlers run on one event loop and are atomic
among themselves. `SaveLead` is insert with attribution, snapshot and score, or enrichment and
upgrade of the existing row, with its occurrence. The read operations `LeadCategories`, `LeadStates`,
`ApplyLeadFilters` and `ExportQuery` are operators, compared with each other by `Findable`; `LeadCategories` has a row for
each pair of code and title, as the code groups by both.

Abstractions. A contact has one name field and one filled from the URL (`dept`); the other enrichable
fields follow the same line of code. Bands are two. Text search, `complete_only`, `require_*` and the
deprecated single filters are left out. Catalog files, pages and sheets come from the small sets
`Files`, `Finds`, `Sheets`, chosen to have a shared netloc, a parent domain, a bare public suffix, a
legacy row without a URL, a duplicate key, and a line without an address. Every entry of a catalog
has a category and a state, and none is called like the code of the unattributed leads
(`LeadAssumption`; `_resolve_json_entry` fills both in). The rows of a new catalog ascend in the order of
its entries; the ids of entries that collapsed into an earlier one stay unused. `upsert_domain` and
`clear_domains` have no caller.

### Frontier

`mem` is the engine's attributes (`_pending`, `_visited`, the counter, the chains' budget cells),
`hand[w]` what a worker holds, `unfinished` the queue's own count, `ckpt` what the checkpoint thread
has read so far, `disk` the row it writes. `Take` - `FetchFails` / `Visit` - `Discover` / `Stalls` is a
worker's turn; discovery follows a page's links one by one (`Followed`, with `Consider` for each): depth, filters, caps, the elected
pagination target and the chain's budget, in the code's order. `ReadItems` and `SaveCheckpoint` are
the thread; `PoolsClose` waits for it; `ClearFrontier` belongs to the agent's task. `Crash`, `Cancel`
and `Resume` with `Rehydrate` end and begin a run.

Abstractions. A step is what happens between two awaits; parsing, saving leads, discovery and the
acknowledgement are one step. Iterating `_pending` beside the loop sees it before or after each
change or raises, in which case nothing is saved. Throttling, back-off, metrics, robots and the
recrawl window only delay or filter. A resumption after a cancellation whose report was lost is
`CrawlJob`'s. `kids`, `ended` and `gap` in `mem`, `known` and `tried` are history.

### Session

`users`, `roles` and `sess` are the tables; a session row keeps its last token's number (`tok`), and
`tv` is `token_version`. `pend` holds an administrator's request between the check of who is asking
(a dependency, on another thread) and the handler. `ident`, `keyring` and `desk` are the agent's
identity, the operating system's keyring and the launcher's `_login_email`; `calls` its requests:
each is begun, delivered and returned in separate steps, and may be lost on the way there
or back (`LoseCall`). Identity's lock is `Locked`; the launcher's thread does not take it.
A deactivation and a password reset commit the account and then, in a second transaction, end the
account's sessions; `CutShort` is the cloud dying, or the second commit failing, in between, and `cut`
the sessions that this left alive.

Abstractions. Passwords and hashes are the right one or a wrong one; expiry of a session is a step;
a lockout ends in a step. `spoiled` collects why the agent's session may be gone: a lost answer, an
overlap with the launcher's refresh, an end by others, or a sign-in as somebody else during which a
refresh put a token of one account under another's name in the keyring (`"foreign"`). Accounts are not
created; CSRF, cookies'
attributes and audit are left out.

### Launcher

`inbox` is a bag of what the Tk loop will run: timers, requests on their way (`Sent`), answers and
open dialogs; Tk runs callbacks under an open dialog, so everything in it may come next. `thread`,
`server`, `exiting` are the server's thread (`"starting"` until uvicorn's object is set, `"binding"` until
it listens), `uvicorn_server` and its `should_exit`. A server may fail to start (`FailsToStart`: `SystemExit`
passes the `except` of `_run_server_task`, so nobody is told) or crash with a callback (`ServerCrashes`). `running`,
`cancelled` and `sweep` are the agent server's crawls as `local_system.py` sees them; `seen`, the
crawls that every answer to a question still open had counted, and `forced` are history. A stop is a chain of callbacks: check the activity, ask, cancel, poll the
drain until `late`, force or wait, and be told that the server ended.

Abstractions. Any callback may be next, whatever its delay; no second server thread is started beside
a live one (possible only after a start was abandoned before `uvicorn_server` was set, section 5). The health panel, the download of a browser, the tray's drawing and the sign-in form are
left out; `cancel_all` takes a step per task and may outlast the launcher's request.

## 3. What the runs check

Bounds are named in the configurations; every counter that could grow has one (`MaxOps`,
`MaxRestarts`, `MaxCrashes`, `MaxFaults`, ...).

| Run | Question | Result |
|---|---|---|
| `dispatch_embedded` | claims, deliveries, the daily limit, the kill switch and the life cycle of rows with coroutines in the API process; three rows, three operations, a restart, a live claim swept or an accepted message requeued | holds; every duplicate has a cause of its own, the limit is overshot by at most one message per further coroutine |
| `dispatch_external` | selections, one coroutine per campaign, rows never stay `SENDING`, campaigns progress, with a separate dispatcher and two campaigns on one credential | holds for campaigns without owner |
| `outbox` | no lead vanishes, none dies early, oldest-first, refinement of `LeadDelivery`, the queue cannot wedge | holds |
| `job_safety` | engines stay on the job's agent, no more of them than resume requests overlapped; outcomes are earned and stay | holds |
| `job_live` | no phantom job, a working engine is shown, a cancellation arrives | holds |
| `frontier` | exact count, nothing forgotten, budgets, cleared checkpoints stay cleared, the crawl ends | holds |
| `leads` | after a recomputation scores are those of the weights in force, but for rows it held while others changed them; leads are findable, the cache is fresh, leads only get better, attribution | holds |
| `session` | the last administrator, ended sessions (but for those an interrupted deactivation left), the agent's token | holds |
| `launcher` | polling goes on, crawls are stopped with consent or on an answer that was true, a stop ends | holds |
| `desk` | one mail per recipient of a production campaign, a consent used once, pools are not widened | holds |
| `dispatch_owned` | progress of a campaign with an owner | violated: the loop cannot see it |
| `frontier_resume` | a resume is exact | violated: a checkpoint read in two steps loses a link |

The two violated properties quote the repository's own documents; `PROJECT.json` "findings" has
the lines. `frontier_resume`: the thread of `_save_checkpoint` reads `_pending`, the loop discovers a
link, the thread reads `_visited`; after a crash the link is visited and nowhere queued. What the
code does guarantee is `NothingForgotten`: only links discovered in that gap can be lost.

**Why the bounds suffice.** Two coroutines and one credential are enough for every pair of the
dispatcher's races (claim/claim, claim/sweep, claim/handler), three rows for an overshoot of a limit
of one; three user operations allow dispatch - pause - dispatch. The external instance has two
campaigns that share a credential and two operations, which is an edit of the selection beside a
dispatch with the coroutine in between; one unit of `MaxAgain` per row is a sweep of a live claim or a
failure of `quit()`. For the outbox two leads in a batch of two give a partial `fail()` loop with a crash
in every place of it, three attempts a first, a middle and a last failure. For jobs two agents with
two tasks and two resumptions, which may overlap, give two engines on one job, a resumption after a crash,
after a late resumption, and from the wrong machine; liveness needs one agent, as a cancellation or a crash concerns one. The frontier's web
has a pager with three pages that name each other, two pages that are one under `_url_key`, a page
off the seed's domain and a skipped one; two workers, one checkpoint and one fault put a crash at
every step of every interleaving. The lead store has two addresses, three places to find them, two
catalogs and two recomputations at once; four requests are enough for capture - change of weights -
change - edit. Sessions need two administrators who act on each other, and four tokens for two
rotations after two sign-ins. Launcher: three clicks for start - stop - quit, one crawl and one
failure, at any step. Desk: two campaigns over two credentials and three mails, five operations.
The theorems of section 6 remove the bounds for all the safety properties.

## 4. Fairness

`Dispatch`: an awaiting coroutine is resumed, slots are released, an SMTP dialogue ends (30 s
timeouts), the sweep (60 s) and the poll loop (5 s) run on their cadence, time passes. Strong
fairness is used where a coroutine in mid-stretch may disable an action for a moment. A dispatcher
told to stop is started again (the container's restart policy); users do nothing in particular.
`LeadOutbox`: the event loop runs the flushers and requests end (15 s timeout). Nothing is assumed
of the cloud: every request may fail.
`CrawlJob`: the reaper (60 s) and time go on, a task goes on wherever it waits (drains have a
deadline, requests a timeout), and heartbeats, sent every 2 s while the engine works, are answered
sooner or later. Nothing is assumed of users, late requests, or the end of a crawl, and weak
fairness suffices throughout.
`Frontier`: something among the workers, the checkpoint thread and the closing of the pools goes on
while anything can: one event loop, a time limit on each page, a thread that runs to its end. No
fairness between workers is needed, because the web and the budgets are finite.
`Launcher`: the Tk loop runs every callback, requests come back (5 s timeout), the drain's deadline
passes, crawls end, a server told to exit does, dialogs are answered; and an operator who is asked
again and again to stop by force accepts at last (strong fairness of `ForceStop`).
`LeadStore`, `Session` and `Desk` have safety properties only: what follows in them depends on users.

## 5. Further configurations and hazards

Beside the runs, each of these shows one more property violated under an assumption the runs
exclude or a promise the code does not keep, and is checked by hand (`tlc -config X.cfg M`):

| Configuration | Property | What it shows |
|---|---|---|
| `MCDispatch_recovered.cfg` | `QueuedIsRetried` | a coroutine that finds nothing queued completes the campaign although another's row is `SENDING`; when the sweep requeues that row nothing sends it (`outreach_mixin.py:444`; `.docs/outreach.md:85`: "Retried, never silently dropped") |
| `MCDispatch_nullcool.cfg` | `NonCoolingIsUsable` | `cooldown_until is None` in the query (`outreach_mixin.py:216`) is a Python test and always False: a credential that never cooled down is never usable |
| `MCDispatch_deselect.cfg` | `DeselectedIsNotQueued` | a row is deselected after it was read as a draft and before that is written, while the dispatcher queues it: it stays queued and is sent (`outreach_mixin.py:334`, whose docstring has it excluded) |
| `MCDispatch_nocred.cfg` | `SendingIsHeld` | a pool that empties after the claim leaves the row `SENDING`, held by nobody, until the sweep |
| `MCDispatch_sigterm.cfg` | `StoppingClaimsNothing` | a stopping dispatcher goes on claiming rows |
| `MCDispatch_crashdup.cfg` | `NeverDoubleMailed` | a crash after acceptance mails twice, as the sweep's docstring admits and `.docs/resilience.md:4` denies |
| `LeadOutbox_outage.cfg` | `OutageLosesNothing` | a cloud that fails for `MAX_ATTEMPTS` posts makes dead letters of healthy leads, which nothing reads (`local_store.py:143`; `.docs/resilience.md:3`: "no extracted lead is ever lost") |
| `LeadOutbox_poison.cfg` | `PoisonIsKept` | a row the cloud rejects is acknowledged and deleted |
| `LeadOutbox_deadline.cfg` | `FinishedIsDrained` | `finish` is posted at the deadline with rows in the outbox |
| `MCCrawlJob_cancel.cfg` | `StoppedIsReported` | a heartbeat that sees the flag before the local cancel makes one click cancel the task twice: the second cancellation skips `finish` (`agent/api.py:111`) |
| `MCCrawlJob_engines.cfg` | `OneEngine` | two resume requests on one agent both pass the check of the registry before either starts its task: two engines on one job, where the code means to answer "Job is already running" (`agent/api.py:169`) |
| `MCLeadStore_titles.cfg` | `OneRowPerCategory` | titles are frozen with a snapshot: after an import that changed one, a code is listed twice, each with a part of the count (`lead_mixin.py:597`) |
| `MCLeadStore_sqlite.cfg` | `AttributedToSource` | SQLite hands out ids of an emptied table again; a snapshot keyed by job and catalog id (`crawl_snapshot_mixin.py:25`) then names another organisation after a re-import |
| `MCSession_gap.cfg` | `EndsOrDies` | a password reset (or a deactivation, once it is taken back) cut short between its two commits leaves a session that can be refreshed (`auth_mixin.py:103`, `:115`) |
| `MCSession_others.cfg` | `OthersSpareSelf` | `local_auth.py:131` reads the refresh token before a request that may refresh it on 401 and retries with the old cookie: the agent's own session is revoked with the others |
| `MCSession_collision.cfg` | `CollisionOnlyDelays` | a refresh of identity that loses against the launcher's drops the agent's session, where the docstring (`identity.py:113`) has one warning and one delayed heartbeat |
| `MCSession_reuse.cfg` | `FamilyEndsOnReplay` | a token whose session was merely revoked (signed out, say) is taken for one that was rotated away, and ends every session of the user (`cloud/api/auth.py:168` speaks of the latter) |
| `MCLauncher_idle.cfg` | `IdleIsStopped` | a stop while `uvicorn_server` is not yet set (`app.py:688`) tells nobody to exit: the launcher rests, the server runs |
| `MCLauncher_idle.cfg` (with `-continue`) | `StoppingIsTold` | that server then fails to take its port, silently; the next start is abandoned as well, before its own server is set: `should_exit` goes to the old object and the launcher waits for a server nobody told |
| `MCDesk_record.cfg` | `SentIsRecord` | `update_email` (`outreach_mixin.py:294`) edits mails that were sent; the handler's answer speaks of drafts (`campaigns.py:419`) |
| `MCDesk_connect.cfg` | `ConnectSticks` | a token refresh under way overwrites the tokens of a new consent (`security/oauth.py:158`) |
| `MCDesk_partial.cfg` | `PoolAsAsked` | `create_campaign` commits campaign, mails and pool apart: an unknown credential leaves a campaign that may use them all |
| `MCDesk_rotation.cfg` | `KeysRotated` | the rotation script raises on a credential without a password and never rewrites tokens, so the old key cannot be dropped as its docstring and `deploy/SECURITY.md:64` say |

One more holds: `MCFrontier_once.cfg` (type correctness, and two workers never hold the same page,
because a checkpoint's visited set is never older than its items).

Where documents and code disagree beyond the two findings: `.docs/resilience.md:4` ("a crash never
double-mails") against `MCDispatch_crashdup.cfg` and, without any crash, against `resent`;
`.docs/authentication.md:58` still lists a gap, passwords that change without ending sessions, that the
code has closed.

Hazards that no property covers, beyond those of the table: a crawl that begins after the launcher was
told that none is running is stopped without a question (`app.py:613`; `KillsOnlyForced` speaks of the
answer only); in embedded mode a restart leaves a
campaign `RUNNING` without a coroutine until a user pauses it (`campaigns.py:235`); a job that stayed
pending because the cloud died before `start_job` is compared with NULL times and never reaped
(`job_mixin.py:137`); with `MAX_ATTEMPTS` of 1 failing an acknowledged row would make it a dead letter
(`local_store.py:142`, excluded by `OutboxAssumption`); a page is in the persistent history before its
leads are saved (`engine.py:475`); a logout while a refresh is under way is followed by that refresh's
token (`identity.py:113`); the import lock is taken before the upload is read and leaks if that fails
(`imports.py:59`); a category whose download failed vanishes from the catalog (`importer.py:390`); the
crawl policy is stored before `config.yaml` is written (`config.py:187`).

## 6. What is proved

`Dispatch_proofs` proves for all constants satisfying `DispatchAssumption`, and no other hypothesis: type
correctness, `ClaimExclusive`, `DuplicatesHaveACause`, `QueuedIsSelected`, `KillSwitch` and the refinement
of `EmailDelivery`. The invariant is `IInv`: what a coroutine carries (`Carried`); that a held row that was
never taken is `SENDING` and held once (`Held`, inductive because only its holder, a sweep and the write
of an edit change such a row, and the latter two count it as taken); that the API process has one
edit or one sweep under way, of rows that were claimed once (`Pending`); that a row recorded or awaiting `quit()` was
delivered (`Evidence`); the account of deliveries (`Paid`); and that a coroutine which delivered late
is about to see the kill switch (`LateReturns`). `Paid` counts tickets: every coroutine that carries a row
towards its server is one, and so is the row itself while it may still be claimed and nobody holds it.
Deliveries and tickets together stay within one more than the restarts, the times the row was taken,
and the times it was requeued after acceptance: each of these adds a ticket at most, a claim passes the
row's on, a delivery spends one. In the refinement a row becomes contested when it is taken or an edit
of it crossed another change; from then on `EmailDelivery` allows it the moves of a late writer, but
it is still recorded `SENT` only if delivered, and deleted only as a draft.

`LeadOutbox_proofs` proves type correctness, `NothingVanishes`, `GivenUpWasRetried`, `OldestFirst`
and the refinement of `LeadDelivery` for all constants satisfying `OutboxAssumption`
(`MAX_ATTEMPTS` of at least 2: with 1, failing a row that the other flusher has acknowledged would
create a dead letter). The order needs the strengthening `Ordered`: an older row has failed at
least as often as a younger one, strictly more often while a loop over `fail()` has dropped it and
not yet the younger; this rests on batches being heads of the queue (`BatchIsHead`), on finiteness of
the queue, and on one loop over `fail()` at a time (`OneFails`).

`CrawlJob_proofs` proves, for all constants satisfying `JobAssumption`, type correctness,
`EngineOnOwner`, `OutcomeIsEarned`, `TerminalStays` and `EnginesAreCounted`, for any number of requests at
once. `EngineOnOwner` needs `Carried`: what
the cloud has accepted is on the job's agent, and a job that has no agent has no task, so claiming
it moves nobody. `OutcomeIsEarned` needs `Justified`: reports are earned from the moment a task
decides on them, also those left under way. `EnginesAreCounted` needs `Registry` (what is registered runs; as long as no two
requests overlapped, every running task is registered and none is while a request is in progress) and
`Counted` (an agent's tasks, with its requests under way or with the registered task apart, exceed their
due by the number of overlaps at most).

`Dispatch_proofs` also has `OneTaskPerCampaign` in external mode (`Tracked`: the poll loop's map has every
coroutine under its campaign, because an entry is replaced or dropped only when its task is done) and `DailyLimitOvershoot` for
every finite number of coroutines (`Metered` counts a message from the moment its coroutine has picked
the credential: what was sent today and what is in flight together stay within the bound, because
whoever picks has seen a count below the limit).

`Frontier_proofs` proves type correctness, `JoinIsExact`, `NothingForgotten`, `QueuedOnce`,
`ChainBounded` and `ClearedStaysCleared` for every web, every seeds and every number of workers, faults,
checkpoints and resumptions satisfying `FrontierAssumption`. The invariant has one predicate about the
engine's attributes (`Sound`: ids and pages are unique among the pending items, a link's key is taken,
a budget cell is at least what was drawn from it), and states it four times: of `mem`, of what the
checkpoint thread read first (`Reading`), of the row it is about to write (`Writing`), and of what a
resumption would start from (`Saved`). What joins them is `Grows`: between the reads the engine only
adds keys, items and draws, so that a mixture of items read over a while is still sound. That
`Followed` keeps all this over a page's links is an induction over their number.

`LeadStore_proofs` proves type correctness, `CacheFresh`, `ScoreAgrees`, `NeverDegrades` and `Findable` for
all constants satisfying `LeadAssumption`, and `AttributedToSource` under `~ReuseIds` (SQLite reuses the
ids of an emptied table: `MCLeadStore_sqlite.cfg` shows that the hypothesis is needed). The invariant:
the map is the catalog's or marked as built across a commit, and there is none while one is built
(`Fresh`); a save that waits for its map waits with an e-mail that is still unknown (`Building`, which
holds because handlers on the loop exclude each other and the threads never create leads);
snapshots that leads name exist (`Linked`); a row a recomputation read, and a score it computed, are
those of the table and the weights unless somebody changed them since (`HeldRight`); once a
recomputation that began after the last change of weights committed, every score is right but for those
that another committed from rows or weights that had changed (`Scores`). Attribution needs `OneTitle`: an id stands for one
organisation wherever it is written down, in the catalog, the cached map, the rows of a build
under way, or a snapshot.

`Session_proofs` proves type correctness, `LastAdmin` (from the guard at the moment of the change alone,
whatever the dependency saw before), `EndedStaysEnded` (live sessions are of active users but for those in
`cut`) and `KeyringLive`. The last rests on `Issued`
(a token belongs to one session) and `Guarded`: while nothing spoiled the agent's session, at most
one caller has a request under way, and the session's token is in the keyring or in the answer it
brings back.

`Launcher_proofs` proves `PollGoesOn`, for which a running launcher has one of a set of poll items in its
inbox (`PollItems`), and `KillsOnlyForced`, for which an answer "none" under way implies that no crawl was
running when it was given (`Honest`). `_on_activity_for_shutdown` looks neither at the state nor at which
question it answers, so that with enough clicks two questions are under way and the older answer is
used for the newer one; the property therefore speaks of an answer that is open, whichever it is of.
Its type invariant says more than types: every callback left is one its handler expects, and crawls run,
or are being stopped, only in a server that is up (`Callbacks`, `AppTyped`, `CrawlsTyped`).

`Desk_proofs` proves type correctness, `OncePerRecipient`, `FlowUsedOnce` (`Pending`: a flow that still has
a row was not exchanged) and `PoolNeverWidens`. The type invariant needs `InHand`: a mail being sent
is `SENDING`, hence neither edited nor deleted.

All proofs are from the named assumptions of the modules and the hypotheses quoted above, nothing
else; the hypotheses are `Mode = "external"` for `OneTaskPerCampaign`, finitely many coroutines for
`DailyLimitOvershoot`, and `~ReuseIds` for attribution. One lemma each of `Frontier_proofs` and
`LeadStore_proofs` instantiates the library's theorem on least elements of well-founded relations, which
speaks of a set and not of an operator; that gives the inductions over the natural numbers which a
recursive function, a least id or a latest entry needs.

Only model-checked: the liveness properties (`NeverStuckSending`, `RunningMakesProgress`,
`QueueNeverWedges`, `NeverPhantom`, `EngineIsShown`, `CancelStops`, `CrawlEnds`, `StopEnds`; fairness and
`ENABLED` are beyond the prover) and all violations. Every invariant and action property of the
passing runs is a theorem.

## 7. Not modelled

The page parser (text heuristics over HTML without state: its results are the links of `Frontier`
and the finds of `LeadStore`); the proxying and page rendering of the agent's BFF and the web
frontends; the catalogue scraper and the database migrations (sequential scripts); the SMTP dialogue
and the assembly of messages; settings other than the scoring weights; ownership checks, audit and
read-only lists; in the launcher the health panel, the download of a browser and the tray's drawing.

## 8. Plan

Done: every module of section 2 model-checked, and all the safety properties of the runs proved. Next:

1. The state-machine facts of the launcher's stages (a drain under way has one chain of callbacks).
2. `CrawlJob` with `LeadOutbox`: what a finished job promises about its leads, as an abstract
   specification of a job that both implement.
3. An abstract specification of the frontier (a set of pages to do, growing and shrinking) that
   `Frontier` implements up to the gap of a checkpoint.
4. The safety halves of the liveness properties (`ENABLED`-free: what is never stuck because some guard
   holds), as invariants.
