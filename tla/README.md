# Verification of agentic-delegator

agentic-delegator runs coding jobs: a client posts a job over HTTP, the
orchestrator starts a container for it, and when the container exits the
orchestrator records the outcome and posts a completion webhook.  This directory
holds TLA+ specifications of the program, TLC configurations that model-check
them on small instances, and theorems about them checked with TLAPS.

## Inventory

| Component | State it keeps | Operations | Talks to |
|---|---|---|---|
| Job entity (`core/domain/job.go`) | a job's status and container id | `MarkRunning`, `MarkSucceeded`, `MarkFailed`, `MarkCancelled` | used by every use case |
| Enqueue (`core/usecase/enqueue_job.go`) | one request: the job value it built | insert, two counts, two credential lookups, start, update | jobs table, providers, runner |
| Cancel (`core/usecase/cancel_job.go`) | one request: the job value it read | read, stop, update | jobs table, runner |
| Runner (`core/adapter/docker`) | containers, `<job>` and `<job>.secrets` directories, one supervisor goroutine per container it started | `Start`, `Stop`, `Inspect`, `supervise`, `SweepOrphanSecrets` | docker CLI, host disk; calls back on completion |
| Completion (`core/usecase/handle_runner_completion.go`, `dispatch_completion_webhook.go`) | the job value it read | get, update, dispatch | jobs table, webhook dispatcher |
| Reattach (`core/usecase/reattach_running_jobs.go`) | the list of running jobs | list, inspect, update | jobs table, runner |
| Jobs table (`core/adapter/postgres/jobs_repo.go`) | rows | create, get, update (whole row), counts, listings | Postgres |
| Orchestrator process (`cmd/agentic-delegator/main.go`) | up or down, draining | start-up, serve, shutdown | all of the above |
| Runner container (`runner/entrypoint.sh`) | the clone, `.pr-url`, `.notification-webhook` | clone, run, push, exit | GitHub, Anthropic |
| Webhook delivery (`core/adapter/webhook`) | attempt count | dispatch, retry | the endpoint a repository names |
| GitHub App (`core/adapter/ghapp`) | installations, recent delivery ids | install callback, delivery handler, repository credentials | GitHub, Postgres |
| Sign-in (`core/adapter/http/auth`) | OAuth state cookie, identities, users, sessions | login, callback, logout, resolve | GitHub, Postgres |
| API keys and settings (`core/usecase/{mint,revoke}_api_key.go`, `set_anthropic_credentials.go`, `keyhash`, `crypto`) | hashed keys, encrypted secrets | mint, revoke, resolve, set, read | Postgres |
| Logs, lists and pages (`core/adapter/http/status_page.go`, `core/usecase/{get_job,list_jobs}.go`) | per-job log files; in a browser, the page that was opened | show, list, poll, tail | jobs table, host disk |
| Runner network (`core/adapter/docker/network.go`, `deploy/firewall`) | iptables rules | preflight, apply, remove | host |
| Presentation, generated code, deployment scripts, ids, encryption | none of their own | | |

What is hard, by component:

- **Jobs.** An enqueue request makes up to eight calls without a transaction.  A
  cancel, the supervisor's completion and the process stopping may come between
  any two of them, and every writer writes back a whole row it read or built
  earlier.  Correct means: caps hold, an outcome is the container's, it is not
  lost, a webhook announces what was stored, every container and directory has
  someone who will clean it up.
- **Restart.** Containers survive the process; goroutines do not.  Correct means
  that start-up finds what it needs and removes nothing that is in use.
- **Failures.** Calls fail before or after they take effect.  Several errors are
  dropped (`docker kill`, `docker wait`, `docker inspect`, the update after a
  failed start).
- **Deliveries** (completion webhook, GitHub webhook): duplicated, reordered,
  lost, replayed.  Correct means that a receiver never hears two outcomes, and
  that a repeated or late delivery neither removes a live installation nor
  resurrects a removed one.
- **Sign-in**: two first sign-ins of one account at once; browsers whose cookies
  change between the request and its answer.
- **Keys and credentials**: keys that share their prefix, a revocation between
  comparison and use, a restart with another master key.
- **Pages**: a log that grows while it is read, and a page that decided earlier
  whether to poll.
- **Pure code**: log tails, list limits, cap comparisons, replay windows at
  their boundaries.

`PROJECT.json` lists the hazards line by line with the properties that cover
them.

## Modules

| Module | What it is |
|---|---|
| `Job` | the job value and its transitions |
| `JobLifecycle` | enqueue, cancel, supervise, complete, and the process that stops and starts around them |
| `MCJobLifecycle` | instances of `JobLifecycle` for TLC |
| `JobBoard` | what a client sees of its jobs: statuses and announcements, without containers, requests, supervisors or restarts |
| `JobLifecycleSteps` | a lemma per action: what it requires and what it changes, for the proofs to cite |
| `JobLifecycleProofs` | the inductive invariant, a lemma per conjunct, and the theorems |
| `JobBoardProofs` | `JobLifecycle` implements `JobBoard` |
| `SignIn` | the OAuth round trip, the identity and the session it ends with |
| `MCSignIn` | the instance of `SignIn` for TLC |
| `SignInProofs` | its inductive invariant and the theorems |
| `Installations` | installations of the GitHub App: install callback, deliveries, repository tokens |
| `MCInstallations`, `InstallationsProofs` | its instance for TLC; its inductive invariant and the theorems |
| `ApiKeys` | bearer keys and sessions, minting and revoking keys, stored credentials, the settings page |
| `MCApiKeys`, `ApiKeysProofs` | its instance for TLC; its inductive invariant and the theorems |
| `JobPages` | what users are shown of jobs and logs, beside the supervisor that writes the log |
| `MCJobPages` | its instance for TLC |
| `JobPagesLemmas` | what its splitting, joining, cutting and listing compute, for texts and tables of any length |
| `JobPagesProofs` | its inductive invariant, the theorems, and that its first row is a row of `JobBoard` |

The components meet at narrow places, and each module carries the other side of
its own as plainly as it can be: `JobLifecycle` sees the credentials' providers
as one lookup that may fail, while `Installations` and `ApiKeys` have those
lookups in full; `ApiKeys` sees a session as a user or nothing, while `SignIn`
has the sessions; `JobPages` has as much of the supervisor as touches the log,
in the order `supervise` does it.

### How `JobLifecycle` corresponds to the code

A step is one database call, one docker command or one file-system operation
together with the in-memory code after it. Consecutive file-system operations
share a step only where no other process sees what lies between them and a stop
of the process there leaves what a stop before or after the step leaves, or a
removal that fails: making the workspace and setting its mode (or removing it
when either fails), making the secrets directory and writing its two files (and
removing the workspace when that fails, for which the failing `writeSecrets`
gives no path of its own).  A process that is between two calls has a program
counter, and carries the value it will write:

| Variable | In the program |
|---|---|
| `row`, `settled` | the jobs table; `settled` is a history variable, the jobs whose row has ever been terminal |
| `cont`, `exit` | the container in docker, and the status its process exited with |
| `secrets`, `workspace` | the directories under `WorkDirHost` |
| `enq` | where `EnqueueJob.Execute` is, for each job's one request; the value it writes is always `NewJob` with one transition applied |
| `cnl` | where `CancelJob.Execute` is, and whether the job it read had a container id |
| `sup` | where `supervise` and the completion after it are, the exit code it believes, whether the repository configured a webhook, the job value it will write |
| `posted`, `tries` | what the webhook's receiver last heard, and how many attempts `HTTPWebhook.Dispatch` has made |
| `srv`, `todo`, `adopted`, `stops` | where `runServe` is, what the start-up loop has still to inspect, which containers it found alive, how often the process stopped |

| Action | Code |
|---|---|
| `EnqueueCreate` to `EnqueueMarkRunning` | `enqueue_job.go` 51-139 |
| `EnqueueMakeWorkspace`, `EnqueueWriteSecrets`, `EnqueueDockerRun`, `EnqueueUndo` | of these, `Runner.Start`: `runner.go` 60-105 and `secrets.go` 25-47; `EnqueueUndo` is either of the two removals after a failed `docker run` |
| `CancelRead`, `CancelStop`, `CancelWrite` | `cancel_job.go` 24-41 |
| `SuperviseWait`, `SuperviseTimeout`, `SuperviseCollect`, `SuperviseClean`, `SuperviseRemove` | `runner.go` 153-214; `SuperviseClean` is `docker rm -f`, `SuperviseRemove` either of the two removals after it |
| `CompleteGet`, `CompleteUpdate` | `handle_runner_completion.go` 20-57 |
| `CompleteDispatch` | one attempt of `http_webhook.go` 34-70; `maxAttempts` is 3 |
| `StartList`, `ReattachAlive`, `ReattachDead`, `ReattachDone`, `Sweep` | `main.go` 157-173 |
| `SigTerm`, `Exit`, `Crash` | `main.go` 199-218 |
| `ContainerExit` | the end of `entrypoint.sh` |

Failures are chosen, once, in the initial state: `faulty` is any subset of the
constant `Faults`, and with a kind in it every call of that kind may fail
whenever it is made.  A failed write or a failed `docker run` may or may not
have taken effect.  One instance therefore has every combination of failures,
and a property that needs some part of the environment to work says so in its
own premise (`"docker" \notin faulty => ...`).  The kinds:

| Kind | Calls that may fail |
|---|---|
| `db` | every database call |
| `disconnect` | calls under the request's context: its database calls, its `docker run` |
| `creds` | the lookup of the two credentials |
| `disk` | making directories and files, and removing directories |
| `docker` | `docker run`, `wait`, `inspect`, `kill`, `rm` |
| `hook` | an attempt to deliver a completion webhook, which the receiver may have heard all the same |

`JobBoard` promises little, since the code does: a cancel may overwrite
anything, and a request and a report may come in either order.  What it does
promise is that each of them writes a status at most once, that a success comes
only after the request is over, that what is announced is what was reported, and
that start-up gives up only jobs whose outcome can no longer be reported.  The
refinement mapping (`Board` in `JobLifecycle`): `status` is the row's,
`starting` is the set of jobs whose enqueue request is open, `report` is the
outcome a supervisor is about to announce, `closed` once its goroutine has ended
or was lost, else `open`.  `Lose` is what a stop of the process looks like from
there.

Abstracted: arguments of `docker run`, log files and their copying, times, the
text of errors, the descriptive fields of a job, the fetch of the two
credentials (one step with one outcome).  A request that fails validation does
nothing and is no step.  Each job id is used by one enqueue request, as ids are
fresh.  Several cancels of a job follow one another without bound; two of them
at the same time are not modelled.

### How `SignIn` corresponds to the code

An attempt is one round trip: a request for `/login` and the callback GitHub
redirects to.  Its state, the user id it may make and the session it may mint
are fresh, so all three are named for the attempt.  A callback may come from any
browser, with the cookies that browser holds at that time; it can be overtaken
by other tabs of the same browser, and its answer, with the cookies in it,
arrives later, or never if the client is gone.

| Action | Code |
|---|---|
| `Login`, `StateExpires` | `github_oauth.go` 75-97; the state cookie lives ten minutes |
| `CallbackArrives` | the comparison of the state with the cookie, 99-116 |
| `Identify` | `exchangeCode`, `fetchUser` and `ByGitHubID`, 118-139 |
| `CreateUser`, `BindIdentity` | `UpsertAdmin` and `IdentitiesRepo.Upsert`, 140-153 |
| `Logout`, `NewSession` | `sessions.go` 36-67 |
| `Deliver`, `LoseResponse` | the answer reaches the browser, or does not |

`faulty` works as in `JobLifecycle`, with the kinds `db`, `github` and
`disconnect`.  A session's expiry is a comparison made when it is read and
removes no row, so it is left out.  The code GitHub hands out is good for one
exchange, so an attempt has one callback that gets past it.

### How `Installations` corresponds to the code

| Variable | In the program |
|---|---|
| `github`, `grants`, `changed` | the installation at GitHub, its repositories, and whether these were changed after it was made (history) |
| `row`, `writers`, `removed`, `overtaken` | the table of installations; users whose callbacks wrote a row, and installations removed while no callback was about to write, or while one was (history) |
| `seen`, `handling` | `WebhookHandler.seen`, and the deletion each delivery's handler has still to carry out |
| `call`, `look` | `InstallHandler.Callback` and `RepoCredsProvider.For` between their calls |

| Action | Code |
|---|---|
| `CallbackStart` to `CallbackUpsert` | `install.go` 54-90: token, first page of repositories, upsert |
| `Receive`, `Delete`, `Expire` | `webhooks.go` 35-88: the id, if there is one, is remembered under the lock, then the row is deleted; an id counts for ten minutes |
| `Lookup`, `LookupToken` | `repo_creds.go` 30-41 and `ByUserAndRepo` |
| `Install`, `Regrant`, `Uninstall` | GitHub (external) |
| `Restart` | what was remembered and under way is gone |

A delivery's signature is taken to match: GitHub is the only sender.  `Sent`
lets GitHub send a delivery any number of times and as late as it likes, each
time with its id or without one (`named` in `Receive`): "Empty IDs are never
treated as replays" (`webhooks.go:34`), so each copy without an id is acted on.
A page of repositories is any `PageSize` of them if there are more.

### How `ApiKeys` corresponds to the code

A request is authenticated (`ResolveBearer`, `Touch`, `ResolveSession`:
`auth/resolver.go` 31-64) and then does one thing: `Mint`, `Revoke`, `SetCreds`,
`Credentials` (the lookup of an enqueue request), `SettingsKeys` and `Settings`
(the two reads of the page, a step each), or `Undecoded`, a body its handler
refuses.  `keys` and `secrets` are the tables; a secret carries the master key
it was encrypted under, and a value is readable under that one only. A hash
matches the plaintext it was made of.  Keys are named for their plaintext, which
is fresh; their prefixes may be equal, and in the program they nearly always
are, as `agdkey_` takes seven of the prefix's eight characters.  A mint that
fails at the database may leave a row whose plaintext nobody was shown.  A
bearer that was never minted is like none.

### How `JobPages` corresponds to the code

`table` is the jobs table in the order of creation.  The first job's supervisor
is `run`, with what its container wrote; `files` are the log files, `req` the
browser's request between its calls, `page` what the browser shows.

| Action | Code |
|---|---|
| `OpenLog`, `CopyLog`, `CopyEnds`, `Collect`, `Report` | `runner.go` 168-212, with `tailFile` 239-251 |
| `GetJob`, `ListJobs`, `Dashboard` | `jobs_handler.go`, `dashboard_handler.go`, `get_job.go`, `list_jobs.go`, `jobs_repo.go` 41-68 |
| `Render`, `Poll` | `StatusPage.Render` and `LogTail`; `Polls` is `logRefreshTrigger`, evaluated when the page is rendered |
| `OpenTail`, `ReadTail` | `readLogTail`, with `splitLines` and `joinLines` |

A log is a sequence of newlines and other bytes.  With `log` failures a file may
not open or not be read, which gives an empty text, and `Stat` or `Seek` may
fail, after which all of the file is read.  `Stat` and `Seek` are one step: if
the log grows between them the read begins where it would have begun had both
come at the time of the `Seek`, or of the `Stat` if no `Seek` follows. Two polls
of one page do not overlap.

Names starting with `Bug` are plausible mistakes in the definition that follows
them; each is used to see that a property notices it.

## Runs

A run is `tlc -config <run>.cfg <MC module>`; `PROJECT.json` has the module of
each and, per property, a mutant of the code that breaks it.

Passing runs:

| Run | Instance | What it shows |
|---|---|---|
| `UserCap` | two jobs of one user, cap 1, `creds` failures, one stop | `UserCapHolds`, `QueuedHoldsNothing` |
| `GlobalCap` | two users with a job each, both caps 1, no failures, one stop | `GlobalCapHolds` |
| `OneJob` | one job, both caps 1, each of the 64 sets of failures, two stops | `IInv`, `WebhookAgreesWithRow`, `SuccessIsReal`, `RunningKeepsSecrets`, `NoStraySecrets`, `RunningIsWatched`, `CancelledIsStopped`, `SuccessLostOnlyToCancel`, `EndedChangesOnlyUnderWay`, `HearsOneOutcome`, `BoardSpec` |
| `Liveness` | one job, the subsets of `creds`, `disk`, `docker`, `hook`, two stops, fair | `AdmittedLeavesQueue`, `SupervisionEnds` |
| `SignIn` | three attempts, two browsers, one account, each of the 8 sets of failures | `IInv`, `ReturningUserIsSame`, `CookieFromHome`, `CookieIsLive`, `SignInReplacesSession`, `AccountKeepsUser` |
| `Installations` | one installation, two users, two repositories, pages of one, two callbacks, two handlers, one lookup, the subsets of `db`, `github` | `IInv`, `DroppedCopiesMissNothing`, `RemovedStays`, `GrantedCovers`, `TokenForUser`, `LiveRowStays` |
| `ApiKeys` | two keys with one prefix, two users, two values, two master keys, two requests, `db` failures | `IInv`, `RevokedStaysOut`, `ActsAsHolder`, `OnlyHolderRevokes`, `CredentialIsLatest`, `SettingsPageIsTrue` |
| `JobPages` | two users, two jobs, logs of up to 3 bytes, reads of 2 bytes or 2 lines, limits -1, 0 and 2 with a default of 1, the subsets of `db`, `log`, fair | `IInv`, `ShowsEndOfLog`, `NoticeIsEnd`, `FinalPageIsWhole`, `OwnJobsOnly`, `PageCatchesUp` |

In words: the caps bound the containers of jobs that have never been terminal,
whatever the order of the requests' calls; a success was the container's own
exit code, and once recorded only a cancel that read the row earlier overwrites
it; a webhook announces what the row said, and however often it is sent again
the receiver hears one outcome; a row that has ended changes only by a call that
was under way when it ended; a running job keeps the secrets its container
mounts, and nobody else's stay behind; a running row has a supervisor, a
supervisor's report, or a container that the next start-up will look at; a
cancelled job whose container the cancel knew of has been killed; a job left in
the queue, over the cap or without credentials, holds neither a directory nor a
container; and, with fairness, a job that passed the caps leaves the queue and a
supervised container goes away with its directories.

Signing in: two first sign-ins of one account may both find no identity and both
make a user.  One of them wins the upsert; the account is bound to that user for
good, and every sign-in that begins later ends as that user.  The other one
keeps a session of a user no account is bound to, and what is set up in that
session is not found again after the next sign-in.  No text in the repository
promises otherwise, so this is no finding; `ReturningUserIsSame` says exactly
how far the promise goes.

Installations: a row is removed only when GitHub no longer has the installation,
however late and often deliveries are repeated, with an id or without, before
and after restarts; the id is remembered before the deletion is carried out, yet
while the database answers a copy that is dropped for its id misses nothing,
since the row is gone, about to be removed, or was brought back by a callback
that had overtaken the removal; after a removal no callback brings the row back
unless it had its list by then; and a job gets tokens for a repository the
installation has (unless that changed at GitHub, or the list was empty, which
stands for all) and of an installation its own user recorded, also while another
user takes the row over.

Keys and credentials: a revoked key authenticates no request that comes after
the revocation's answer; keys with the same prefix are told apart; a key that
has a row is not passed over for the session unless a call failed; rows are
removed by their holder only; a job is given what was stored last; and a value
that another master key cannot read is not reported as missing.

Pages: whatever the log's content and whatever was appended between open and
read, the page has an end of the log, cut at a line unless the bytes ran out;
the webhook's tail is an end of it too, and not empty unless the log is; lists
have the latest of the user's own jobs; and for a job whose log path was chosen
by the caller of `EnqueueJob`, a page that shows the outcome shows the end of
the whole log, and a page opened earlier gets there, also when the job is
cancelled meanwhile.  Over HTTP no path is ever chosen, and there is no log to
show: see `LogShown` below.

Runs that show the code doing other than the repository says:

| Run | What the repository says | What the code does |
|---|---|---|
| `FastExit` | completion updates the job's status (`docs/design/2026-05-21-mvp-design.md:260`) | a container that exits with 0 before `running` is written leaves the row running |
| `Drain` | requests in flight are drained before exiting (`cmd/agentic-delegator/main.go:199`) | `ListenAndServe` returns at once and `main` with it |
| `SettingsForm` | paste the key on the settings page to enable job execution (`core/presenter/templ/pages/settings.templ:37`) | the page's forms post url-encoded bodies, the handlers decode JSON and answer 400 |
| `LogShown` | the row's log path is where the runner streams to (`core/domain/job.go:32`) | over HTTP the runner is given no path: no log is written, and the page stays empty |

`FastExit` also qualifies a passing run: `RunningIsWatched` counts a job whose
supervisor has reported as watched, since the code has no further chance to
record its exit.  It counts a container found alive at start-up as watched too,
although no supervisor is started for it (`reattach_running_jobs.go:28`): its
exit is seen at the next start-up.
`docs/superpowers/specs/2026-06-06-runner-egress-and-secret-isolation-design.md`
acknowledges that, so it is a limitation and no finding.

Other limits the properties are careful to leave out, each visible in the model:

- A cancel between the cap checks and `docker run` frees the job's slot, and its
  container starts all the same.  The caps are therefore stated for jobs that
  have never been terminal.
- The enqueue request marks its own, older job value as running, so a cancel
  written meanwhile is overwritten.  `EndedChangesOnlyUnderWay` says that only a
  start request that was overtaken does this.
- After a crash between `docker run` and the update a queued row has a live
  container.  The sweep removes its secrets and nothing will report it.
- When `writeSecrets` fails after making its directory it returns `""` for the
  path, and the directory stays until the next sweep.
- A workspace of a job lost in a restart is not swept.
- With docker failing, an inspect that fails reads as exit code 0.
- A deletion of an installation whose database call fails is not tried again.
- A page opened after a cancel does not poll, and the log is written only when
  the container has ended, so such a page may stay empty.

### Bounds

`MaxStops` bounds how often the process stops: two stops give a restart with the
leftovers of a restart.  Everything else is finite by itself.  Jobs meet in the
two counts only (`ActiveOf`, `ActiveAll`; the start-up loop and the sweep treat
each row alone), so the runs about one job's row, container and directories use
one job, and the runs about the caps use two jobs and a cap of one, the least at
which a cap can be exceeded.  The theorems cover every number of jobs and every
cap. In `OneJob` the caps are 1 too, where they never bite but make both counts
calls that may fail. A job over its cap takes a second one, so
`QueuedHoldsNothing` is checked in `UserCap`.

Three attempts are two first sign-ins that race and one that comes after them;
two browsers let a callback come from the wrong one; accounts do not meet, so
there is one.  Attempts and browsers can be exchanged, and `SignInSymmetry` says
so.

`JobSymmetry` is used in the safety run whose two jobs have the same owner;
`InstallSymmetry` and `KeySymmetry` exchange whatever their modules treat alike.

`Installations` has one installation because nothing relates two of them except
the choice of a row in `Lookup`, which the model makes freely.  Two callbacks,
two handlers and two users are what it takes for one of each to overtake
another; a page of one repository with two granted is the shortest that is not
complete.  Each lookup is made once: how often earlier ones were made leaves no
trace.  `ApiKeys` has two keys with one prefix, of one user or of two; two
requests overtake each other; the second value and the second master key are
what a stale one would be told by.

In `JobPages` the log page reads at most two bytes and two lines, and logs have
up to three bytes, so that logs shorter than, as long as and longer than each
bound occur with newlines in every place.  With two jobs and a default limit of
one there are users with more jobs than the default, with as many and with
fewer.  Logs of up to two bytes and a bound of three are enough for `LogShown`.

Deadlock is not checked: in `JobLifecycle` with every job finished and the last
stop used, in `SignIn` with every attempt over, nothing need happen; in
`Installations`, `ApiKeys` and `JobPages` there may likewise be nothing left to
do but what clients do of their own accord.

### Fairness

`Fairness` is weak fairness of each enqueue request, cancel request and
supervisor, of start-up and of exit.  A goroutine that can take a step takes it:
the Go scheduler is fair, each call returns in the end, and `docker wait`, the
one that might not, is bounded by `MaxJobDuration`.  Start-up is fair because
the unit file restarts the service
(`deploy/saas/agentic-delegator-saas.service`). No client has to send anything,
no container has to exit by itself, and the process need not stop.  No receiver
has to accept a webhook: attempts are bounded by `maxAttempts`.

In `JobPages`, the supervisor is fair for the same reasons, and so is `Refresh`:
an open page polls every two seconds as long as it stays open, and a handler
once begun goes on.  A user may leave the page at any time.

## Proofs

`JobLifecycleProofs` and `JobBoardProofs` prove, for every finite set of jobs,
every set of users, every pair of caps, every set of failures and every number
of stops:

| Theorem | Statement |
|---|---|
| `Invariance`, `TypeCorrect` | `Spec => []IInv`, `Spec => []TypeOK` |
| `UserCap`, `GlobalCap` | `Spec => []UserCapHolds`, `Spec => []GlobalCapHolds` |
| `WebhookAgrees` | `Spec => []WebhookAgreesWithRow` |
| `SuccessReal` | `Spec => []SuccessIsReal` |
| `RunningSecrets`, `NoStray` | `Spec => []RunningKeepsSecrets`, `Spec => []NoStraySecrets` |
| `Watched` | `Spec => []RunningIsWatched` |
| `CancelStops` | `Spec => []CancelledIsStopped` |
| `QueuedClean` | `Spec => []QueuedHoldsNothing` |
| `SuccessLost` | `Spec => SuccessLostOnlyToCancel` |
| `EndedChanges` | `Spec => EndedChangesOnlyUnderWay` |
| `OneOutcome` | `Spec => HearsOneOutcome` |
| `ImplementsBoard` (in `JobBoardProofs`) | `Spec => BoardSpec` |
| `WorkIsBounded` | `Spec => []LeftTyped /\ [][WorkShrinks]_vars` |

That is every safety property the runs check of `JobLifecycle`.  The assumptions
are the named ones of that module: `JobsAssumption` (finitely many jobs),
`OwnerAssumption`, `CapsAssumption`, `FaultsAssumption`, `StopsAssumption`.
`IInv` is checked by `OneJob` as well, so TLC has seen what the proofs are
about.  `JobLifecycleSteps` says once, per action, what the action does to which
job; each conjunct of `IInv` is then preserved by an argument over those lemmas.

The caps are the heart of it.  `UserCapHolds` speaks of containers, but the code
counts rows, and counts them in one step that is neither the insertion nor the
start.  It is not inductive: from a state with a container running and a second
request past its count, the next step breaks it.  `SlotsHold` therefore bounds
the set of jobs that are *past the check* (or have a container) and have never
been terminal.  Such a job has a row (`RowsTracked`) and it is active, because
only terminal rows settle a job, so the count another request makes sees it:
that request passes only if itself and all of those are within the cap
(`CountAdmits`).  Every other step leaves that set alone or shrinks it
(`SlotsShrink`).  Jobs that were terminal at some time are excluded: when one is
cancelled during its start the bound is false.

`SuccessLost` rests on `SuccessIsLast`: a success is written only when the
supervisor reports, for a row that says running, hence after the enqueue
request's last write, and when it is written the supervisor has no write left;
`StartAlone` keeps the start-up loop from holding a list older than that
success. What remains is a cancel request that had read the row before.

The same parts, the other way round, give `EndedChanges` (`RowWriters` names for
each change of a row the call that makes it).

The other properties are not inductive either, since each relates what one
process saw at one step to what others do before it acts on it:

- `AnnouncedWasWritten` keeps what the supervisor is about to announce equal to
  what was announced by earlier attempts, and written before; with
  `AttemptsCounted`, which bounds the attempts, it yields `WebhookAgrees` and
  `OneOutcome`.
- `ExitSeen` follows a container's status from its exit through `docker
  inspect`, the clean-up and the completion's read to the row: `SuccessReal`.
- `StoppedFirst` says that a container id is in a row only when the enqueue
  request is over, so no `docker run` comes after the kill of a cancel that saw
  it: `CancelStops`.
- `SecretsHeld` keeps the secrets from before `docker run` until the
  supervisor's removal, for running rows also when the supervisor is lost:
  `RunningSecrets`.
- `RowsWatched` accounts during start-up for every row that says running, in the
  list or among the adopted: `Watched`; with it the sweep keeps what it must and
  no more: `NoStray`.
- `PreparedHolds` follows a request that has not prepared anything yet:
  `QueuedClean`.

`TypeOK` needs `OutcomeKnown`, as the webhook announces whatever job value the
completion carries.

`ImplementsBoard` goes action by action: `EnqueueBoard`, `SuperviseBoard` and
`OtherBoard` say what the board sees of each process's steps.  The mapping is
simple; what is not is that the writes the board forbids do not happen, which
needs the invariant.  That the request submits only a job without a row and that
every other writer finds one is `RowsTracked`.  That start-up abandons no job
whose supervisor may yet report is `StartAlone` (the goroutines of the process
before are gone) together with `RunningSupervised` (a row that says running has
or had a supervisor, so its report is closed and not merely unopened).

`SignInProofs` proves, for any sets of attempts, browsers and accounts and any
set of failures (assumptions: `NoOneAssumption`, `FaultsAssumption`):

| Theorem | Statement |
|---|---|
| `SignInInvariance` | `Spec => []IInv` |
| `BoundForGood` | `Spec => AccountKeepsUser` |
| `ReturningUser` | `Spec => []ReturningUserIsSame` |
| `HomeCookies` | `Spec => []CookieFromHome` |
| `LiveCookies` | `Spec => []CookieIsLive` |
| `ReplacedSessions` | `Spec => []SignInReplacesSession` |

`OneBrowser` carries the argument about cookies: a handler works for the browser
that began the attempt, and only a session that has been delivered can be
presented, so nothing deletes a session that is still on its way.  With it a
deletion always has its own answer to come, which replaces the cookie
(`DeliverKeeps`).  `ReturningFinds` needs that an account once bound stays bound
to the same user.  `RowsRefer` says that no write is refused by a foreign key,
so the model, which has no such refusals, leaves none out.

`InstallationsProofs` proves, for any sets of installations and users, any
finite set of repositories, any numbers of callbacks, handlers and lookups at a
time, any page size and any failures (assumptions: `NoOneAssumption`,
`ReposAssumption`, `PageSizeAssumption`, `FaultsAssumption`):

| Theorem | Statement |
|---|---|
| `InstallationsInvariance` | `Spec => []IInv` |
| `CopiesMissNothing` | `Spec => []DroppedCopiesMissNothing` |
| `RemovalIsFinal` | `Spec => []RemovedStays` |
| `GrantsCover` | `Spec => []GrantedCovers` |
| `TokensAreUsers` | `Spec => []TokenForUser` |
| `LiveRowsStay` | `Spec => LiveRowStays` |

`DeletionsAreTrue` ties each deletion under way to an installation that is gone,
which GitHub does not bring back, and each remembered deletion to a handler that
is about to carry it out or to a removal that has been carried out: a restart
forgets the one with the other.  `RemovedIsOver` adds to a removal that GitHub
no longer lists the repositories, so no callback can get as far as writing
again.  `ListsAgree` follows the list from GitHub through the callback to the
row, and needs `ListedIsPart`: as the page size is not zero, a page is empty
only if there is nothing to list, which is what keeps an empty row from covering
too much.  `LooksAgree` keeps for a lookup what it found when it read the row,
by the history of the row's writers, since the row may have changed hands.

`ApiKeysProofs` proves, for any sets of keys, prefixes, users, values, master
keys and requests at a time, any assignment of prefixes and any failures
(assumptions: `PrefixAssumption`, `NoneAssumption`, `FaultsAssumption`):

| Theorem | Statement |
|---|---|
| `ApiKeysInvariance` | `Spec => []IInv` |
| `RevokedAreOut` | `Spec => []RevokedStaysOut` |
| `HolderActs` | `Spec => []ActsAsHolder` |
| `HolderRevokes` | `Spec => OnlyHolderRevokes` |
| `LatestCredential` | `Spec => CredentialIsLatest` |
| `PageTrue` | `Spec => SettingsPageIsTrue` |

`RowsAreMinted` says that a row is what its mint wrote and that a revoked key
has none; it holds because the touch of the last use updates a row and never
inserts one.  `RequestsAgree` carries what a request found about its key past
the steps of others: once it is past the list, the key that matched is its own
(a hash matches one plaintext, whatever the prefixes), and its user is the one
the key was minted for.  `SecretsAgree` ties each stored value to the history of
calls that took effect.

`JobPagesLemmas` and `JobPagesProofs` prove, for any users and paths, logs,
tables and limits of any size and sign, and any bounds on bytes and lines that
are not zero (assumptions: `NamesAssumption`, `SizesAssumption`,
`FaultsAssumption`):

| Theorem | Statement |
|---|---|
| `PagesInvariance` | `Spec => []IInv` |
| `PagesShowEnds` | `Spec => []ShowsEndOfLog` |
| `NoticesAreEnds` | `Spec => []NoticeIsEnd` |
| `FinalPages` | `Spec => []FinalPageIsWhole` |
| `ShownToOwners` | `Spec => OwnJobsOnly` |
| `FirstJobOnBoard` | `Spec => Board!Spec`, for the first row |
| `TailIsEnd`, `TailFileIsNotice`, `ListForUserLatest` | what `readLogTail`, `tailFile` and the list's query make of a text or a table |

Half of that is about data.  `SplitLines`, `JoinLines` and `OwnJobs` are folds,
and the library's induction theorems take a predicate as a parameter, which the
provers cannot instantiate.  `SetInduction` is the same for a set in the place
of the predicate, from the library's theorem on minimal elements.  A fold is
then a chain of values, one per index (`FoldIsChain`), and what is true of the
fold is true of each value: the lines split off so far are the places between
the newlines so far (`ScanChain`), joining adjacent lines gives back the text
between them (`FoldJoinChain`), and the list so far has the user's jobs among
the rows so far, the last first (`OwnJobsChain`).  From these, `TailIsEnd` has
the last lines of what was read as an end of the log, however newlines lie at
the cut and at the end.

The other half is the race.  `FilesInv` says that the only log file is the one
the supervisor writes and that it is always a beginning of the container's
output, so what a request reads is an end of that beginning even if the file has
grown since its `Stat`; `ReqInv` keeps the offset within the file.  `PageInv`
adds that an outcome on the page is the row's and was there before the request
opened the file, by which time the file was whole: `FinalPages`.

`FirstJobOnBoard` ties this module to `JobLifecycle`: it has its own, smaller
account of a job's row, and both implement `JobBoard`.  A cancel before the
start keeps the start pending for good, and a stop of the process closes the
report.  That a row without a supervisor does not run, and one with a supervisor
is not queued, is the last part of `RowsInv`.

`WorkIsBounded`, in `JobLifecycleProofs`, is the part of liveness that needs no
fairness: a request has at most ten steps, a supervisor at most seven and
`MaxAttempts` once it has begun, a start-up three and one for each job.  Each
step a process takes uses one up (`WorkShrinks`), whatever fails, and no step of
another adds any; only a stop of the process makes another start-up.  A process
that does not end is therefore one that takes no more steps, and no loop of
retries or of listed jobs keeps it busy.

Model-checked only: the liveness properties `AdmittedLeavesQueue`,
`SupervisionEnds` and `PageCatchesUp`, since fairness and `ENABLED` are beyond
the prover; and what the runs that expect a violation refute.

## Not modelled

- The runner's entrypoint (`runner/entrypoint.sh`) beyond its exit, its output
  and the webhook it names: a sequence of `git`, agent and `gh` commands on a
  clone nobody else reads.
- The runner network: `runner-egress-firewall.sh` is run by an administrator,
  and `PreflightNetwork` refuses to start without the network; neither shares
  state with the modelled parts.
- Configuration parsing, the `migrate` command and the schema migrations: they
  run before there is anything to interleave with.
- Rendering (`*.templ` and the code generated from them, beyond what a page says
  and when it polls), the generated HTTP server, request logging, static files.
- Validation of requests and of job specifications: a request that fails it
  changes nothing.
- Encryption, hashing, signatures and ids: library calls, taken for what they
  promise.
- The expiry of sessions and of GitHub tokens, which are comparisons made by the
  reader; the state cookie's own expiry is `StateExpires`.
- Deployment scripts, the client-side skill, test doubles and end-to-end tests.

## Order of work

The modules were written in the order of the risk in them: `Job` and
`JobLifecycle` with its proofs, `JobBoard` and the refinement, `SignIn`, then
`Installations`, `ApiKeys` and `JobPages`.  Of the plan made at the start, the
webhook's delivery became part of `JobLifecycle`, where it races with cancels,
and the log tails part of `JobPages`, where the log grows beneath them.  The
firewall script and the entrypoint were left out for the reasons above.
