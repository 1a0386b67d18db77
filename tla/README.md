# TLA+ models of the workplan control panel

This directory holds a formal model of the parts of this repository that keep state:
TLA+ modules translated from the source, TLC configurations that check them on small
instances, and TLAPS proofs that hold for every instance. Nearly all of the state lives in
the workplan control panel (`workplan-control-panel/`), a Python service that leases tasks
of `docs/workplan/tasks.json`, prepares a branch for each, and sends its stages to cloud
agents. Paths without a directory below are files of
`workplan-control-panel/control_panel/`.

| File | What it is |
| --- | --- |
| `SyncJobs.tla` | the job table: `start_sync`, `_run_sync`, coalescing, eviction, the lock |
| `MCSyncJobs.tla`, `MCSyncJobs*.cfg` | its instances for TLC |
| `SyncJobsProofs.tla` | its inductive invariant and theorems |
| `SyncQueue.tla` | the abstract specification of the jobs, which `SyncJobs` implements |
| `TaskLeases.tla` | leases and task branches: `sync`, `requested`, `expire`, overlay, retirement |
| `MCTaskLeases.tla`, `MCTaskLeases*.cfg` | its instances |
| `TaskLeasesProofs.tla` | its inductive invariant and theorems |
| `LeaseBook.tla` | the abstract specification of the leases, which `TaskLeases` implements |
| `LeaseBookProofs.tla` | the proof that it does |
| `StageDispatch.tla` | stages of one task: `stage`, `expire_stage`, `push_stage_branch` |
| `MCStageDispatch.tla`, `MCStageDispatch*.cfg` | its instances |
| `StageDispatchProofs.tla` | its inductive invariant and theorems |
| `SessionBook.tla` | the abstract specification of the sessions, which `StageDispatch` implements |
| `InstallationToken.tla`, `MCInstallationToken.*`, `InstallationTokenProofs.tla` | the token all Git and `gh` commands share, its instance, its proofs |
| `TaskRebase.tla`, `MCTaskRebase.*`, `TaskRebaseProofs.tla` | the rebase of a task branch and the pull requests into it |
| `PullRequestRecords.tla`, `MCPullRequestRecords.*`, `PullRequestRecordsProofs.tla` | what the records say of the pull requests into main |
| `StatusGate.tla`, `MCStatusGate.tla`, `MCStatusGate*.cfg`, `StatusGateProofs.tla` | the gate that stamps tasks completed on approval |
| `PROJECT.json` | components, runs, mutants, the map to source lines, findings, hazards, theorems |

Run `tlc -config MCSyncJobs.cfg MCSyncJobs` to check an instance and
`tlapm SyncJobsProofs.tla` to check proofs.

## The system

**Sync jobs** (`task_scheduler.py` 35-99, `state.py` 64-75). State: the table of jobs
(in memory, at most 32), one `_resync_requested` flag, one thread per job, and an advisory
file lock. `start_sync` creates a job or folds the request into the running one;
`_run_sync` runs scheduling passes until no request is pending, then publishes an outcome;
`sync_status` reads it. Every operation that touches state takes the lock without waiting
and answers 409 if it is held. Hard: requests arrive at any point of a pass, from HTTP
threads; the table evicts; a thread may fail to start; a restart forgets everything.
Correct when: one job runs at a time, its entry is never evicted, a success covers every
request it was answered for, an outcome is final, every request is eventually served.

**Task leases** (`task_scheduler.py` 109-126 and 235-328, `state.py` 44-106,
`integrations/repository.py` 41-50 and 112-184). State: the tracker file (a copy of main's
`tasks.json`), the state file (a record per task: `status`, `expired`, `prepared`), and
`task/<ID>` at origin. `sync` pulls main, retires records, picks tasks, and for each one
saves a reservation, ensures the branch, pushes an opening commit, and saves `prepared`.
`expire` deletes branches and then marks the record. Hard: each of these is a durable
effect of its own and the process may die or fail between two; main and the branches move
meanwhile; the overlay combines two files. Correct when: a slot is never given twice, a
task never starts before its dependencies, `prepared` tells the truth about the branch,
a new lease never inherits an old branch, what was cut short is completed.

**Stage dispatch** (`task_scheduler.py` 330-463, `state.py` 34-41, `repository.py` 72-122,
`integrations/codex.py`, `integrations/claude.py`). State: the attempts of each stage in
the task's record, and numbered branches at origin. `stage` reads the revision, decides
from the newest attempt at it, saves a new attempt, pushes a branch, submits, saves the
reply. `expire_stage` and `expire` retire attempts. Hard: a submission may be accepted and
its reply lost; the listing of numbers is stale when the push happens; the tip moves away
and back; audits of several pull requests share one list. Correct when: nothing is sent
twice without a record of it, no two sessions share a branch, a release leaves nothing
standing, the push loop ends.

**Task rebase** (`task_scheduler.py` 202-233, `repository.py` 217-286). State: the task
branch and the branches of pull requests into it at origin, and the clone's tracking ref of
the task branch. Fetches all of them by force, replays them in a scratch worktree, pushes
them atomically, each leased on what was fetched, then moves the tracking refs. Hard: every
branch may be pushed to, rewritten or deleted in between; a death after the push leaves the
tracking ref on a line of history the branch has left, where the unforced fetches of the
other operations fail. Correct when: nobody's work is dropped, all listed pull requests come
along or nothing is pushed, and the panel does not lock itself out of the branch.

**Pull request records** (`task_scheduler.py` 128-200 and 324-325, `repository.py`
187-214). State: `pull_request` and `pull_request_state` of each task's record. A sync looks
up every prepared task that has not merged, an operator may refresh or create one, expiry
forgets it. Hard: people open, close, merge and reopen between lookup and write; a lookup
may fail for one task and not for others; a creation may succeed without an answer. Correct
when a record speaks of this lease's pull requests, tells the truth about merges, and
follows GitHub in the end.

**Installation tokens** (`integrations/github_app.py`, `github.py` 86-92, `process.py`).
State: a token, the time to mint again, the installation, a lock held across the mint. Hard:
any number of threads; a mint is a signature and up to four calls; the App may be
uninstalled or installed anew; a token is used for as long as a command runs. Correct when
no command outlives its token, threads share a mint, a report that the App is missing is
true, and the lock is given back.

**State file schema** (`state.py` 14-61). Version 1 files are migrated on every read.

**Task status gate** (`scripts/stamp_task_completion.py`,
`.github/workflows/task-status-gate.yml`, ADR 0004). State: none of its own; a job checks a
pull request's branch out, and stamps its task completed on it if it contains main, or else
merges main into it. Hard: main, the branch and the reviews move under the job, a newer
event of the pull request cancels it, and several pull requests are stamped at once. Correct
when no merge reverts another task's status, the gate takes no commit off a branch and knows
what main completed, and an approval comes to a stamp.

**Merge notification** (`.github/workflows/task-scheduler.yml`). Posts merges and polls
the job for 810 s.

**HTTP API, sessions, page** (`api.py`, `sessions.py`, `ui.py`). Routes to the handlers
above; signed stateless cookies; a page that offers the actions the server would accept.

**winch programs** (`cmd/winch-sandbox`, `cmd/winch`, `cmd/fake-harness`,
`internal/adapters/transport/attach`, `web/src/attach`). A read-only HTTP server with a
constant session, a client of it, and a line-driven test fixture.

**Deployment, skills, docs**. Containers, agent instructions and documents.

How they interact: a merge reaches the panel as a sync job; a job runs the passes of the
leases, under the lock every other operation also takes; a prepared lease is the guard of
stage dispatch, rebase and pull requests; expiring a lease retires its stages; the status
gate writes the task branch the leases opened; all Git and `gh` calls ask for a token.

## How the models correspond to the code

**SyncJobs.** `jobs` is `_jobs`, `resync` is `_resync_requested`, and each id has a thread
with its own `event`/`only` (`kind`, `pass`). Actions: `StartJob` and `Coalesce` are
`start_sync`; `Launch`/`LaunchFails` the start of the thread; `BeginPass`, `PassSucceeds`,
`PassFails`, `IgnoreEvent` a call of `sync`; `Again`, `Conclude`, `Fail` the three ways
`_run_sync` takes `_jobs_lock`. A pass is atomic between taking and releasing the file
lock: what happens inside it is `TaskLeases`. The world outside is a counter of merges;
history variables record the revision each request and each pass saw. A restart empties
the table. Ids are issued from a bounded range where the code draws a UUID.

**SyncQueue.** What a caller of `start_sync` may rely on, without threads, flags and the
lock: a request opens a job (`Open`) or joins the running one (`Join`), the running job
brings the leases up to a world no older than before (`Cover`), and ends (`Succeed`, `Fail`).
`Succeed` is only allowed when the job has covered everything it was asked. In `SyncJobs`,
`Queue` is its instance: its variables are those of the same name, with `world <- revision`.
The start of a thread, the flag and the lock map to stutters, and `Again`, which takes a
request over, to none of the ends.

**TaskLeases.** `tracker` and `records` are the two files, `branch` the status that the
task has in `tasks.json` on its own branch (or none), `main` that on main. One operation at
a time is in progress (the lock); `at` is its program counter, and every durable effect is
an action: `SyncPulls` (pull and tracker write), `SyncSaves` (retire, write, choose),
`Reserve`, `EnsureBranch`, `OpenBranch`, `MarkPrepared`, and `Expire`, `ExpireDeletes`,
`ExpireWrites`. `PrepareFails` and `ExpireFails` include a command that failed although
origin carried it out. `Crash` stops any operation where it is, `LoseState` loses both
files. `MainMoves`, `Stamp` and `OutsiderDeletes` are everybody else. A completion on main
is final, which is what the status gate enforces (ADR 0004). The history variable `gone`
says that a branch was deleted and not opened since; the invariants about prepared
branches make no claim while it holds, because the panel is not told of deletions.

**StageDispatch.** One task. `attempts` is `record["stages"]`; `lease` summarises what
`task()` checks. `stage` is `StageReads`, `StageRecords`, then `PushBranch` or
`NumberTaken` (the loop of `push_stage_branch`), `Submit`, `RecordUrl`, with a failure at
each: `StageGivesUp`, `PushFails`, `PushUnauthenticated`, `SubmitFails`,
`Refused`/`PopAttempt`. Revisions are numbers, so a tip may return to one it left. Branch
numbers are kept exactly. `accepted` and `told` are histories: what the agents took, and
which sessions were told which branch. `told` forgets a branch that neither origin nor a
record remembers: nothing in the code could know of it. Reading the tip is
over-approximated: `task_head` fetches without force, so after a rewind it fails where the
model reads the new tip.

**SessionBook.** What the operator may rely on, without records, branches and calls: each
stage has a slot for every revision, `free`, `open` or `closed`; only the holder of the task
opens a free slot, one at a time (`Claim`); one session comes of an open slot, which closes
(`Send`); a slot whose outcome is unknown closes as well (`GiveUp`), one of which it is known
that nothing started is free again (`Drop`); only the operator frees a closed slot
(`Retire`), or a release all of them (`ReleaseAll`). In `StageDispatch`, `Sessions` is its
instance with `sessions <- accepted` and `slot <- Slot`: a slot is not free while an attempt
at its revision is not expired, and open while that attempt is the one in hand and the agent
has not taken the work. Pushing, listing and the recording of the answer map to stutters. A
push that raised its number keeps the slot open; a crash before the submission closes it,
since the record cannot tell.

**LeaseBook.** What the leases promise, without files or steps: which tasks are leased,
which of them are ready, and what the tracker last said. `Claim`, `Prepare`, `Release`,
`Learn` and `Forget` are its five operations. In `TaskLeases`, `Book` is its instance with
`known <- tracker`, `leases <- Leases` (in progress and not expired), `ready <- Ready` (leased
and marked prepared). Reservations, prepared marks and the last write of `expire` map to the
operations; fetches, branch work, failures and crashes map to stutters.

**InstallationToken.** Time passes in ticks, and every clock is kept as what remains of it:
`life` of the token, `due` until it is minted again, `own` and `age` of each running
command. `token()` is `Reuse` or `BeginMint`, then `Sign`, `Resolve`, `Create`,
`InstallationGone`, `Missing` or `MintFails`, all with `lock` held. The start of a command
after its token was handed out is taken within a tick: the margin is exactly the longest a
command runs, so a clock that lags behind GitHub's, or a thread that is not scheduled
between the two, eats into it, as the panel's README (134) leaves open.

**TaskRebase.** A tip is the version of main it contains, the line of history it is on
(each replay or rewrite starts a new one) and the set of work in it; a fetch without force
needs a descendant. `RebaseLists`, `RebaseFetches` (with the replay), `RebasePushes`,
`RebaseTracks` are the operation; `ReadHead`, `CreateBranch`, `FetchBranch`,
`ExpireDeletes`, `ExpireUntracks` the others that touch the branch; `TaskLeases` has their
guards. `rewritten` and `cut` are histories: others rewrote or deleted the branch, or an
operation of the panel was stopped after its push, and no forced fetch followed. A piece of
work is what commits other than merges changed: the replay is a plain `git rebase`, which
leaves out a change made only inside a merge commit, so `NoWorkDropped` says nothing of
those. Pull requests whose head is `main` are left out: whether origin takes a push to main
is a setting of the repository that the source does not hold (ADR 0004, 73-75, speaks of a
protection that has to be bypassed).

**PullRequestRecords.** `pulls` is GitHub's list for each task branch, `record` what is
saved and `draft` what the operation in progress will save. A pass is `SyncLoads`, `Track` or
`TrackFails` for each task, `Tracked` (the tracker file) and `Write` (the state file);
`Asks` begins both operations on one task, which go on as `Refresh`, or as `CreateLooksUp` or
`CreateForced` and then `Create`, whose answer may be lost. `People` open, close, merge and
reopen in any order. The pass's preparation of branches is `Prepare`; its guards are in
`TaskLeases`. `since` is history: the last pull request from before the task's last expiry.
The lookup lists at most twenty pull requests, more than the bound.

**StatusGate.** `trunk` keeps every version of main's tracker as the set of completed
tasks; a branch is the sequence of its commits, each with the version it contains, its own
set, and the number of the authors' push that made it, so that a replayed commit is another.
A job is `Checkout`, `Fetch`, then `Stamp` or `CatchUp`; `JobEnds` is every failure and every
cancellation. The gate's push is not forced, and `Lands` is git's rule for it: the branch has
to be where the job checked it out or at a commit behind that. Authors add commits, replay
them on main (`Rewrite`) and take the branch back to an earlier one (`Rewind`). `MergedWith` is the three-way merge of the tracker, entry by entry. Event
payloads are snapshots, so names and labels are constants. Authors leave the tracker alone
(`skills/implement-task/SKILL.md`), except that a fork's author completes the task by hand
as the gate's message asks; maintainers change any entry on main. Textual conflicts are
failures of the job.

## The runs

| Run | Instance | Shows |
| --- | --- | --- |
| `sync_jobs` | table of 2, 3 ids, 2 merges, threads may fail | one running job, honest and final outcomes, every request served, the refinement of `SyncQueue` |
| `sync_jobs_dropped` | as `sync_jobs` | violated: see findings |
| `task_leases` | 2 independent tasks, 1 slot, 1 expiry each | capacity, prepared branches, fresh branches, the refinement of `LeaseBook` |
| `task_leases_live` | a task and its dependent, 2 slots | dependencies; preparation and retirement come about |
| `task_leases_idempotent` | 2 tasks, no expiry | violated: see findings |
| `stage_dispatch` | 1 Codex stage, 2 revisions, 3 attempts, numbers to 4, 2 of them pushed by others | no hidden or shared session; the push loop ends; the refinement of `SessionBook` |
| `stage_dispatch_audit` | 2 pull requests, 2 revisions, 3 attempts | the refinement of `SessionBook` by audits, which may be refused |
| `installation_token` | 2 threads, a token of 5 ticks, margin and timeout of 2, 3 installations | no command outlives its token, shared mints, true reports, the lock returns |
| `task_rebase` | 1 pull request, 1 piece of work, 3 versions of main, 4 lines of history | nothing dropped, whole rebases, no self-made lock-out |
| `pull_request_records` | 2 tasks, 2 pull requests of one of them, 1 operation cut short | truth of the records; they follow GitHub |
| `status_gate` | 2 pull requests, one from a fork, 3 versions of main, 1 push or rewrite of each, any number of forced pushes back | no reverted status, pushes that drop no commit and know main's completions, approvals come to a stamp |
| `status_gate_merged` | the same, jobs never fail, authors leave their branches alone | violated: see findings |

Why the bounds are enough. A table of two jobs is the smallest in which a finished and a
running job compete for eviction; three ids let the table overflow. Two merges put one
before a pass and one during it. Two tasks are what it takes for one to wait for a
slot or a dependency of the other, and for the failure of one to abandon the other; one
expiry separates two eras of a branch. Three attempts at two revisions make a tip that
returns to a revision with a newer attempt elsewhere; two numbers pushed by others make
the loop of `push_stage_branch` turn twice and leave numbers above it. Refine and
Implement never share an attempt or a number, so one of them is enough. A lifetime,
margin and timeout of a few ticks keep the order that the code's hour, five minutes and five
minutes have; two threads contend for the lock. One pull request and one piece of work are
enough for one branch to move alone, and four lines of history for a rewrite by others
before and after a rebase. A second pull request of one task is one that follows an expiry
or a merge; one operation cut short puts a crash before any write. Three versions of main
let it move twice under a job: once before the job fetches it and once before its push. A
branch grows by what the gate pushes besides its authors' one push, so that a forced push back
takes off a commit of either.

Symmetry is not used: tasks are ordered by rank, and the other sets are tiny.

### Fairness

Nothing is assumed of operators, merges, agents or origin. Weak fairness is given to the
continuation of an operation that has begun: every command goes through `process.run`,
which ends it after 300 s, HTTP calls have timeouts, and no operation waits for the lock
(`acquire_lock` does not block). A thread that could not be created runs nothing:
`RequestsAreServed` names that job as its exception, because after `Thread.start` fails
the entry stays `running` and nothing is served until a restart. `task_leases_live` assumes strong fairness of passes and of each step of a task's
preparation: passes keep being requested (every merge posts one) and neither the process
nor origin fails for ever at the same step of the same task. Without that no code could
complete a preparation. `installation_token` assumes that a mint goes on, which the
timeouts of `openssl` and of each call give. `pull_request_records` assumes that what holds
the lock goes on, that passes keep being begun, and bounds the operations cut short;
whether a task's own lookups are answered is a premise of the property, so nothing is
assumed of the other tasks'. `status_gate` assumes that a queued job runs and goes on; that
somebody keeps approving, and that the branch and main come to rest, are premises of
`ApprovalsStamp`.

## Findings

Each is a run of its own in which TLC finds what a document or a comment says violated.

* `FreshPassForEveryRequest` - a request folded into a running job is dropped when the
  job's pass fails (`task_scheduler.py` 81), against "request a fresh pass over main".
* `PreparationIsIdempotent` - preparing a task again after the status gate stamped its
  branch pushes a commit that takes the stamp back (`repository.py` 161).
* `MergedMeansCompleted` - with no failure at all, an approval of a pull request that
  does not contain main is spent on catching up (`stamp_task_completion.py` 108-141); the
  approval stands, so it may be merged with its task incomplete on main, against ADR 0004
  (35-38): "On approval, a second job stamps `completed` into the tracker".

## Observations

Met while modelling, read off the code, and not checked by a run:

* A job that prepares one task becomes a full pass when a request is folded into it, and
  then fails because of another task (`task_scheduler.py` 69, against the comment at
  256-257).
* A task that main reopens is reserved with the `prepared` mark of its earlier lease; if
  the new preparation fails, no pass retries it (270, against 263-264).
* Expiring Audit reaches only the revision of the newest attempt, so an uncertain audit of
  one pull request stays in the way after another was audited (350, against 408-409).
* When no token can be minted, `ConfigurationError`, a plain `Exception`, is none of the
  exceptions the handlers catch: a push leaves its attempt `submitting` (435, against the
  panel's README 106-108), one task's lookup stops the pass (139), and `do_POST` sends no
  answer (`api.py` 154-161).
* The gate's push is refused when the branch moved on or was rewritten under the job, but not
  when an author took it back to an earlier commit (`stamp_task_completion.py` 97-98): the
  commits taken back then return with the stamp. `StatusGate` has the step; no document of
  the repository rules it out.
* After an expiry, a pull request merged under the earlier lease is found and recorded
  again by the next sync, which then asks no more (135): a pull request opened later shows
  only after a refresh or a creation.
* A token of an App that was uninstalled, or installed anew, is handed out until it is due;
  the commands fail, nothing looks again.
* A pull request opened into the task branch between the listing and the push of a rebase
  stays on the old branch. So does a pull request of a rebase whose push was carried out
  and reported as failed: nothing is lost, but the panel reports that nothing was pushed.
* The gate's concurrency group is shared by every event of a pull request
  (`task-status-gate.yml` 9-11), so a label, an edit or a push cancels a stamping job in
  progress. `ApprovalsStamp` holds because approving again starts another.

## What is proved

TLAPS checks every step; the assumptions are those stated on the constants
(`SyncJobsAssumption`, `TaskLeasesAssumption`, `StageDispatchAssumption` and so on): a finite set of
tasks with distinct ranks, dependencies among them, a positive capacity, finitely many
stages, a timeout no longer than the margin and a margin shorter than a token's life, and
bounds that are natural numbers, the numbers others push below the highest. Nothing else is assumed, so the theorems hold for every tracker, capacity and number of
callers.

**SyncJobsProofs.** `IInv` strengthens `AtMostOneRunning` and `RunnerKeepsItsEntry` into
one statement, that the running jobs are exactly those whose thread has not published,
and adds how far the current pass has covered the requests of its job given the flag.
Neither property is inductive alone: eviction is safe only because the table is full of
finished jobs when a new one is created. From `IInv` follow type correctness, one running
job, entries kept, honest successes, final outcomes, and the bound of the table.
`NoLostRequest` is the classical question about such a flag: a thread that has returned from
its pass without covering what its job was asked still finds the flag set.
`JobsImplementQueue` is the step simulation of `SyncQueue`. `Cover` needs that a pass never
takes a job back to an older world, and `Open` that an id not handed out yet has covered
nothing: `LedgerKept` adds both to `IInv`. `Succeed` needs `NoRequestOverlooked`, in the step
that publishes while the flag is down.

**TaskLeasesProofs.** `IInv` is the conjunction of
`TypeOK`; `Locals`, which says what the handler's variables can be at each step;
`CompletionsStay`, that what the tracker copy calls completed main completed;
`Opened`, that a prepared or about-to-be-prepared task has its opening commit unless the
branch was deleted; `OfThisEra`, that its branch dates from after the last expiry, with
the intermediate states of `expire`; and `Justified`, that every task still in the loop was
admitted with its dependencies met and, counted with all leases, within capacity. The last
one is needed because admission is decided once and claims follow later, one at a time,
with writes in between. The proofs about capacity rest on `SliceBounded`: taking the first
n of a finite ordered set yields at most n, for which the extremes of a finite set come
from well-foundedness of strict subset. From `IInv`: `PreparedIsOpened`,
`ExpiryStartsAfresh`, `OnlyReadyTasksAreClaimed`, `ClaimsFitCapacity`, `TypeCorrect`.

**StageDispatchProofs.** None of the properties is inductive alone. `IInv` adds to them
`Locals`, what the handler knows of the attempt in hand at each step (it is the last, at the
revision that was read, under a live lease); `NoneStands`, that nothing stands at this
revision before a new attempt is saved, which is how the reading of `live_attempt` some
steps ago keeps `OnlyNewestStands`; `OneToSpare`, that until the agent has answered there
is an attempt more than sessions, which lets a refused audit be popped without hiding a
session; `Fresh`, that sessions are only told numbers that origin or a record remembers, so
neither the number in hand nor, while it may still be raised, a higher one; and
`RaisedByOthers`, that branches above the number in hand were pushed by others, so raising
it stays within the bound. The arguments about counts of attempts rest on lemmas about
appending, replacing and dropping one; that `next_stage_number` is past every remembered
number rests on the highest element of a finite set. From `IInv`: `OnlyNewestMayStand`,
`SessionsHaveAttempts`, `BranchesAreNotShared`, `ReleaseIsComplete`, `TypeCorrect`.
`DispatchImplementsBook` is the step simulation of `SessionBook`. What stands at a revision
is a matter of all its attempts where the code looks at the newest only, so
`OnlyNewestStands` is used throughout: retiring the newest frees the slot, popping it frees
the slot, and nothing stands where `live_attempt` found nothing. `HandStands` is added to
`IInv`: the attempt in hand has not been set aside, and a release in progress is not that of
a completed task.

**LeaseBookProofs.** `LeasesImplementBook` is the step simulation: under the invariant of
`TaskLeasesProofs`, each action of `TaskLeases` maps to one operation of the book or leaves
it alone. The invariant is needed for `Claim`, whose guard (a free slot, dependencies met)
the code checked some steps earlier. `BookKept` is added to it: a record that says prepared
is that of a lease or of a completed task, the task being prepared is a lease, and what is
still admitted may be claimed. `Prepare` rests on its second part and the retirement of
records on its first. `LeasesStayWithinBounds` is what an operator reads the book for: never
more leases than the capacity, and none before its dependencies are completed, in every
state and not only when a lease is claimed. Main is not the panel's: its hypothesis,
`MarkedByLeases`, is that main puts a task in progress only while the task is held. That is
what a merge of its branch without the stamp does (see the finding on `MergedMeansCompleted`),
since the opening commit is on the branch; left out are a maintainer who writes
`in_progress` into main by hand, a lease the panel never admitted, and the merge of an earlier
lease's branch after its record was lost. A task main has marked keeps its slot after its
lease is expired, so the invariant, `SlotsKept`, bounds leases and marked tasks together. The
proof is by induction over the kinds of steps the book knows, not over those of `TaskLeases`.

**InstallationTokenProofs.** `IInv` adds that a thread is in the mint exactly if it holds the
lock, that a token still handed out has the margin left beyond the time until the next mint,
that a running command was given a token with more than the margin left, and that during a
mint the App is absent, or is not the one looked up a second time, only if that changed
meanwhile. From it: `TokensOutliveCommands`,
`SharedMints`, `MissingReportsAreTrue`, `TypeCorrect`, and `LockIsNeverAbandoned`: the lock is
only ever held by the one thread that mints, however its mint failed.

**TaskRebaseProofs.** `IInv` says that every branch that exists is on some line of history and
contains no more of main than there is, and that, unless others rewrote the branch or an
operation was cut short, the branch is ahead of the clone's tracking ref; between the push
of a rebase and the move of the tracking ref, and between the two steps of an expiry, that
is suspended, and after the push the branch is ahead of what was pushed instead. The two
action properties follow from the leases: what the push replaces is what was fetched. From it: `OwnRebasesAreReadable`, `RebasesDropNothing`,
`RebasesAreWhole`, `TypeCorrect`.

**PullRequestRecordsProofs.** What is saved was first a draft, so `IInv` asks of drafts what
`RecordsAreTrue` asks of records. That an answer may be recorded rests on open pull requests
being newer than the last expiry (`NewSinceExpiry`), which in turn rests on a deleted branch
having none open and on numbers being given in order. The newest of a set exists by
well-foundedness of the order of the naturals. From it: `RecordsStayTrue`, `TypeCorrect`.
`MergesStayRecorded`: a recorded merge is never emptied or set back by a lookup, a creation,
a failure or a crash, only by an expiry. The drafts must keep to it as well (`DraftsFollow`),
since what a handler computed is written steps later; an answer does because GitHub takes no
merge back, so the recorded one is always among those the answer is chosen from.

**StatusGateProofs.** `OwnEntryOnly` speaks of the tip, but a branch may be taken back to any of
its commits, so `IInv` asks the same of every commit (`Sound`), and of those a job checked
out; what they contain, and what the job fetched, are versions main has had, which no step
changes. A merge then moves one entry because both sides of it differ from their common
version in that entry at most. From it: `TrackersDifferByOwnEntry`, `MergesRevertNothing`,
`TypeCorrect`, and `GatePushesKeepAndKnow`: the push lands on what lies behind the checkout,
so it removes nothing, and it knows the completions of the main that was fetched, because the
stamped commit contains that version and the merge was made with it.
`NoStampWithoutApproval`: no commit of a branch the gate can push to differs from its version
of main before an approval, or under the no-task label. `GateWaits` adds that no job runs
before the approval and that one for an exempt pull request never comes to work; merging
main into an unstamped branch gives what main says.

`NoLostRequest`, `LeasesStayWithinBounds`, `LockIsNeverAbandoned`, `NoStampWithoutApproval` and
`MergesStayRecorded` are stated in the proof modules and belong to no run.

Only model-checked: the seven liveness properties (TLAPS does not reason about fairness and
ENABLED).

## Not modelled, and the plan

What would come next, in order:

1. `PanelPage`: the actions the page offers (`ui.py`) against the guards of the server, over
   the mixed snapshots that `GET /api/tasks` can return, and its poll of a job; the server
   checks every request again, so a wrong page misleads and breaks nothing.
2. The forest of dependencies and the migration `nest_stages` as pure functions against
   reference definitions.
3. The 810 s deadline of the merge notification, whose caller gives up while its job goes on.
4. `SandboxServer`: the shutdown race of a program that keeps no state.

Left out for good: routing, cookies, JWT signing, redaction, prompts and rendering are
formatting and I/O without state of their own; `winch` performs one request; deployment
files and documents are not programs. In the modules above, `prepare_error`, `owner` and
timestamps are not modelled, since no decision reads them.
