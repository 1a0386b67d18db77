------------------------------ MODULE SyncJobs ------------------------------
(***************************************************************************)
(* The background jobs of TaskScheduler (control_panel/task_scheduler.py): *)
(* start_sync registers at most one running job and folds concurrent       *)
(* requests into it through _resync_requested; the thread of the job runs  *)
(* _run_sync, which calls sync() until nobody has asked for another pass.  *)
(* Every critical section of _jobs_lock is one step, and so is everything  *)
(* a thread does between two of them.  The inside of sync() is abstracted  *)
(* to the advisory file lock it holds and the revision of the world (main  *)
(* and the panel's leases) it reads; TaskLeases opens it up.               *)
(***************************************************************************)
EXTENDS Integers, FiniteSets

CONSTANTS
  Retained,        \* jobs the table keeps; 32 in start_sync
  MaxIssued,       \* bound: jobs ever started
  MaxRevision,     \* bound: revisions of the world
  ThreadsMayFail   \* whether Thread.start may raise after the job is registered

ASSUME SyncJobsAssumption ==
  /\ Retained \in Nat \ {0}
  /\ MaxIssued \in Nat
  /\ MaxRevision \in Nat \ {0}
  /\ ThreadsMayFail \in BOOLEAN

Ids       == 1..MaxIssued
Revisions == 0..MaxRevision       \* 0: nothing read, nothing asked

\* What a request asks sync() for: a scheduling pass (no event, or a merge into
\* main), an event that sync() ignores, or the preparation of one named task.
Kinds    == {"schedule", "ignored", "prepare"}
Statuses == {"running", "succeeded", "failed"}
Points   == {"none", "launching", "stillborn", "passing", "inside",
             "returned", "raised", "ended"}

VARIABLES
  jobs,      \* self._jobs: the retained job ids and their statuses, oldest id first
  issued,    \* job ids handed out so far
  resync,    \* self._resync_requested
  runner,    \* where the thread of each job stands
  pass,      \* the arguments (event, only) of each job's current or next pass
  flock,     \* who holds the state file's advisory lock
  revision,  \* history of the world a pass reads: merges and lease changes
  asked,     \* latest revision at which a scheduling request was given this job
  tried,     \* latest revision at which the job attempted a scheduling pass
  covered    \* latest revision for which a scheduling pass of the job succeeded

vars == <<jobs, issued, resync, runner, pass, flock, revision, asked, tried, covered>>
ghosts == <<asked, tried, covered>>

Known   == DOMAIN jobs
Running == {j \in Known : jobs[j] = "running"}
Live    == {"launching", "passing", "inside", "returned", "raised"}

TableOK ==
  /\ Known \subseteq Ids /\ jobs \in [Known -> Statuses]
  /\ issued \in 0..MaxIssued
ThreadsOK ==
  /\ resync \in BOOLEAN
  /\ runner \in [Ids -> Points]
  /\ pass \in [Ids -> Kinds]
  /\ flock \in {"free", "sync", "operation"}
LedgerOK ==
  /\ revision \in 1..MaxRevision
  /\ asked \in [Ids -> Revisions]
  /\ tried \in [Ids -> Revisions]
  /\ covered \in [Ids -> Revisions]

TypeOK == TableOK /\ ThreadsOK /\ LedgerOK

Init ==
  /\ jobs = [j \in {} |-> "running"]
  /\ issued = 0
  /\ resync = FALSE
  /\ runner = [j \in Ids |-> "none"]
  /\ pass = [j \in Ids |-> "schedule"]
  /\ flock = "free"
  /\ revision = 1
  /\ asked = [j \in Ids |-> 0]
  /\ tried = [j \in Ids |-> 0]
  /\ covered = [j \in Ids |-> 0]

------------------------------------------------------------------------------
(* Starting a job *)

Oldest == CHOOSE j \in Known : \A k \in Known : j <= k

\* The entries that stay when a job is added to the table.
Kept == IF Cardinality(Known) >= Retained THEN Known \ {Oldest} ELSE Known

\* Faulty variant: the search for a running job is dropped.
StartJobUnchecked(kind) ==
  /\ issued < MaxIssued
  /\ LET id == issued + 1 IN
       /\ jobs' = [j \in Kept \cup {id} |-> IF j = id THEN "running" ELSE jobs[j]]
       /\ issued' = id
       /\ runner' = [runner EXCEPT ![id] = "launching"]
       /\ pass' = [pass EXCEPT ![id] = kind]
       /\ asked' = [asked EXCEPT ![id] = IF kind = "schedule" THEN revision ELSE 0]
  /\ UNCHANGED <<resync, flock, revision, tried, covered>>

\* start_sync with no job running: make room, register the job, release the lock.
StartJob(kind) ==
  /\ Running = {}
  /\ issued < MaxIssued
  /\ LET id == issued + 1 IN
       /\ jobs' = [j \in Kept \cup {id} |-> IF j = id THEN "running" ELSE jobs[j]]
       /\ issued' = id
       /\ runner' = [runner EXCEPT ![id] = "launching"]
       /\ pass' = [pass EXCEPT ![id] = kind]
       /\ asked' = [asked EXCEPT ![id] = IF kind = "schedule" THEN revision ELSE 0]
  /\ UNCHANGED <<resync, flock, revision, tried, covered>>

\* start_sync with a job running: the caller is given that job.  A request to
\* prepare one task is refused here (409) and changes nothing.
Coalesce(kind) ==
  /\ kind # "prepare"
  /\ \E j \in Running :
       asked' = [asked EXCEPT ![j] = IF kind = "schedule" THEN revision ELSE @]
  /\ resync' = TRUE
  /\ UNCHANGED <<jobs, issued, runner, pass, flock, revision, tried, covered>>

\* Thread(...).start(), after the lock is released.
Launch(j) ==
  /\ runner[j] = "launching"
  /\ runner' = [runner EXCEPT ![j] = "passing"]
  /\ UNCHANGED <<jobs, issued, resync, pass, flock, revision, ghosts>>

\* Thread.start raises (no thread can be created): nobody undoes the registration.
LaunchFails(j) ==
  /\ ThreadsMayFail
  /\ runner[j] = "launching"
  /\ runner' = [runner EXCEPT ![j] = "stillborn"]
  /\ UNCHANGED <<jobs, issued, resync, pass, flock, revision, ghosts>>

------------------------------------------------------------------------------
(* The thread of a job *)

\* sync() answers at once for an event other than a merge into main.
IgnoreEvent(j) ==
  /\ runner[j] = "passing"
  /\ pass[j] = "ignored"
  /\ runner' = [runner EXCEPT ![j] = "returned"]
  /\ UNCHANGED <<jobs, issued, resync, pass, flock, revision, ghosts>>

\* sync() takes the advisory lock and reads main, or fails at once: the lock
\* never waits, so any other operation in progress makes the pass raise.
BeginPass(j) ==
  /\ runner[j] = "passing"
  /\ pass[j] # "ignored"
  /\ tried' = [tried EXCEPT ![j] = IF pass[j] = "schedule" THEN revision ELSE @]
  /\ IF flock = "free"
       THEN flock' = "sync" /\ runner' = [runner EXCEPT ![j] = "inside"]
       ELSE flock' = flock  /\ runner' = [runner EXCEPT ![j] = "raised"]
  /\ UNCHANGED <<jobs, issued, resync, pass, revision, asked, covered>>

PassSucceeds(j) ==
  /\ runner[j] = "inside"
  /\ flock' = "free"
  /\ runner' = [runner EXCEPT ![j] = "returned"]
  /\ covered' = [covered EXCEPT ![j] = IF pass[j] = "schedule" THEN tried[j] ELSE @]
  /\ UNCHANGED <<jobs, issued, resync, pass, revision, asked, tried>>

PassFails(j) ==
  /\ runner[j] = "inside"
  /\ flock' = "free"
  /\ runner' = [runner EXCEPT ![j] = "raised"]
  /\ UNCHANGED <<jobs, issued, resync, pass, revision, ghosts>>

\* Faulty variants of the step that closes a pass: the repeated pass keeps the
\* arguments of the first one, the request to repeat is not looked at, or the
\* status of what sync() answered replaces the job's own.
AgainSameArguments(j) ==
  /\ runner[j] = "returned"
  /\ resync
  /\ resync' = FALSE
  /\ runner' = [runner EXCEPT ![j] = "passing"]
  /\ UNCHANGED <<jobs, issued, pass, flock, revision, ghosts>>
ConcludeRegardless(j) ==
  /\ runner[j] = "returned"
  /\ jobs' = [jobs EXCEPT ![j] = "succeeded"]
  /\ runner' = [runner EXCEPT ![j] = "ended"]
  /\ UNCHANGED <<issued, resync, pass, flock, revision, ghosts>>
ConcludeWithSyncsAnswer(j) ==
  /\ runner[j] = "returned"
  /\ ~resync
  /\ jobs' = [jobs EXCEPT ![j] = IF pass[j] = "ignored" THEN "ignored" ELSE "succeeded"]
  /\ runner' = [runner EXCEPT ![j] = "ended"]
  /\ UNCHANGED <<issued, resync, pass, flock, revision, ghosts>>

\* Under the lock, somebody asked for another pass: make a full one.
Again(j) ==
  /\ runner[j] = "returned"
  /\ resync
  /\ resync' = FALSE
  /\ pass' = [pass EXCEPT ![j] = "schedule"]
  /\ runner' = [runner EXCEPT ![j] = "passing"]
  /\ UNCHANGED <<jobs, issued, flock, revision, ghosts>>

\* Under the lock, nobody asked: publish the result.
Conclude(j) ==
  /\ runner[j] = "returned"
  /\ ~resync
  /\ jobs' = [jobs EXCEPT ![j] = "succeeded"]
  /\ runner' = [runner EXCEPT ![j] = "ended"]
  /\ UNCHANGED <<issued, resync, pass, flock, revision, ghosts>>

\* Faulty variant: the failure is published without the job's thread ending.
FailAndRetry(j) ==
  /\ runner[j] = "raised"
  /\ resync' = FALSE
  /\ jobs' = [jobs EXCEPT ![j] = "failed"]
  /\ runner' = [runner EXCEPT ![j] = IF resync THEN "passing" ELSE "ended"]
  /\ UNCHANGED <<issued, pass, flock, revision, ghosts>>

\* After any exception: drop the request to repeat and publish the failure.
Fail(j) ==
  /\ runner[j] = "raised"
  /\ resync' = FALSE
  /\ jobs' = [jobs EXCEPT ![j] = "failed"]
  /\ runner' = [runner EXCEPT ![j] = "ended"]
  /\ UNCHANGED <<issued, pass, flock, revision, ghosts>>

------------------------------------------------------------------------------
(* The rest of the system *)

\* A merge lands on main.
Merge ==
  /\ revision < MaxRevision
  /\ revision' = revision + 1
  /\ UNCHANGED <<jobs, issued, resync, runner, pass, flock, ghosts>>

\* Any other locked handler (stage, expire, rebase, a pull request operation).
OperationBegins ==
  /\ flock = "free"
  /\ flock' = "operation"
  /\ UNCHANGED <<jobs, issued, resync, runner, pass, revision, ghosts>>

\* It ends, and may have changed what a scheduling pass would see.
OperationEnds ==
  /\ flock = "operation"
  /\ flock' = "free"
  /\ revision' \in {revision, revision + 1} \cap 1..MaxRevision
  /\ UNCHANGED <<jobs, issued, resync, runner, pass, ghosts>>

\* The process dies and starts again: jobs and threads are lost, and so is the lock.
Restart ==
  /\ jobs' = [j \in {} |-> "running"]
  /\ resync' = FALSE
  /\ runner' = [j \in Ids |-> IF runner[j] = "none" THEN "none" ELSE "ended"]
  /\ flock' = "free"
  /\ asked' = [j \in Ids |-> 0]
  /\ tried' = [j \in Ids |-> 0]
  /\ covered' = [j \in Ids |-> 0]
  /\ UNCHANGED <<issued, pass, revision>>

PassEnds(j) == PassSucceeds(j) \/ PassFails(j)

Thread(j) ==
  \/ Launch(j) \/ LaunchFails(j)
  \/ IgnoreEvent(j) \/ BeginPass(j) \/ PassSucceeds(j) \/ PassFails(j)
  \/ Again(j) \/ Conclude(j) \/ Fail(j)

Next ==
  \/ \E kind \in Kinds : StartJob(kind) \/ Coalesce(kind)
  \/ \E j \in Ids : Thread(j)
  \/ Merge \/ OperationBegins \/ OperationEnds \/ Restart

Spec == Init /\ [][Next]_vars

\* A started thread runs, a subprocess ends (process.run bounds it by TIMEOUT),
\* and the other handlers do too.  Nothing is assumed of requests and merges.
Fairness ==
  /\ \A j \in Ids :
       /\ WF_vars(Launch(j)) /\ WF_vars(IgnoreEvent(j)) /\ WF_vars(BeginPass(j))
       /\ WF_vars(PassEnds(j))
       /\ WF_vars(Again(j)) /\ WF_vars(Conclude(j)) /\ WF_vars(Fail(j))
  /\ WF_vars(OperationEnds)

FairSpec == Spec /\ Fairness

------------------------------------------------------------------------------
(* Properties *)

\* start_sync's next(... "running") takes whichever running job it meets, which
\* is only right because there is never a second one, whatever threads are doing.
AtMostOneRunning == \A j, k \in Running : j = k

\* A thread finds its own entry when it publishes (self._jobs[job_id].update):
\* eviction never removed it, and nobody published in its place.
RunnerKeepsItsEntry ==
  \A j \in Ids : runner[j] \in Live => j \in Running

\* A job that reports success has, for every scheduling request it answered for,
\* made a scheduling pass over a world at least as new as the request.
SuccessCoversRequests ==
  \A j \in Known : jobs[j] = "succeeded" => asked[j] <= covered[j]

\* Whoever polls a job never sees its outcome change after it was published.
OutcomeIsFinal ==
  [][\A j \in Known \cap DOMAIN jobs' : jobs[j] # "running" => jobs'[j] = jobs[j]]_vars

\* The table never grows past its bound.
TableBounded == Cardinality(Known) <= Retained

\* Every scheduling request is eventually covered by a pass, or its job is
\* reported failed, or lost with the process; even if requests never stop.  Only a
\* job whose thread could not be started serves nobody (until a restart).
RequestsAreServed ==
  \A j \in Ids : \A r \in 1..MaxRevision :
    (j \in Running /\ asked[j] = r)
      ~> (j \notin Known \/ jobs[j] = "failed" \/ covered[j] >= r \/ runner[j] = "stillborn")

\* Threads, passes, flags and evictions amount to a queue of requests: each step
\* opens, joins, advances or ends a job as SyncQueue allows, or leaves it alone.
Queue == INSTANCE SyncQueue WITH world <- revision

ImplementsSyncQueue == Queue!Spec

(* What the documentation says and the code does not do. *)

\* README: "Concurrent sync requests share a job and request a fresh pass over
\* main": when a job has ended, every request it answered for had its own pass.
FreshPassForEveryRequest ==
  \A j \in Known : jobs[j] # "running" => asked[j] <= tried[j]
==============================================================================
