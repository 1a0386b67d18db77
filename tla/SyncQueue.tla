----------------------------- MODULE SyncQueue ------------------------------
(***************************************************************************)
(* What start_sync promises to those who call it and poll the job they are *)
(* given, whatever threads, locks and flags it is made of: a request opens *)
(* a job or joins the running one, jobs read the world now and then, and a *)
(* job succeeds only when it has read the world as late as its last        *)
(* request saw it.  SyncJobs implements this specification.                *)
(***************************************************************************)
EXTENDS Integers, FiniteSets

CONSTANTS
  Ids,       \* the ids of jobs, in the order they are handed out
  Retained   \* how many jobs can be polled

VARIABLES
  world,     \* how often what a job reads has changed
  jobs,      \* the jobs that can be polled, and their statuses
  issued,    \* ids handed out
  asked,     \* the latest world a request of the job is about, 0 for none
  covered    \* the latest world the job has brought the leases up to

vars == <<world, jobs, issued, asked, covered>>

Pollable == DOMAIN jobs
Running  == {j \in Pollable : jobs[j] = "running"}

Init ==
  /\ world = 1
  /\ jobs = [j \in {} |-> "running"]
  /\ issued = 0
  /\ asked = [j \in Ids |-> 0] /\ covered = [j \in Ids |-> 0]

\* A request while no job runs opens one; to make room, jobs that have ended may
\* be forgotten.  A request for one task, or about nothing, asks for no world.
Open ==
  /\ Running = {}
  /\ issued' = issued + 1 /\ issued' \in Ids
  /\ \E kept \in SUBSET Pollable :
       /\ Cardinality(kept \cup {issued'}) <= Retained
       /\ jobs' = [j \in kept \cup {issued'} |-> IF j = issued' THEN "running" ELSE jobs[j]]
  /\ \E request \in {0, world} : asked' = [asked EXCEPT ![issued'] = request]
  /\ covered' = [covered EXCEPT ![issued'] = 0]
  /\ UNCHANGED world

\* A request while a job runs is answered with that job, and becomes its own.
Join(j) ==
  /\ Running = {j}
  /\ asked' = [asked EXCEPT ![j] = world]
  /\ UNCHANGED <<world, jobs, issued, covered>>

\* The running job brings the leases up to a world no older than it had.
Cover(j) ==
  /\ Running = {j}
  /\ \E seen \in covered[j]..world : covered' = [covered EXCEPT ![j] = seen]
  /\ UNCHANGED <<world, jobs, issued, asked>>

Ends(j, status) ==
  /\ Running = {j}
  /\ jobs' = [jobs EXCEPT ![j] = status]
  /\ UNCHANGED <<world, issued, asked, covered>>

\* Success speaks for every request the job answered.
Succeed(j) == asked[j] <= covered[j] /\ Ends(j, "succeeded")

Fail(j) == Ends(j, "failed")

\* A merge, or an operation of the panel.
Changes ==
  /\ world' = world + 1
  /\ UNCHANGED <<jobs, issued, asked, covered>>

\* The process starts again, and knows no job.
Restart ==
  /\ jobs' = [j \in {} |-> "running"]
  /\ asked' = [j \in Ids |-> 0] /\ covered' = [j \in Ids |-> 0]
  /\ UNCHANGED <<world, issued>>

Next ==
  \/ Open \/ Changes \/ Restart
  \/ \E j \in Ids : Join(j) \/ Cover(j) \/ Succeed(j) \/ Fail(j)

Spec == Init /\ [][Next]_vars
==============================================================================
