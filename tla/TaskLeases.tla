----------------------------- MODULE TaskLeases -----------------------------
(***************************************************************************)
(* The leases of the workplan control panel: sync, requested and expire of *)
(* control_panel/task_scheduler.py, the overlay and retirement of          *)
(* control_panel/state.py, and the task branches of                        *)
(* control_panel/integrations/repository.py they create and delete.        *)
(*                                                                         *)
(* The state file, the tracker file and origin outlive the process.  Every *)
(* operation runs under the advisory lock, so at most one is in progress,  *)
(* but each of its durable effects is a step of its own: the process may   *)
(* die, and main and the branches may move, between any two of them.       *)
(* Pull requests, stage submissions and the rebase are other modules.      *)
(***************************************************************************)
EXTENDS Integers, FiniteSets

CONSTANTS
  Tasks,      \* task ids of the tracker
  Rank,       \* their order in the tracker
  DependsOn,  \* depends_on of each task
  Capacity,   \* TaskScheduler.capacity (--max-concurrent)
  Edits,      \* statuses that edits and merges give a task on main
  MaxEra      \* bound: expirations of one task

ASSUME TaskLeasesAssumption ==
  /\ IsFiniteSet(Tasks)
  /\ Rank \in [Tasks -> Nat]
  /\ \A t, u \in Tasks : Rank[t] = Rank[u] => t = u
  /\ DependsOn \in [Tasks -> SUBSET Tasks]
  /\ Capacity \in Nat \ {0}
  /\ Edits \subseteq {"pending", "in_progress", "blocked", "completed"}
  /\ MaxEra \in Nat

VARIABLES
  main,       \* status of each task in tasks.json on origin/main
  tracker,    \* the panel's copy of it (tracker_path)
  records,    \* the task records of the state file
  branch,     \* status of the task in tasks.json on its branch at origin, or "none"
  at,         \* the step the operation holding the lock will take next
  subject,    \* the task it is about
  retries,    \* the rest of `pending` in sync()
  admitted,   \* the rest of `selected` in sync()
  fetched,    \* the branch as ensure_task_branch fetched it
  era,        \* history: completed expirations of the task
  branchEra,  \* history: the era in which the branch was created
  gone        \* history: the branch was deleted and not opened again since

vars == <<main, tracker, records, branch, at, subject, retries, admitted, fetched,
          era, branchEra, gone>>
durable == <<tracker, records>>
locals  == <<subject, retries, admitted, fetched>>
ghosts  == <<era, branchEra, gone>>

Status   == {"pending", "in_progress", "blocked", "completed"}
Record   == [status : {"none", "in_progress", "completed"}, expired : BOOLEAN, prepared : BOOLEAN]
NoRecord == [status |-> "none", expired |-> FALSE, prepared |-> FALSE]
Steps    == {"idle", "saving", "choosing", "branching", "opening", "marking",
             "deleting", "forgetting"}

TypeOK ==
  /\ main \in [Tasks -> Status]
  /\ tracker \in [Tasks -> Status \cup {"unknown"}]
  /\ records \in [Tasks -> Record]
  /\ branch \in [Tasks -> Status \cup {"none"}]
  /\ at \in Steps
  /\ subject \in Tasks \cup {"all"}
  /\ retries \subseteq Tasks /\ admitted \subseteq Tasks
  /\ fetched \in Status \cup {"none"}
  /\ era \in [Tasks -> 0..MaxEra] /\ branchEra \in [Tasks -> 0..MaxEra]
  /\ gone \in [Tasks -> BOOLEAN]

\* A fresh panel in front of a repository with no task branches.
Init ==
  /\ main \in [Tasks -> {"pending"}]
  /\ tracker = [t \in Tasks |-> "unknown"]
  /\ records = [t \in Tasks |-> NoRecord]
  /\ branch = [t \in Tasks |-> "none"]
  /\ at = "idle"
  /\ subject = "all"
  /\ retries = {} /\ admitted = {}
  /\ fetched = "none"
  /\ era = [t \in Tasks |-> 0] /\ branchEra = [t \in Tasks |-> 0]
  /\ gone = [t \in Tasks |-> FALSE]

------------------------------------------------------------------------------
(* Reconciling records with the tracker *)

Recorded(t) == records[t].status # "none"

\* effective_tracker: a record that is neither expired nor completed speaks for
\* its task, unless the tracker already calls the task completed.
Holds(record, status) ==
  /\ record.status = "in_progress"
  /\ ~record.expired
  /\ status # "completed"
Held(t) == Holds(records[t], tracker[t])

Effective(rs, t) == IF Holds(rs[t], tracker[t]) THEN rs[t].status ELSE tracker[t]
Active(rs)       == {t \in Tasks : Effective(rs, t) = "in_progress"}
Done             == {t \in Tasks : tracker[t] = "completed"}

\* Faulty variants: an entry the tracker caught up with is left as it was, or
\* every entry is given the tracker's status.
NoneRetired == records
RetiredToTracker ==
  [t \in Tasks |-> IF Recorded(t) THEN [records[t] EXCEPT !.status = tracker[t]] ELSE records[t]]

\* retire_completed
Retired ==
  [t \in Tasks |-> IF Recorded(t) /\ t \in Done
                     THEN [records[t] EXCEPT !.status = "completed"] ELSE records[t]]

\* Faulty variant: preparation is never retried.
NoneUnprepared(rs) == {}

\* The tasks sync() retries before claiming more: reserved, or in progress
\* according to main, and not marked prepared.
Unprepared(rs) == {t \in Active(rs) : ~rs[t].prepared}

\* Faulty variant: the dependencies are checked against what is merely being
\* worked on.
AvailableTooEarly(rs) ==
  {t \in Tasks : Effective(rs, t) = "pending" /\ DependsOn[t] \subseteq Done \cup Active(rs)}

Available(rs) ==
  {t \in Tasks : Effective(rs, t) = "pending" /\ DependsOn[t] \subseteq Done}

\* Faulty variant: the count of leases ignores those not yet prepared.
SelectedForgettingRetries(rs) ==
  {t \in Available(rs) :
     Cardinality({u \in Available(rs) : Rank[u] < Rank[t]}) < Capacity - Cardinality(Active(rs) \ Unprepared(rs))}

\* available[:max(0, self.capacity - active)]
Selected(rs) ==
  {t \in Available(rs) :
     Cardinality({u \in Available(rs) : Rank[u] < Rank[t]}) < Capacity - Cardinality(Active(rs))}

\* requested(): the rules of the batch, for one named task.
Requested(rs, t) ==
  /\ Effective(rs, t) \in {"pending", "in_progress"}
  /\ DependsOn[t] \subseteq Done
  /\ Effective(rs, t) = "in_progress" \/ Cardinality(Active(rs)) < Capacity

------------------------------------------------------------------------------
(* sync *)

\* pull_main and the write of the tracker file.  A pull that fails, or a
\* checkout that conflicts, changes nothing.
SyncPulls(only) ==
  /\ at = "idle"
  /\ tracker' = main
  /\ subject' = only
  /\ at' = "saving"
  /\ UNCHANGED <<main, records, branch, retries, admitted, fetched, ghosts>>

\* The write of the retired records, and the choice of what to prepare.
SyncSaves ==
  /\ at = "saving"
  /\ records' = Retired
  /\ IF subject = "all"
       THEN retries' = Unprepared(records') /\ admitted' = Selected(records')
       ELSE retries' = {} /\ admitted' = {t \in {subject} : Requested(records', t)}
  /\ at' = "choosing"
  /\ UNCHANGED <<main, tracker, branch, subject, fetched, ghosts>>

First(S) == CHOOSE t \in S : \A u \in S : Rank[t] <= Rank[u]

\* The loop is over, or had nothing to do (or the named task was refused).
SyncEnds ==
  /\ at = "choosing"
  /\ retries \cup admitted = {}
  /\ at' = "idle"
  /\ subject' = "all"
  /\ UNCHANGED <<main, tracker, records, branch, retries, admitted, fetched, ghosts>>

\* The reservation, saved before any branch work.
Reserve ==
  /\ at = "choosing"
  /\ retries \cup admitted # {}
  /\ LET t == First(IF retries # {} THEN retries ELSE admitted) IN
        /\ subject' = t
        /\ retries' = retries \ {t}
        /\ admitted' = IF retries # {} THEN admitted ELSE admitted \ {t}
        /\ records' = [records EXCEPT ![t].status = "in_progress", ![t].expired = FALSE]
  /\ at' = "branching"
  /\ UNCHANGED <<main, tracker, branch, fetched, ghosts>>

\* ensure_task_branch: push the commit that was pulled, unless the branch
\* exists, and fetch it.
EnsureBranch ==
  /\ at = "branching"
  /\ LET t == subject IN
       /\ branch' = [branch EXCEPT ![t] = IF @ = "none" THEN tracker[t] ELSE @]
       /\ branchEra' = [branchEra EXCEPT ![t] = IF branch[t] = "none" THEN era[t] ELSE @]
       /\ fetched' = branch'[t]
  /\ at' = "opening"
  /\ UNCHANGED <<main, tracker, records, subject, retries, admitted, era, gone>>

\* push_opening_commit: nothing when the fetched entry is already in progress;
\* else a commit on top of what was fetched, which origin takes only if the
\* branch did not move (or is gone, which creates it again).
OpenBranch ==
  /\ at = "opening"
  /\ IF fetched = "in_progress"
       THEN branch' = branch
       ELSE /\ branch[subject] \in {fetched, "none"}
            /\ branch' = [branch EXCEPT ![subject] = "in_progress"]
  /\ gone' = [gone EXCEPT ![subject] = branch'[subject] = "none"]
  /\ at' = "marking"
  /\ UNCHANGED <<main, tracker, records, locals, era, branchEra>>

\* Faulty variant: a failed preparation is recorded as a finished one.
PrepareFailsUnnoticed ==
  /\ at \in {"branching", "opening"}
  /\ records' = [records EXCEPT ![subject].prepared = TRUE]
  /\ at' = "idle"
  /\ subject' = "all" /\ retries' = {} /\ admitted' = {} /\ fetched' = "none"
  /\ gone' = [gone EXCEPT ![subject] = FALSE]
  /\ UNCHANGED <<main, tracker, branch, branchEra, era>>

\* Either push or fetch fails: prepare_error is recorded and the whole pass is
\* abandoned.  The failed command may have reached origin.
PrepareFails ==
  /\ at \in {"branching", "opening"}
  /\ \/ UNCHANGED <<branch, branchEra>>
     \/ /\ at = "branching" /\ branch[subject] = "none"
        /\ branch' = [branch EXCEPT ![subject] = tracker[subject]]
        /\ branchEra' = [branchEra EXCEPT ![subject] = era[subject]]
     \/ /\ at = "opening" /\ fetched # "in_progress" /\ branch[subject] = fetched
        /\ branch' = [branch EXCEPT ![subject] = "in_progress"]
        /\ UNCHANGED branchEra
  /\ at' = "idle"
  /\ subject' = "all" /\ retries' = {} /\ admitted' = {} /\ fetched' = "none"
  /\ UNCHANGED <<main, durable, era, gone>>

\* The record says prepared once the branch is open; on to the next task.
MarkPrepared ==
  /\ at = "marking"
  /\ records' = [records EXCEPT ![subject].prepared = TRUE]
  /\ at' = "choosing"
  /\ fetched' = "none"
  /\ UNCHANGED <<main, tracker, branch, subject, retries, admitted, ghosts>>

------------------------------------------------------------------------------
(* expire *)

\* The guards of expire; a refusal changes nothing.
Expire(t) ==
  /\ at = "idle"
  /\ tracker[t] \notin {"unknown", "completed"}
  /\ Recorded(t) /\ records[t].status # "completed"
  /\ era[t] < MaxEra
  /\ at' = "deleting"
  /\ subject' = t
  /\ UNCHANGED <<main, tracker, records, branch, retries, admitted, fetched, ghosts>>

\* Faulty variant: the branch is left for the next attempt to reclaim.
ExpireKeepsBranch ==
  /\ at = "deleting"
  /\ at' = "forgetting"
  /\ UNCHANGED <<main, tracker, records, branch, locals, ghosts>>

\* delete_stage_branches and delete_task_branch
ExpireDeletes ==
  /\ at = "deleting"
  /\ branch' = [branch EXCEPT ![subject] = "none"]
  /\ gone' = [gone EXCEPT ![subject] = @ \/ branch[subject] # "none"]
  /\ at' = "forgetting"
  /\ UNCHANGED <<main, tracker, records, locals, era, branchEra>>

\* A deletion fails, before or after origin carried it out: nothing is written.
ExpireFails ==
  /\ at = "deleting"
  /\ branch' \in {branch, [branch EXCEPT ![subject] = "none"]}
  /\ gone' = [gone EXCEPT ![subject] = @ \/ branch'[subject] # branch[subject]]
  /\ at' = "idle"
  /\ subject' = "all"
  /\ UNCHANGED <<main, tracker, records, retries, admitted, fetched, era, branchEra>>

\* Faulty variant: the record still says prepared.
ExpireWritesPrepared ==
  /\ at = "forgetting"
  /\ records' = [records EXCEPT ![subject].expired = TRUE]
  /\ era' = [era EXCEPT ![subject] = @ + 1]
  /\ at' = "idle"
  /\ subject' = "all"
  /\ UNCHANGED <<main, tracker, branch, retries, admitted, fetched, branchEra, gone>>

ExpireWrites ==
  /\ at = "forgetting"
  /\ records' = [records EXCEPT ![subject].expired = TRUE, ![subject].prepared = FALSE]
  /\ era' = [era EXCEPT ![subject] = @ + 1]
  /\ at' = "idle"
  /\ subject' = "all"
  /\ UNCHANGED <<main, tracker, branch, retries, admitted, fetched, branchEra, gone>>

------------------------------------------------------------------------------
(* The rest of the system *)

\* A merge or an edit changes the task's entry on main.  A completion recorded
\* there stays: the stamp requires the branch to contain main (ADR 0004).
MainMoves(t) ==
  /\ main[t] # "completed"
  /\ \E status \in Edits \ {main[t]} : main' = [main EXCEPT ![t] = status]
  /\ UNCHANGED <<tracker, records, branch, at, locals, ghosts>>

\* stamp_task_completion.py marks the task completed on its branch.
Stamp(t) ==
  /\ branch[t] = "in_progress"
  /\ branch' = [branch EXCEPT ![t] = "completed"]
  /\ UNCHANGED <<main, tracker, records, at, locals, ghosts>>

\* Somebody deletes the branch (GitHub does, after a merge).
OutsiderDeletes(t) ==
  /\ branch[t] # "none"
  /\ branch' = [branch EXCEPT ![t] = "none"]
  /\ gone' = [gone EXCEPT ![t] = TRUE]
  /\ UNCHANGED <<main, tracker, records, at, locals, era, branchEra>>

\* The process dies: whatever it was doing stops where it was.
Crash ==
  /\ at # "idle"
  /\ at' = "idle"
  /\ subject' = "all" /\ retries' = {} /\ admitted' = {} /\ fetched' = "none"
  /\ UNCHANGED <<main, durable, branch, ghosts>>

\* The volume with the state and tracker files is lost while the panel is down.
LoseState ==
  /\ at = "idle"
  /\ tracker' = [t \in Tasks |-> "unknown"]
  /\ records' = [t \in Tasks |-> NoRecord]
  /\ UNCHANGED <<main, branch, at, locals, ghosts>>

\* The request for one task is checked against the tracker file first.
StartSync(only) ==
  /\ only \in Tasks => tracker[only] # "unknown"
  /\ SyncPulls(only)

Panel ==
  \/ \E only \in Tasks \cup {"all"} : StartSync(only)
  \/ SyncSaves \/ SyncEnds \/ Reserve \/ EnsureBranch \/ OpenBranch \/ PrepareFails \/ MarkPrepared
  \/ \E t \in Tasks : Expire(t)
  \/ ExpireDeletes \/ ExpireFails \/ ExpireWrites

World ==
  \/ \E t \in Tasks : MainMoves(t) \/ Stamp(t) \/ OutsiderDeletes(t)
  \/ Crash \/ LoseState

Next == Panel \/ World

Spec == Init /\ [][Next]_vars

\* Scheduling passes keep being requested (every merge posts one, an operator
\* may).  An operation under way goes on, and the process and origin do not fail
\* for ever at the same place of the same task's preparation.
Progress ==
  /\ WF_vars(SyncSaves) /\ WF_vars(Reserve \/ SyncEnds) /\ WF_vars(MarkPrepared)
  /\ WF_vars(EnsureBranch \/ OpenBranch \/ PrepareFails)
  /\ WF_vars(ExpireDeletes \/ ExpireFails) /\ WF_vars(ExpireWrites)
Persistence ==
  /\ SF_vars(SyncPulls("all"))
  /\ SF_vars(SyncSaves /\ subject = "all")
  /\ \A t \in Tasks :
       /\ SF_vars(Reserve /\ subject' = t)
       /\ SF_vars(EnsureBranch /\ subject = t)
       /\ SF_vars(OpenBranch /\ subject = t)
       /\ SF_vars(MarkPrepared /\ subject = t)

FairSpec == Spec /\ Progress /\ Persistence

------------------------------------------------------------------------------
(* Properties *)

Claims(t) == ~Held(t) /\ Held(t)'

\* A task that main does not already call in progress is claimed only into a
\* free slot, counting every lease, prepared or not, and those claimed earlier
\* in the same pass.
AdmissionWithinCapacity ==
  [][\A t \in Tasks :
       Claims(t) /\ tracker[t] = "pending" => Cardinality(Active(records)) < Capacity]_vars

\* It is claimed only when main has completed everything it depends on, though
\* the decision was taken on a copy of the tracker and main may move meanwhile.
ClaimsAreReady ==
  [][\A t \in Tasks :
       Claims(t) /\ tracker[t] = "pending" => \A d \in DependsOn[t] : main[d] = "completed"]_vars

\* A record that says prepared is right: wherever the panel died or failed while
\* preparing, the opening commit is on the branch, until somebody deletes it.
PreparedMeansOpened ==
  \A t \in Tasks :
    Held(t) /\ records[t].prepared /\ ~gone[t] => branch[t] \in {"in_progress", "completed"}

\* Preparing after an expiry starts afresh: the branch a prepared task has was
\* created after the last expiry (docstring of expire).
FreshAfterExpiry ==
  \A t \in Tasks :
    Held(t) /\ records[t].prepared /\ ~gone[t] => branchEra[t] = era[t]

\* A reservation whose preparation was cut short is completed by a later pass.
ReservationsGetPrepared ==
  \A t \in Tasks : Held(t) ~> (Recorded(t) /\ records[t].prepared) \/ ~Held(t)

\* Once main completes a task, its record is retired and stops counting.
CompletionsAreRetired ==
  \A t \in Tasks :
    main[t] = "completed" ~> (~Recorded(t) \/ (records[t].status = "completed" /\ ~Held(t)))

\* The panel's files and steps, crashes and restarts included, amount to a book of
\* leases: each step changes the leases by one operation of the book, or not at all.
Leases == {t \in Tasks : Held(t)}
Ready  == {t \in Tasks : Held(t) /\ records[t].prepared}
Book   == INSTANCE LeaseBook WITH known <- tracker, leases <- Leases, ready <- Ready

ImplementsLeaseBook == Book!Spec

(* What the documentation says and the code does not do. *)

\* requested: "Preparation is idempotent, so a task already holding a lease is
\* allowed through"; push_opening_commit: "Mark the task in progress on its branch
\* once".  Preparing a prepared task again would then leave a stamp on its branch.
PreparationIsIdempotent ==
  [][\A t \in Tasks :
       Held(t) /\ records[t].prepared /\ branch[t] = "completed"
         => branch'[t] # "in_progress"]_vars
==============================================================================
