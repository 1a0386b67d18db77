----------------------------- MODULE StatusGate -----------------------------
(***************************************************************************)
(* The task status gate (scripts/stamp_task_completion.py and the workflow *)
(* that runs it): an approval of a pull request into main starts a job     *)
(* that completes the pull request's task in the branch's copy of the      *)
(* tracker, or merges main into a branch that lacks part of it.  A tracker *)
(* is abstracted to the tasks completed in it; git merges trackers entry   *)
(* by entry.  The job races authors, other merges, the panel's rebase of   *)
(* the branch and the events that cancel it.                               *)
(***************************************************************************)
EXTENDS Integers, SequencesExt

CONSTANTS
  Pulls,     \* the pull requests into main
  Tasks,     \* the tasks in the tracker
  Named,     \* the task IDs in a pull request's title, body and branch name
  Forks,     \* the pull requests that come from a fork
  Exempt,    \* the pull requests labelled no-task
  MaxMain,   \* bound: versions of main
  MaxPushes  \* bound: pushes of commits to a branch by its authors

ASSUME StatusGateAssumption ==
  /\ Named \in [Pulls -> SUBSET Tasks]
  /\ Forks \subseteq Pulls /\ Exempt \subseteq Pulls
  /\ MaxMain \in Nat \ {0} /\ MaxPushes \in Nat

\* A commit on a branch: the version of main it contains, the tasks completed in
\* its tracker, and the number of the authors' push that made it; 0 if the gate did,
\* or the branch began with it.
Commits == [base : 1..MaxMain, done : SUBSET Tasks, push : Nat]

VARIABLES
  main,      \* version of main
  trunk,     \* the tasks completed in each version of main
  branch,    \* the commits of the pull requests' branches, the tip last
  pushes,    \* how often its authors have pushed to each
  open,      \* the pull requests neither merged nor closed
  approved,  \* the pull requests approved; no push dismisses an approval
  job,       \* the step the pull request's stamp job takes next
  head,      \* the commits the job checked out
  fetched    \* the version of main it fetched

vars == <<main, trunk, branch, pushes, open, approved, job, head, fetched>>

TypeOK ==
  /\ main \in 1..MaxMain
  /\ trunk \in [1..MaxMain -> SUBSET Tasks]
  /\ branch \in [Pulls -> Seq(Commits) \ {<<>>}] /\ head \in [Pulls -> Seq(Commits)]
  /\ pushes \in [Pulls -> Nat]
  /\ open \subseteq Pulls /\ approved \subseteq Pulls
  /\ job \in [Pulls -> {"none", "queued", "resolved", "stamping", "catching up"}]
  /\ fetched \in [Pulls -> 1..MaxMain]

FirstCommit == [base |-> 1, done |-> {}, push |-> 0]

Init ==
  /\ main = 1 /\ trunk = [v \in 1..MaxMain |-> {}]
  /\ branch = [p \in Pulls |-> <<FirstCommit>>] /\ pushes = [p \in Pulls |-> 0]
  /\ open = Pulls /\ approved = {}
  /\ job = [p \in Pulls |-> "none"]
  /\ head = [p \in Pulls |-> <<>>] /\ fetched = [p \in Pulls |-> 1]

\* The tracker of a tip merged with the one of main: an entry the branch left as
\* it was in the main it contains follows main.
MergedWith(tip, completed) ==
  (tip.done \cap completed) \cup ((tip.done \cup completed) \ trunk[tip.base])

\* The commits the authors' push, or the gate's, makes of a tip.
CaughtUp(tip, version, push) ==
  [base |-> version, done |-> MergedWith(tip, trunk[version]), push |-> push]

Completing(tip, completed, push) ==
  [base |-> tip.base, done |-> tip.done \cup completed, push |-> push]

------------------------------------------------------------------------------
(* The job: one at a time of a pull request, in its concurrency group *)

people == <<main, trunk, open, approved, pushes>>

Goes(p, step) == job' = [job EXCEPT ![p] = step]

\* The job is over, and its checkout with it.
Ends(p) ==
  /\ Goes(p, "none")
  /\ head' = [head EXCEPT ![p] = <<>>]
  /\ fetched' = [fetched EXCEPT ![p] = 1]

\* task_id_for_pr: exactly one known ID.
Resolved(p) == \E t \in Tasks : Named[p] = {t}

\* The checkout, and the script up to the fetch of main, which it reaches when
\* the pull request is not exempt, names a task, and has not completed it.
Checkout(p) ==
  /\ job[p] = "queued"
  /\ IF p \notin Exempt /\ Resolved(p) /\ ~(Named[p] \subseteq Last(branch[p]).done)
       THEN /\ Goes(p, "resolved")
            /\ head' = [head EXCEPT ![p] = branch[p]]
            /\ UNCHANGED fetched
       ELSE Ends(p)
  /\ UNCHANGED <<people, branch>>

\* Faulty variant: the job of a fork is left unfinished.
FetchParkingForks(p) ==
  /\ job[p] = "resolved"
  /\ IF p \in Forks
       THEN Goes(p, "parked") /\ UNCHANGED <<head, fetched>>
       ELSE /\ Goes(p, IF Last(head[p]).base = main THEN "stamping" ELSE "catching up")
            /\ fetched' = [fetched EXCEPT ![p] = main]
            /\ UNCHANGED head
  /\ UNCHANGED <<people, branch>>

\* Faulty variant: the branch is stamped without contains_base.
FetchUnchecked(p) ==
  /\ job[p] = "resolved"
  /\ IF p \in Forks
       THEN Ends(p)
       ELSE /\ Goes(p, "stamping")
            /\ fetched' = [fetched EXCEPT ![p] = main]
            /\ UNCHANGED head
  /\ UNCHANGED <<people, branch>>

\* contains_base fetches main, and is_fork refuses what could not be pushed.
Fetch(p) ==
  /\ job[p] = "resolved"
  /\ IF p \in Forks
       THEN Ends(p)
       ELSE /\ Goes(p, IF Last(head[p]).base = main THEN "stamping" ELSE "catching up")
            /\ fetched' = [fetched EXCEPT ![p] = main]
            /\ UNCHANGED head
  /\ UNCHANGED <<people, branch>>

\* Faulty variant: the push is forced.
LandsForced(p) == TRUE

\* An unforced push goes through if the branch is where the job found it, or at one
\* of the commits behind that.
Lands(p) == IsPrefix(branch[p], head[p])

\* push_head, after the job's one commit.
PushesHead(p, commit) ==
  /\ Lands(p)
  /\ branch' = [branch EXCEPT ![p] = Append(head[p], commit)]
  /\ Ends(p)
  /\ UNCHANGED people

\* push_stamp
Stamp(p) ==
  /\ job[p] = "stamping"
  /\ PushesHead(p, Completing(Last(head[p]), Named[p], 0))

\* Faulty variant: the merge is stamped at once, with the tracker read before it.
CatchUpStampsStale(p) ==
  /\ job[p] = "catching up"
  /\ PushesHead(p, [base |-> fetched[p], done |-> Last(head[p]).done \cup Named[p], push |-> 0])

\* Faulty variant: the merge stays in the job's checkout.
CatchUpUnpushed(p) ==
  /\ job[p] = "catching up"
  /\ Ends(p)
  /\ UNCHANGED <<people, branch>>

\* catch_up_with_base, after which the job succeeds and has stamped nothing.
CatchUp(p) ==
  /\ job[p] = "catching up"
  /\ PushesHead(p, CaughtUp(Last(head[p]), fetched[p], 0))

\* The merge conflicts, the push is rejected, a command fails or times out, or
\* another event of the pull request cancels the job.
JobEnds(p) ==
  /\ job[p] # "none"
  /\ Ends(p)
  /\ UNCHANGED <<people, branch>>

------------------------------------------------------------------------------
(* Reviewers, authors and the panel *)

gate == <<job, head, fetched>>

\* A review that approves starts a job, in place of one in progress.
Approve(p) ==
  /\ p \in open
  /\ approved' = approved \cup {p}
  /\ Goes(p, "queued")
  /\ head' = [head EXCEPT ![p] = <<>>] /\ fetched' = [fetched EXCEPT ![p] = 1]
  /\ UNCHANGED <<main, trunk, branch, pushes, open>>

Grows(completed) ==
  /\ main < MaxMain
  /\ main' = main + 1
  /\ trunk' = [trunk EXCEPT ![main + 1] = completed]

\* Nothing but the approval is asked of a pull request that merges cleanly.
Merge(p) ==
  /\ p \in open \cap approved
  /\ Grows(MergedWith(Last(branch[p]), trunk[main]))
  /\ open' = open \ {p}
  /\ UNCHANGED <<branch, pushes, approved, gate>>

\* Maintainers plan: any entry of the tracker may change, and may be reopened.
Replan(completed) ==
  /\ Grows(completed)
  /\ UNCHANGED <<branch, pushes, open, approved, gate>>

MovesBranch(p, commits) ==
  /\ p \in open
  /\ branch' = [branch EXCEPT ![p] = commits]
  /\ UNCHANGED <<main, trunk, open, approved, gate>>

Numbered(p) == pushes[p] < MaxPushes /\ pushes' = [pushes EXCEPT ![p] = pushes[p] + 1]

Adds(p, commit) == Numbered(p) /\ MovesBranch(p, Append(branch[p], commit))

Push(p) == Adds(p, Completing(Last(branch[p]), {}, pushes[p] + 1))

AuthorCatchesUp(p) == Adds(p, CaughtUp(Last(branch[p]), main, pushes[p] + 1))

\* The task of a fork is completed by hand, as the gate asks.
CompleteByHand(p) ==
  /\ p \in Forks /\ Resolved(p)
  /\ Adds(p, Completing(Last(branch[p]), Named[p], pushes[p] + 1))

\* The first n commits, replayed on main: by the panel, or from a clone that may lack
\* later ones, the stamp among them.  A merge of main is replayed as an empty commit.
Rewrite(p, n) ==
  /\ Numbered(p)
  /\ MovesBranch(p, [i \in 1..n |-> CaughtUp(branch[p][i], main, pushes[p] + 1)])

\* A forced push takes the branch back to its commit n: the later ones are removed.
Rewind(p, n) ==
  /\ n < Len(branch[p])
  /\ MovesBranch(p, SubSeq(branch[p], 1, n))
  /\ UNCHANGED pushes

Job(p) == Checkout(p) \/ Fetch(p) \/ Stamp(p) \/ CatchUp(p)

Author(p) ==
  \/ Push(p) \/ AuthorCatchesUp(p) \/ CompleteByHand(p)
  \/ \E n \in DOMAIN branch[p] : Rewrite(p, n) \/ Rewind(p, n)

Next ==
  \/ \E p \in Pulls : Job(p) \/ JobEnds(p) \/ Author(p) \/ Approve(p) \/ Merge(p)
  \/ \E completed \in SUBSET Tasks : Replan(completed)

Spec == Init /\ [][Next]_vars

\* A job that is queued runs, and goes on while its pushes would land.
FairSpec == Spec /\ \A p \in Pulls : WF_vars(Job(p))

------------------------------------------------------------------------------
(* Properties *)

\* A tip's tracker differs from the main it contains by its own task at most.
OwnEntry(p, tip) ==
  \/ tip.done = trunk[tip.base]
  \/ Resolved(p) /\ tip.done = trunk[tip.base] \cup Named[p]

\* "Cannot revert one": whatever the order of fetches, stamps, rewrites and merges,
\* no branch's tracker lacks a completion of the main it contains, or adds another's...
OwnEntryOnly == \A p \in Pulls : OwnEntry(p, Last(branch[p]))

\* ...and merging it reverts no other completion, and completes no other task.
MergesTouchOwnEntry ==
  [][\A p \in Pulls : p \in open \ open' =>
       /\ trunk[main] \subseteq trunk'[main']
       /\ trunk'[main'] \subseteq trunk[main] \cup Named[p]]_vars

\* Whatever is pushed, rewritten or taken back, and however main moves, while a job is
\* at work: what the gate pushes takes no commit off the branch, and is told every
\* completion main had when the job fetched it ("contains every other recorded
\* completion").  Commits that authors take back meanwhile it may well bring back.
GatePushesAreCurrent ==
  [][\A p \in Pulls : job[p] \in {"stamping", "catching up"} /\ branch'[p] # branch[p]
                       /\ job'[p] = "none" =>
       /\ IsPrefix(branch[p], branch'[p])
       /\ trunk[fetched[p]] \subseteq Last(branch'[p]).done]_vars

\* What may happen while a pull request is left to its reviewer and the gate.
Undisturbed(p) ==
  /\ main' = main
  /\ \/ Job(p)
     \/ Approve(p) /\ job[p] = "none"
     \/ job'[p] = job[p] /\ branch'[p] = branch[p]

\* "Approve again to stamp": approving again and again completes the task in the
\* branch, once main and the branch are left alone and no job is cut short.
ApprovalsStamp ==
  \A p \in Pulls \ (Forks \cup Exempt) :
    Resolved(p) /\ <>[][Undisturbed(p)]_vars /\ []<><<Approve(p)>>_vars
      => <>(Named[p] \subseteq Last(branch[p]).done)

\* ADR-0004: on approval the gate stamps the task, "so the status change is
\* reviewed and merged with the work that earned it".
MergedMeansCompleted ==
  [][\A p \in Pulls \ (Forks \cup Exempt) :
       Resolved(p) /\ Merge(p) /\ job[p] = "none" => Named[p] \subseteq trunk'[main']]_vars
==============================================================================
