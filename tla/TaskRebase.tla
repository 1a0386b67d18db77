----------------------------- MODULE TaskRebase -----------------------------
(***************************************************************************)
(* TaskScheduler.rebase and rebase_task_branch (integrations/              *)
(* repository.py), for one task: its branch, the stage branches with open  *)
(* pull requests into it, and the clone's tracking ref of the task branch, *)
(* which the other operations fetch without force.  A commit is abstracted *)
(* to what decides ancestry and content: how much of main it contains, the *)
(* line it belongs to (every replay starts a new one) and the work in it.  *)
(* The panel's operations exclude each other (the lock); everybody else    *)
(* pushes, rewrites, deletes, opens and merges at any time.                *)
(***************************************************************************)
EXTENDS Integers

CONSTANTS
  Task,     \* the task branch
  Pulls,    \* the stage branches pull requests come from
  Works,    \* pieces of work
  MaxMain,  \* bound: versions of main
  MaxLine   \* bound: lines of commits

ASSUME TaskRebaseAssumption ==
  /\ Task \notin Pulls
  /\ MaxMain \in Nat \ {0} /\ MaxLine \in Nat

Branches == Pulls \cup {Task}
Tips     == [base : 0..MaxMain, line : 0..MaxLine, work : SUBSET Works]
NoTip    == [base |-> 0, line |-> 0, work |-> {}]      \* no such ref

VARIABLES
  main,      \* version of main at origin
  origin,    \* the branches at origin
  open,      \* branches with an open pull request into the task branch
  lines,     \* lines of commits made so far
  track,     \* refs/remotes/origin/task/<ID> in the panel's clone
  leased,    \* the task is in progress and prepared
  at,        \* the step the operation in progress takes next
  heads,     \* the pull requests' branches, as listed
  old,       \* the tips as fetched
  onto,      \* main as fetched
  new,       \* the replayed task branch
  rewritten, \* history: somebody else rewrote or deleted the branch since the
             \* clone last took over whatever origin had
  cut        \* history: since then, an operation changed origin and ended there

vars    == <<main, origin, open, lines, track, leased, at, heads, old, onto, new, rewritten, cut>>
outside == <<main, origin, open, lines>>
local   == <<heads, old, onto, new>>
history == <<rewritten, cut>>

TypeOK ==
  /\ main \in 1..MaxMain
  /\ origin \in [Branches -> Tips] /\ open \subseteq Pulls
  /\ lines \in 0..MaxLine
  /\ track \in Tips /\ leased \in BOOLEAN
  /\ at \in {"idle", "listed", "fetched", "pushed", "deleted"}
  /\ heads \subseteq Pulls /\ old \in [Branches -> Tips]
  /\ onto \in 0..MaxMain /\ new \in Tips
  /\ rewritten \in BOOLEAN /\ cut \in BOOLEAN

Init ==
  /\ main = 1
  /\ origin = [b \in Branches |-> NoTip] /\ open = {}
  /\ lines = 0
  /\ track = NoTip /\ leased = FALSE
  /\ at = "idle"
  /\ heads = {} /\ old = [b \in Branches |-> NoTip] /\ onto = 0 /\ new = NoTip
  /\ rewritten = FALSE /\ cut = FALSE

\* The commit `a` has `b` among its ancestors.
Descends(a, b) == a.line = b.line /\ b.base <= a.base /\ b.work \subseteq a.work

\* What an unforced fetch of the task branch needs: there is a branch, and its
\* tip is ahead of the tracking ref.
Fetchable(tip) == tip # NoTip /\ (track = NoTip \/ Descends(tip, track))
Readable == Fetchable(origin[Task])

------------------------------------------------------------------------------
(* rebase *)

Returns == at' = "idle" /\ UNCHANGED local

\* task() and task_pull_requests.  One from a fork refuses the operation.
RebaseLists ==
  /\ at = "idle"
  /\ leased
  /\ heads' = open
  /\ at' = "listed"
  /\ UNCHANGED <<outside, track, leased, old, onto, new, history>>

\* The forced fetch of main and every branch, which ends the operation if the
\* task branch contains main, and the replay of the branches in a worktree.
RebaseFetches ==
  /\ at = "listed"
  /\ \A b \in heads \cup {Task} : origin[b] # NoTip
  /\ track' = origin[Task]
  /\ rewritten' = FALSE /\ cut' = FALSE
  /\ IF origin[Task].base = main
       THEN Returns /\ UNCHANGED lines
       ELSE /\ lines < MaxLine
            /\ lines' = lines + 1
            /\ old' = origin /\ onto' = main
            /\ new' = [base |-> main, line |-> lines', work |-> origin[Task].work]
            /\ at' = "fetched"
            /\ UNCHANGED heads
  /\ UNCHANGED <<main, origin, open, leased>>

\* Faulty variant: a conflict in the worktree leaves the operation unfinished.
RebaseFailsInPlace ==
  /\ at \in {"listed", "fetched"}
  /\ at' = "conflict"
  /\ UNCHANGED <<outside, track, leased, local, history>>

\* The pull requests are listed or fetched in vain, a replay conflicts
\* (RebaseConflict), or the push is rejected.
RebaseFails ==
  /\ at \in {"listed", "fetched"}
  /\ Returns
  /\ UNCHANGED <<outside, track, leased, history>>

\* The branches as replayed: a pull request's own commits go on the new task branch.
\* A piece of work is what commits other than merges changed: a change made only in a
\* merge commit, which git leaves out of a replay, is none.
Replayed(b) ==
  IF b = Task THEN new ELSE [new EXCEPT !.work = @ \cup old[b].work]

Pushed == heads \cup {Task}

\* Faulty variants of the push: forced, or each branch for itself.
PushForced ==
  origin' = [b \in Branches |-> IF b \in Pushed THEN Replayed(b) ELSE origin[b]]
PushEach ==
  origin' = [b \in Branches |->
    IF b \in Pushed /\ origin[b] = old[b] THEN Replayed(b) ELSE origin[b]]

\* push --atomic, each branch leased on what was fetched.
PushLeased ==
  /\ \A b \in Pushed : origin[b] = old[b]
  /\ origin' = [b \in Branches |-> IF b \in Pushed THEN Replayed(b) ELSE origin[b]]

RebasePushes ==
  /\ at = "fetched"
  /\ PushLeased
  /\ at' = "pushed"
  /\ UNCHANGED <<main, open, lines, track, leased, local, history>>

\* The push is carried out and reported as failed.
RebasePushesUnheard ==
  /\ at = "fetched"
  /\ PushLeased
  /\ Returns
  /\ cut' = TRUE
  /\ UNCHANGED <<main, open, lines, track, leased, rewritten>>

\* Faulty variant: the tracking refs stay where the fetch left them.
RebaseTracksNothing ==
  /\ at = "pushed"
  /\ Returns
  /\ UNCHANGED <<outside, track, leased, history>>

\* update-ref, to what was pushed.
RebaseTracks ==
  /\ at = "pushed"
  /\ track' = new
  /\ Returns
  /\ UNCHANGED <<outside, leased, history>>

------------------------------------------------------------------------------
(* The other operations on the branch *)

\* task_head, before a stage is sent or expired: an error if the fetch is refused.
ReadHead ==
  /\ at = "idle"
  /\ track' = IF Readable THEN origin[Task] ELSE track
  /\ UNCHANGED <<outside, leased, at, local, history>>

\* sync prepares the task (TaskLeases has its guards): ensure_task_branch pushes
\* main to the branch unless there is one...
CreateBranch ==
  /\ at = "idle"
  /\ origin[Task] = NoTip
  /\ lines < MaxLine
  /\ lines' = lines + 1
  /\ origin' = [origin EXCEPT ![Task] = [base |-> main, line |-> lines', work |-> {}]]
  /\ UNCHANGED <<main, open, track, leased, at, local, history>>

\* ...and fetches it, without which the task is not prepared.
FetchBranch ==
  /\ at = "idle"
  /\ Readable
  /\ track' = origin[Task]
  /\ leased' = TRUE
  /\ UNCHANGED <<outside, at, local, history>>

\* expire, of a task that has a record, as it does before its first branch is made:
\* the branches are deleted, which closes the pull requests between them...
ExpireDeletes ==
  /\ at = "idle"
  /\ lines > 0
  /\ origin' = [b \in Branches |-> NoTip]
  /\ open' = {}
  /\ at' = "deleted"
  /\ UNCHANGED <<main, lines, track, leased, local, history>>

\* Faulty variant: the tracking ref is left behind.
ExpireForgetsTracking ==
  /\ at = "deleted"
  /\ leased' = FALSE
  /\ rewritten' = FALSE /\ cut' = FALSE
  /\ Returns
  /\ UNCHANGED <<outside, track>>

\* ...then the tracking ref (delete_task_branch), and the lease is given up.
ExpireUntracks ==
  /\ at = "deleted"
  /\ track' = NoTip
  /\ leased' = FALSE
  /\ rewritten' = FALSE /\ cut' = FALSE
  /\ Returns
  /\ UNCHANGED outside

\* The process dies, or a command of the operation fails.
Crash ==
  /\ at # "idle"
  /\ cut' = (cut \/ at \in {"pushed", "deleted"})
  /\ Returns
  /\ UNCHANGED <<outside, track, leased, rewritten>>

------------------------------------------------------------------------------
(* Everybody else *)

panel == <<track, leased, at, local, cut>>

MainMoves ==
  /\ main < MaxMain
  /\ main' = main + 1
  /\ UNCHANGED <<origin, open, lines, rewritten, panel>>

Pushes(b, w) ==
  /\ origin[b] # NoTip
  /\ origin' = [origin EXCEPT ![b].work = @ \cup {w}]
  /\ UNCHANGED <<main, open, lines, rewritten, panel>>

\* main is merged into the branch, by its authors or by the status gate.
MergesMain(b) ==
  /\ origin[b] # NoTip
  /\ origin' = [origin EXCEPT ![b].base = main]
  /\ UNCHANGED <<main, open, lines, rewritten, panel>>

\* A rebase from elsewhere, which may drop commits.
Rewrites(b, work) ==
  /\ origin[b] # NoTip
  /\ lines < MaxLine
  /\ lines' = lines + 1
  /\ origin' = [origin EXCEPT ![b] = [base |-> main, line |-> lines', work |-> work]]
  /\ rewritten' = (rewritten \/ b = Task)
  /\ UNCHANGED <<main, open, panel>>

Deletes(b) ==
  /\ origin[b] # NoTip
  /\ origin' = [origin EXCEPT ![b] = NoTip]
  /\ open' = IF b = Task THEN {} ELSE open \ {b}
  /\ rewritten' = (rewritten \/ b = Task)
  /\ UNCHANGED <<main, lines, panel>>

\* A stage's work is offered to the task branch it started from.
Opens(p) ==
  /\ p \notin open
  /\ origin[Task] # NoTip
  /\ IF origin[p] = NoTip THEN origin' = [origin EXCEPT ![p] = origin[Task]]
                          ELSE UNCHANGED origin
  /\ open' = open \cup {p}
  /\ UNCHANGED <<main, lines, rewritten, panel>>

Closes(p) ==
  /\ p \in open
  /\ open' = open \ {p}
  /\ UNCHANGED <<main, origin, lines, rewritten, panel>>

MergesPull(p) ==
  /\ p \in open /\ origin[Task] # NoTip
  /\ LET t == origin[Task] IN
     origin' = [origin EXCEPT ![Task] =
       [base |-> IF t.base < origin[p].base THEN origin[p].base ELSE t.base,
        line |-> t.line, work |-> t.work \cup origin[p].work]]
  /\ open' = open \ {p}
  /\ UNCHANGED <<main, lines, rewritten, panel>>

Rebasing ==
  RebaseLists \/ RebaseFetches \/ RebaseFails \/ RebasePushes \/ RebasePushesUnheard \/ RebaseTracks

OtherOperations ==
  ReadHead \/ CreateBranch \/ FetchBranch \/ ExpireDeletes \/ ExpireUntracks \/ Crash

Others ==
  \/ MainMoves
  \/ \E b \in Branches : MergesMain(b) \/ Deletes(b)
  \/ \E b \in Branches, w \in Works : Pushes(b, w)
  \/ \E b \in Branches, work \in SUBSET Works : Rewrites(b, work)
  \/ \E p \in Pulls : Opens(p) \/ Closes(p) \/ MergesPull(p)

Next == Rebasing \/ OtherOperations \/ Others

Spec == Init /\ [][Next]_vars

------------------------------------------------------------------------------
(* Properties *)

PanelPushes == at = "fetched" /\ at' # "fetched" /\ origin' # origin

\* Whatever is pushed, rewritten or deleted while the branches are fetched and
\* replayed, the rebase drops nobody's work and brings no deleted branch back.
NoWorkDropped ==
  [][PanelPushes => \A b \in Branches :
       /\ origin[b].work \subseteq origin'[b].work
       /\ origin[b] = NoTip => origin'[b] = NoTip]_vars

\* "A branch that moved meanwhile rejects the whole push": a rebase never leaves
\* one of the pull requests it listed on the old task branch.
WholeRebases ==
  [][PanelPushes => \A p \in heads : Descends(origin'[p], origin'[Task])]_vars

\* The panel's own rebases and expiries never make the branch unreadable to its
\* unforced fetches: only a rewrite by others does, or an operation cut short.
OwnRebaseReadable ==
  ~rewritten /\ ~cut /\ at \in {"idle", "listed", "fetched"} /\ origin[Task] # NoTip => Readable
==============================================================================
