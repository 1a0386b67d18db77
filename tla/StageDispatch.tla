---------------------------- MODULE StageDispatch ----------------------------
(***************************************************************************)
(* How one task's stages are sent to the cloud agents: stage, expire_stage *)
(* and push_stage_branch of control_panel/task_scheduler.py, live_attempt  *)
(* of control_panel/state.py, and the numbered stage branches of           *)
(* control_panel/integrations/repository.py.  Refine and Implement go to   *)
(* Codex on a branch of their own; Audit goes to the Claude routine and    *)
(* concerns an open pull request.                                          *)
(*                                                                         *)
(* The attempts are durable; the handler may die between any two of its    *)
(* effects, a submission may be accepted and its reply lost, branches come *)
(* and go at origin, and the task's tip moves, also back.                  *)
(***************************************************************************)
EXTENDS Integers, Sequences, FiniteSets, FiniteSetsExt

CONSTANTS
  CodexStages,   \* stages sent to Codex: refine, implement
  Pulls,         \* open or openable pull requests into the task branch
  MaxRevision,   \* bound: distinct commits a branch may point at
  MaxAttempts,   \* bound: attempts recorded for one stage
  MaxNumber,     \* bound: numbers of stage branches
  MaxOutside     \* bound: numbers others push

ASSUME StageDispatchAssumption ==
  /\ IsFiniteSet(CodexStages) /\ "audit" \notin CodexStages
  /\ MaxRevision \in Nat \ {0}
  /\ MaxAttempts \in Nat
  /\ MaxNumber \in Nat /\ MaxOutside \in 0..(MaxNumber - 1)

Stages    == CodexStages \cup {"audit"}
Revisions == 1..MaxRevision
Numbers   == 1..MaxNumber
Attempt   == [status : {"submitting", "submitted", "expired"},
              head : Revisions, number : 0..MaxNumber]     \* 0: no branch (audit)

VARIABLES
  lease,     \* "leased" is the guard of task(): in progress, prepared, not expired
  attempts,  \* record["stages"]: attempts of each stage, oldest first
  tip,       \* tip of the task branch at origin, 0 if there is none
  pull,      \* head of each pull request into it, 0 if it is not open
  origin,    \* numbers of the stage branches origin has
  at,        \* the step the operation holding the lock takes next
  stage,     \* the stage it sends
  head,      \* the revision it read
  accepted,  \* history: submissions an agent accepted, per stage and revision
  told       \* history: sessions told to work on each stage branch

vars    == <<lease, attempts, tip, pull, origin, at, stage, head, accepted, told>>
outside == <<tip, pull, origin>>
ghosts  == <<accepted, told>>

Steps == {"idle", "listing", "pushing", "submitting", "recording", "popping",
          "releasing", "forgetting"}

TypeOK ==
  /\ lease \in {"none", "leased", "completed"}
  /\ attempts \in [Stages -> Seq(Attempt)]
  /\ tip \in 0..MaxRevision
  /\ pull \in [Pulls -> 0..MaxRevision]
  /\ origin \in [CodexStages -> SUBSET Numbers]
  /\ at \in Steps
  /\ stage \in Stages
  /\ head \in 0..MaxRevision
  /\ accepted \in [Stages -> [Revisions -> Nat]]
  /\ told \in [CodexStages -> [Numbers -> Nat]]

Init ==
  /\ lease = "none"
  /\ attempts = [s \in Stages |-> <<>>]
  /\ tip = 0
  /\ pull = [p \in Pulls |-> 0]
  /\ origin = [s \in CodexStages |-> {}]
  /\ at = "idle" /\ stage = "audit" /\ head = 0
  /\ accepted = [s \in Stages |-> [r \in Revisions |-> 0]]
  /\ told = [s \in CodexStages |-> [n \in Numbers |-> 0]]

------------------------------------------------------------------------------
(* Attempts *)

At(list, r)     == {i \in 1..Len(list) : list[i].head = r}
IsNewest(list, r, i) == i \in At(list, r) /\ \A j \in At(list, r) : j <= i

\* Faulty variant: only the newest attempt of all is looked at.
LiveNewestOnly(list, r) ==
  {i \in At(list, r) : i = Len(list) /\ list[i].status # "expired"}

\* live_attempt: the position of the newest attempt at the revision, unless
\* it was expired; a set with at most one element.
Live(list, r) == {i \in At(list, r) : IsNewest(list, r, i) /\ list[i].status # "expired"}

NumbersIn(list) == {list[i].number : i \in 1..Len(list)}
Recorded(s)     == NumbersIn(attempts[s])

\* A session on a branch that neither origin nor a record remembers is out of the
\* panel's reach, and out of the history.
Remembered(lists, branches) ==
  [s \in CodexStages |-> [n \in Numbers |->
     IF n \in branches[s] \cup NumbersIn(lists[s]) THEN told[s][n] ELSE 0]]

\* Faulty variant: only origin is consulted.
NextNumberOfOrigin(s) == Max(origin[s] \cup {0}) + 1

\* next_stage_number: one past the highest number origin has or a record names.
NextNumber(s) == Max(origin[s] \cup Recorded(s) \cup {0}) + 1

Last == Len(attempts[stage])     \* attempts[-1] of the stage being sent

Returns == at' = "idle" /\ stage' = "audit" /\ head' = 0     \* the handler is over

------------------------------------------------------------------------------
(* stage *)

\* The guards, the revision (the fetched task tip, or the head of the chosen
\* pull request) and the decision: a live attempt is returned again if it was
\* submitted, and refuses the call if its outcome is uncertain.
StageReads(s, r) ==
  /\ at = "idle"
  /\ lease = "leased"
  /\ IF s = "audit" THEN \E p \in Pulls : pull[p] = r ELSE tip = r
  /\ Live(attempts[s], r) = {}
  /\ Len(attempts[s]) < MaxAttempts
  /\ stage' = s /\ head' = r
  /\ at' = "listing"
  /\ UNCHANGED <<lease, attempts, outside, ghosts>>

\* The number is looked up and the attempt saved before anything is sent.
StageRecords ==
  /\ at = "listing"
  /\ LET n == IF stage = "audit" THEN 0 ELSE NextNumber(stage) IN
       /\ n <= MaxNumber
       /\ attempts' = [attempts EXCEPT ![stage] =
                         Append(@, [status |-> "submitting", head |-> head, number |-> n])]
  /\ at' = IF stage = "audit" THEN "submitting" ELSE "pushing"
  /\ UNCHANGED <<lease, outside, stage, head, ghosts>>

\* The listing fails (or the commands before it): nothing was recorded.
StageGivesUp ==
  /\ at = "listing"
  /\ Returns
  /\ UNCHANGED <<lease, attempts, outside, ghosts>>

\* Faulty variant: the push is tried again under the same number.
NumberTakenAgain ==
  /\ at = "pushing"
  /\ attempts[stage][Last].number \in origin[stage]
  /\ attempts[stage][Last].number + 1 \in Numbers
  /\ attempts' = attempts
  /\ UNCHANGED <<lease, outside, at, stage, head, ghosts>>

\* create_stage_branch finds the branch there: take the next number, save it
\* and try again.
NumberTaken ==
  /\ at = "pushing"
  /\ attempts[stage][Last].number \in origin[stage]
  /\ attempts' = [attempts EXCEPT ![stage][Last].number = @ + 1]
  /\ UNCHANGED <<lease, outside, at, stage, head, ghosts>>

PushBranch ==
  /\ at = "pushing"
  /\ attempts[stage][Last].number \notin origin[stage]
  /\ origin' = [origin EXCEPT ![stage] = @ \cup {attempts[stage][Last].number}]
  /\ at' = "submitting"
  /\ UNCHANGED <<lease, attempts, tip, pull, stage, head, ghosts>>

\* Faulty variant: the attempt gets a status of its own.
PushFailsFailed ==
  /\ at = "pushing"
  /\ UNCHANGED origin
  /\ attempts' = [attempts EXCEPT ![stage][Last].status = "failed"]
  /\ Returns
  /\ UNCHANGED <<lease, tip, pull, ghosts>>

\* Any other error of the push, which may have landed: the attempt is set aside
\* and keeps its number.
PushFails ==
  /\ at = "pushing"
  /\ \/ UNCHANGED origin
     \/ origin' = [origin EXCEPT ![stage] = @ \cup {attempts[stage][Last].number}]
  /\ attempts' = [attempts EXCEPT ![stage][Last].status = "expired"]
  /\ Returns
  /\ UNCHANGED <<lease, tip, pull, ghosts>>

\* No token can be minted for the push (ConfigurationError): none of the handlers
\* around it expects that, so nothing is sent and the attempt stays as it is.
PushUnauthenticated ==
  /\ at = "pushing"
  /\ Returns
  /\ UNCHANGED <<lease, attempts, outside, ghosts>>

\* The agent takes the work; the session is told the branch of the attempt.
Accepts ==
  /\ accepted' = [accepted EXCEPT ![stage][head] = @ + 1]
  /\ told' = IF stage = "audit" THEN told
             ELSE [told EXCEPT ![stage][attempts[stage][Last].number] = @ + 1]

Submit ==
  /\ at = "submitting"
  /\ Accepts
  /\ at' = "recording"
  /\ UNCHANGED <<lease, attempts, outside, stage, head>>

\* Faulty variant: every failed call is taken for a refusal.
SubmitFailsPopping ==
  /\ at = "submitting"
  /\ Accepts \/ UNCHANGED ghosts
  /\ at' = "popping"
  /\ UNCHANGED <<lease, attempts, outside, stage, head>>

\* The call fails or times out, before or after the agent took the work: the
\* attempt stays, its outcome uncertain.
SubmitFails ==
  /\ at = "submitting"
  /\ Accepts \/ UNCHANGED ghosts
  /\ Returns
  /\ UNCHANGED <<lease, attempts, outside>>

\* The Claude routine answers with a refusal (RoutineError)...
Refused ==
  /\ at = "submitting"
  /\ stage = "audit"
  /\ at' = "popping"
  /\ UNCHANGED <<lease, attempts, outside, stage, head, ghosts>>

\* ...and the attempt is dropped: nothing started.
PopAttempt ==
  /\ at = "popping"
  /\ attempts' = [attempts EXCEPT ![stage] = SubSeq(@, 1, Last - 1)]
  /\ Returns
  /\ UNCHANGED <<lease, outside, ghosts>>

\* The reply is saved with the attempt.
RecordUrl ==
  /\ at = "recording"
  /\ attempts' = [attempts EXCEPT ![stage][Last].status = "submitted"]
  /\ Returns
  /\ UNCHANGED <<lease, outside, ghosts>>

------------------------------------------------------------------------------
(* expire_stage and expire *)

\* expire_stage: retire the live attempt at the task's tip; for an audit, at the
\* head the newest attempt names.  It needs no lease.
ExpireStage(s) ==
  /\ at = "idle"
  /\ attempts[s] # <<>>
  /\ LET r == IF s = "audit" THEN attempts[s][Len(attempts[s])].head ELSE tip IN
     \E i \in Live(attempts[s], r) :
       attempts' = [attempts EXCEPT ![s][i].status = "expired"]
  /\ UNCHANGED <<lease, outside, at, stage, head, ghosts>>

\* expire (TaskLeases has its guards): the branches go first...
ReleaseDeletes ==
  /\ at = "idle"
  /\ lease = "leased" \/ (lease = "none" /\ \E s \in Stages : attempts[s] # <<>>)
  /\ origin' = [s \in CodexStages |-> {}]
  /\ tip' = 0
  /\ told' = Remembered(attempts, origin')
  /\ at' = "forgetting"
  /\ UNCHANGED <<lease, attempts, pull, stage, head, accepted>>

\* Faulty variant: only the newest attempt of each stage is expired.
ReleaseWritesNewest ==
  /\ at = "forgetting"
  /\ attempts' = [s \in Stages |-> [i \in DOMAIN attempts[s] |->
                    IF i = Len(attempts[s]) THEN [attempts[s][i] EXCEPT !.status = "expired"]
                    ELSE attempts[s][i]]]
  /\ lease' = "none"
  /\ Returns
  /\ UNCHANGED <<outside, ghosts>>

\* ...and then every attempt is marked, and the lease given up.
ReleaseWrites ==
  /\ at = "forgetting"
  /\ attempts' = [s \in Stages |-> [i \in DOMAIN attempts[s] |->
                    [attempts[s][i] EXCEPT !.status = "expired"]]]
  /\ lease' = "none"
  /\ Returns
  /\ UNCHANGED <<outside, ghosts>>

------------------------------------------------------------------------------
(* The rest of the system *)

\* sync prepares the task: the branch is created unless it exists.
Prepare ==
  /\ at = "idle"
  /\ lease = "none" \/ (lease = "leased" /\ tip = 0)
  /\ lease' = "leased"
  /\ IF tip = 0 THEN tip' \in Revisions ELSE tip' = tip
  /\ UNCHANGED <<attempts, pull, origin, at, stage, head, ghosts>>

\* main completes the task: no stage is sent any more, and expire refuses it.
Complete ==
  /\ at = "idle"
  /\ lease = "leased"
  /\ lease' = "completed"
  /\ UNCHANGED <<attempts, outside, at, stage, head, ghosts>>

\* A stage's pull request is merged, somebody pushes or deletes the branch, or
\* the panel rebases it.
TipMoves ==
  /\ tip # 0
  /\ tip' \in (0..MaxRevision) \ {tip}
  /\ UNCHANGED <<lease, attempts, pull, origin, at, stage, head, ghosts>>

\* A pull request is opened, pushed to, or closed.
PullMoves(p) ==
  /\ pull' \in {[pull EXCEPT ![p] = r] : r \in (0..MaxRevision) \ {pull[p]}}
  /\ UNCHANGED <<lease, attempts, tip, origin, at, stage, head, ghosts>>

OutsiderPushes(s, n) ==
  /\ n \in 1..MaxOutside \ origin[s]
  /\ origin' = [origin EXCEPT ![s] = @ \cup {n}]
  /\ UNCHANGED <<lease, attempts, tip, pull, at, stage, head, ghosts>>

\* A stage branch is deleted once its pull request merges.
BranchDeleted(s, n) ==
  /\ n \in origin[s]
  /\ origin' = [origin EXCEPT ![s] = @ \ {n}]
  /\ told' = Remembered(attempts, origin')
  /\ UNCHANGED <<lease, attempts, tip, pull, at, stage, head, accepted>>

Crash ==
  /\ at # "idle"
  /\ Returns
  /\ UNCHANGED <<lease, attempts, outside, ghosts>>

\* The state volume is lost while the panel is down, and with it what it knew.
LoseState ==
  /\ at = "idle"
  /\ lease' = IF lease = "completed" THEN lease ELSE "none"
  /\ attempts' = [s \in Stages |-> <<>>]
  /\ accepted' = [s \in Stages |-> [r \in Revisions |-> 0]]
  /\ told' = Remembered(attempts', origin)
  /\ UNCHANGED <<outside, at, stage, head>>

Sending ==
  \/ StageRecords \/ StageGivesUp \/ NumberTaken \/ PushBranch
  \/ PushFails \/ PushUnauthenticated \/ Submit \/ SubmitFails \/ Refused \/ PopAttempt \/ RecordUrl

Panel ==
  \/ \E s \in Stages, r \in Revisions : StageReads(s, r)
  \/ Sending
  \/ \E s \in Stages : ExpireStage(s)
  \/ ReleaseDeletes \/ ReleaseWrites \/ Prepare

World ==
  \/ Crash \/ LoseState
  \/ Complete \/ TipMoves \/ \E p \in Pulls : PullMoves(p)
  \/ \E s \in CodexStages, n \in Numbers : OutsiderPushes(s, n) \/ BranchDeleted(s, n)

Next == Panel \/ World

Spec == Init /\ [][Next]_vars

\* A handler that has begun goes on, for every command and call it makes times out;
\* that one of them fails is possible but never promised.
GoesOn ==
  \/ StageRecords \/ NumberTaken \/ PushBranch \/ Submit \/ PopAttempt \/ RecordUrl
FairSpec == Spec /\ WF_vars(GoesOn) /\ WF_vars(ReleaseWrites)

------------------------------------------------------------------------------
(* Properties *)

\* Of the attempts at one revision, only the newest may still stand: a second
\* submission of a stage is never recorded beside a live or uncertain one,
\* whichever way the tip moved in between.
OnlyNewestStands ==
  \A s \in Stages : \A i, j \in 1..Len(attempts[s]) :
    i < j /\ attempts[s][i].head = attempts[s][j].head => attempts[s][i].status = "expired"

\* Every session an agent accepted is accounted for by an attempt of its own at
\* that stage and revision: no crash or lost reply hides one, so nothing is sent
\* twice behind the operator's back.
SessionsAreRecorded ==
  \A s \in Stages, r \in Revisions : accepted[s][r] <= Cardinality(At(attempts[s], r))

\* No two sessions are told to work on the same stage branch, although numbers
\* are chosen from a stale list, branches are deleted, and records get lost.
OwnBranch == \A s \in CodexStages, n \in Numbers : told[s][n] <= 1

\* A released task leaves no attempt standing, so its next lease finds every
\* stage open.
ReleasedLeavesNothing ==
  lease = "none" => \A s \in Stages : \A i \in 1..Len(attempts[s]) : attempts[s][i].status = "expired"

\* push_stage_branch: "Each pass raises the number past a branch origin has, so
\* this ends": a handler that sends a stage returns.
SendingEnds == at = "pushing" ~> at = "idle"

\* The sessions as SessionBook has them: what stands at a revision closes it,
\* but for the attempt in hand until the agent has taken the work.
Stands(list, r) == \E i \in At(list, r) : list[i].status # "expired"
AboutToSend     == at \in {"pushing", "submitting", "popping"}

Slot == [s \in Stages |-> [r \in Revisions |->
           IF ~Stands(attempts[s], r) THEN "free"
           ELSE IF AboutToSend /\ s = stage /\ r = head THEN "open" ELSE "closed"]]

Sessions == INSTANCE SessionBook WITH slot <- Slot, sessions <- accepted

\* The handlers, with everything that fails between two of their effects, do what
\* SessionBook allows and nothing else: at most one session comes of each claim of
\* a stage at a revision, and none of one that is not claimed.
ImplementsSessionBook == Sessions!Spec
==============================================================================
