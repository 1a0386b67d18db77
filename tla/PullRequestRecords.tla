------------------------- MODULE PullRequestRecords -------------------------
(***************************************************************************)
(* What the scheduler's records say of the pull requests that carry the    *)
(* task branches into main: track_pull_requests and look_up_pull_request,  *)
(* create_pull_request, refresh_pull_request and the part of expire that   *)
(* is about them, against what people, agents and GitHub do to the pull    *)
(* requests between a lookup and the write of what it found.               *)
(* An operation works on the state as loaded under the lock and writes it  *)
(* at its end; TaskLeases has the guards of preparation and expiry.        *)
(***************************************************************************)
EXTENDS Integers

CONSTANTS
  Tasks,     \* the tasks with a record
  MaxPulls,  \* bound: pull requests of one task
  Again,     \* bound: the tasks that get a pull request after their first
  MaxDeaths  \* bound: operations cut short

ASSUME PullRequestRecordsAssumption == 
  MaxPulls \in Nat /\ Again \subseteq Tasks /\ MaxDeaths \in Nat

Numbers == 1..MaxPulls
Found   == [pull : 0..MaxPulls, state : {"none", "OPEN", "MERGED"}]
Nothing == [pull |-> 0, state |-> "none"]

VARIABLES
  pulls,      \* states of the pull requests from each task branch into main
  branch,     \* the tasks whose branch exists at origin
  prepared,   \* the tasks whose record says prepared
  record,     \* pull_request and pull_request_state of each record, as saved
  completed,  \* the tasks the tracker calls completed
  at,         \* the step the operation holding the lock takes next
  subject,    \* the task it is about
  left,       \* the tasks a pass has still to ask about
  draft,      \* the records as the operation will write them
  since,      \* history: the last pull request from before the task's last expiry
  deaths      \* history: operations cut short

vars   == <<pulls, branch, prepared, record, completed, at, subject, left, draft, since, deaths>>
github == <<pulls, branch>>
saved  == <<prepared, record, completed, since, deaths>>

TypeOK ==
  /\ pulls \in [Tasks -> [Numbers -> {"none", "OPEN", "CLOSED", "MERGED"}]]
  /\ branch \subseteq Tasks /\ prepared \subseteq Tasks /\ completed \subseteq Tasks
  /\ record \in [Tasks -> Found] /\ draft \in [Tasks -> Found]
  /\ at \in {"idle", "tracking", "asking", "creating", "writing", "deleted"}
  /\ subject \in Tasks \cup {"all"} /\ left \subseteq Tasks
  /\ since \in [Tasks -> 0..MaxPulls] /\ deaths \in 0..MaxDeaths

Init ==
  /\ pulls = [t \in Tasks |-> [n \in Numbers |-> "none"]]
  /\ branch = {} /\ prepared = {} /\ completed = {}
  /\ record = [t \in Tasks |-> Nothing] /\ draft = [t \in Tasks |-> Nothing]
  /\ at = "idle" /\ subject = "all" /\ left = {}
  /\ since = [t \in Tasks |-> 0] /\ deaths = 0

------------------------------------------------------------------------------
(* GitHub *)

In(t, state) == {n \in Numbers : pulls[t][n] = state}
Newest(S)    == CHOOSE n \in S : \A m \in S : m <= n

Open(t, n) == pulls' = [pulls EXCEPT ![t][n] = "OPEN"]

\* A second open pull request for the same branches is refused.
Opens(t, n) ==
  /\ t \in branch /\ In(t, "OPEN") = {}
  /\ n \in In(t, "none") /\ \A m \in In(t, "none") : n <= m
  /\ n = 1 \/ t \in Again
  /\ Open(t, n)

\* Deleting the branch closes what is open for it.
WithoutBranch(t) ==
  /\ branch' = branch \ {t}
  /\ pulls' = [pulls EXCEPT ![t] =
       [n \in Numbers |-> IF pulls[t][n] = "OPEN" THEN "CLOSED" ELSE pulls[t][n]]]

\* Faulty variant: the newest, whatever its state.
LookupNewest(t) ==
  LET listed == Numbers \ In(t, "none") IN
  IF listed = {} THEN Nothing
  ELSE [pull |-> Newest(listed), state |-> pulls[t][Newest(listed)]]

\* task_pull_request: an open one, else the merged one (listed newest first).
Lookup(t) ==
  CASE In(t, "OPEN") # {}   -> [pull |-> Newest(In(t, "OPEN")), state |-> "OPEN"]
    [] In(t, "OPEN") = {} /\ In(t, "MERGED") # {}
                            -> [pull |-> Newest(In(t, "MERGED")), state |-> "MERGED"]
    [] OTHER                -> Nothing

People ==
  /\ \E t \in Tasks :
       \/ \E n \in Numbers : Opens(t, n) /\ UNCHANGED branch
       \/ \E n \in In(t, "OPEN"), state \in {"CLOSED", "MERGED"} :
            pulls' = [pulls EXCEPT ![t][n] = state] /\ UNCHANGED branch
       \* A pull request of a branch that is there may be opened again, unless
       \* the branch was deleted and created anew since.
       \/ \E n \in In(t, "CLOSED") :
            t \in branch /\ In(t, "OPEN") = {} /\ n > since[t] /\ Open(t, n) /\ UNCHANGED branch
  /\ UNCHANGED <<saved, at, subject, left, draft>>

------------------------------------------------------------------------------
(* Operations *)

Ends == at' = "idle" /\ subject' = "all" /\ left' = {} /\ draft' = [t \in Tasks |-> Nothing]

\* The write of the state file, with which every operation but expire ends.
Write ==
  /\ at = "writing"
  /\ record' = draft
  /\ Ends
  /\ UNCHANGED <<github, prepared, completed, since, deaths>>

\* sync pulls main and loads the state; the merged are not asked about again.
SyncLoads ==
  /\ at = "idle"
  /\ at' = "tracking" /\ subject' = "all"
  /\ left' = {t \in prepared : record[t].state # "MERGED"}
  /\ draft' = record
  /\ UNCHANGED <<github, saved>>

Track(t) ==
  /\ at = "tracking" /\ t \in left
  /\ draft' = [draft EXCEPT ![t] = Lookup(t)]
  /\ left' = left \ {t}
  /\ UNCHANGED <<github, saved, at, subject>>

\* Faulty variant: a failed lookup abandons the pass.
TrackFailsThePass(t) ==
  /\ at = "tracking" /\ t \in left
  /\ Ends
  /\ UNCHANGED <<github, saved>>

\* "One task's lookup failing must not stop the pass": its record stays as it is.
TrackFails(t) ==
  /\ at = "tracking" /\ t \in left
  /\ left' = left \ {t}
  /\ UNCHANGED <<github, saved, at, subject, draft>>

\* The pulled tracker is saved; the state file is next.
Tracked ==
  /\ at = "tracking" /\ left = {}
  /\ \E done \in SUBSET Tasks : completed' = completed \cup done
  /\ at' = "writing"
  /\ UNCHANGED <<github, prepared, record, since, deaths, subject, left, draft>>

\* refresh_pull_request asks, create_pull_request too unless it is forced.
Asks(t) ==
  /\ at = "idle" /\ t \in prepared
  /\ subject' = t /\ draft' = record /\ at' = "asking"
  /\ UNCHANGED <<github, saved, left>>

Refresh(t) ==
  /\ at = "asking" /\ t = subject
  /\ draft' = [draft EXCEPT ![t] = Lookup(t)]
  /\ at' = "writing"
  /\ UNCHANGED <<github, saved, subject, left>>

CreateLooksUp(t) ==
  /\ at = "asking" /\ t = subject /\ t \notin completed
  /\ draft' = [draft EXCEPT ![t] = Lookup(t)]
  /\ at' = IF Lookup(t).state = "OPEN" THEN "writing" ELSE "creating"
  /\ UNCHANGED <<github, saved, subject, left>>

CreateForced(t) ==
  /\ at = "asking" /\ t = subject /\ t \notin completed
  /\ at' = "creating"
  /\ UNCHANGED <<github, saved, subject, left, draft>>

\* create_task_pull_request; its answer may be lost.
Create(t) ==
  /\ at = "creating" /\ t = subject
  /\ \E n \in Numbers :
       /\ Opens(t, n)
       /\ \/ /\ draft' = [draft EXCEPT ![t] = [pull |-> n, state |-> "OPEN"]]
             /\ at' = "writing"
             /\ UNCHANGED <<subject, left>>
          \/ Ends
  /\ UNCHANGED <<branch, saved>>

\* Preparation creates the branch unless it exists, and may fail after that.
Prepare(t) ==
  /\ at = "idle" /\ t \notin completed
  /\ branch' = branch \cup {t} /\ prepared' \in {prepared, prepared \cup {t}}
  /\ UNCHANGED <<pulls, record, completed, since, deaths, at, subject, left, draft>>

\* expire deletes the branches, then forgets the pull request with the lease.
ExpireDeletes(t) ==
  /\ at = "idle" /\ t \in (branch \cup prepared) \ completed
  /\ WithoutBranch(t)
  /\ subject' = t /\ at' = "deleted"
  /\ UNCHANGED <<saved, left, draft>>

\* Faulty variant: the record keeps naming the closed pull request.
ExpireWritesKeeping(t) ==
  /\ at = "deleted" /\ t = subject
  /\ prepared' = prepared \ {t}
  /\ since' = [since EXCEPT ![t] = Newest((Numbers \ In(t, "none")) \cup {0})]
  /\ Ends
  /\ UNCHANGED <<github, record, completed, deaths>>

ExpireWrites(t) ==
  /\ at = "deleted" /\ t = subject
  /\ prepared' = prepared \ {t}
  /\ record' = [record EXCEPT ![t] = Nothing]
  /\ since' = [since EXCEPT ![t] = Newest((Numbers \ In(t, "none")) \cup {0})]
  /\ Ends
  /\ UNCHANGED <<github, completed, deaths>>

\* GitHub or a command refuses: the 502 answers, and nothing is written.
Refused ==
  /\ at \in {"asking", "creating"}
  /\ Ends
  /\ UNCHANGED <<github, saved>>

\* The process dies, or a pass meets an exception that track_pull_requests does
\* not catch: an App without credentials.
Dies ==
  /\ at # "idle" /\ deaths < MaxDeaths
  /\ deaths' = deaths + 1
  /\ Ends
  /\ UNCHANGED <<github, prepared, record, completed, since>>

\* What the thread or the request that holds the lock does by itself.
Goes ==
  \/ Tracked \/ Write \/ Refused
  \/ \E t \in Tasks :
       \/ Track(t) \/ TrackFails(t) \/ Refresh(t) \/ CreateLooksUp(t) \/ CreateForced(t)
       \/ Create(t) \/ ExpireWrites(t)

Next ==
  \/ Goes \/ SyncLoads \/ Dies \/ People
  \/ \E t \in Tasks : Asks(t) \/ Prepare(t) \/ ExpireDeletes(t)

Spec == Init /\ [][Next]_vars

\* What holds the lock goes on, and passes keep being requested and begun; only
\* MaxDeaths operations are cut short.
FairSpec == Spec /\ WF_vars(Goes) /\ SF_vars(SyncLoads)

------------------------------------------------------------------------------
(* Properties *)

\* What a record may say of a task's pull requests: it names none of an earlier
\* lease as open, calls merged only what is merged and, until the task is
\* prepared, names none at all.
MaySay(t, found) ==
  /\ found.state = "OPEN" => found.pull > since[t]
  /\ found.state = "MERGED" => found.pull \in In(t, "MERGED")
  /\ t \notin prepared => found = Nothing

\* Whatever happens between a lookup and the write of what it found, and whatever
\* became of an operation cut short, what is saved is what a record may say.
RecordsAreTrue == \A t \in Tasks : MaySay(t, record[t])

\* "One task's lookup failing must not stop the pass": once the pull requests of a
\* task are left alone while its own lookups are answered, its record comes to say
\* what GitHub says, or what merged; the other tasks' lookups may fail for ever.
RecordsFollow ==
  \A t \in Tasks :
    /\ <>[][UNCHANGED <<pulls[t], branch, prepared>>]_vars
    /\ []<><<Track(t)>>_vars
    => <>[](record[t] = Lookup(t) \/ record[t].state = "MERGED")
==============================================================================
