-------------------------- MODULE StatusGateProofs --------------------------
(***************************************************************************)
(* Proofs about StatusGate, for any number of pull requests and tasks.     *)
(* A branch may be taken back to any of its commits, so the inductive      *)
(* invariant asks of every commit what OwnEntryOnly asks of the tip, of    *)
(* those a job checked out as well: each differs by its own task at most   *)
(* from the version of main it contains, which is one main has had and no  *)
(* step changes.                                                           *)
(***************************************************************************)
EXTENDS StatusGate, SequenceTheorems, TLAPS

Working == {"resolved", "stamping", "catching up"}

\* What is asked of each commit.
Sound(p, commits) ==
  \A i \in 1..Len(commits) : OwnEntry(p, commits[i]) /\ commits[i].base <= main

BranchesSound == \A p \in Pulls : Sound(p, branch[p])

JobsSound ==
  \A p \in Pulls :
    /\ job[p] \in Working => Resolved(p) /\ head[p] # <<>> /\ Sound(p, head[p])
    /\ job[p] = "stamping" => Last(head[p]).base = fetched[p]

Past == \A p \in Pulls : fetched[p] <= main

IInv == TypeOK /\ BranchesSound /\ JobsSound /\ Past

\* The bounds, as plain arithmetic.
LEMMA MainBounded ==
  ASSUME TypeOK
  PROVE  main \in 1..MaxMain /\ main \in Nat /\ MaxMain \in Nat /\ main <= main
<1>1. main \in 1..MaxMain
  BY DEF TypeOK
<1> QED BY <1>1, StatusGateAssumption

------------------------------------------------------------------------------
(* Commits *)

\* Merging a tracker that differs from what it contains by one entry changes
\* that entry of main at most.
LEMMA MergedOwnEntry ==
  ASSUME NEW p \in Pulls, NEW tip, NEW completed, OwnEntry(p, tip)
  PROVE  \/ MergedWith(tip, completed) = completed
         \/ Resolved(p) /\ MergedWith(tip, completed) = completed \cup Named[p]
<1>1. CASE tip.done = trunk[tip.base]
  BY <1>1 DEF MergedWith
<1>2. CASE Resolved(p) /\ tip.done = trunk[tip.base] \cup Named[p]
  <2>1. PICK t \in Tasks : Named[p] = {t}
    BY <1>2 DEF Resolved
  <2>2. CASE t \in trunk[tip.base]
    BY <1>2, <2>1, <2>2 DEF MergedWith
  <2>3. CASE t \notin trunk[tip.base]
    BY <1>2, <2>1, <2>3 DEF MergedWith
  <2> QED BY <2>2, <2>3
<1> QED BY <1>1, <1>2 DEF OwnEntry

\* A tip that has been brought up to a version of main is one the invariant admits,
\* and lacks none of what that version has completed.
LEMMA CaughtUpOwnEntry ==
  ASSUME TypeOK, NEW p \in Pulls, NEW tip, OwnEntry(p, tip),
         NEW version \in 1..MaxMain, NEW push \in Nat,
         NEW commit, commit = CaughtUp(tip, version, push)
  PROVE  /\ commit \in Commits /\ OwnEntry(p, commit)
         /\ commit.base = version /\ trunk[version] \subseteq commit.done
         /\ tip.done = trunk[tip.base] => commit.done = trunk[version]
<1> DEFINE done == MergedWith(tip, trunk[version])
<1>1. done = trunk[version] \/ (Resolved(p) /\ done = trunk[version] \cup Named[p])
  BY MergedOwnEntry
<1>2. trunk[version] \in SUBSET Tasks /\ Named[p] \in SUBSET Tasks
  BY StatusGateAssumption DEF TypeOK
<1>3. done \in SUBSET Tasks
  BY <1>1, <1>2
<1>4. commit = [base |-> version, done |-> done, push |-> push]
  BY DEF CaughtUp
<1>5. tip.done = trunk[tip.base] => done = trunk[version]
  BY DEF MergedWith
<1> HIDE DEF done
<1> QED BY <1>1, <1>3, <1>4, <1>5 DEF Commits, OwnEntry

\* So is one in which the task is completed.
LEMMA CompletingOwnEntry ==
  ASSUME TypeOK, NEW p \in Pulls, NEW tip \in Commits, OwnEntry(p, tip),
         NEW completed, completed = {} \/ (Resolved(p) /\ completed = Named[p]),
         NEW push \in Nat
  PROVE  LET commit == Completing(tip, completed, push) IN
           /\ commit \in Commits /\ OwnEntry(p, commit) /\ commit.base = tip.base
           /\ tip.done \subseteq commit.done /\ (completed = {} => commit.done = tip.done)
<1>1. /\ tip.base \in 1..MaxMain /\ tip.done \in SUBSET Tasks
      /\ completed \in SUBSET Tasks
  BY StatusGateAssumption DEF Commits
<1>2. Completing(tip, completed, push) =
        [base |-> tip.base, done |-> tip.done \cup completed, push |-> push]
  BY DEF Completing
<1>3. (tip.done \cup completed) \in SUBSET Tasks
  BY <1>1
<1> QED BY <1>1, <1>2, <1>3 DEF Commits, OwnEntry

\* The tip is one of the commits.
LEMMA TipOf ==
  ASSUME NEW p \in Pulls, NEW commits \in Seq(Commits), commits # <<>>, Sound(p, commits)
  PROVE  /\ Last(commits) \in Commits
         /\ OwnEntry(p, Last(commits)) /\ Last(commits).base <= main
         /\ Len(commits) \in 1..Len(commits) /\ Last(commits) = commits[Len(commits)]
<1>1. Len(commits) \in 1..Len(commits)
  BY EmptySeq, LenProperties
<1> QED BY <1>1, ElementOfSeq DEF Sound, Last

\* A commit more, on top of the others.
LEMMA Committed ==
  ASSUME NEW p \in Pulls, NEW commits \in Seq(Commits), Sound(p, commits),
         NEW commit \in Commits, OwnEntry(p, commit), commit.base <= main
  PROVE  LET new == Append(commits, commit) IN
           /\ new \in Seq(Commits) \ {<<>>} /\ Sound(p, new) /\ Last(new) = commit
<1> DEFINE new == Append(commits, commit)
<1>1. /\ new \in Seq(Commits) /\ new # <<>> /\ Len(new) = Len(commits) + 1
      /\ \A i \in 1..Len(commits) : new[i] = commits[i]
      /\ new[Len(commits) + 1] = commit
  BY AppendProperties
<1>2. Len(commits) \in Nat
  BY LenProperties
<1> HIDE DEF new
<1>3. \A i \in 1..Len(new) : i \in 1..Len(commits) \/ i = Len(commits) + 1
  BY <1>1, <1>2
<1>4. Sound(p, new)
  BY <1>1, <1>3 DEF Sound
<1>5. new \in Seq(Commits) \ {<<>>} /\ Last(new) = commit
  BY <1>1 DEF Last
<1> QED BY <1>4, <1>5 DEF new

\* What lies behind commits lies behind them with one more on top.
LEMMA PrefixCommitted ==
  ASSUME NEW commits \in Seq(Commits), NEW behind \in Seq(Commits), NEW commit \in Commits,
         IsPrefix(behind, commits)
  PROVE  IsPrefix(behind, Append(commits, commit))
<1> DEFINE new == Append(commits, commit)
           n   == Len(behind)
<1>1. /\ new \in Seq(Commits) /\ Len(new) = Len(commits) + 1
      /\ \A i \in 1..Len(commits) : new[i] = commits[i]
  BY AppendProperties
<1>2. n \in Nat /\ Len(commits) \in Nat /\ n <= Len(commits)
  BY LenProperties DEF IsPrefix
<1>3. \A i \in 1..n : i \in 1..Len(commits) /\ i \in 1..Len(new)
  BY <1>1, <1>2
<1>4. \A i \in 1..n : commits[i] \in Commits /\ new[i] \in Commits /\ new[i] = commits[i]
  BY <1>1, <1>3, ElementOfSeq
<1>5. SubSeq(new, 1, n) \in Seq(Commits) /\ SubSeq(commits, 1, n) \in Seq(Commits)
  BY <1>2, <1>4, SubSeqProperties
<1>6. /\ Len(SubSeq(new, 1, n)) = Len(SubSeq(commits, 1, n))
      /\ \A i \in 1..n : SubSeq(new, 1, n)[i] = new[1 + i - 1]
                         /\ SubSeq(commits, 1, n)[i] = commits[1 + i - 1]
      /\ Len(SubSeq(commits, 1, n)) = IF 1 <= n THEN n - 1 + 1 ELSE 0
  <2>1. \A i \in 1..(n - 1 + 1) : i \in 1..n
    BY <1>2
  <2> QED BY <1>2, <1>4, <2>1, SubSeqProperties
<1>7. Len(SubSeq(commits, 1, n)) = n
  BY <1>2, <1>6
<1> HIDE DEF new, n
<1>8. \A i \in 1..n : 1 + i - 1 = i
  BY <1>2
<1>9. SubSeq(new, 1, n) = SubSeq(commits, 1, n)
  BY <1>4, <1>5, <1>6, <1>7, <1>8, SeqEqual
<1> QED BY <1>1, <1>2, <1>9 DEF IsPrefix, new, n

\* Taken back to an earlier commit.
LEMMA TakenBack ==
  ASSUME NEW p \in Pulls, NEW commits \in Seq(Commits), Sound(p, commits),
         NEW n \in 1..Len(commits)
  PROVE  LET old == SubSeq(commits, 1, n) IN
           /\ old \in Seq(Commits) \ {<<>>} /\ Sound(p, old) /\ Len(old) = n
           /\ \A i \in 1..n : old[i] = commits[i]
<1>1. n \in Nat /\ 1 <= n /\ n <= Len(commits) /\ Len(commits) \in Nat
  BY LenProperties
<1>2. \A i \in 1..n : commits[i] \in Commits
  BY <1>1, ElementOfSeq
<1> DEFINE old == SubSeq(commits, 1, n)
<1>3. /\ old \in Seq(Commits) /\ Len(old) = IF 1 <= n THEN n - 1 + 1 ELSE 0
      /\ \A i \in 1..(n - 1 + 1) : old[i] = commits[1 + i - 1]
  BY <1>1, <1>2, SubSeqProperties
<1> HIDE DEF old
<1>4. Len(old) = n /\ \A i \in 1..n : old[i] = commits[i]
  BY <1>1, <1>3
<1>5. Sound(p, old)
  BY <1>1, <1>4 DEF Sound
<1>6. old # <<>>
  BY <1>1, <1>4, EmptySeq
<1> QED BY <1>3, <1>4, <1>5, <1>6 DEF old

\* Replayed on main.
LEMMA Replayed ==
  ASSUME TypeOK, NEW p \in Pulls, NEW commits \in Seq(Commits), Sound(p, commits),
         NEW n \in 1..Len(commits), NEW push \in Nat,
         NEW new, DOMAIN new = 1..n, new = [i \in DOMAIN new |-> new[i]],
         \A i \in 1..n : new[i] = CaughtUp(commits[i], main, push)
  PROVE  /\ new \in Seq(Commits) \ {<<>>} /\ Sound(p, new) /\ Len(new) = n
         /\ \A i \in 1..n : commits[i].done = trunk[commits[i].base] =>
                              new[i].done = trunk[new[i].base]
<1>1. n \in Nat /\ 1 <= n /\ n <= Len(commits) /\ Len(commits) \in Nat
  BY LenProperties
<1>2. main \in 1..MaxMain /\ main <= main
  BY MainBounded
<1>3. ASSUME NEW i \in 1..n
      PROVE  /\ new[i] \in Commits /\ OwnEntry(p, new[i]) /\ new[i].base = main
             /\ commits[i].done = trunk[commits[i].base] => new[i].done = trunk[new[i].base]
  <2>1. OwnEntry(p, commits[i])
    BY <1>1 DEF Sound
  <2>2. new[i] = CaughtUp(commits[i], main, push)
    OBVIOUS
  <2>3. main \in 1..MaxMain
    BY <1>2
  <2> QED BY <2>1, <2>2, <2>3, CaughtUpOwnEntry
<1>4. new \in [1..n -> Commits] /\ DOMAIN new = 1..n
  BY <1>3
<1>5. new \in Seq(Commits)
  BY <1>1, <1>4, SeqDef
<1>6. Len(new) = n
  BY <1>1, <1>4, <1>5, LenProperties
<1>7. Sound(p, new)
  BY <1>2, <1>3, <1>6 DEF Sound
<1>8. new # <<>>
  BY <1>1, <1>6, EmptySeq
<1> QED BY <1>3, <1>5, <1>6, <1>7, <1>8

------------------------------------------------------------------------------
(* The steps *)

\* The branches after one of them has been moved to commits the invariant admits.
LEMMA MovedBranch ==
  ASSUME IInv, NEW p \in Pulls, NEW commits \in Seq(Commits) \ {<<>>}, Sound(p, commits),
         branch' = [branch EXCEPT ![p] = commits], UNCHANGED <<main, trunk>>
  PROVE  branch' \in [Pulls -> Seq(Commits) \ {<<>>}] /\ BranchesSound'
<1>1. branch' \in [Pulls -> Seq(Commits) \ {<<>>}]
  BY DEF IInv, TypeOK
<1>2. \A q \in Pulls : branch'[q] = IF q = p THEN commits ELSE branch[q]
  BY DEF IInv, TypeOK
<1>3. \A q \in Pulls : Sound(q, branch'[q])
  BY <1>2 DEF IInv, BranchesSound
<1>4. BranchesSound'
  BY <1>3 DEF BranchesSound, Sound, OwnEntry, Resolved
<1> QED BY <1>1, <1>4

\* What jobs know stays true while main and the jobs stay.
LEMMA JobsStay ==
  ASSUME IInv, UNCHANGED <<main, trunk, job, head, fetched>>
  PROVE  JobsSound' /\ Past'
BY DEF IInv, JobsSound, Past, Sound, OwnEntry, Resolved

\* A job that ends, or is started afresh, leaves the invariant's part about jobs.
LEMMA EndedJob ==
  ASSUME IInv, NEW p \in Pulls, NEW step \in {"none", "queued"},
         job' = [job EXCEPT ![p] = step],
         head' = [head EXCEPT ![p] = <<>>], fetched' = [fetched EXCEPT ![p] = 1],
         UNCHANGED <<main, trunk>>
  PROVE  /\ job' \in [Pulls -> {"none", "queued"} \cup Working]
         /\ head' \in [Pulls -> Seq(Commits)] /\ fetched' \in [Pulls -> 1..MaxMain]
         /\ JobsSound' /\ Past'
<1>1. <<>> \in Seq(Commits) /\ 1 \in 1..MaxMain /\ 1 <= main
  <2>1. main \in 1..MaxMain
    BY DEF IInv, TypeOK
  <2> QED BY <2>1, StatusGateAssumption, EmptySeq
<1>2. /\ job' \in [Pulls -> {"none", "queued"} \cup Working]
      /\ head' \in [Pulls -> Seq(Commits)] /\ fetched' \in [Pulls -> 1..MaxMain]
  BY <1>1 DEF IInv, TypeOK, Working
<1>3. \A q \in Pulls : q # p => job'[q] = job[q] /\ head'[q] = head[q] /\ fetched'[q] = fetched[q]
  BY DEF IInv, TypeOK
<1>4. job'[p] \notin Working /\ job'[p] # "stamping" /\ fetched'[p] = 1
  BY DEF IInv, TypeOK, Working
<1>5. \A q \in Pulls :
        /\ job'[q] \in Working => Resolved(q) /\ head'[q] # <<>> /\ Sound(q, head'[q])
        /\ job'[q] = "stamping" => Last(head'[q]).base = fetched'[q]
  BY <1>3, <1>4 DEF IInv, JobsSound
<1>6. JobsSound'
  BY <1>5 DEF JobsSound, Sound, OwnEntry, Resolved
<1>7. Past'
  BY <1>1, <1>3, <1>4 DEF IInv, Past
<1> QED BY <1>2, <1>6, <1>7

\* Ending a job keeps the invariant.
LEMMA EndingKeeps ==
  ASSUME IInv, NEW p \in Pulls, Ends(p), UNCHANGED <<people, branch>>
  PROVE  IInv'
<1>1. /\ job' = [job EXCEPT ![p] = "none"]
      /\ head' = [head EXCEPT ![p] = <<>>] /\ fetched' = [fetched EXCEPT ![p] = 1]
      /\ UNCHANGED <<main, trunk, open, approved, pushes, branch>>
  BY DEF Ends, Goes, people
<1>2. /\ job' \in [Pulls -> {"none", "queued"} \cup Working]
      /\ head' \in [Pulls -> Seq(Commits)] /\ fetched' \in [Pulls -> 1..MaxMain]
      /\ JobsSound' /\ Past'
  BY <1>1, EndedJob
<1>3. TypeOK'
  BY <1>1, <1>2 DEF IInv, TypeOK, Working
<1>4. BranchesSound'
  BY <1>1 DEF IInv, BranchesSound, Sound, OwnEntry, Resolved
<1> QED BY <1>2, <1>3, <1>4 DEF IInv

\* So does a push of a commit the invariant admits, on top of what was checked out.
LEMMA PushKeeps ==
  ASSUME IInv, NEW p \in Pulls, Sound(p, head[p]), NEW commit \in Commits,
         OwnEntry(p, commit), commit.base <= main, PushesHead(p, commit)
  PROVE  IInv'
<1> DEFINE new == Append(head[p], commit)
<1>1. /\ job' = [job EXCEPT ![p] = "none"]
      /\ head' = [head EXCEPT ![p] = <<>>] /\ fetched' = [fetched EXCEPT ![p] = 1]
      /\ branch' = [branch EXCEPT ![p] = new]
      /\ UNCHANGED <<main, trunk, open, approved, pushes>>
  BY DEF PushesHead, Ends, Goes, people
<1>2. /\ job' \in [Pulls -> {"none", "queued"} \cup Working]
      /\ head' \in [Pulls -> Seq(Commits)] /\ fetched' \in [Pulls -> 1..MaxMain]
      /\ JobsSound' /\ Past'
  BY <1>1, EndedJob
<1>3. head[p] \in Seq(Commits)
  BY DEF IInv, TypeOK
<1>4. new \in Seq(Commits) \ {<<>>} /\ Sound(p, new)
  BY <1>3, Committed
<1> HIDE DEF new
<1>5. branch' \in [Pulls -> Seq(Commits) \ {<<>>}] /\ BranchesSound'
  BY <1>1, <1>4, MovedBranch
<1>6. TypeOK'
  BY <1>1, <1>2, <1>5 DEF IInv, TypeOK, Working
<1> QED BY <1>2, <1>5, <1>6 DEF IInv

\* What a job that is about to push knows.
LEMMA JobKnows ==
  ASSUME IInv, NEW p \in Pulls, job[p] \in Working
  PROVE  /\ Resolved(p) /\ head[p] \in Seq(Commits) /\ head[p] # <<>> /\ Sound(p, head[p])
         /\ Last(head[p]) \in Commits /\ OwnEntry(p, Last(head[p]))
         /\ Last(head[p]).base <= main
         /\ fetched[p] \in 1..MaxMain /\ fetched[p] <= main
         /\ trunk[Last(head[p]).base] \subseteq Last(head[p]).done
<1>1. Resolved(p) /\ head[p] \in Seq(Commits) /\ head[p] # <<>> /\ Sound(p, head[p])
  BY DEF IInv, TypeOK, JobsSound
<1>2. Last(head[p]) \in Commits /\ OwnEntry(p, Last(head[p])) /\ Last(head[p]).base <= main
  BY <1>1, TipOf
<1>3. trunk[Last(head[p]).base] \subseteq Last(head[p]).done
  BY <1>2 DEF OwnEntry
<1> QED BY <1>1, <1>2, <1>3 DEF IInv, TypeOK, Past

\* The steps of a job keep the invariant.
LEMMA CheckoutKeeps ==
  ASSUME IInv, NEW p \in Pulls, Checkout(p)
  PROVE  IInv'
<1>1. CASE p \notin Exempt /\ Resolved(p) /\ ~(Named[p] \subseteq Last(branch[p]).done)
  <2>1. /\ job' = [job EXCEPT ![p] = "resolved"] /\ head' = [head EXCEPT ![p] = branch[p]]
        /\ UNCHANGED <<main, trunk, open, approved, pushes, branch, fetched>>
    BY <1>1 DEF Checkout, Goes, people
  <2>2. TypeOK'
    BY <2>1 DEF IInv, TypeOK
  <2>3. /\ \A q \in Pulls : q # p => job'[q] = job[q] /\ head'[q] = head[q]
        /\ head'[p] = branch[p] /\ job'[p] = "resolved" /\ branch[p] # <<>>
    BY <2>1 DEF IInv, TypeOK
  <2>4. \A q \in Pulls :
          /\ job'[q] \in Working => Resolved(q) /\ head'[q] # <<>> /\ Sound(q, head'[q])
          /\ job'[q] = "stamping" => Last(head'[q]).base = fetched[q]
    BY <1>1, <2>3 DEF IInv, JobsSound, BranchesSound
  <2>5. JobsSound'
    BY <2>1, <2>4 DEF JobsSound, Sound, OwnEntry, Resolved
  <2>6. BranchesSound' /\ Past'
    BY <2>1 DEF IInv, BranchesSound, Sound, OwnEntry, Resolved, Past
  <2> QED BY <2>2, <2>5, <2>6 DEF IInv
<1>2. CASE ~(p \notin Exempt /\ Resolved(p) /\ ~(Named[p] \subseteq Last(branch[p]).done))
  <2>1. Ends(p) /\ UNCHANGED <<people, branch>>
    BY <1>2 DEF Checkout
  <2> QED BY <2>1, EndingKeeps
<1> QED BY <1>1, <1>2

LEMMA FetchKeeps ==
  ASSUME IInv, NEW p \in Pulls, Fetch(p)
  PROVE  IInv'
<1>1. CASE p \in Forks
  <2>1. Ends(p) /\ UNCHANGED <<people, branch>>
    BY <1>1 DEF Fetch
  <2> QED BY <2>1, EndingKeeps
<1>2. CASE p \notin Forks
  <2>1. PICK step \in {"stamping", "catching up"} :
          /\ job' = [job EXCEPT ![p] = step]
          /\ step = "stamping" => Last(head[p]).base = main
    BY <1>2 DEF Fetch, Goes
  <2>2. /\ job[p] = "resolved" /\ fetched' = [fetched EXCEPT ![p] = main]
        /\ UNCHANGED <<main, trunk, open, approved, pushes, branch, head>>
    BY <1>2 DEF Fetch, people
  <2>3. TypeOK'
    BY <2>1, <2>2 DEF IInv, TypeOK
  <2>4. /\ \A q \in Pulls : q # p => job'[q] = job[q] /\ fetched'[q] = fetched[q]
        /\ job'[p] = step /\ fetched'[p] = main /\ job[p] \in Working
    BY <2>1, <2>2 DEF IInv, TypeOK, Working
  <2>5. \A q \in Pulls :
          /\ job'[q] \in Working => Resolved(q) /\ head[q] # <<>> /\ Sound(q, head[q])
          /\ job'[q] = "stamping" => Last(head[q]).base = fetched'[q]
    BY <2>1, <2>4 DEF IInv, JobsSound
  <2>6. JobsSound'
    BY <2>2, <2>5 DEF JobsSound, Sound, OwnEntry, Resolved
  <2>7. Past'
    <3>1. main <= main
      BY MainBounded DEF IInv
    <3> QED BY <2>2, <2>4, <3>1 DEF IInv, Past
  <2>8. BranchesSound'
    BY <2>2 DEF IInv, BranchesSound, Sound, OwnEntry, Resolved
  <2> QED BY <2>3, <2>6, <2>7, <2>8 DEF IInv
<1> QED BY <1>1, <1>2

LEMMA StampKeeps ==
  ASSUME IInv, NEW p \in Pulls, Stamp(p)
  PROVE  IInv'
<1> DEFINE commit == Completing(Last(head[p]), Named[p], 0)
<1>1. PushesHead(p, commit) /\ job[p] \in Working
  BY DEF Stamp, Working
<1>2. /\ TypeOK /\ Last(head[p]) \in Commits /\ OwnEntry(p, Last(head[p])) /\ Resolved(p)
      /\ Named[p] = {} \/ (Resolved(p) /\ Named[p] = Named[p])
      /\ 0 \in Nat
  BY <1>1, JobKnows DEF IInv
<1>3. commit \in Commits /\ OwnEntry(p, commit) /\ commit.base = Last(head[p]).base
  BY <1>2, CompletingOwnEntry
<1> HIDE DEF commit
<1> QED BY <1>1, <1>3, JobKnows, PushKeeps

\* What a catch-up commits is told every completion of the main it fetched.
LEMMA CatchUpCommits ==
  ASSUME IInv, NEW p \in Pulls, job[p] \in Working,
         NEW commit, commit = CaughtUp(Last(head[p]), fetched[p], 0)
  PROVE  /\ commit \in Commits /\ OwnEntry(p, commit) /\ commit.base <= main
         /\ trunk[fetched[p]] \subseteq commit.done
<1>1. /\ OwnEntry(p, Last(head[p])) /\ fetched[p] \in 1..MaxMain /\ fetched[p] <= main
      /\ TypeOK /\ 0 \in Nat
  BY JobKnows DEF IInv
<1> QED BY <1>1, CaughtUpOwnEntry

LEMMA CatchUpKeeps ==
  ASSUME IInv, NEW p \in Pulls, CatchUp(p)
  PROVE  IInv'
<1> DEFINE commit == CaughtUp(Last(head[p]), fetched[p], 0)
<1>1. PushesHead(p, commit) /\ job[p] \in Working
  BY DEF CatchUp, Working
<1>2. commit \in Commits /\ OwnEntry(p, commit) /\ commit.base <= main
  BY <1>1, CatchUpCommits
<1> HIDE DEF commit
<1> QED BY <1>1, <1>2, JobKnows, PushKeeps

LEMMA JobKeeps ==
  ASSUME IInv, NEW p \in Pulls, Job(p)
  PROVE  IInv'
BY CheckoutKeeps, FetchKeeps, StampKeeps, CatchUpKeeps DEF Job

\* A new version of main leaves the ones before it, and so what the commits contain.
LEMMA GrowthKeeps ==
  ASSUME IInv, NEW completed \in SUBSET Tasks, Grows(completed),
         open' \subseteq open, UNCHANGED <<branch, pushes, approved, job, head, fetched>>
  PROVE  IInv'
<1>1. TypeOK /\ BranchesSound /\ JobsSound /\ Past
  BY DEF IInv
<1>2. main \in 1..MaxMain /\ main < MaxMain /\ main' = main + 1
      /\ trunk' = [trunk EXCEPT ![main + 1] = completed]
  BY <1>1 DEF Grows, TypeOK
<1>3. main' \in 1..MaxMain /\ main \in Nat
  BY <1>2, StatusGateAssumption
<1>4. TypeOK'
  BY <1>1, <1>2, <1>3 DEF TypeOK
<1>5. \A v \in 1..MaxMain : v <= main => trunk'[v] = trunk[v] /\ v <= main'
  <2>1. trunk \in [1..MaxMain -> SUBSET Tasks]
    BY <1>1 DEF TypeOK
  <2> QED BY <1>2, <1>3, <2>1
<1>6. \A c \in Commits : c.base \in 1..MaxMain
  BY DEF Commits
<1>7. \A q \in Pulls, c \in Commits :
        c.base <= main /\ OwnEntry(q, c) => OwnEntry(q, c)' /\ c.base <= main'
  BY <1>5, <1>6 DEF OwnEntry, Resolved
<1>8. ASSUME NEW q \in Pulls, NEW commits \in Seq(Commits), Sound(q, commits)
      PROVE  \A i \in 1..Len(commits) : OwnEntry(q, commits[i])' /\ commits[i].base <= main'
  BY <1>7, <1>8, ElementOfSeq DEF Sound
<1>9. \A q \in Pulls : branch[q] \in Seq(Commits) /\ head[q] \in Seq(Commits)
                       /\ fetched[q] \in 1..MaxMain
  BY <1>1 DEF TypeOK
<1>10. Past'
  BY <1>1, <1>5, <1>9 DEF Past
<1>11. BranchesSound'
  BY <1>1, <1>8, <1>9 DEF BranchesSound, Sound
<1>12. \A q \in Pulls : Resolved(q) => Resolved(q)'
  BY DEF Resolved
<1>13. JobsSound'
  BY <1>1, <1>8, <1>9, <1>12 DEF JobsSound, Sound
<1> QED BY <1>4, <1>10, <1>11, <1>13 DEF IInv

\* What reviewers and authors do keeps the invariant.
LEMMA MovingKeeps ==
  ASSUME IInv, NEW p \in Pulls, NEW commits \in Seq(Commits) \ {<<>>}, Sound(p, commits),
         pushes' \in [Pulls -> Nat], MovesBranch(p, commits)
  PROVE  IInv'
<1>1. /\ branch' = [branch EXCEPT ![p] = commits]
      /\ UNCHANGED <<main, trunk, open, approved, job, head, fetched>>
  BY DEF MovesBranch, gate
<1>2. branch' \in [Pulls -> Seq(Commits) \ {<<>>}] /\ BranchesSound'
  BY <1>1, MovedBranch
<1>3. TypeOK'
  BY <1>1, <1>2 DEF IInv, TypeOK
<1> QED BY <1>1, <1>2, <1>3, JobsStay DEF IInv

LEMMA NumberedPushes ==
  ASSUME IInv, NEW p \in Pulls
  PROVE  pushes[p] + 1 \in Nat /\ (Numbered(p) => pushes' \in [Pulls -> Nat])
<1>1. pushes \in [Pulls -> Nat]
  BY DEF IInv, TypeOK
<1>2. pushes[p] + 1 \in Nat
  BY <1>1
<1> QED BY <1>1, <1>2 DEF Numbered

LEMMA AddingKeeps ==
  ASSUME IInv, NEW p \in Pulls, NEW commit \in Commits, OwnEntry(p, commit),
         commit.base <= main, Adds(p, commit)
  PROVE  IInv'
<1> DEFINE new == Append(branch[p], commit)
<1>1. branch[p] \in Seq(Commits) /\ Sound(p, branch[p])
  BY DEF IInv, TypeOK, BranchesSound
<1>2. new \in Seq(Commits) \ {<<>>} /\ Sound(p, new)
  BY <1>1, Committed
<1>3. pushes' \in [Pulls -> Nat] /\ MovesBranch(p, new)
  BY NumberedPushes DEF Adds
<1> HIDE DEF new
<1> QED BY <1>2, <1>3, MovingKeeps

LEMMA AuthorKeeps ==
  ASSUME IInv, NEW p \in Pulls, Author(p)
  PROVE  IInv'
<1> DEFINE tip == Last(branch[p])
           next == pushes[p] + 1
<1>1. /\ branch[p] \in Seq(Commits) /\ branch[p] # <<>> /\ Sound(p, branch[p]) /\ TypeOK
      /\ next \in Nat
  BY NumberedPushes DEF IInv, TypeOK, BranchesSound
<1>2. tip \in Commits /\ OwnEntry(p, tip) /\ tip.base <= main
  BY <1>1, TipOf
<1>3. main \in 1..MaxMain /\ main <= main
  BY <1>1, MainBounded
<1> HIDE DEF tip, next
<1>4. CASE Push(p)
  <2> DEFINE commit == Completing(tip, {}, next)
  <2>1. Adds(p, commit)
    BY <1>4 DEF Push, tip, next
  <2>2. commit \in Commits /\ OwnEntry(p, commit) /\ commit.base = tip.base
    BY <1>1, <1>2, CompletingOwnEntry
  <2> HIDE DEF commit
  <2> QED BY <1>2, <2>1, <2>2, AddingKeeps
<1>5. CASE AuthorCatchesUp(p)
  <2> DEFINE commit == CaughtUp(tip, main, next)
  <2>1. Adds(p, commit)
    BY <1>5 DEF AuthorCatchesUp, tip, next
  <2>2. commit \in Commits /\ OwnEntry(p, commit) /\ commit.base = main
    BY <1>1, <1>2, <1>3, CaughtUpOwnEntry
  <2> HIDE DEF commit
  <2> QED BY <1>3, <2>1, <2>2, AddingKeeps
<1>6. CASE CompleteByHand(p)
  <2> DEFINE commit == Completing(tip, Named[p], next)
  <2>1. Adds(p, commit) /\ Resolved(p)
    BY <1>6 DEF CompleteByHand, tip, next
  <2>2. Named[p] = {} \/ (Resolved(p) /\ Named[p] = Named[p])
    BY <2>1
  <2>3. commit \in Commits /\ OwnEntry(p, commit) /\ commit.base = tip.base
    BY <1>1, <1>2, <2>2, CompletingOwnEntry
  <2> HIDE DEF commit
  <2> QED BY <1>2, <2>1, <2>3, AddingKeeps
<1>7. DOMAIN branch[p] = 1..Len(branch[p])
  BY <1>1, LenProperties
<1>8. ASSUME NEW n \in DOMAIN branch[p], Rewrite(p, n) PROVE IInv'
  <2> DEFINE new == [i \in 1..n |-> CaughtUp(branch[p][i], main, next)]
  <2>1. MovesBranch(p, new) /\ pushes' \in [Pulls -> Nat]
    BY <1>8, NumberedPushes DEF Rewrite, next
  <2>2. n \in 1..Len(branch[p])
    BY <1>7, <1>8
  <2>3. /\ DOMAIN new = 1..n /\ new = [i \in DOMAIN new |-> new[i]]
        /\ \A i \in 1..n : new[i] = CaughtUp(branch[p][i], main, next)
    OBVIOUS
  <2> HIDE DEF new
  <2>4. new \in Seq(Commits) \ {<<>>} /\ Sound(p, new)
    BY <1>1, <2>2, <2>3, Replayed
  <2> QED BY <2>1, <2>4, MovingKeeps
<1>9. ASSUME NEW n \in DOMAIN branch[p], Rewind(p, n) PROVE IInv'
  <2> DEFINE new == SubSeq(branch[p], 1, n)
  <2>1. MovesBranch(p, new) /\ pushes' \in [Pulls -> Nat]
    BY <1>9 DEF Rewind, IInv, TypeOK
  <2>2. new \in Seq(Commits) \ {<<>>} /\ Sound(p, new)
    BY <1>1, <1>7, TakenBack
  <2> HIDE DEF new
  <2> QED BY <2>1, <2>2, MovingKeeps
<1> QED BY <1>4, <1>5, <1>6, <1>8, <1>9 DEF Author

\* What main records once a pull request is merged: its own task more, at most.
LEMMA MergedRecord ==
  ASSUME IInv, NEW p \in Pulls
  PROVE  LET merged == MergedWith(Last(branch[p]), trunk[main]) IN
           /\ merged \in SUBSET Tasks
           /\ trunk[main] \subseteq merged /\ merged \subseteq trunk[main] \cup Named[p]
<1>1. branch[p] \in Seq(Commits) /\ branch[p] # <<>> /\ Sound(p, branch[p])
  BY DEF IInv, TypeOK, BranchesSound
<1>2. OwnEntry(p, Last(branch[p])) /\ trunk[main] \in SUBSET Tasks /\ Named[p] \in SUBSET Tasks
  BY <1>1, TipOf, StatusGateAssumption DEF IInv, TypeOK
<1> QED BY <1>2, MergedOwnEntry

LEMMA MergeKeeps ==
  ASSUME IInv, NEW p \in Pulls, Merge(p)
  PROVE  IInv'
<1> DEFINE merged == MergedWith(Last(branch[p]), trunk[main])
<1>1. merged \in SUBSET Tasks
  BY MergedRecord
<1>2. /\ Grows(merged) /\ open' \subseteq open
      /\ UNCHANGED <<branch, pushes, approved, job, head, fetched>>
  BY DEF Merge, gate
<1> HIDE DEF merged
<1> QED BY <1>1, <1>2, GrowthKeeps

LEMMA ApproveKeeps ==
  ASSUME IInv, NEW p \in Pulls, Approve(p)
  PROVE  IInv'
<1>1. /\ approved' \subseteq Pulls /\ job' = [job EXCEPT ![p] = "queued"]
      /\ head' = [head EXCEPT ![p] = <<>>] /\ fetched' = [fetched EXCEPT ![p] = 1]
      /\ UNCHANGED <<main, trunk, branch, pushes, open>>
  BY DEF Approve, Goes, IInv, TypeOK
<1>2. /\ job' \in [Pulls -> {"none", "queued"} \cup Working]
      /\ head' \in [Pulls -> Seq(Commits)] /\ fetched' \in [Pulls -> 1..MaxMain]
      /\ JobsSound' /\ Past'
  BY <1>1, EndedJob
<1>3. TypeOK'
  BY <1>1, <1>2 DEF IInv, TypeOK, Working
<1>4. BranchesSound'
  BY <1>1 DEF IInv, BranchesSound, Sound, OwnEntry, Resolved
<1> QED BY <1>2, <1>3, <1>4 DEF IInv

\* The invariant is inductive.
THEOREM Inductive == Spec => []IInv
<1>1. Init => IInv
  <2> SUFFICES ASSUME Init PROVE IInv
    OBVIOUS
  <2>1. /\ 1 \in 1..MaxMain /\ FirstCommit \in Commits
        /\ FirstCommit.done = {} /\ FirstCommit.base = 1
    BY StatusGateAssumption DEF FirstCommit, Commits
  <2>2. /\ <<FirstCommit>> \in Seq(Commits) \ {<<>>} /\ Len(<<FirstCommit>>) = 1
        /\ <<FirstCommit>>[1] = FirstCommit /\ <<>> \in Seq(Commits)
    BY <2>1, EmptySeq
  <2>3. TypeOK
    BY <2>1, <2>2 DEF Init, TypeOK
  <2>4. \A p \in Pulls : branch[p] = <<FirstCommit>> /\ fetched[p] = 1
                         /\ job[p] \notin Working /\ job[p] # "stamping"
    BY DEF Init, Working
  <2>5. trunk[1] = {} /\ main = 1
    BY <2>1 DEF Init
  <2>6. \A p \in Pulls : Sound(p, <<FirstCommit>>)
    BY <2>1, <2>2, <2>5 DEF Sound, OwnEntry
  <2> QED BY <2>3, <2>4, <2>5, <2>6 DEF IInv, BranchesSound, JobsSound, Past
<1>2. IInv /\ [Next]_vars => IInv'
  <2> SUFFICES ASSUME IInv, [Next]_vars PROVE IInv'
    OBVIOUS
  <2>1. ASSUME NEW p \in Pulls, Job(p) PROVE IInv'
    BY <2>1, JobKeeps
  <2>2. ASSUME NEW p \in Pulls, JobEnds(p) PROVE IInv'
    BY <2>2, EndingKeeps DEF JobEnds
  <2>3. ASSUME NEW p \in Pulls, Author(p) PROVE IInv'
    BY <2>3, AuthorKeeps
  <2>4. ASSUME NEW p \in Pulls, Approve(p) PROVE IInv'
    BY <2>4, ApproveKeeps
  <2>5. ASSUME NEW p \in Pulls, Merge(p) PROVE IInv'
    BY <2>5, MergeKeeps
  <2>6. ASSUME NEW completed \in SUBSET Tasks, Replan(completed) PROVE IInv'
    BY <2>6, GrowthKeeps DEF Replan, gate
  <2>7. CASE UNCHANGED vars
    BY <2>7, JobsStay DEF vars, IInv, TypeOK, BranchesSound, Sound, OwnEntry, Resolved
  <2> QED BY <2>1, <2>2, <2>3, <2>4, <2>5, <2>6, <2>7 DEF Next
<1> QED BY <1>1, <1>2, PTL DEF Spec

THEOREM TypeCorrect == Spec => []TypeOK
BY Inductive, PTL DEF IInv

\* No order of fetches, stamps, rewrites, rewinds and merges gives a branch a tracker
\* that reverts a completion, or adds another's, relative to the main it contains.
THEOREM TrackersDifferByOwnEntry == Spec => []OwnEntryOnly
<1>1. IInv => OwnEntryOnly
  BY TipOf DEF IInv, TypeOK, BranchesSound, OwnEntryOnly
<1> QED BY <1>1, Inductive, PTL

\* Merging a pull request reverts no completion, and completes its own task at most.
THEOREM MergesRevertNothing == Spec => MergesTouchOwnEntry
<1>1. IInv /\ [Next]_vars =>
        [\A p \in Pulls : p \in open \ open' =>
           /\ trunk[main] \subseteq trunk'[main']
           /\ trunk'[main'] \subseteq trunk[main] \cup Named[p]]_vars
  <2> SUFFICES ASSUME IInv, Next, NEW p \in Pulls, p \in open \ open'
               PROVE  trunk[main] \subseteq trunk'[main']
                      /\ trunk'[main'] \subseteq trunk[main] \cup Named[p]
    BY DEF vars
  <2>1. Merge(p)
    <3>1. \A q \in Pulls : Job(q) \/ JobEnds(q) \/ Author(q) \/ Approve(q) => open' = open
      BY DEF Job, Checkout, Fetch, Stamp, CatchUp, PushesHead, Author, Push, AuthorCatchesUp,
             CompleteByHand, Adds, Rewrite, Rewind, MovesBranch, JobEnds, Approve, people
    <3>2. \A completed \in SUBSET Tasks : Replan(completed) => open' = open
      BY DEF Replan
    <3>3. PICK q \in Pulls : Merge(q)
      BY <3>1, <3>2 DEF Next
    <3>4. open' = open \ {q}
      BY <3>3 DEF Merge
    <3> QED BY <3>3, <3>4
  <2> DEFINE merged == MergedWith(Last(branch[p]), trunk[main])
  <2>2. trunk[main] \subseteq merged /\ merged \subseteq trunk[main] \cup Named[p]
    BY MergedRecord
  <2>3. trunk'[main'] = merged
    <3>1. main' = main + 1 /\ main < MaxMain /\ trunk' = [trunk EXCEPT ![main + 1] = merged]
      BY <2>1 DEF Merge, Grows
    <3>2. main + 1 \in 1..MaxMain /\ trunk \in [1..MaxMain -> SUBSET Tasks]
      <4>1. TypeOK
        BY DEF IInv
      <4>2. main \in Nat /\ MaxMain \in Nat
        BY <4>1, MainBounded
      <4>3. trunk \in [1..MaxMain -> SUBSET Tasks]
        BY <4>1 DEF TypeOK
      <4> QED BY <3>1, <4>2, <4>3
    <3> QED BY <3>1, <3>2
  <2> HIDE DEF merged
  <2> QED BY <2>2, <2>3
<1> QED BY <1>1, Inductive, PTL DEF Spec, MergesTouchOwnEntry

\* What the gate pushes takes no commit off a branch, whatever its authors push, rewrite
\* or take back meanwhile, and lacks no completion main had when the job fetched it.
THEOREM GatePushesKeepAndKnow == Spec => GatePushesAreCurrent
<1>1. IInv /\ [Next]_vars =>
        [\A p \in Pulls : job[p] \in {"stamping", "catching up"} /\ branch'[p] # branch[p]
                           /\ job'[p] = "none" =>
           /\ IsPrefix(branch[p], branch'[p])
           /\ trunk[fetched[p]] \subseteq Last(branch'[p]).done]_vars
  <2> SUFFICES ASSUME IInv, Next, NEW p \in Pulls,
                      job[p] \in {"stamping", "catching up"}, branch'[p] # branch[p],
                      job'[p] = "none"
               PROVE  /\ IsPrefix(branch[p], branch'[p])
                      /\ trunk[fetched[p]] \subseteq Last(branch'[p]).done
    BY DEF vars
  <2> DEFINE tip == Last(head[p])
  <2>1. /\ TypeOK /\ job[p] \in Working /\ branch[p] \in Seq(Commits)
        /\ job \in [Pulls -> {"none", "queued"} \cup Working]
    BY DEF IInv, TypeOK, Working
  <2>2. /\ Resolved(p) /\ head[p] \in Seq(Commits) /\ Sound(p, head[p])
        /\ tip \in Commits /\ OwnEntry(p, tip) /\ tip.base <= main
        /\ fetched[p] \in 1..MaxMain /\ fetched[p] <= main /\ 0 \in Nat
        /\ trunk[tip.base] \subseteq tip.done
    BY <2>1, JobKnows
  <2>3. job[p] = "stamping" => tip.base = fetched[p]
    BY DEF IInv, JobsSound
  <2> HIDE DEF tip
  <2>4. ASSUME NEW commit \in Commits, OwnEntry(p, commit), commit.base <= main,
               PushesHead(p, commit)
        PROVE  IsPrefix(branch[p], branch'[p]) /\ Last(branch'[p]) = commit
    <3>1. IsPrefix(branch[p], head[p]) /\ branch'[p] = Append(head[p], commit)
      BY <2>4 DEF PushesHead, Lands, IInv, TypeOK
    <3>2. Last(Append(head[p], commit)) = commit
      BY <2>2, <2>4, Committed
    <3> QED BY <2>1, <2>2, <3>1, <3>2, PrefixCommitted
  <2>5. CASE Stamp(p)
    <3> DEFINE commit == Completing(tip, Named[p], 0)
    <3>1. PushesHead(p, commit) /\ job[p] = "stamping"
      BY <2>5 DEF Stamp, tip
    <3>2. Named[p] = {} \/ (Resolved(p) /\ Named[p] = Named[p])
      BY <2>2
    <3>3. /\ commit \in Commits /\ OwnEntry(p, commit) /\ commit.base = tip.base
          /\ tip.done \subseteq commit.done
      BY <2>1, <2>2, <3>2, CompletingOwnEntry
    <3> HIDE DEF commit
    <3>4. IsPrefix(branch[p], branch'[p]) /\ Last(branch'[p]) = commit
      BY <2>2, <2>4, <3>1, <3>3
    <3> QED BY <2>2, <2>3, <3>1, <3>3, <3>4
  <2>6. CASE CatchUp(p)
    <3> DEFINE commit == CaughtUp(tip, fetched[p], 0)
    <3>1. PushesHead(p, commit)
      BY <2>6 DEF CatchUp, tip
    <3>2. commit = CaughtUp(Last(head[p]), fetched[p], 0)
      BY DEF tip
    <3> HIDE DEF commit
    <3>3. /\ commit \in Commits /\ OwnEntry(p, commit) /\ commit.base <= main
          /\ trunk[fetched[p]] \subseteq commit.done
      BY <2>1, <3>2, CatchUpCommits
    <3>4. IsPrefix(branch[p], branch'[p]) /\ Last(branch'[p]) = commit
      BY <2>2, <2>4, <3>1, <3>3
    <3> QED BY <3>3, <3>4
  <2>7. ~JobEnds(p)
    BY DEF JobEnds
  <2>8. \A q \in Pulls : \A step : Goes(q, step) /\ q # p => job'[p] = job[p]
    BY <2>1 DEF Goes
  <2>9. \A q \in Pulls : Job(q) \/ JobEnds(q) \/ Approve(q) => q = p
    BY <2>1, <2>8 DEF Job, Checkout, Fetch, Stamp, CatchUp, PushesHead, Ends, JobEnds, Approve,
       Working
  <2>10. \A q \in Pulls : ~Author(q) /\ ~Merge(q)
    BY <2>1 DEF Author, Push, AuthorCatchesUp, CompleteByHand, Adds, Rewrite, Rewind, MovesBranch,
       Merge, gate, Working
  <2>11. \A completed \in SUBSET Tasks : ~Replan(completed)
    BY DEF Replan
  <2>12. ~Checkout(p) /\ ~Fetch(p) /\ ~Approve(p)
    BY <2>1 DEF Checkout, Fetch, Approve, Goes
  <2> QED BY <2>5, <2>6, <2>7, <2>9, <2>10, <2>11, <2>12 DEF Next, Job
<1> QED BY <1>1, Inductive, PTL DEF Spec, GatePushesAreCurrent

------------------------------------------------------------------------------
(* A stamp is the gate's answer to an approval *)

\* No commit says other than the main it contains.
UnstampedIn(commits) ==
  \A i \in 1..Len(commits) : commits[i].done = trunk[commits[i].base]

Stamped(p) == ~UnstampedIn(branch[p])

\* The tracker on a branch the gate can push to completes a task only after the pull
\* request was approved, and never under the no-task label.  (ADR 0004: authors and
\* agents leave the tracker alone; the status changes on approval.)
StampsAreApproved == \A p \in Pulls \ Forks : Stamped(p) => p \in approved \ Exempt

\* Until then no job is at work on the branch that could stamp it.
GateWaits ==
  \A p \in Pulls \ Forks :
    /\ p \notin approved => ~Stamped(p) /\ job[p] = "none"
    /\ p \in Exempt      => ~Stamped(p) /\ job[p] \notin Working

\* Authors, and the panel, leave an unstamped branch unstamped: each commit they add
\* or replay says what the main it contains says.
LEMMA AuthorsDoNotStamp ==
  ASSUME IInv, NEW p \in Pulls \ Forks, ~Stamped(p), Author(p)
  PROVE  ~Stamped(p)'
<1> DEFINE tip  == Last(branch[p])
           next == pushes[p] + 1
<1>1. /\ branch[p] \in Seq(Commits) /\ branch[p] # <<>> /\ Sound(p, branch[p]) /\ TypeOK
      /\ next \in Nat /\ UnstampedIn(branch[p]) /\ p \in Pulls /\ Len(branch[p]) \in Nat
      /\ DOMAIN branch[p] = 1..Len(branch[p])
  BY NumberedPushes, LenProperties DEF IInv, TypeOK, BranchesSound, Stamped
<1>2. /\ tip \in Commits /\ OwnEntry(p, tip) /\ tip.base <= main
      /\ tip.done = trunk[tip.base]
  BY <1>1, TipOf DEF UnstampedIn
<1>3. main \in 1..MaxMain
  BY <1>1, MainBounded
<1> HIDE DEF tip, next
<1>4. ASSUME NEW commits, MovesBranch(p, commits), UnstampedIn(commits) PROVE ~Stamped(p)'
  <2>1. branch'[p] = commits /\ trunk' = trunk
    BY <1>4 DEF MovesBranch, IInv, TypeOK
  <2> QED BY <1>4, <2>1 DEF Stamped, UnstampedIn
<1>5. ASSUME NEW commit \in Commits, commit.done = trunk[commit.base], Adds(p, commit)
      PROVE  ~Stamped(p)'
  <2> DEFINE new == Append(branch[p], commit)
  <2>1. /\ Len(new) = Len(branch[p]) + 1 /\ new[Len(branch[p]) + 1] = commit
        /\ \A i \in 1..Len(branch[p]) : new[i] = branch[p][i]
    BY <1>1, AppendProperties
  <2>2. MovesBranch(p, new)
    BY <1>5 DEF Adds
  <2> HIDE DEF new
  <2>3. \A i \in 1..Len(new) : i \in 1..Len(branch[p]) \/ i = Len(branch[p]) + 1
    BY <1>1, <2>1
  <2>4. UnstampedIn(new)
    BY <1>1, <1>5, <2>1, <2>3 DEF UnstampedIn
  <2> QED BY <1>4, <2>2, <2>4
<1>6. CASE Push(p)
  <2> DEFINE commit == Completing(tip, {}, next)
  <2>1. Adds(p, commit)
    BY <1>6 DEF Push, tip, next
  <2>2. commit \in Commits /\ commit.base = tip.base /\ commit.done = tip.done
    BY <1>1, <1>2, CompletingOwnEntry
  <2> HIDE DEF commit
  <2> QED BY <1>2, <1>5, <2>1, <2>2
<1>7. CASE AuthorCatchesUp(p)
  <2> DEFINE commit == CaughtUp(tip, main, next)
  <2>1. Adds(p, commit)
    BY <1>7 DEF AuthorCatchesUp, tip, next
  <2>2. commit \in Commits /\ commit.base = main /\ commit.done = trunk[main]
    BY <1>1, <1>2, <1>3, CaughtUpOwnEntry
  <2> HIDE DEF commit
  <2> QED BY <1>5, <2>1, <2>2
<1>8. ~CompleteByHand(p)
  BY DEF CompleteByHand
<1>9. ASSUME NEW n \in DOMAIN branch[p], Rewrite(p, n) PROVE ~Stamped(p)'
  <2> DEFINE new == [i \in 1..n |-> CaughtUp(branch[p][i], main, next)]
  <2>1. MovesBranch(p, new)
    BY <1>9 DEF Rewrite, next
  <2>2. /\ DOMAIN new = 1..n /\ new = [i \in DOMAIN new |-> new[i]]
        /\ \A i \in 1..n : new[i] = CaughtUp(branch[p][i], main, next)
    OBVIOUS
  <2> HIDE DEF new
  <2>3. n \in 1..Len(branch[p]) /\ \A i \in 1..n : i \in 1..Len(branch[p])
    BY <1>1, <1>9
  <2>4. Len(new) = n /\ \A i \in 1..n : branch[p][i].done = trunk[branch[p][i].base] =>
                                          new[i].done = trunk[new[i].base]
    BY <1>1, <2>2, <2>3, Replayed
  <2>5. UnstampedIn(new)
    BY <1>1, <2>3, <2>4 DEF UnstampedIn
  <2> QED BY <1>4, <2>1, <2>5
<1>10. ASSUME NEW n \in DOMAIN branch[p], Rewind(p, n) PROVE ~Stamped(p)'
  <2> DEFINE new == SubSeq(branch[p], 1, n)
  <2>1. MovesBranch(p, new)
    BY <1>10 DEF Rewind
  <2>2. n \in 1..Len(branch[p]) /\ \A i \in 1..n : i \in 1..Len(branch[p])
    BY <1>1, <1>10
  <2>3. Len(new) = n /\ \A i \in 1..n : new[i] = branch[p][i]
    BY <1>1, <2>2, TakenBack
  <2> HIDE DEF new
  <2>4. UnstampedIn(new)
    BY <1>1, <2>2, <2>3 DEF UnstampedIn
  <2> QED BY <1>4, <2>1, <2>4
<1> QED BY <1>6, <1>7, <1>8, <1>9, <1>10 DEF Author

\* What happens to one pull request does not concern another, and a new version of
\* main is not one a branch contains yet.
LEMMA OthersStayPut ==
  ASSUME IInv, Next, NEW p \in Pulls,
         ~Job(p), ~JobEnds(p), ~Author(p), ~Approve(p)
  PROVE  job'[p] = job[p] /\ (Stamped(p)' <=> Stamped(p)) /\ (p \in approved' <=> p \in approved)
<1>1. /\ DOMAIN branch = Pulls /\ branch[p] \in Seq(Commits) /\ Sound(p, branch[p])
      /\ job \in [Pulls -> {"none", "queued"} \cup Working]
      /\ trunk \in [1..MaxMain -> SUBSET Tasks] /\ main \in 1..MaxMain
  BY DEF IInv, TypeOK, Working, BranchesSound
<1>2. ASSUME NEW q \in Pulls, Job(q) \/ JobEnds(q) \/ Author(q) \/ Approve(q)
      PROVE  /\ q # p /\ job'[p] = job[p] /\ branch'[p] = branch[p] /\ trunk' = trunk
             /\ p \in approved' <=> p \in approved
  <2>1. q # p
    BY <1>2
  <2>2. \/ trunk' = trunk /\ approved' = approved
        \/ trunk' = trunk /\ approved' = approved \cup {q}
    BY <1>2 DEF Job, Checkout, Fetch, Stamp, CatchUp, PushesHead, JobEnds, Author, Push,
           AuthorCatchesUp, CompleteByHand, Adds, Rewrite, Rewind, MovesBranch, Approve, people
  <2>3. job' = job \/ \E step : job' = [job EXCEPT ![q] = step]
    BY <1>2 DEF Job, Checkout, Fetch, Stamp, CatchUp, PushesHead, Ends, Goes, JobEnds, Author,
           Push, AuthorCatchesUp, CompleteByHand, Adds, Rewrite, Rewind, MovesBranch, Approve, gate
  <2>4. branch' = branch \/ \E commits : branch' = [branch EXCEPT ![q] = commits]
    BY <1>2 DEF Job, Checkout, Fetch, Stamp, CatchUp, PushesHead, JobEnds, Author,
           Push, AuthorCatchesUp, CompleteByHand, Adds, Rewrite, Rewind, MovesBranch, Approve
  <2> QED BY <1>1, <2>1, <2>2, <2>3, <2>4
<1>3. ASSUME NEW completed, Grows(completed), UNCHANGED <<branch, approved, job>>
      PROVE  \A i \in 1..Len(branch[p]) : trunk'[branch[p][i].base] = trunk[branch[p][i].base]
  <2>1. trunk' = [trunk EXCEPT ![main + 1] = completed]
    BY <1>3 DEF Grows
  <2>2. \A i \in 1..Len(branch[p]) :
          branch[p][i] \in Commits /\ branch[p][i].base <= main
    BY <1>1, ElementOfSeq DEF Sound
  <2>3. \A c \in Commits : c.base \in 1..MaxMain /\ (c.base <= main => c.base # main + 1)
    BY <1>1, MainBounded DEF Commits, IInv
  <2> QED BY <1>1, <2>1, <2>2, <2>3
<1>4. CASE \E q \in Pulls : Job(q) \/ JobEnds(q) \/ Author(q) \/ Approve(q)
  BY <1>2, <1>4 DEF Stamped, UnstampedIn
<1>5. CASE \E q \in Pulls : Merge(q)
  BY <1>3, <1>5 DEF Merge, gate, Stamped, UnstampedIn
<1>6. CASE \E completed \in SUBSET Tasks : Replan(completed)
  BY <1>3, <1>6 DEF Replan, gate, Stamped, UnstampedIn
<1> QED BY <1>4, <1>5, <1>6 DEF Next

LEMMA StepWaits ==
  ASSUME IInv, GateWaits, [Next]_vars
  PROVE  GateWaits'
<1>1. SUFFICES ASSUME NEW p \in Pulls \ Forks
               PROVE  /\ p \notin approved' => ~Stamped(p)' /\ job'[p] = "none"
                      /\ p \in Exempt       => ~Stamped(p)' /\ job'[p] \notin Working
  BY DEF GateWaits
<1>2. /\ p \notin approved => ~Stamped(p) /\ job[p] = "none"
      /\ p \in Exempt      => ~Stamped(p) /\ job[p] \notin Working
  BY DEF GateWaits
<1>3. \A step : Goes(p, step) => job'[p] = step
  BY DEF Goes, IInv, TypeOK
<1>4. CASE UNCHANGED vars
  BY <1>2, <1>4 DEF vars, Stamped, UnstampedIn
<1>5. CASE Job(p)
  <2>1. job[p] # "none" /\ approved' = approved
    BY <1>5 DEF Job, Checkout, Fetch, Stamp, CatchUp, PushesHead, people
  <2>2. ASSUME p \in Exempt PROVE ~Stamped(p)' /\ job'[p] \notin Working
    <3>1. Checkout(p)
      BY <1>2, <1>5, <2>2 DEF Job, Fetch, Stamp, CatchUp, Working
    <3>2. Ends(p) /\ UNCHANGED <<trunk, branch>>
      BY <2>2, <3>1 DEF Checkout, people
    <3> QED BY <1>2, <1>3, <2>2, <3>2 DEF Ends, Working, Stamped, UnstampedIn
  <2> QED BY <1>2, <2>1, <2>2
<1>6. CASE JobEnds(p)
  <2>1. job[p] # "none" /\ job'[p] = "none" /\ UNCHANGED <<trunk, branch, approved>>
    BY <1>3, <1>6 DEF JobEnds, Ends, people
  <2> QED BY <1>2, <2>1 DEF Stamped, UnstampedIn, Working
<1>7. CASE Author(p)
  <2>1. UNCHANGED <<job, approved>>
    BY <1>7 DEF Author, Push, AuthorCatchesUp, CompleteByHand, Adds, Rewrite, Rewind, MovesBranch,
       gate
  <2> QED BY <1>2, <1>7, <2>1, AuthorsDoNotStamp
<1>8. CASE Approve(p)
  <2>1. p \in approved' /\ job'[p] = "queued" /\ UNCHANGED <<trunk, branch>>
    BY <1>3, <1>8 DEF Approve
  <2> QED BY <1>2, <2>1 DEF Stamped, UnstampedIn, Working
<1>9. CASE Next /\ ~Job(p) /\ ~JobEnds(p) /\ ~Author(p) /\ ~Approve(p)
  BY <1>2, <1>9, OthersStayPut
<1> QED BY <1>4, <1>5, <1>6, <1>7, <1>8, <1>9

\* Nothing but an approval stamps a branch of this repository: however jobs, catch-ups,
\* rewrites and merges of others interleave, each commit of an unapproved pull request,
\* or of one that completes no task, says of every task what the main it contains says.
THEOREM NoStampWithoutApproval == Spec => []StampsAreApproved
<1>1. Init => GateWaits
  <2>1. ASSUME Init, NEW p \in Pulls PROVE ~Stamped(p) /\ job[p] = "none"
    <3>1. branch[p] = <<FirstCommit>> /\ trunk[1] = {} /\ job[p] = "none"
      BY <2>1, StatusGateAssumption DEF Init
    <3>2. /\ Len(<<FirstCommit>>) = 1 /\ <<FirstCommit>>[1] = FirstCommit
          /\ FirstCommit.base = 1 /\ FirstCommit.done = {}
      BY DEF FirstCommit
    <3> QED BY <3>1, <3>2 DEF Stamped, UnstampedIn
  <2> QED BY <2>1 DEF GateWaits, Working
<1>2. IInv /\ GateWaits /\ [Next]_vars => GateWaits'
  BY StepWaits
<1>3. GateWaits => StampsAreApproved
  BY DEF GateWaits, StampsAreApproved
<1> QED BY <1>1, <1>2, <1>3, Inductive, PTL DEF Spec
==============================================================================
