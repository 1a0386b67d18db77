--------------------------- MODULE SyncJobsProofs ---------------------------
(***************************************************************************)
(* Theorems about SyncJobs, for any number of jobs, requests and restarts. *)
(***************************************************************************)
EXTENDS SyncJobs, FiniteSetTheorems, TLAPS

\* What a thread still owes its requests, seen from where it stands: either a
\* further pass is due, or the one under way (or just over) is late enough.
Promise(j) ==
  /\ runner[j] \in {"launching", "passing"} =>
       resync \/ asked[j] = 0 \/ pass[j] = "schedule"
  /\ runner[j] = "inside" =>
       resync \/ asked[j] = 0 \/ (pass[j] = "schedule" /\ asked[j] <= tried[j])
  /\ runner[j] = "returned" => resync \/ asked[j] <= covered[j]

IInv ==
  /\ TypeOK
  /\ AtMostOneRunning
  /\ RunnerKeepsItsEntry
  /\ Known \subseteq 1..issued
  /\ \A j \in Ids : asked[j] <= revision
  /\ \A j \in Ids : Promise(j)
  /\ SuccessCoversRequests

USE SyncJobsAssumption DEF Ids, Revisions, Kinds, Statuses, Points, Live, TypeOK

LEMMA InitIInv == Init => IInv
<1>1. SUFFICES ASSUME Init PROVE IInv
  OBVIOUS
<1>2. DOMAIN jobs = {}
  BY <1>1 DEF Init
<1>3. TypeOK
  <2>1. TableOK
    BY <1>1, <1>2 DEF TableOK, Init, Known
  <2>2. ThreadsOK
    BY <1>1, <1>2 DEF ThreadsOK, Init, Known
  <2>3. LedgerOK
    BY <1>1, <1>2 DEF LedgerOK, Init, Known
  <2>. QED
    BY <2>1, <2>2, <2>3
<1>. QED
  BY <1>1, <1>2, <1>3 DEF Init, IInv, AtMostOneRunning, RunnerKeepsItsEntry, Promise,
     SuccessCoversRequests, Known, Running

\* Registering a job: nothing was running, so nothing was owed.
LEMMA StartStep ==
  ASSUME IInv, NEW kind \in Kinds, StartJob(kind)
  PROVE  IInv'
<1>. DEFINE id == issued + 1
<1>1. id \in Ids /\ Kept \subseteq Known /\ issued \in Nat
  BY DEF StartJob, Kept, IInv, TableOK, ThreadsOK, LedgerOK
<1>2. /\ DOMAIN jobs' = Kept \cup {id}
      /\ jobs'[id] = "running"
      /\ \A j \in Kept : j # id => jobs'[j] = jobs[j]
      /\ issued' = id
      /\ runner' = [runner EXCEPT ![id] = "launching"]
      /\ pass' = [pass EXCEPT ![id] = kind]
      /\ asked' = [asked EXCEPT ![id] = IF kind = "schedule" THEN revision ELSE 0]
      /\ UNCHANGED <<resync, flock, revision, tried, covered>>
  BY DEF StartJob
<1>3. \A j \in Kept : j # id /\ jobs[j] # "running"
  BY <1>1 DEF StartJob, Running, IInv, Known
<1>4. \A j \in Ids : runner[j] \notin Live
  BY DEF StartJob, IInv, RunnerKeepsItsEntry
<1>5. TypeOK'
  <2>1. jobs' \in [Kept \cup {id} -> Statuses]
    BY <1>1, <1>3 DEF StartJob, IInv, TableOK, ThreadsOK, LedgerOK, Known
  <2>2. TableOK'
    BY <1>1, <1>2, <2>1 DEF IInv, TableOK, Known
  <2>3. ThreadsOK'
    BY <1>1, <1>2 DEF IInv, ThreadsOK
  <2>4. LedgerOK'
    BY <1>1, <1>2 DEF IInv, LedgerOK
  <2>. QED
    BY <2>2, <2>3, <2>4
<1>6. AtMostOneRunning' /\ RunnerKeepsItsEntry' /\ (Known \subseteq 1..issued)'
  BY <1>1, <1>2, <1>3, <1>4
     DEF IInv, TableOK, ThreadsOK, LedgerOK, AtMostOneRunning, RunnerKeepsItsEntry, Running, Known
<1>7. (\A j \in Ids : asked[j] <= revision)' /\ SuccessCoversRequests'
  BY <1>1, <1>2, <1>3 DEF IInv, TableOK, ThreadsOK, LedgerOK, SuccessCoversRequests, Known
<1>8. (\A j \in Ids : Promise(j))'
  BY <1>1, <1>2, <1>4 DEF IInv, TableOK, ThreadsOK, LedgerOK, Promise
<1>. QED
  BY <1>5, <1>6, <1>7, <1>8 DEF IInv

LEMMA CoalesceStep ==
  ASSUME IInv, NEW kind \in Kinds, Coalesce(kind)
  PROVE  IInv'
<1>1. PICK j \in Running :
        asked' = [asked EXCEPT ![j] = IF kind = "schedule" THEN revision ELSE @]
  BY DEF Coalesce
<1>2. j \in Ids /\ jobs[j] = "running" /\ resync' = TRUE
  BY <1>1 DEF Running, Coalesce, IInv, TableOK
<1>3. /\ revision \in Nat /\ revision \in Revisions
      /\ asked \in [Ids -> Revisions]
      /\ \A k \in Ids : asked[k] <= revision
  BY DEF IInv, LedgerOK
<1>4. /\ asked' \in [Ids -> Revisions]
      /\ \A k \in Ids : k # j => asked'[k] = asked[k]
      /\ asked'[j] <= revision
  BY <1>1, <1>2, <1>3
<1>5. UNCHANGED <<jobs, issued, runner, pass, flock, revision, tried, covered>>
  BY DEF Coalesce
<1>6. TypeOK'
  <2>1. TableOK' /\ ThreadsOK'
    BY <1>2, <1>5 DEF TableOK, ThreadsOK, IInv, Known
  <2>2. LedgerOK'
    BY <1>4, <1>5 DEF LedgerOK, IInv
  <2>. QED
    BY <2>1, <2>2
<1>7. AtMostOneRunning' /\ RunnerKeepsItsEntry' /\ (Known \subseteq 1..issued)'
  BY <1>5 DEF IInv, AtMostOneRunning, RunnerKeepsItsEntry, Running, Known
<1>8. (\A k \in Ids : asked[k] <= revision)'
  BY <1>3, <1>4, <1>5
<1>9. SuccessCoversRequests'
  BY <1>2, <1>4, <1>5 DEF IInv, TableOK, SuccessCoversRequests, Known
<1>10. (\A k \in Ids : Promise(k))'
  BY <1>2, <1>5 DEF IInv, Promise
<1>. QED
  BY <1>6, <1>7, <1>8, <1>9, <1>10 DEF IInv

\* Only one thread is alive, so a thread that clears resync clears it for nobody else.
LEMMA OneThread ==
  ASSUME IInv, NEW j \in Ids, runner[j] \in Live
  PROVE  j \in Running /\ \A k \in Ids : runner[k] \in Live => k = j
BY DEF IInv, RunnerKeepsItsEntry, AtMostOneRunning

LEMMA ThreadStep ==
  ASSUME IInv, NEW j \in Ids, Thread(j)
  PROVE  IInv'
<1>. USE DEF ghosts
<1>1. CASE Launch(j) \/ LaunchFails(j) \/ IgnoreEvent(j) \/ PassFails(j)
  <2>1. /\ runner[j] \in Live
        /\ runner' \in [Ids -> Points]
        /\ \A k \in Ids : k # j => runner'[k] = runner[k]
        /\ flock' \in {"free", "sync", "operation"}
        /\ UNCHANGED <<jobs, issued, resync, pass, revision, asked, tried, covered>>
    BY <1>1 DEF Launch, LaunchFails, IgnoreEvent, PassFails, IInv, ThreadsOK
  <2>2. TypeOK'
    <3>1. TableOK' /\ LedgerOK'
      BY <2>1 DEF IInv, TableOK, LedgerOK, Known
    <3>2. ThreadsOK'
      BY <2>1 DEF IInv, ThreadsOK
    <3>. QED
      BY <3>1, <3>2
  <2>3. RunnerKeepsItsEntry' /\ AtMostOneRunning'
    BY <2>1 DEF IInv, RunnerKeepsItsEntry, AtMostOneRunning, Running, Known
  <2>4. Promise(j)'
    BY <1>1, <2>1 DEF Launch, LaunchFails, IgnoreEvent, PassFails, IInv, ThreadsOK, LedgerOK, Promise
  <2>5. (\A k \in Ids : Promise(k))'
    BY <2>1, <2>4 DEF IInv, Promise
  <2>. QED
    BY <2>1, <2>2, <2>3, <2>5 DEF IInv, SuccessCoversRequests, Known
<1>2. CASE BeginPass(j)
  <2>1. /\ runner[j] = "passing" /\ runner'[j] \in {"inside", "raised"}
        /\ \A k \in Ids : k # j => runner'[k] = runner[k] /\ tried'[k] = tried[k]
        /\ tried'[j] = IF pass[j] = "schedule" THEN revision ELSE tried[j]
        /\ UNCHANGED <<jobs, issued, resync, pass, revision, asked, covered>>
    BY <1>2 DEF BeginPass, IInv, TableOK, ThreadsOK, LedgerOK
  <2>2. TypeOK'
    <3>1. TableOK'
      BY <1>2 DEF TableOK, BeginPass, IInv, Known
    <3>2. ThreadsOK'
      BY <1>2 DEF ThreadsOK, BeginPass, IInv, Known
    <3>3. LedgerOK'
      <4>1. LedgerOK
        BY DEF IInv
      <4>2. tried' \in [Ids -> Revisions]
        BY <1>2, <4>1 DEF BeginPass, LedgerOK
      <4>. QED
        BY <2>1, <4>1, <4>2 DEF LedgerOK
    <3>. QED
      BY <3>1, <3>2, <3>3
  <2>3. RunnerKeepsItsEntry' /\ AtMostOneRunning'
    BY <2>1 DEF IInv, RunnerKeepsItsEntry, AtMostOneRunning, Running, Known
  <2>4. (\A k \in Ids : Promise(k))'
    BY <2>1 DEF IInv, TableOK, ThreadsOK, LedgerOK, Promise
  <2>. QED
    BY <2>1, <2>2, <2>3, <2>4 DEF IInv, SuccessCoversRequests, Known
<1>3. CASE PassSucceeds(j)
  <2>1. /\ runner[j] = "inside" /\ runner'[j] = "returned"
        /\ \A k \in Ids : k # j => runner'[k] = runner[k] /\ covered'[k] = covered[k]
        /\ covered'[j] = IF pass[j] = "schedule" THEN tried[j] ELSE covered[j]
        /\ UNCHANGED <<jobs, issued, resync, pass, revision, asked, tried>>
    BY <1>3 DEF PassSucceeds, IInv, TableOK, ThreadsOK, LedgerOK
  <2>2. TypeOK'
    <3>1. TableOK'
      BY <1>3 DEF TableOK, PassSucceeds, IInv, Known
    <3>2. ThreadsOK'
      BY <1>3 DEF ThreadsOK, PassSucceeds, IInv, Known
    <3>3. LedgerOK'
      BY <1>3 DEF LedgerOK, PassSucceeds, IInv, Known
    <3>. QED
      BY <3>1, <3>2, <3>3
  <2>3. RunnerKeepsItsEntry' /\ AtMostOneRunning'
    BY <2>1 DEF IInv, RunnerKeepsItsEntry, AtMostOneRunning, Running, Known
  <2>4. (\A k \in Ids : Promise(k))'
    <3>1. asked[j] \in Nat /\ covered[j] \in Nat /\ tried[j] \in Nat
      BY DEF IInv, LedgerOK
    <3>2. resync \/ asked[j] <= covered'[j]
      BY <2>1, <3>1 DEF IInv, Promise
    <3>3. Promise(j)'
      BY <2>1, <3>2 DEF Promise
    <3>. QED
      BY <2>1, <3>3 DEF IInv, Promise
  <2>5. jobs[j] = "running"
    BY <2>1, OneThread DEF Running
  <2>6. SuccessCoversRequests'
    BY <2>1, <2>5 DEF IInv, TableOK, ThreadsOK, LedgerOK, SuccessCoversRequests, Known
  <2>. QED
    BY <2>1, <2>2, <2>3, <2>4, <2>6 DEF IInv, Known
<1>4. CASE Again(j)
  <2>1. \A k \in Ids : k # j => runner[k] \notin Live
    BY <1>4, OneThread DEF Again
  <2>2. (\A k \in Ids : Promise(k))'
    BY <1>4, <2>1 DEF Again, IInv, TableOK, ThreadsOK, LedgerOK, Promise
  <2>3. TypeOK'
    <3>1. TableOK' /\ LedgerOK'
      BY <1>4 DEF Again, IInv, TableOK, LedgerOK, Known
    <3>2. ThreadsOK'
      BY <1>4 DEF Again, IInv, ThreadsOK
    <3>. QED
      BY <3>1, <3>2
  <2>4. RunnerKeepsItsEntry' /\ AtMostOneRunning'
    BY <1>4 DEF Again, IInv, ThreadsOK, RunnerKeepsItsEntry, AtMostOneRunning, Running, Known
  <2>. QED
    BY <1>4, <2>2, <2>3, <2>4 DEF Again, IInv, SuccessCoversRequests, Known
<1>5. CASE Conclude(j) \/ Fail(j)
  <2>1. \A k \in Ids : k # j => runner[k] \notin Live
    BY <1>5, OneThread DEF Conclude, Fail
  <2>2. /\ runner' = [runner EXCEPT ![j] = "ended"]
        /\ DOMAIN jobs' = Known
        /\ \A k \in Known : k # j => jobs'[k] = jobs[k]
        /\ UNCHANGED <<issued, pass, flock, revision, asked, tried, covered>>
    BY <1>5 DEF Conclude, Fail, Known
  <2>3. j \in Known /\ (jobs'[j] = "failed" \/ (jobs'[j] = "succeeded" /\ asked[j] <= covered[j]))
    <3>1. j \in Running
      BY <1>5, OneThread DEF Conclude, Fail
    <3>. QED
      BY <1>5, <3>1 DEF Conclude, Fail, IInv, Promise, Running, Known
  <2>4. TypeOK'
    <3>1. TableOK'
      BY <1>5, <2>2, <2>3 DEF TableOK, Conclude, Fail, IInv, Known
    <3>2. ThreadsOK'
      BY <1>5, <2>2, <2>3 DEF ThreadsOK, Conclude, Fail, IInv, Known
    <3>3. LedgerOK'
      BY <1>5, <2>2, <2>3 DEF LedgerOK, Conclude, Fail, IInv, Known
    <3>. QED
      BY <3>1, <3>2, <3>3
  <2>5. \A k \in Ids : runner'[k] \notin Live
    BY <2>1, <2>2 DEF IInv, ThreadsOK
  <2>7. RunnerKeepsItsEntry' /\ (\A k \in Ids : Promise(k))'
    BY <2>5 DEF RunnerKeepsItsEntry, Promise
  <2>8. AtMostOneRunning'
    BY <2>2, <2>3 DEF IInv, AtMostOneRunning, Running, Known
  <2>6. SuccessCoversRequests'
    BY <2>2, <2>3 DEF IInv, SuccessCoversRequests, Known
  <2>. QED
    BY <2>2, <2>4, <2>6, <2>7, <2>8 DEF IInv, Known
<1>. QED
  BY <1>1, <1>2, <1>3, <1>4, <1>5 DEF Thread

\* Merges, the other handlers and the death of the process.
LEMMA EnvironmentStep ==
  ASSUME IInv, Merge \/ OperationBegins \/ OperationEnds \/ Restart \/ UNCHANGED vars
  PROVE  IInv'
<1>. USE DEF ghosts
<1>1. CASE Restart
  <2>1. DOMAIN jobs' = {}
    BY <1>1 DEF Restart
  <2>2. TypeOK'
    <3>1. TableOK'
      BY <1>1, <2>1 DEF TableOK, Restart, IInv, Known
    <3>2. ThreadsOK'
      BY <1>1, <2>1 DEF ThreadsOK, Restart, IInv, Known
    <3>3. LedgerOK'
      BY <1>1, <2>1 DEF LedgerOK, Restart, IInv, Known
    <3>. QED
      BY <3>1, <3>2, <3>3
  <2>. QED
    BY <1>1, <2>1, <2>2 DEF Restart, IInv, TableOK, ThreadsOK, LedgerOK, AtMostOneRunning, RunnerKeepsItsEntry, Running,
       Known, Promise, SuccessCoversRequests
<1>2. CASE Merge \/ OperationBegins \/ OperationEnds \/ UNCHANGED vars
  <2>1. /\ revision' \in 1..MaxRevision /\ revision <= revision'
        /\ flock' \in {"free", "sync", "operation"}
        /\ UNCHANGED <<jobs, issued, resync, runner, pass, ghosts>>
    BY <1>2 DEF Merge, OperationBegins, OperationEnds, vars, IInv, TableOK, ThreadsOK, LedgerOK
  <2>2. TypeOK'
    <3>1. TableOK'
      BY <2>1 DEF TableOK, IInv, Known
    <3>2. ThreadsOK'
      BY <2>1 DEF ThreadsOK, IInv, Known
    <3>3. LedgerOK'
      BY <2>1 DEF LedgerOK, IInv, Known
    <3>. QED
      BY <3>1, <3>2, <3>3
  <2>3. (\A j \in Ids : asked[j] <= revision)'
    BY <2>1 DEF IInv, TableOK, ThreadsOK, LedgerOK
  <2>. QED
    BY <2>1, <2>2, <2>3 DEF IInv, AtMostOneRunning, RunnerKeepsItsEntry, Running, Known, Promise,
       SuccessCoversRequests
<1>. QED
  BY <1>1, <1>2

LEMMA StepIInv == IInv /\ [Next]_vars => IInv'
<1>1. SUFFICES ASSUME IInv, [Next]_vars PROVE IInv'
  OBVIOUS
<1>2. CASE \E kind \in Kinds : StartJob(kind) \/ Coalesce(kind)
  BY <1>1, <1>2, StartStep, CoalesceStep
<1>3. CASE \E j \in Ids : Thread(j)
  BY <1>1, <1>3, ThreadStep
<1>4. CASE Merge \/ OperationBegins \/ OperationEnds \/ Restart \/ UNCHANGED vars
  BY <1>1, <1>4, EnvironmentStep
<1>. QED
  BY <1>1, <1>2, <1>3, <1>4 DEF Next

\* The inductive invariant holds in every reachable state.
THEOREM Inductive == Spec => []IInv
BY InitIInv, StepIInv, PTL DEF Spec

\* The types of the job table, the threads and the request ledger.
THEOREM TypeCorrect == Spec => []TypeOK
<1>1. IInv => TypeOK
  BY DEF IInv
<1>. QED
  BY <1>1, Inductive, PTL

\* start_sync never leaves two jobs running, whatever threads and restarts do.
THEOREM OneRunningJob == Spec => []AtMostOneRunning
<1>1. IInv => AtMostOneRunning
  BY DEF IInv
<1>. QED
  BY <1>1, Inductive, PTL

\* The entry a thread publishes into is still there, and still its own.
THEOREM EntriesKept == Spec => []RunnerKeepsItsEntry
<1>1. IInv => RunnerKeepsItsEntry
  BY DEF IInv
<1>. QED
  BY <1>1, Inductive, PTL

\* A reported success covers every request the job answered for, folded-in ones too.
THEOREM SuccessIsHonest == Spec => []SuccessCoversRequests
<1>1. IInv => SuccessCoversRequests
  BY DEF IInv
<1>. QED
  BY <1>1, Inductive, PTL

\* A published outcome is never overwritten.
THEOREM OutcomesAreFinal == Spec => OutcomeIsFinal
<1>1. ASSUME IInv, [Next]_vars
      PROVE  [\A j \in Known \cap DOMAIN jobs' : jobs[j] # "running" => jobs'[j] = jobs[j]]_vars
  <2>1. SUFFICES ASSUME NEW j \in Known \cap DOMAIN jobs', jobs[j] # "running"
                 PROVE  jobs'[j] = jobs[j]
    OBVIOUS
  <2>2. CASE \E kind \in Kinds : StartJob(kind)
    <3>1. j # issued + 1
      BY <1>1, <2>1 DEF IInv, TableOK, ThreadsOK, LedgerOK, Known
    <3>. QED
      BY <2>1, <2>2, <3>1 DEF StartJob
  <2>3. CASE \E k \in Ids : Conclude(k) \/ Fail(k)
    <3>1. PICK k \in Ids : Conclude(k) \/ Fail(k)
      BY <2>3
    <3>2. k \in Running
      BY <1>1, <3>1, OneThread DEF Conclude, Fail
    <3>. QED
      BY <2>1, <3>1, <3>2 DEF Conclude, Fail, Running, Known
  <2>4. CASE UNCHANGED jobs
    BY <2>4
  <2>5. CASE Restart
    BY <2>1, <2>5 DEF Restart
  <2>. QED
    BY <1>1, <2>2, <2>3, <2>4, <2>5 DEF Next, Thread, Coalesce, Launch, LaunchFails, IgnoreEvent,
       BeginPass, PassSucceeds, PassFails, Again, Merge, OperationBegins, OperationEnds, vars
<1>2. IInv /\ [Next]_vars
        => [\A j \in Known \cap DOMAIN jobs' : jobs[j] # "running" => jobs'[j] = jobs[j]]_vars
  BY <1>1
<1>. QED
  BY <1>2, Inductive, PTL DEF Spec, OutcomeIsFinal

\* Ids are handed out in order and the oldest entry is the one evicted, so the
\* table always holds the latest ids without a gap.
Contiguous == \E low \in 1..(issued + 1) : Known = low..issued

\* Eviction removes an entry: the oldest id is one of the table's.
LEMMA OldestKnown ==
  ASSUME issued \in Nat, NEW low \in 1..issued, Known = low..issued
  PROVE  Oldest = low
<1>1. low \in Known /\ \A k \in Known : low <= k
  OBVIOUS
<1>2. \A j \in Known : (\A k \in Known : j <= k) => j = low
  BY <1>1
<1>. QED
  BY <1>1, <1>2 DEF Oldest

LEMMA StartTable ==
  ASSUME TypeOK, Contiguous, TableBounded, NEW kind \in Kinds, StartJob(kind)
  PROVE  Contiguous' /\ TableBounded'
<1>. DEFINE id == issued + 1
<1>1. issued \in Nat /\ issued' = id /\ DOMAIN jobs' = Kept \cup {id}
  BY DEF TableOK, StartJob
<1>2. PICK low \in 1..(issued + 1) : Known = low..issued
  BY DEF Contiguous
<1>3. IsFiniteSet(Known) /\ Cardinality(Known) = IF low > issued THEN 0 ELSE issued - low + 1
  BY <1>1, <1>2, FS_Interval
<1>4. PICK low2 \in 1..(issued + 1) :
        Kept = low2..issued /\ (IF low2 > issued THEN 0 ELSE issued - low2 + 1) < Retained
  <2>1. CASE Cardinality(Known) >= Retained
    <3>1. low \in 1..issued
      BY <1>1, <1>2, <1>3, <2>1
    <3>2. Kept = (low + 1)..issued
      BY <1>1, <1>2, <2>1, <3>1, OldestKnown DEF Kept
    <3>. QED
      BY <1>1, <1>3, <2>1, <3>1, <3>2 DEF TableBounded
  <2>2. CASE ~(Cardinality(Known) >= Retained)
    BY <1>1, <1>2, <1>3, <2>2 DEF Kept
  <2>. QED
    BY <2>1, <2>2
<1>5. DOMAIN jobs' = low2..issued'
  BY <1>1, <1>4
<1>6. Cardinality(low2..issued') = IF low2 > issued' THEN 0 ELSE issued' - low2 + 1
  BY <1>1, <1>4, FS_Interval
<1>. QED
  BY <1>1, <1>4, <1>5, <1>6 DEF Contiguous, TableBounded, Known

\* The table of retained jobs never outgrows its bound.
THEOREM TableIsBounded == Spec => []TableBounded
<1>1. Init => Contiguous /\ TableBounded
  <2>1. SUFFICES ASSUME Init PROVE Contiguous /\ TableBounded
    OBVIOUS
  <2>2. Known = {} /\ 1..0 = {} /\ issued = 0
    BY <2>1 DEF Init, Known
  <2>. QED
    BY <2>2, FS_EmptySet DEF Contiguous, TableBounded
<1>2. ASSUME TypeOK, Contiguous, TableBounded, [Next]_vars
      PROVE  Contiguous' /\ TableBounded'
  <2>1. CASE \E kind \in Kinds : StartJob(kind)
    BY <1>2, <2>1, StartTable
  <2>2. CASE \E j \in Ids : Conclude(j) \/ Fail(j)
    BY <1>2, <2>2 DEF Conclude, Fail, Contiguous, TableBounded, Known
  <2>3. CASE UNCHANGED <<jobs, issued>>
    BY <1>2, <2>3 DEF Contiguous, TableBounded, Known
  <2>4. CASE Restart
    <3>1. DOMAIN jobs' = {} /\ issued' = issued /\ issued \in Nat
      BY <1>2, <2>4 DEF Restart, TableOK
    <3>2. issued + 1 \in 1..(issued + 1) /\ (issued + 1)..issued = {}
      BY <3>1
    <3>. QED
      BY <3>1, <3>2, FS_EmptySet DEF Contiguous, TableBounded, Known
  <2>. QED
    BY <1>2, <2>1, <2>2, <2>3, <2>4 DEF Next, Thread, Coalesce, Launch, LaunchFails, IgnoreEvent,
       BeginPass, PassSucceeds, PassFails, Again, Merge, OperationBegins, OperationEnds, vars
<1>3. TypeOK /\ (Contiguous /\ TableBounded) /\ [Next]_vars => (Contiguous /\ TableBounded)'
  BY <1>2
<1>. QED
  BY <1>1, <1>3, TypeCorrect, PTL DEF Spec

------------------------------------------------------------------------------
(* SyncJobs implements SyncQueue *)

\* A thread that has finished its passes publishes only if it owes nothing: a
\* request that came while it made its last pass is either covered or has raised
\* the flag that _run_sync looks at under the same lock as start_sync.
NoRequestOverlooked ==
  \A j \in Ids : runner[j] = "returned" /\ covered[j] < asked[j] => resync

\* No wake-up is lost between start_sync and _run_sync.
THEOREM NoLostRequest == Spec => []NoRequestOverlooked
<1>1. IInv => NoRequestOverlooked
  <2>1. SUFFICES ASSUME IInv, NEW j \in Ids, runner[j] = "returned", covered[j] < asked[j]
                 PROVE  resync
    BY DEF NoRequestOverlooked
  <2>2. asked[j] \in Nat /\ covered[j] \in Nat
    BY <2>1 DEF IInv, LedgerOK
  <2>3. resync \/ asked[j] <= covered[j]
    BY <2>1 DEF IInv, Promise
  <2>. QED
    BY <2>2, <2>3, <2>1
<1>. QED
  BY <1>1, Inductive, PTL

\* What a job has covered it has tried, what it tried the world had, and an id that
\* was not handed out has covered nothing.
LedgerKept ==
  /\ \A j \in Ids : covered[j] <= tried[j] /\ tried[j] <= revision
  /\ \A j \in Ids : j > issued => covered[j] = 0

\* A live thread is that of the only running job, whose id was handed out.
LEMMA LiveIsIssued ==
  ASSUME IInv, NEW j \in Ids, runner[j] \in Live
  PROVE  Running = {j} /\ ~(j > issued)
<1>1. j \in Running /\ \A k \in Running : k = j
  BY OneThread DEF IInv, AtMostOneRunning
<1>2. j \in 1..issued /\ issued \in Nat
  BY <1>1 DEF IInv, Running, TableOK
<1>3. ~(j > issued)
  BY <1>2
<1>. QED
  BY <1>1, <1>3

\* The threads' own steps keep the ledger.
LEMMA ThreadKeepsLedger ==
  ASSUME IInv, LedgerKept, NEW j \in Ids, Thread(j)
  PROVE  LedgerKept'
<1>1. /\ revision \in Nat /\ \A k \in Ids : tried[k] \in Nat /\ covered[k] \in Nat
      /\ tried \in [Ids -> Revisions] /\ covered \in [Ids -> Revisions]
  BY DEF IInv, LedgerOK
<1>2. CASE BeginPass(j)
  <2>1. \A k \in Ids : tried'[k] = tried[k] \/ tried'[k] = revision
    BY <1>1, <1>2 DEF BeginPass
  <2>2. UNCHANGED <<revision, covered, issued>>
    BY <1>2 DEF BeginPass
  <2>3. \A k \in Ids : covered'[k] <= tried'[k] /\ tried'[k] <= revision'
    BY <1>1, <2>1, <2>2 DEF LedgerKept
  <2>. QED
    BY <2>2, <2>3 DEF LedgerKept
<1>3. CASE PassSucceeds(j)
  <2>1. runner[j] \in Live /\ ~(j > issued)
    BY <1>3, LiveIsIssued DEF PassSucceeds
  <2>2. \A k \in Ids : covered'[k] = covered[k] \/ (k = j /\ covered'[k] = tried[k])
    BY <1>1, <1>3 DEF PassSucceeds
  <2>3. UNCHANGED <<revision, tried, issued>>
    BY <1>3 DEF PassSucceeds
  <2>4. \A k \in Ids : covered'[k] <= tried'[k] /\ tried'[k] <= revision'
    BY <1>1, <2>2, <2>3 DEF LedgerKept
  <2>. QED
    BY <2>1, <2>2, <2>3, <2>4 DEF LedgerKept
<1>4. CASE ~BeginPass(j) /\ ~PassSucceeds(j)
  <2>1. UNCHANGED <<revision, tried, covered, issued>>
    BY <1>4 DEF Thread, Launch, LaunchFails, IgnoreEvent, PassFails, Again, Conclude, Fail, ghosts
  <2>. QED
    BY <2>1 DEF LedgerKept
<1>. QED
  BY <1>2, <1>3, <1>4

LEMMA StepKeepsLedger ==
  ASSUME IInv, LedgerKept, [Next]_vars
  PROVE  LedgerKept'
<1>1. CASE \E j \in Ids : Thread(j)
  BY <1>1, ThreadKeepsLedger
<1>2. CASE \E kind \in Kinds : StartJob(kind)
  <2>1. issued' = issued + 1 /\ issued \in Nat /\ UNCHANGED <<revision, tried, covered>>
    BY <1>2 DEF StartJob, IInv, TableOK
  <2>. QED
    BY <2>1 DEF LedgerKept
<1>3. CASE (\E kind \in Kinds : Coalesce(kind)) \/ OperationBegins \/ UNCHANGED vars
  BY <1>3 DEF Coalesce, OperationBegins, vars, ghosts, LedgerKept
<1>4. CASE Merge \/ OperationEnds
  <2>1. /\ revision \in Nat /\ revision' \in Nat /\ revision <= revision'
        /\ UNCHANGED <<tried, covered, issued>>
    BY <1>4 DEF Merge, OperationEnds, ghosts, IInv, LedgerOK
  <2>2. \A k \in Ids : tried[k] \in Nat
    BY DEF IInv, LedgerOK
  <2>. QED
    BY <2>1, <2>2 DEF LedgerKept
<1>5. CASE Restart
  BY <1>5 DEF Restart, LedgerKept, IInv, LedgerOK
<1>. QED
  BY <1>1, <1>2, <1>3, <1>4, <1>5 DEF Next

\* The queue counts and calls running what SyncJobs does.
LEMMA SameCount == \A S : Queue!Cardinality(S) = Cardinality(S)
BY DEF Cardinality, Queue!Cardinality

LEMMA SameRunning == Queue!Running = Running /\ Queue!Pollable = Known
BY DEF Queue!Running, Queue!Pollable, Running, Known

\* Registering a job opens one.
LEMMA StartOpens ==
  ASSUME IInv, LedgerKept, TableBounded', NEW kind \in Kinds, StartJob(kind)
  PROVE  Queue!Open
<1>. DEFINE id == issued + 1
<1>1. id \in Ids /\ issued \in Nat /\ covered \in [Ids -> Revisions] /\ covered[id] = 0
  BY DEF StartJob, IInv, TableOK, LedgerOK, LedgerKept
<1>2. /\ issued' = id /\ UNCHANGED <<revision, covered>> /\ Running = {}
      /\ jobs' = [j \in Kept \cup {id} |-> IF j = id THEN "running" ELSE jobs[j]]
      /\ asked' = [asked EXCEPT ![id] = IF kind = "schedule" THEN revision ELSE 0]
  BY DEF StartJob
<1>3. Kept \in SUBSET Known /\ DOMAIN jobs' = Kept \cup {id}
  BY <1>2 DEF Kept
<1>4. Queue!Cardinality(Kept \cup {id}) <= Retained
  BY <1>3, SameCount DEF TableBounded, Known
<1>5. covered' = [covered EXCEPT ![issued'] = 0]
  BY <1>1, <1>2
<1>6. PICK request \in {0, revision} : asked' = [asked EXCEPT ![issued'] = request]
  BY <1>2
<1>7. \E kept \in SUBSET Queue!Pollable :
        /\ Queue!Cardinality(kept \cup {issued'}) <= Retained
        /\ jobs' = [j \in kept \cup {issued'} |-> IF j = issued' THEN "running" ELSE jobs[j]]
  <2>1. issued' = id /\ Kept \in SUBSET Queue!Pollable
    BY <1>2, <1>3, SameRunning
  <2>2. jobs' = [j \in Kept \cup {issued'} |-> IF j = issued' THEN "running" ELSE jobs[j]]
    BY <1>2
  <2>3. Queue!Cardinality(Kept \cup {issued'}) <= Retained
    BY <1>4, <2>1
  <2>. QED
    BY <2>1, <2>2, <2>3
<1>8. Queue!Running = {} /\ issued' = issued + 1 /\ issued' \in Ids /\ UNCHANGED revision
  BY <1>1, <1>2, SameRunning
<1>9. \E r \in {0, revision} : asked' = [asked EXCEPT ![issued'] = r]
  BY <1>6
<1>. QED
  BY <1>5, <1>7, <1>8, <1>9 DEF Queue!Open

\* A folded-in request joins the running job, or asks for nothing.
LEMMA CoalesceJoins ==
  ASSUME IInv, NEW kind \in Kinds, Coalesce(kind)
  PROVE  UNCHANGED Queue!vars \/ \E j \in Ids : Queue!Join(j)
<1>1. PICK j \in Running :
        asked' = [asked EXCEPT ![j] = IF kind = "schedule" THEN revision ELSE @]
  BY DEF Coalesce
<1>2. Running = {j} /\ j \in Ids /\ asked \in [Ids -> Revisions]
  BY <1>1 DEF IInv, AtMostOneRunning, Running, TableOK, LedgerOK
<1>3. UNCHANGED <<revision, jobs, issued, covered>>
  BY DEF Coalesce
<1>4. CASE kind = "schedule"
  <2>1. Queue!Join(j)
    BY <1>1, <1>2, <1>3, <1>4, SameRunning DEF Queue!Join
  <2>. QED
    BY <1>2, <2>1
<1>5. CASE kind # "schedule"
  <2>1. asked' = asked
    BY <1>1, <1>2, <1>5
  <2>. QED
    BY <1>3, <2>1 DEF Queue!vars
<1>. QED
  BY <1>4, <1>5

\* A thread covers its requests, ends its job as it may, or changes nothing callers see.
LEMMA ThreadAdvances ==
  ASSUME IInv, LedgerKept, NEW j \in Ids, Thread(j)
  PROVE  UNCHANGED Queue!vars \/ Queue!Cover(j) \/ Queue!Succeed(j) \/ Queue!Fail(j)
<1>1. Running = {j}
  BY LiveIsIssued DEF Thread, Launch, LaunchFails, IgnoreEvent, BeginPass, PassSucceeds, PassFails,
     Again, Conclude, Fail
<1>2. /\ revision \in Nat /\ tried[j] \in Nat /\ covered[j] \in Nat /\ asked[j] \in Nat
      /\ covered \in [Ids -> Revisions]
  BY DEF IInv, LedgerOK
<1>3. CASE PassSucceeds(j)
  <2>1. PICK seen \in {covered[j], tried[j]} : covered' = [covered EXCEPT ![j] = seen]
    BY <1>3 DEF PassSucceeds
  <2>2. seen \in covered[j]..revision
    BY <1>2, <2>1 DEF LedgerKept
  <2>3. UNCHANGED <<revision, jobs, issued, asked>>
    BY <1>3 DEF PassSucceeds
  <2>4. Queue!Cover(j)
    BY <1>1, <2>1, <2>2, <2>3, SameRunning DEF Queue!Cover
  <2>. QED
    BY <2>4
<1>4. CASE Conclude(j)
  <2>1. asked[j] <= covered[j]
    BY <1>4 DEF Conclude, IInv, Promise
  <2>2. Queue!Ends(j, "succeeded")
    BY <1>1, <1>4, SameRunning DEF Conclude, ghosts, Queue!Ends
  <2>. QED
    BY <2>1, <2>2 DEF Queue!Succeed
<1>5. CASE Fail(j)
  <2>1. Queue!Ends(j, "failed")
    BY <1>1, <1>5, SameRunning DEF Fail, ghosts, Queue!Ends
  <2>. QED
    BY <2>1 DEF Queue!Fail
<1>6. CASE Launch(j) \/ LaunchFails(j) \/ IgnoreEvent(j) \/ BeginPass(j) \/ PassFails(j) \/ Again(j)
  BY <1>6 DEF Launch, LaunchFails, IgnoreEvent, BeginPass, PassFails, Again, ghosts, Queue!vars
<1>. QED
  BY <1>3, <1>4, <1>5, <1>6 DEF Thread

LEMMA StepOfQueue ==
  ASSUME IInv, LedgerKept, TableBounded', [Next]_vars
  PROVE  [Queue!Next]_(Queue!vars)
<1>1. CASE \E kind \in Kinds : StartJob(kind)
  BY <1>1, StartOpens DEF Queue!Next
<1>2. CASE \E kind \in Kinds : Coalesce(kind)
  BY <1>2, CoalesceJoins DEF Queue!Next
<1>3. CASE \E j \in Ids : Thread(j)
  BY <1>3, ThreadAdvances DEF Queue!Next
<1>4. CASE Merge \/ OperationEnds
  <2>1. /\ UNCHANGED <<jobs, issued, asked, covered>>
        /\ revision' = revision \/ revision' = revision + 1
    BY <1>4 DEF Merge, OperationEnds, ghosts
  <2>. QED
    BY <2>1 DEF Queue!Next, Queue!Changes, Queue!vars
<1>5. CASE Restart
  BY <1>5 DEF Restart, Queue!Restart, Queue!Next
<1>6. CASE OperationBegins \/ UNCHANGED vars
  BY <1>6 DEF OperationBegins, vars, ghosts, Queue!vars
<1>. QED
  BY <1>1, <1>2, <1>3, <1>4, <1>5, <1>6 DEF Next

\* SyncJobs implements SyncQueue: whatever the threads, the flag, evictions and
\* restarts do in between, those who post requests and poll jobs see one queue.
THEOREM JobsImplementQueue == Spec => ImplementsSyncQueue
<1>1. Init => LedgerKept /\ Queue!Init
  BY DEF Init, LedgerKept, Queue!Init
<1>2. IInv /\ LedgerKept /\ [Next]_vars => LedgerKept'
  BY StepKeepsLedger
<1>3. IInv /\ LedgerKept /\ TableBounded' /\ [Next]_vars => [Queue!Next]_(Queue!vars)
  BY StepOfQueue
<1>. QED
  BY <1>1, <1>2, <1>3, Inductive, TableIsBounded, PTL DEF Spec, ImplementsSyncQueue, Queue!Spec
==============================================================================
