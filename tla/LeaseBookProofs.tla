-------------------------- MODULE LeaseBookProofs ---------------------------
(***************************************************************************)
(* TaskLeases implements LeaseBook: its initial state is an empty book, and *)
(* every step is one of the book's operations or leaves the book alone.    *)
(* Beside the invariant of TaskLeasesProofs it takes BookKept: a record     *)
(* that says prepared is a lease's or a finished task's, the task being     *)
(* prepared is a lease, and what is still admitted may be claimed.          *)
(***************************************************************************)
EXTENDS TaskLeasesProofs

\* A record that says prepared is that of a lease, or of a completed task.
PreparedKept ==
  \A t \in Tasks : records[t].prepared =>
    /\ records[t].status # "none" /\ ~records[t].expired
    /\ records[t].status = "completed" => tracker[t] = "completed"

Preparing == {"branching", "opening", "marking"}

BookKept ==
  /\ PreparedKept
  /\ \A t \in Tasks : at \in Preparing /\ t = subject => Held(t)
  /\ \A t \in admitted : Held(t) \/ tracker[t] \in {"pending", "in_progress"}

\* Steps that leave the tracker and the records alone leave the book alone.
LEMMA SameBook ==
  ASSUME UNCHANGED durable
  PROVE  /\ UNCHANGED <<tracker, Leases, Ready>>
         /\ PreparedKept => PreparedKept'
         /\ \A t \in Tasks : Held(t)' <=> Held(t)
BY DEF durable, Leases, Ready, PreparedKept, Held

\* A record that changed in nothing the book reads.
LEMMA SameLeases ==
  ASSUME tracker' = tracker,
         \A t \in Tasks : Holds(records'[t], tracker[t]) <=> Holds(records[t], tracker[t]),
         \A t \in Tasks : records'[t].prepared = records[t].prepared
  PROVE  Leases' = Leases /\ Ready' = Ready
<1>1. \A t \in Tasks : Held(t)' <=> Held(t)
  BY DEF Held
<1>. QED
  BY <1>1 DEF Leases, Ready

\* The writes of single records, field by field.
LEMMA ReservedRecord ==
  ASSUME records \in [Tasks -> Record], NEW u \in Tasks,
         records' = [records EXCEPT ![u].status = "in_progress", ![u].expired = FALSE]
  PROVE  /\ \A t \in Tasks : t # u => records'[t] = records[t]
         /\ records'[u].status = "in_progress" /\ ~records'[u].expired
         /\ records'[u].prepared = records[u].prepared
OBVIOUS

LEMMA MarkedRecord ==
  ASSUME records \in [Tasks -> Record], NEW u \in Tasks,
         records' = [records EXCEPT ![u].prepared = TRUE]
  PROVE  /\ \A t \in Tasks : t # u => records'[t] = records[t]
         /\ records'[u].status = records[u].status
         /\ records'[u].expired = records[u].expired
         /\ records'[u].prepared
OBVIOUS

LEMMA ExpiredRecord ==
  ASSUME records \in [Tasks -> Record], NEW u \in Tasks,
         records' = [records EXCEPT ![u].expired = TRUE, ![u].prepared = FALSE]
  PROVE  /\ \A t \in Tasks : t # u => records'[t] = records[t]
         /\ records'[u].expired /\ ~records'[u].prepared
OBVIOUS

------------------------------------------------------------------------------
(* BookKept is invariant *)

LEMMA InitBook == Init => BookKept
<1>1. SUFFICES ASSUME Init PROVE BookKept
  OBVIOUS
<1>2. \A t \in Tasks : records[t] = NoRecord
  BY <1>1 DEF Init
<1>. QED
  BY <1>1, <1>2 DEF Init, BookKept, PreparedKept, NoRecord, Preparing

\* Steps that leave the records and the tracker alone, and admit nothing new.
LEMMA QuietBook ==
  ASSUME IInv, BookKept, UNCHANGED durable, admitted' \subseteq admitted,
         at' \in Preparing => at \in Preparing /\ subject' = subject
  PROVE  BookKept'
<1>1. PreparedKept' /\ \A t \in Tasks : Held(t)' <=> Held(t)
  BY SameBook DEF BookKept
<1>2. \A t \in Tasks : at' \in Preparing /\ t = subject' => Held(t)'
  BY <1>1 DEF BookKept
<1>3. \A t \in admitted' : Held(t)' \/ tracker'[t] \in {"pending", "in_progress"}
  BY <1>1 DEF BookKept, durable, IInv, TypeOK
<1>4. (\A t \in Tasks : at \in Preparing /\ t = subject => Held(t))'
  BY <1>2 DEF Preparing
<1>. QED
  BY <1>1, <1>3, <1>4 DEF BookKept

LEMMA PullsBook ==
  ASSUME IInv, BookKept, NEW only \in Tasks \cup {"all"}, SyncPulls(only)
  PROVE  BookKept'
<1>1. records' = records /\ tracker' = main /\ at' = "saving" /\ admitted' = admitted
  BY DEF SyncPulls
<1>2. admitted' = {}
  BY <1>1 DEF IInv, Locals, SyncPulls, InLoop
<1>3. PreparedKept'
  BY <1>1 DEF BookKept, PreparedKept, IInv, CompletionsStay
<1>. QED
  BY <1>1, <1>2, <1>3 DEF BookKept, Preparing

LEMMA SavesBook ==
  ASSUME IInv, BookKept, SyncSaves
  PROVE  BookKept'
<1>1. records' = Retired /\ tracker' = tracker /\ at' = "choosing" /\ TypeOK
  BY DEF SyncSaves, IInv
<1>2. \A t \in Tasks :
        /\ records'[t].prepared = records[t].prepared
        /\ records'[t].expired = records[t].expired
        /\ records'[t].status = IF Recorded(t) /\ t \in Done THEN "completed" ELSE records[t].status
  BY <1>1 DEF Retired, TypeOK
<1>3. PreparedKept'
  BY <1>1, <1>2 DEF BookKept, PreparedKept, Recorded, Done
<1>4. \A t \in admitted' : Effective(records', t) \in {"pending", "in_progress"}
  <2>1. CASE subject = "all"
    BY <2>1 DEF SyncSaves, Selected, Available
  <2>2. CASE subject # "all"
    BY <2>2 DEF SyncSaves, Requested
  <2>. QED
    BY <2>1, <2>2
<1>5. \A t \in admitted' : Held(t)' \/ tracker'[t] \in {"pending", "in_progress"}
  BY <1>1, <1>4 DEF Effective, Held, Holds
<1>. QED
  BY <1>1, <1>3, <1>5 DEF BookKept, Preparing

\* The task being reserved may be claimed, and is a lease afterwards.
LEMMA ReserveBook ==
  ASSUME IInv, BookKept, Reserve
  PROVE  /\ BookKept'
         /\ subject' \in Tasks /\ Leases' = Leases \cup {subject'} /\ Ready' = Ready
         /\ tracker' = tracker
         /\ subject' \notin Leases => tracker[subject'] \in {"pending", "in_progress"}
<1>0. PICK u : u = subject'
  OBVIOUS
<1>1. /\ u \in Tasks
      /\ records' = [records EXCEPT ![u].status = "in_progress", ![u].expired = FALSE]
      /\ \/ u \in retries /\ admitted' = admitted
         \/ u \in admitted /\ admitted' = admitted \ {u}
      /\ at' = "branching" /\ tracker' = tracker
  BY <1>0, ReserveFacts
<1>2. records \in [Tasks -> Record] /\ admitted \subseteq Tasks /\ retries \subseteq Tasks
  BY DEF IInv, TypeOK
<1>3. Held(u) \/ tracker[u] \in {"pending", "in_progress"}
  BY <1>1 DEF IInv, Justified, BookKept
<1>4. /\ \A t \in Tasks : t # u => records'[t] = records[t]
      /\ records'[u].status = "in_progress" /\ ~records'[u].expired
      /\ records'[u].prepared = records[u].prepared
  BY <1>1, <1>2, ReservedRecord
<1>5. tracker[u] # "completed"
  BY <1>3 DEF Held, Holds
<1>6. /\ Held(u)'
      /\ \A t \in Tasks : t # u => (Held(t)' <=> Held(t))
  BY <1>1, <1>4, <1>5 DEF Held, Holds
<1>7. Leases' = Leases \cup {u}
  BY <1>1, <1>6 DEF Leases
<1>8. records[u].prepared => Held(u)
  <2>1. records[u] \in Record
    BY <1>1, <1>2
  <2>2. records[u].status \in {"none", "in_progress", "completed"}
    BY <2>1 DEF Record
  <2>. QED
    BY <1>1, <1>5, <2>2 DEF BookKept, PreparedKept, Held, Holds
<1>9. Ready' = Ready
  BY <1>1, <1>4, <1>6, <1>8 DEF Ready
<1>10. PreparedKept'
  BY <1>1, <1>4 DEF BookKept, PreparedKept
<1>11. \A t \in admitted' : Held(t)' \/ tracker'[t] \in {"pending", "in_progress"}
  BY <1>1, <1>2, <1>6 DEF BookKept
<1>12. (\A t \in Tasks : at \in Preparing /\ t = subject => Held(t))'
  BY <1>0, <1>6
<1>13. BookKept'
  BY <1>10, <1>11, <1>12 DEF BookKept
<1>. QED
  BY <1>0, <1>1, <1>3, <1>7, <1>9, <1>13 DEF Leases

\* What is marked prepared is a lease.
LEMMA MarkBook ==
  ASSUME IInv, BookKept, MarkPrepared
  PROVE  /\ BookKept'
         /\ subject \in Leases /\ Leases' = Leases /\ Ready' = Ready \cup {subject}
         /\ tracker' = tracker
<1>1. /\ records' = [records EXCEPT ![subject].prepared = TRUE] /\ at = "marking"
      /\ at' = "choosing" /\ UNCHANGED <<tracker, subject, admitted>>
  BY DEF MarkPrepared
<1>2. records \in [Tasks -> Record] /\ subject \in Tasks
  BY <1>1 DEF IInv, TypeOK, Locals, OnTask
<1>3. Held(subject)
  BY <1>1, <1>2 DEF BookKept, Preparing
<1>4. /\ \A t \in Tasks : t # subject => records'[t] = records[t]
      /\ records'[subject].status = records[subject].status
      /\ records'[subject].expired = records[subject].expired
      /\ records'[subject].prepared
  BY <1>1, <1>2, MarkedRecord
<1>5. \A t \in Tasks : Held(t)' <=> Held(t)
  BY <1>1, <1>4 DEF Held, Holds
<1>6. Leases' = Leases
  BY <1>5 DEF Leases
<1>7. Ready' = Ready \cup {subject}
  BY <1>2, <1>3, <1>4, <1>5 DEF Ready
<1>8. PreparedKept'
  BY <1>1, <1>3, <1>4 DEF BookKept, PreparedKept, Held, Holds
<1>9. \A t \in admitted' : Held(t)' \/ tracker'[t] \in {"pending", "in_progress"}
  BY <1>1, <1>5 DEF BookKept, IInv, TypeOK
<1>10. BookKept'
  BY <1>1, <1>8, <1>9 DEF BookKept, Preparing
<1>. QED
  BY <1>1, <1>2, <1>3, <1>6, <1>7, <1>10 DEF Leases

\* An expiry gives up the lease and what was ready with it.
LEMMA ExpiryBook ==
  ASSUME IInv, BookKept, ExpireWrites
  PROVE  /\ BookKept'
         /\ subject \in Tasks /\ tracker' = tracker
         /\ Leases' = Leases \ {subject} /\ Ready' = Ready \ {subject}
<1>0. PICK u : u = subject
  OBVIOUS
<1>1. /\ records' = [records EXCEPT ![u].expired = TRUE, ![u].prepared = FALSE]
      /\ at = "forgetting" /\ at' = "idle" /\ UNCHANGED <<tracker, admitted>>
  BY <1>0 DEF ExpireWrites
<1>2. records \in [Tasks -> Record] /\ u \in Tasks /\ admitted = {}
  BY <1>0, <1>1 DEF IInv, TypeOK, Locals, OnTask, InLoop
<1>3. /\ \A t \in Tasks : t # u => records'[t] = records[t]
      /\ records'[u].expired /\ ~records'[u].prepared
  BY <1>1, <1>2, ExpiredRecord
<1>4. ~Held(u)' /\ \A t \in Tasks : t # u => (Held(t)' <=> Held(t))
  BY <1>1, <1>3 DEF Held, Holds
<1>5. Leases' = Leases \ {u}
  BY <1>4 DEF Leases
<1>6. Ready' = Ready \ {u}
  BY <1>3, <1>4 DEF Ready
<1>7. PreparedKept'
  BY <1>1, <1>3 DEF BookKept, PreparedKept
<1>8. BookKept'
  BY <1>1, <1>2, <1>7 DEF BookKept, Preparing
<1>. QED
  BY <1>0, <1>1, <1>2, <1>5, <1>6, <1>8

LEMMA LossBook ==
  ASSUME IInv, LoseState
  PROVE  BookKept' /\ tracker' = [t \in Tasks |-> "unknown"] /\ Leases' = {} /\ Ready' = {}
<1>1. /\ tracker' = [t \in Tasks |-> "unknown"] /\ at' = "idle" /\ admitted' = {}
      /\ \A t \in Tasks : records'[t] = NoRecord
  BY DEF LoseState, locals, IInv, Locals, InLoop
<1>2. \A t \in Tasks : ~Held(t)' /\ ~records'[t].prepared
  BY <1>1 DEF Held, Holds, NoRecord
<1>3. BookKept'
  BY <1>1, <1>2 DEF BookKept, PreparedKept, Preparing
<1>. QED
  BY <1>1, <1>2, <1>3 DEF Leases, Ready

------------------------------------------------------------------------------
(* Every step is a step of the book *)

\* What the steps that write neither file do to the book.
LEMMA QuietStep ==
  ASSUME IInv, BookKept,
         \/ SyncEnds \/ EnsureBranch \/ OpenBranch \/ PrepareFails
         \/ (\E t \in Tasks : Expire(t)) \/ ExpireDeletes \/ ExpireFails
         \/ (\E t \in Tasks : MainMoves(t) \/ Stamp(t) \/ OutsiderDeletes(t))
         \/ Crash \/ UNCHANGED vars
  PROVE  BookKept' /\ UNCHANGED <<tracker, Leases, Ready>>
<1>1. UNCHANGED durable
  BY DEF SyncEnds, EnsureBranch, OpenBranch, PrepareFails, Expire, ExpireDeletes, ExpireFails,
         MainMoves, Stamp, OutsiderDeletes, Crash, vars, durable
<1>2. admitted' \subseteq admitted
  BY DEF SyncEnds, EnsureBranch, OpenBranch, PrepareFails, Expire, ExpireDeletes, ExpireFails,
         MainMoves, Stamp, OutsiderDeletes, Crash, vars, locals
<1>3. at' \in Preparing => at \in Preparing /\ subject' = subject
  BY DEF SyncEnds, EnsureBranch, OpenBranch, PrepareFails, Expire, ExpireDeletes, ExpireFails,
         MainMoves, Stamp, OutsiderDeletes, Crash, vars, locals, Preparing
<1>. QED
  BY <1>1, <1>2, <1>3, QuietBook, SameBook

\* A pull of main ends the leases of the tasks it has completed.
LEMMA LearnStep ==
  ASSUME IInv, NEW only \in Tasks \cup {"all"}, SyncPulls(only)
  PROVE  /\ tracker' = main /\ main \in [Tasks -> Status]
         /\ Leases' = {t \in Leases : main[t] # "completed"}
         /\ Ready' = Ready \cap Leases'
<1>1. tracker' = main /\ records' = records /\ main \in [Tasks -> Status]
  BY DEF SyncPulls, IInv, TypeOK
<1>2. \A t \in Tasks : Held(t)' <=> Held(t) /\ main[t] # "completed"
  BY <1>1 DEF Held, Holds, IInv, CompletionsStay
<1>3. Leases' = {t \in Leases : main[t] # "completed"}
  BY <1>2 DEF Leases
<1>4. Ready' = Ready \cap Leases'
  BY <1>1, <1>2 DEF Ready, Leases
<1>. QED
  BY <1>1, <1>3, <1>4

\* Retirement ends no lease.
LEMMA RetireStep ==
  ASSUME IInv, SyncSaves
  PROVE  UNCHANGED <<tracker, Leases, Ready>>
<1>1. records' = Retired /\ tracker' = tracker /\ TypeOK
  BY DEF SyncSaves, IInv
<1>2. \A t \in Tasks :
        /\ records'[t].prepared = records[t].prepared
        /\ records'[t].expired = records[t].expired
        /\ records'[t].status = IF Recorded(t) /\ t \in Done THEN "completed" ELSE records[t].status
  BY <1>1 DEF Retired, TypeOK
<1>3. \A t \in Tasks : Holds(records'[t], tracker[t]) <=> Holds(records[t], tracker[t])
  BY <1>2 DEF Holds, Done
<1>. QED
  BY <1>1, <1>2, <1>3, SameLeases

\* The book counts as FiniteSets does.
LEMMA SameCount == \A S : Book!Cardinality(S) = Cardinality(S)
BY DEF Cardinality, Book!Cardinality

\* A reservation takes a lease the book allows, or one it has.
LEMMA ClaimStep ==
  ASSUME IInv, BookKept, IInv', Reserve
  PROVE  \/ UNCHANGED <<tracker, Leases, Ready>>
         \/ \E t \in Tasks : Book!Claim(t)
<1>0. PICK u : u = subject'
  OBVIOUS
<1>1. /\ u \in Tasks /\ Leases' = Leases \cup {u} /\ Ready' = Ready /\ tracker' = tracker
      /\ u \notin Leases => tracker[u] \in {"pending", "in_progress"}
  BY <1>0, ReserveBook
<1>2. CASE u \in Leases
  BY <1>1, <1>2
<1>3. CASE u \notin Leases
  <2>1. CASE tracker[u] = "in_progress"
    <3>1. Book!Claim(u)
      BY <1>1, <1>3, <2>1 DEF Book!Claim
    <3>. QED
      BY <1>1, <3>1
  <2>2. CASE tracker[u] = "pending"
    <3>1. Claims(u)
      BY <1>1, <1>3 DEF Claims, Leases
    <3>2. [Next]_vars
      BY DEF Next, Panel
    <3>3. u \in admitted /\ u \notin Active(records)
      BY <1>1, <2>2, <3>1, <3>2, ClaimsAreAdmitted
    <3>4. \A d \in DependsOn[u] : tracker[d] = "completed"
      BY <3>3 DEF IInv, Justified, Done
    <3>5. Cardinality(Active(records)) < Capacity
      BY <3>3, AdmittedFits
    <3>6. Active(records) = Book!InProgress
      BY ActiveTasks DEF Book!InProgress, Leases, Held
    <3>7. Book!Claim(u)
      BY <1>1, <1>3, <2>2, <3>4, <3>5, <3>6, SameCount DEF Book!Claim
    <3>. QED
      BY <1>1, <3>7
  <2>. QED
    BY <1>1, <1>3, <2>1, <2>2
<1>. QED
  BY <1>2, <1>3

LEMMA StepOfBook ==
  ASSUME IInv, BookKept, IInv', [Next]_vars
  PROVE  BookKept' /\ [Book!Next]_(Book!vars)
<1>1. UNCHANGED <<tracker, Leases, Ready>> => UNCHANGED Book!vars
  BY DEF Book!vars
<1>2. ASSUME NEW only \in Tasks \cup {"all"}, SyncPulls(only)
      PROVE  BookKept' /\ [Book!Next]_(Book!vars)
  <2>1. PICK status \in [Tasks -> Status] :
          /\ tracker' = status
          /\ Leases' = {t \in Leases : status[t] # "completed"} /\ Ready' = Ready \cap Leases'
    BY <1>2, LearnStep
  <2>2. Book!Learn(status)
    BY <2>1 DEF Book!Learn
  <2>3. status \in [Tasks -> Book!Statuses]
    BY <2>1 DEF Book!Statuses, Status
  <2>. QED
    BY <1>2, <2>2, <2>3, PullsBook DEF Book!Next
<1>3. CASE SyncSaves
  BY <1>1, <1>3, SavesBook, RetireStep
<1>4. CASE Reserve
  BY <1>1, <1>4, ReserveBook, ClaimStep DEF Book!Next
<1>5. CASE MarkPrepared
  <2>1. PICK u : /\ u \in Leases /\ Leases' = Leases /\ Ready' = Ready \cup {u}
                 /\ tracker' = tracker
    BY <1>5, MarkBook
  <2>2. u \in Tasks /\ Book!Prepare(u)
    BY <2>1 DEF Book!Prepare, Leases
  <2>. QED
    BY <1>5, <2>2, MarkBook DEF Book!Next
<1>6. CASE ExpireWrites
  <2>1. PICK u \in Tasks : /\ tracker' = tracker
                           /\ Leases' = Leases \ {u} /\ Ready' = Ready \ {u}
    BY <1>6, ExpiryBook
  <2>2. Book!Release(u)
    BY <2>1 DEF Book!Release
  <2>. QED
    BY <1>6, <2>1, <2>2, ExpiryBook DEF Book!Next
<1>7. CASE LoseState
  <2>1. tracker' = [t \in Tasks |-> "unknown"] /\ Leases' = {} /\ Ready' = {}
    BY <1>7, LossBook
  <2>2. Book!Forget
    BY <2>1 DEF Book!Forget
  <2>. QED
    BY <1>7, <2>2, LossBook DEF Book!Next
<1>8. CASE \/ SyncEnds \/ EnsureBranch \/ OpenBranch \/ PrepareFails
           \/ (\E t \in Tasks : Expire(t)) \/ ExpireDeletes \/ ExpireFails
           \/ (\E t \in Tasks : MainMoves(t) \/ Stamp(t) \/ OutsiderDeletes(t))
           \/ Crash \/ UNCHANGED vars
  BY <1>1, <1>8, QuietStep
<1>. QED
  BY <1>2, <1>3, <1>4, <1>5, <1>6, <1>7, <1>8 DEF Next, Panel, World, StartSync

\* TaskLeases implements LeaseBook: whatever fails or is cut short, each step of the
\* panel and of everybody else is one operation on the book of leases, or none.
THEOREM LeasesImplementBook == Spec => ImplementsLeaseBook
<1>1. Init => BookKept /\ Book!Init
  <2>1. ASSUME Init PROVE Book!Init
    <3>1. tracker = [t \in Tasks |-> "unknown"] /\ \A t \in Tasks : ~Held(t)
      BY <2>1 DEF Init, Held, Holds, NoRecord
    <3>2. Leases = {} /\ Ready = {}
      BY <3>1 DEF Leases, Ready
    <3>. QED
      BY <3>1, <3>2 DEF Book!Init
  <2>. QED
    BY <2>1, InitBook
<1>2. IInv /\ BookKept /\ IInv' /\ [Next]_vars => BookKept' /\ [Book!Next]_(Book!vars)
  BY StepOfBook
<1>. QED
  BY <1>1, <1>2, Inductive, PTL DEF Spec, ImplementsLeaseBook, Book!Spec

------------------------------------------------------------------------------
(* What the book says of all leases at once *)

\* What puts a task in progress on main is a merge of the task's own branch, which
\* carries the opening commit, without its stamp: it happens to tasks that are held.
\* (A maintainer who writes in_progress into main's tracker by hand is left out, and
\* so is a merge of an earlier lease's branch after its record was lost.)
MarkedByLeases ==
  \A t \in Tasks : main'[t] = "in_progress" => main[t] = "in_progress" \/ t \in Leases

LeasesFit      == Cardinality(Active(records)) <= Capacity
LeasesAreReady == \A t \in Leases : DependsOn[t] \subseteq Done

Marked  == {t \in Tasks : main[t] = "in_progress"}
InUse   == Book!InProgress \cup Marked
Passing == {"saving", "choosing"} \cup Preparing

\* A slot that main has marked stays in use after its lease is expired; during a
\* pass the marks are those of the copy that was pulled, or those of leases.
SlotsKept ==
  /\ Cardinality(InUse) <= Capacity
  /\ at \in Passing => Marked \subseteq Book!InProgress
  /\ LeasesAreReady
  /\ \A t \in Marked : \A d \in DependsOn[t] : main[d] = "completed"
  /\ \A t \in Tasks : tracker[t] = "in_progress" => DependsOn[t] \subseteq Done

LEMMA CountedSlots ==
  /\ InUse \subseteq Tasks /\ IsFiniteSet(InUse) /\ Cardinality(InUse) \in Nat
  /\ \A S : S \subseteq InUse => Cardinality(S) \in Nat /\ Cardinality(S) <= Cardinality(InUse)
<1>1. InUse \subseteq Tasks /\ IsFiniteSet(InUse)
  BY TaskLeasesAssumption, FS_Subset DEF InUse, Leases, Marked, Book!InProgress
<1>2. ASSUME NEW S, S \subseteq InUse
      PROVE  Cardinality(S) \in Nat /\ Cardinality(S) <= Cardinality(InUse)
  BY <1>1, <1>2, FS_Subset, FS_CardinalityType
<1>. QED
  BY <1>1, <1>2, FS_CardinalityType

\* A completion on main is final.
LEMMA CompletionsAreFinal ==
  ASSUME IInv, [Next]_vars
  PROVE  \A t \in Tasks : main[t] = "completed" => main'[t] = "completed"
<1>1. main' = main \/ \E t \in Tasks : MainMoves(t)
  BY DEF Next, Panel, World, StartSync, SyncPulls, SyncSaves, SyncEnds, Reserve, EnsureBranch,
         OpenBranch, PrepareFails, MarkPrepared, Expire, ExpireDeletes, ExpireFails, ExpireWrites,
         Stamp, OutsiderDeletes, Crash, LoseState, durable, vars
<1>. QED
  BY <1>1 DEF MainMoves, IInv, TypeOK

\* Where the leases, the copy of main and main itself change, and where a pass is
\* then: a pull, a claim, the loss of the volume, and everything else.
LEMMA KindsOfSteps ==
  ASSUME IInv, BookKept, IInv', [Next]_vars
  PROVE  \/ /\ tracker' = main /\ main' = main
            /\ Leases' \subseteq Leases
         \/ /\ \E t \in Tasks : Book!Claim(t)
            /\ main' = main /\ at \in Passing
         \/ /\ Leases' = {} /\ main' = main /\ at' \notin Passing
            /\ tracker' = [t \in Tasks |-> "unknown"]
         \/ /\ tracker' = tracker /\ Leases' \subseteq Leases
            /\ at' \in Passing => at \in Passing /\ Leases' = Leases
<1>1. ASSUME NEW only \in Tasks \cup {"all"}, SyncPulls(only)
      PROVE  tracker' = main /\ main' = main /\ Leases' \subseteq Leases
  BY <1>1, LearnStep DEF SyncPulls
<1>2. CASE SyncSaves
  BY <1>2, RetireStep DEF SyncSaves, Passing
<1>3. CASE Reserve
  <2>1. main' = main /\ at \in Passing
    BY <1>3 DEF Reserve, Passing
  <2>. QED
    BY <1>3, <2>1, ClaimStep
<1>4. CASE MarkPrepared
  <2>1. at \in Passing
    BY <1>4 DEF MarkPrepared, Passing, Preparing
  <2>. QED
    BY <1>4, <2>1, MarkBook
<1>5. CASE ExpireWrites
  <2>1. at' \notin Passing
    BY <1>5 DEF ExpireWrites, Passing, Preparing
  <2>. QED
    BY <1>5, <2>1, ExpiryBook
<1>6. CASE LoseState
  <2>1. at' \notin Passing /\ main' = main
    BY <1>6 DEF LoseState, Passing, Preparing
  <2>. QED
    BY <1>6, <2>1, LossBook
<1>7. CASE \/ SyncEnds \/ EnsureBranch \/ OpenBranch \/ PrepareFails
           \/ (\E t \in Tasks : Expire(t)) \/ ExpireDeletes \/ ExpireFails
           \/ (\E t \in Tasks : MainMoves(t) \/ Stamp(t) \/ OutsiderDeletes(t))
           \/ Crash \/ UNCHANGED vars
  <2>1. at' \in Passing => at \in Passing
    BY <1>7 DEF SyncEnds, EnsureBranch, OpenBranch, PrepareFails, Expire, ExpireDeletes, ExpireFails,
         MainMoves, Stamp, OutsiderDeletes, Crash, vars, locals, Passing, Preparing
  <2>. QED
    BY <1>7, <2>1, QuietStep
<1>. QED
  BY <1>1, <1>2, <1>3, <1>4, <1>5, <1>6, <1>7 DEF Next, Panel, World, StartSync

\* The count survives whenever no slot is taken.
LEMMA FewerInUse ==
  ASSUME SlotsKept, InUse' \subseteq InUse
  PROVE  Cardinality(InUse') <= Capacity
<1>1. Cardinality(InUse') \in Nat /\ Cardinality(InUse') <= Cardinality(InUse)
  BY CountedSlots
<1>2. Cardinality(InUse) \in Nat /\ Cardinality(InUse) <= Capacity
  BY CountedSlots DEF SlotsKept
<1>. QED
  BY <1>1, <1>2, TaskLeasesAssumption

LEMMA PullKeepsSlots ==
  ASSUME IInv, SlotsKept, tracker' = main, main' = main, Leases' \subseteq Leases
  PROVE  SlotsKept'
<1>1. Book!InProgress' = Leases' \cup Marked /\ Marked' = Marked
  BY DEF Book!InProgress, Marked
<1>2. Cardinality(InUse') <= Capacity
  BY <1>1, FewerInUse DEF InUse, Book!InProgress
<1>3. Done \subseteq Done'
  BY DEF Done, IInv, CompletionsStay
<1>4. LeasesAreReady'
  BY <1>3 DEF SlotsKept, LeasesAreReady
<1>5. \A t \in Tasks : tracker'[t] = "in_progress" => DependsOn[t] \subseteq Done'
  BY TaskLeasesAssumption DEF SlotsKept, Marked, Done
<1>6. \A t \in Marked' : \A d \in DependsOn[t] : main'[d] = "completed"
  BY <1>1 DEF SlotsKept
<1>. QED
  BY <1>1, <1>2, <1>4, <1>5, <1>6 DEF SlotsKept

LEMMA ClaimKeepsSlots ==
  ASSUME IInv, SlotsKept, NEW t \in Tasks, Book!Claim(t), main' = main, at \in Passing
  PROVE  SlotsKept'
<1>1. t \notin Leases /\ Leases' = Leases \cup {t} /\ tracker' = tracker
  BY DEF Book!Claim
<1>2. Book!InProgress' = Book!InProgress \cup {t} /\ Marked' = Marked /\ Done' = Done
  BY <1>1 DEF Book!InProgress, Marked, Done
<1>3. InUse = Book!InProgress /\ InUse' = InUse \cup {t}
  BY <1>2 DEF InUse, SlotsKept
<1>4. DependsOn[t] \subseteq Done
  BY TaskLeasesAssumption DEF Book!Claim, SlotsKept, Done
<1>5. Cardinality(InUse') <= Capacity
  <2>1. CASE tracker[t] = "in_progress"
    <3>1. InUse' \subseteq InUse
      BY <1>3, <2>1 DEF Book!InProgress
    <3>. QED
      BY <3>1, FewerInUse
  <2>2. CASE Cardinality(InUse) < Capacity
    <3>1. Cardinality(InUse') \in {Cardinality(InUse), Cardinality(InUse) + 1}
      BY <1>3, CountedSlots, FS_AddElement
    <3>. QED
      BY <2>2, <3>1, CountedSlots, TaskLeasesAssumption
  <2>. QED
    BY <1>3, <2>1, <2>2, SameCount DEF Book!Claim
<1>6. LeasesAreReady'
  BY <1>1, <1>2, <1>4 DEF SlotsKept, LeasesAreReady
<1>7. Marked' \subseteq Book!InProgress'
  BY <1>2 DEF SlotsKept
<1>8. /\ \A u \in Marked' : \A d \in DependsOn[u] : main'[d] = "completed"
      /\ \A u \in Tasks : tracker'[u] = "in_progress" => DependsOn[u] \subseteq Done'
  BY <1>1, <1>2 DEF SlotsKept
<1>. QED
  BY <1>5, <1>6, <1>7, <1>8 DEF SlotsKept

LEMMA LossKeepsSlots ==
  ASSUME SlotsKept, Leases' = {}, main' = main, at' \notin Passing,
         tracker' = [t \in Tasks |-> "unknown"]
  PROVE  SlotsKept'
<1>1. Book!InProgress' = {} /\ Marked' = Marked
  BY DEF Book!InProgress, Marked
<1>2. Cardinality(InUse') <= Capacity
  BY <1>1, FewerInUse DEF InUse
<1>. QED
  BY <1>1, <1>2 DEF SlotsKept, LeasesAreReady

LEMMA OtherKeepsSlots ==
  ASSUME IInv, SlotsKept, [Next]_vars, MarkedByLeases \/ UNCHANGED vars,
         tracker' = tracker, Leases' \subseteq Leases,
         at' \in Passing => at \in Passing /\ Leases' = Leases
  PROVE  SlotsKept'
<1>1. Marked' \subseteq Marked \cup Leases
  BY DEF MarkedByLeases, Marked, vars
<1>2. Book!InProgress' \subseteq Book!InProgress /\ Done' = Done
  BY DEF Book!InProgress, Done
<1>3. Cardinality(InUse') <= Capacity
  BY <1>1, <1>2, FewerInUse DEF InUse, Book!InProgress
<1>4. at' \in Passing => Marked' \subseteq Book!InProgress'
  BY <1>1 DEF SlotsKept, Book!InProgress
<1>5. LeasesAreReady'
  BY <1>2 DEF SlotsKept, LeasesAreReady
<1>6. ASSUME NEW t \in Marked', NEW d \in DependsOn[t]
      PROVE  main'[d] = "completed"
  <2>1. t \in Tasks /\ d \in Tasks
    BY <1>6, TaskLeasesAssumption DEF Marked
  <2>2. main[d] = "completed"
    BY <1>1, <1>6, <2>1 DEF SlotsKept, LeasesAreReady, Done, IInv, CompletionsStay
  <2>. QED
    BY <2>1, <2>2, CompletionsAreFinal
<1>7. \A t \in Tasks : tracker'[t] = "in_progress" => DependsOn[t] \subseteq Done'
  BY <1>2 DEF SlotsKept
<1>. QED
  BY <1>3, <1>4, <1>5, <1>6, <1>7 DEF SlotsKept

LEMMA StepKeepsSlots ==
  ASSUME IInv, BookKept, IInv', [Next]_vars, MarkedByLeases \/ UNCHANGED vars, SlotsKept
  PROVE  SlotsKept'
BY KindsOfSteps, PullKeepsSlots, ClaimKeepsSlots, LossKeepsSlots, OtherKeepsSlots

\* The panel never holds more than TaskScheduler.capacity leases, counting as sync
\* does, and every task it holds has its dependencies completed: not only when it is
\* claimed, but through every crash, failed preparation, expiry and loss of the state
\* file that may follow, even when a task was merged without its stamp and remains in
\* progress on main; as long as main calls no other task in progress.
THEOREM LeasesStayWithinBounds ==
  Spec /\ [][MarkedByLeases]_vars => [](LeasesFit /\ LeasesAreReady)
<1>1. Init => BookKept /\ SlotsKept
  <2>1. ASSUME Init PROVE SlotsKept
    <3>1. Leases = {} /\ \A t \in Tasks : tracker[t] = "unknown" /\ main[t] = "pending"
      BY <2>1 DEF Init, Leases, Held, Holds, NoRecord
    <3>2. InUse = {} /\ Marked = {}
      BY <3>1 DEF InUse, Marked, Book!InProgress
    <3>3. Cardinality(InUse) <= Capacity
      BY <3>2, FS_EmptySet, TaskLeasesAssumption
    <3>. QED
      BY <3>1, <3>2, <3>3 DEF SlotsKept, LeasesAreReady
  <2>. QED
    BY <2>1, InitBook
<1>2. IInv /\ IInv' /\ BookKept /\ SlotsKept /\ [Next]_vars /\ [MarkedByLeases]_vars
        => (BookKept /\ SlotsKept)'
  BY StepOfBook, StepKeepsSlots
<1>3. IInv /\ SlotsKept => LeasesFit /\ LeasesAreReady
  <2>1. SUFFICES ASSUME IInv, SlotsKept PROVE LeasesFit
    BY DEF SlotsKept
  <2>2. Active(records) \subseteq InUse
    BY <2>1, ActiveTasks DEF InUse, Book!InProgress, Leases, Held
  <2>3. Cardinality(Active(records)) \in Nat /\ Cardinality(Active(records)) <= Cardinality(InUse)
    BY <2>2, CountedSlots
  <2>. QED
    BY <2>1, <2>3, CountedSlots, TaskLeasesAssumption DEF LeasesFit, SlotsKept
<1>. QED
  BY <1>1, <1>2, <1>3, Inductive, PTL DEF Spec
==============================================================================
