-------------------------- MODULE TaskLeasesProofs --------------------------
(***************************************************************************)
(* Theorems about TaskLeases, for any tracker, capacity and history.       *)
(***************************************************************************)
EXTENDS TaskLeases, FiniteSetTheorems, WellFoundedInduction, TLAPS

USE TaskLeasesAssumption

------------------------------------------------------------------------------
(* Tracker order *)

Above(S, t) == {u \in S : Rank[t] < Rank[u]}
Below(S, t) == {u \in S : Rank[u] < Rank[t]}

\* A family of subsets of the tasks has a member with no smaller member.
LEMMA SmallestOfFamily ==
  ASSUME NEW F, F \subseteq SUBSET Tasks, F # {}
  PROVE  \E X \in F : \A Y \in F : ~(Y \subseteq X /\ Y # X)
<1>1. F \subseteq FiniteSubsetsOf(Tasks)
  BY FS_FiniteSubsetsOfFinite
<1>2. \E X \in F : \A Y \in F : ~ (<<Y, X>> \in StrictSubsetOrdering(Tasks))
  BY <1>1, FS_StrictSubsetOrderingWellFounded, WFMin
<1>. QED
  BY <1>2 DEF StrictSubsetOrdering

\* Tasks come first and last in tracker order.
LEMMA Extremes ==
  ASSUME NEW S, S \subseteq Tasks, S # {}
  PROVE  /\ \E t \in S : \A u \in S : Rank[t] <= Rank[u]
         /\ \E t \in S : \A u \in S : Rank[u] <= Rank[t]
<1>1. \A t \in Tasks : Rank[t] \in Nat
  OBVIOUS
<1>2. \E t \in S : \A u \in S : Rank[t] <= Rank[u]
  <2>. DEFINE F == {Below(S, t) : t \in S}
  <2>0. \A t \in S : Below(S, t) \in SUBSET Tasks
    BY DEF Below
  <2>1. F \subseteq SUBSET Tasks /\ F # {}
    <3>. HIDE DEF Below
    <3>. QED
      BY <2>0
  <2>2. PICK X \in F : \A Y \in F : ~(Y \subseteq X /\ Y # X)
    <3>. HIDE DEF F
    <3>. QED
      BY <2>1, SmallestOfFamily
  <2>3. PICK t \in S : X = Below(S, t)
    BY <2>2
  <2>4. ASSUME NEW u \in S, Rank[u] < Rank[t]
        PROVE  FALSE
    <3>1. Below(S, u) \subseteq Below(S, t)
      BY <1>1, <2>4 DEF Below
    <3>2. u \in Below(S, t) /\ u \notin Below(S, u)
      BY <1>1, <2>4 DEF Below
    <3>. QED
      BY <2>2, <2>3, <3>1, <3>2
  <2>. QED
    BY <1>1, <2>3, <2>4
<1>3. \E t \in S : \A u \in S : Rank[u] <= Rank[t]
  <2>. DEFINE F == {Above(S, t) : t \in S}
  <2>0. \A t \in S : Above(S, t) \in SUBSET Tasks
    BY DEF Above
  <2>1. F \subseteq SUBSET Tasks /\ F # {}
    <3>. HIDE DEF Above
    <3>. QED
      BY <2>0
  <2>2. PICK X \in F : \A Y \in F : ~(Y \subseteq X /\ Y # X)
    <3>. HIDE DEF F
    <3>. QED
      BY <2>1, SmallestOfFamily
  <2>3. PICK t \in S : X = Above(S, t)
    BY <2>2
  <2>4. ASSUME NEW u \in S, Rank[t] < Rank[u]
        PROVE  FALSE
    <3>1. Above(S, u) \subseteq Above(S, t)
      BY <1>1, <2>4 DEF Above
    <3>2. u \in Above(S, t) /\ u \notin Above(S, u)
      BY <1>1, <2>4 DEF Above
    <3>. QED
      BY <2>2, <2>3, <3>1, <3>2
  <2>. QED
    BY <1>1, <2>3, <2>4
<1>. QED
  BY <1>2, <1>3

\* First picks a task of the set, the earliest in the tracker.
LEMMA FirstIsIn ==
  ASSUME NEW S, S \subseteq Tasks, S # {}
  PROVE  First(S) \in S
BY Extremes DEF First

\* available[:k] has at most k members.
LEMMA SliceBounded ==
  ASSUME NEW S, S \subseteq Tasks, NEW k \in Int,
         NEW X, X = {t \in S : Cardinality({u \in S : Rank[u] < Rank[t]}) < k}, X # {}
  PROVE  IsFiniteSet(X) /\ Cardinality(X) \in Nat /\ Cardinality(X) <= k
<1>1. X \subseteq Tasks /\ IsFiniteSet(X) /\ IsFiniteSet(S)
  BY FS_Subset
<1>2. PICK t \in X : \A u \in X : Rank[u] <= Rank[t]
  BY <1>1, Extremes
<1>3. X \ {t} \subseteq Below(S, t)
  <2>1. \A u \in Tasks : Rank[u] \in Nat
    OBVIOUS
  <2>. QED
    BY <1>1, <1>2, <2>1 DEF Below
<1>4. Below(S, t) \subseteq S /\ IsFiniteSet(Below(S, t)) /\ Cardinality(Below(S, t)) < k
  BY <1>1, <1>2, FS_Subset DEF Below
<1>5. Cardinality(X \ {t}) <= Cardinality(Below(S, t))
  BY <1>3, <1>4, FS_Subset
<1>6. Cardinality(X \ {t}) = Cardinality(X) - 1
  BY <1>1, <1>2, FS_RemoveElement
<1>7. Cardinality(X) \in Nat /\ Cardinality(Below(S, t)) \in Nat /\ Cardinality(X \ {t}) \in Nat
  BY <1>1, <1>4, FS_CardinalityType, FS_RemoveElement
<1>. QED
  BY <1>1, <1>4, <1>5, <1>6, <1>7

------------------------------------------------------------------------------
(* The inductive invariant *)

InLoop    == at \in {"choosing", "branching", "opening", "marking"}
OnTask    == at \in {"branching", "opening", "marking", "deleting", "forgetting"}
WasOpened == {"in_progress", "completed"}

\* What the operation holding the lock knows, from where it stands.
Locals ==
  /\ OnTask => subject \in Tasks
  /\ at = "saving" \/ InLoop => \A t \in Tasks : tracker[t] # "unknown"
  /\ ~InLoop => retries = {} /\ admitted = {}
  /\ at \in {"deleting", "forgetting"} => era[subject] < MaxEra

\* main never takes a completion back, so neither does the copy of it run ahead.
CompletionsStay == \A t \in Tasks : tracker[t] = "completed" => main[t] = "completed"

\* The branch of a prepared task, and of the task being prepared.
Opened ==
  /\ \A t \in Tasks : records[t].prepared /\ ~gone[t] => branch[t] \in WasOpened
  /\ at = "opening" /\ fetched = "in_progress" => branch[subject] \in WasOpened \cup {"none"}
  /\ at = "marking" /\ ~gone[subject] => branch[subject] \in WasOpened

\* Branches belong to the era they were created in.
OfThisEra ==
  /\ \A t \in Tasks : branch[t] # "none" => branchEra[t] = era[t]
  /\ at \in {"opening", "marking"} => branchEra[subject] = era[subject]
  /\ at = "forgetting" => branch[subject] = "none"

\* What the loop still has to do was justified when the pass began: the retries
\* are leases already, the others ready and within the free slots.
Justified ==
  /\ \A t \in retries : Held(t) \/ tracker[t] = "in_progress"
  /\ \A t \in admitted : DependsOn[t] \subseteq Done
  /\ \/ admitted \subseteq Active(records)
     \/ Cardinality(Active(records) \cup admitted) <= Capacity

IInv ==
  /\ TypeOK
  /\ Locals
  /\ CompletionsStay
  /\ Opened
  /\ OfThisEra
  /\ Justified

USE DEF Status, Record, Steps, InLoop, OnTask, WasOpened

\* What sync() and expire() write into a record leaves it a record.
LEMMA RecordUpdates ==
  ASSUME records \in [Tasks -> Record], NEW t \in Tasks
  PROVE  /\ [records EXCEPT ![t].status = "in_progress", ![t].expired = FALSE] \in [Tasks -> Record]
         /\ [records EXCEPT ![t].prepared = TRUE] \in [Tasks -> Record]
         /\ [records EXCEPT ![t].expired = TRUE, ![t].prepared = FALSE] \in [Tasks -> Record]
<1>. DEFINE r == records[t]
<1>1. /\ [r EXCEPT !.status = "in_progress", !.expired = FALSE] \in Record
      /\ [r EXCEPT !.prepared = TRUE] \in Record
      /\ [r EXCEPT !.expired = TRUE, !.prepared = FALSE] \in Record
  <2>1. r \in Record
    OBVIOUS
  <2>. HIDE DEF r
  <2>2. /\ [r EXCEPT !.status = "in_progress"] \in Record
        /\ [r EXCEPT !.prepared = TRUE] \in Record
        /\ [r EXCEPT !.expired = TRUE] \in Record
    BY <2>1
  <2>3. \A x \in Record : /\ [x EXCEPT !.expired = FALSE] \in Record
                          /\ [x EXCEPT !.prepared = FALSE] \in Record
    OBVIOUS
  <2>. QED
    BY <2>2, <2>3
<1>2. \A x \in Record : [records EXCEPT ![t] = x] \in [Tasks -> Record]
  OBVIOUS
<1>3. /\ [records EXCEPT ![t].status = "in_progress", ![t].expired = FALSE]
           = [records EXCEPT ![t] = [r EXCEPT !.status = "in_progress", !.expired = FALSE]]
      /\ [records EXCEPT ![t].prepared = TRUE] = [records EXCEPT ![t] = [r EXCEPT !.prepared = TRUE]]
      /\ [records EXCEPT ![t].expired = TRUE, ![t].prepared = FALSE]
           = [records EXCEPT ![t] = [r EXCEPT !.expired = TRUE, !.prepared = FALSE]]
  OBVIOUS
<1>. QED
  BY <1>1, <1>2, <1>3

LEMMA InitIInv == Init => IInv
<1>1. SUFFICES ASSUME Init PROVE IInv
  OBVIOUS
<1>2. TypeOK
  BY <1>1 DEF Init, TypeOK, NoRecord
<1>3. Locals /\ CompletionsStay /\ Opened /\ OfThisEra /\ Justified
  BY <1>1 DEF Init, Locals, CompletionsStay, Opened, OfThisEra, Justified, NoRecord
<1>. QED
  BY <1>2, <1>3 DEF IInv

------------------------------------------------------------------------------
(* sync *)

\* Nothing is pending between passes, so there is nothing to justify.
LEMMA NothingPending ==
  ASSUME retries = {}, admitted = {}
  PROVE  Justified
BY DEF Justified

LEMMA SyncPullsStep ==
  ASSUME IInv, NEW only \in Tasks \cup {"all"}, SyncPulls(only)
  PROVE  IInv'
<1>1. TypeOK'
  BY DEF IInv, TypeOK, SyncPulls, locals, ghosts
<1>2. Locals' /\ CompletionsStay'
  BY DEF IInv, TypeOK, SyncPulls, Locals, CompletionsStay, ghosts
<1>3. Opened' /\ OfThisEra'
  BY DEF IInv, TypeOK, SyncPulls, Opened, OfThisEra, ghosts
<1>4. Justified'
  BY DEF IInv, SyncPulls, Locals, Justified
<1>. QED
  BY <1>1, <1>2, <1>3, <1>4 DEF IInv

\* Retirement touches no field but the status, and no lease but finished ones.
LEMMA RetiredRecords ==
  ASSUME TypeOK
  PROVE  /\ Retired \in [Tasks -> Record]
         /\ \A t \in Tasks : Retired[t].prepared = records[t].prepared
         /\ \A t \in Tasks : Holds(Retired[t], tracker[t]) <=> Held(t)
BY DEF TypeOK, Retired, Recorded, Done, Holds, Held

\* The choice sync() makes is within the free slots, and of ready tasks.
LEMMA SelectedFits ==
  ASSUME NEW rs
  PROVE  /\ Selected(rs) \subseteq Available(rs)
         /\ Selected(rs) = {} \/ Cardinality(Active(rs) \cup Selected(rs)) <= Capacity
<1>1. Available(rs) \subseteq Tasks /\ Active(rs) \subseteq Tasks /\ Selected(rs) \subseteq Available(rs)
  BY DEF Available, Active, Selected
<1>2. /\ IsFiniteSet(Active(rs)) /\ Cardinality(Active(rs)) \in Nat
      /\ IsFiniteSet(Selected(rs)) /\ Cardinality(Selected(rs)) \in Nat
  BY <1>1, FS_Subset, FS_CardinalityType
<1>3. ASSUME Selected(rs) # {}
      PROVE  Cardinality(Selected(rs)) <= Capacity - Cardinality(Active(rs))
  <2>. DEFINE k == Capacity - Cardinality(Active(rs))
  <2>1. k \in Int
    BY <1>2
  <2>2. Selected(rs) = {t \in Available(rs) : Cardinality({u \in Available(rs) : Rank[u] < Rank[t]}) < k}
    BY DEF Selected
  <2>. HIDE DEF k
  <2>3. Cardinality(Selected(rs)) <= k
    BY <1>1, <1>3, <2>1, <2>2, SliceBounded
  <2>. QED
    BY <2>3 DEF k
<1>4. /\ Cardinality(Active(rs) \cup Selected(rs)) \in Nat
      /\ Cardinality(Active(rs) \cup Selected(rs)) <= Cardinality(Active(rs)) + Cardinality(Selected(rs))
  <2>1. IsFiniteSet(Active(rs) \cap Selected(rs)) /\ Cardinality(Active(rs) \cap Selected(rs)) \in Nat
    BY <1>2, FS_Intersection, FS_CardinalityType
  <2>2. Cardinality(Active(rs) \cup Selected(rs)) =
          Cardinality(Active(rs)) + Cardinality(Selected(rs)) - Cardinality(Active(rs) \cap Selected(rs))
    BY <1>2, FS_Union
  <2>3. IsFiniteSet(Active(rs) \cup Selected(rs))
    BY <1>2, FS_Union
  <2>. QED
    BY <1>2, <2>1, <2>2, <2>3, FS_CardinalityType
<1>. QED
  BY <1>1, <1>2, <1>3, <1>4

\* The rules for one named task leave it room as well.
LEMMA RequestedFits ==
  ASSUME NEW rs, NEW t \in Tasks, Requested(rs, t)
  PROVE  /\ DependsOn[t] \subseteq Done
         /\ t \in Active(rs) \/ Cardinality(Active(rs) \cup {t}) <= Capacity
<1>1. IsFiniteSet(Active(rs)) /\ Cardinality(Active(rs)) \in Nat
  BY FS_Subset, FS_CardinalityType DEF Active
<1>2. Cardinality(Active(rs) \cup {t}) = IF t \in Active(rs) THEN Cardinality(Active(rs)) ELSE Cardinality(Active(rs)) + 1
  BY <1>1, FS_AddElement
<1>. QED
  BY <1>1, <1>2 DEF Requested, Active

LEMMA SyncSavesStep ==
  ASSUME IInv, SyncSaves
  PROVE  IInv'
<1>. DEFINE rs == records'
<1>1. /\ rs = Retired /\ rs \in [Tasks -> Record]
      /\ \A t \in Tasks : rs[t].prepared = records[t].prepared
      /\ at = "saving" /\ at' = "choosing"
      /\ UNCHANGED <<main, tracker, branch, subject, fetched, era, branchEra, gone>>
  BY RetiredRecords DEF IInv, SyncSaves, ghosts
<1>2. \/ /\ subject = "all"
         /\ retries' = Unprepared(rs) /\ admitted' = Selected(rs)
      \/ /\ subject # "all"
         /\ retries' = {} /\ admitted' = {t \in {subject} : Requested(rs, t)}
  BY DEF SyncSaves
<1>3. /\ Selected(rs) \subseteq Available(rs)
      /\ Selected(rs) = {} \/ Cardinality(Active(rs) \cup Selected(rs)) <= Capacity
  BY SelectedFits
<1>4. TypeOK'
  <2>1. subject \in Tasks \cup {"all"}
    BY DEF IInv, TypeOK
  <2>2. retries' \subseteq Tasks /\ admitted' \subseteq Tasks
    BY <1>2, <1>3, <2>1 DEF Unprepared, Active, Available
  <2>. QED
    BY <1>1, <2>2 DEF IInv, TypeOK
<1>5. Locals'
  BY <1>1 DEF IInv, Locals
<1>6. CompletionsStay' /\ Opened' /\ OfThisEra'
  BY <1>1 DEF IInv, CompletionsStay, Opened, OfThisEra
<1>7. Justified'
  <2>1. \A t \in Unprepared(rs) : Held(t)' \/ tracker'[t] = "in_progress"
    BY <1>1 DEF Unprepared, Active, Effective, Held
  <2>2. \A t \in Available(rs) : DependsOn[t] \subseteq Done'
    BY <1>1 DEF Available, Done
  <2>3. Active(rs) = Active(records)' /\ Done = Done'
    BY <1>1 DEF Active, Effective, Holds, Done
  <2>4. CASE subject = "all"
    BY <1>2, <1>3, <2>1, <2>2, <2>3, <2>4 DEF Justified
  <2>5. CASE subject # "all"
    <3>1. \A t \in admitted' : t = subject /\ t \in Tasks /\ Requested(rs, t)
      BY <1>2, <2>5 DEF IInv, TypeOK
    <3>2. \A t \in admitted' :
            /\ DependsOn[t] \subseteq Done
            /\ t \in Active(rs) \/ Cardinality(Active(rs) \cup {t}) <= Capacity
      BY <3>1, RequestedFits
    <3>3. admitted' = {} \/ (subject \in admitted' /\ admitted' = {subject})
      BY <1>2, <2>5
    <3>4. \/ admitted' \subseteq Active(rs)
          \/ Cardinality(Active(rs) \cup admitted') <= Capacity
      BY <3>2, <3>3
    <3>5. \A t \in admitted' : DependsOn[t] \subseteq Done'
      BY <2>3, <3>2
    <3>6. retries' = {}
      BY <1>2, <2>5
    <3>. QED
      BY <2>3, <3>4, <3>5, <3>6 DEF Justified
  <2>. QED
    BY <2>4, <2>5
<1>. QED
  BY <1>4, <1>5, <1>6, <1>7 DEF IInv

\* A lease, or a task that main calls in progress, counts as active.
LEMMA ActiveTasks ==
  ASSUME NEW rs
  PROVE  Active(rs) = {t \in Tasks : Holds(rs[t], tracker[t]) \/ tracker[t] = "in_progress"}
BY DEF Active, Effective, Holds

\* A choice stays justified while the leases it counted stay.
LEMMA StillJustified ==
  ASSUME TypeOK, Justified, tracker' = tracker, retries' = retries, admitted' = admitted,
         \A t \in Tasks : Holds(records'[t], tracker[t]) <=> Holds(records[t], tracker[t])
  PROVE  Justified'
<1>1. Done' = Done
  BY DEF Done
<1>2. Active(records') = Active(records)
  BY ActiveTasks
<1>3. Active(records)' = Active(records')
  BY DEF Active, Effective
<1>4. \A t \in Tasks : Held(t)' <=> Held(t)
  BY DEF Held
<1>5. (\A t \in retries : Held(t) \/ tracker[t] = "in_progress")'
  BY <1>4 DEF Justified, TypeOK
<1>6. (\A t \in admitted : DependsOn[t] \subseteq Done)'
  BY <1>1 DEF Justified
<1>7. (admitted \subseteq Active(records) \/ Cardinality(Active(records) \cup admitted) <= Capacity)'
  BY <1>2, <1>3 DEF Justified
<1>. QED
  BY <1>5, <1>6, <1>7 DEF Justified

LEMMA SyncEndsStep ==
  ASSUME IInv, SyncEnds
  PROVE  IInv'
<1>1. TypeOK' /\ Locals' /\ CompletionsStay' /\ Opened' /\ OfThisEra'
  BY DEF IInv, TypeOK, SyncEnds, Locals, CompletionsStay, Opened, OfThisEra, ghosts
<1>2. Justified'
  BY DEF SyncEnds, Justified
<1>. QED
  BY <1>1, <1>2 DEF IInv

\* The task being reserved: from the retries first, and a lease already, or else
\* admitted, ready and within the free slots.
LEMMA ReserveFacts ==
  ASSUME IInv, Reserve
  PROVE  /\ subject' \in Tasks
         /\ records' = [records EXCEPT ![subject'].status = "in_progress", ![subject'].expired = FALSE]
         /\ retries' = retries \ {subject'}
         /\ \/ subject' \in retries /\ admitted' = admitted
            \/ subject' \in admitted /\ admitted' = admitted \ {subject'}
         /\ at = "choosing" /\ at' = "branching"
         /\ UNCHANGED <<main, tracker, branch, fetched, era, branchEra, gone>>
<1>. DEFINE pool == IF retries # {} THEN retries ELSE admitted
<1>1. pool \subseteq Tasks /\ pool # {}
  BY DEF IInv, TypeOK, Reserve
<1>2. First(pool) \in pool
  <2>. HIDE DEF pool
  <2>. QED
    BY <1>1, FirstIsIn
<1>3. subject' = First(pool)
  BY DEF Reserve
<1>. QED
  BY <1>1, <1>2, <1>3 DEF Reserve, ghosts

LEMMA ReserveStep ==
  ASSUME IInv, Reserve
  PROVE  IInv'
<1>1. /\ subject' \in Tasks
      /\ records' = [records EXCEPT ![subject'].status = "in_progress", ![subject'].expired = FALSE]
      /\ retries' = retries \ {subject'}
      /\ \/ subject' \in retries /\ admitted' = admitted
         \/ subject' \in admitted /\ admitted' = admitted \ {subject'}
      /\ at = "choosing" /\ at' = "branching"
      /\ UNCHANGED <<main, tracker, branch, fetched, era, branchEra, gone>>
  BY ReserveFacts
<1>2. TypeOK'
  <2>1. records' \in [Tasks -> Record]
    BY <1>1, RecordUpdates DEF IInv, TypeOK
  <2>2. retries' \subseteq Tasks /\ admitted' \subseteq Tasks
    BY <1>1 DEF IInv, TypeOK
  <2>. QED
    BY <1>1, <2>1, <2>2 DEF IInv, TypeOK
<1>3. Locals' /\ CompletionsStay' /\ OfThisEra'
  BY <1>1 DEF IInv, Locals, CompletionsStay, OfThisEra
<1>4. \A t \in Tasks : records'[t].prepared = records[t].prepared
  BY <1>1 DEF IInv, TypeOK
<1>5. Opened'
  BY <1>1, <1>4 DEF IInv, Opened
<1>6. /\ \A t \in Tasks : t # subject' => records'[t] = records[t]
      /\ records'[subject'].status = "in_progress" /\ ~records'[subject'].expired
  BY <1>1 DEF IInv, TypeOK
<1>7. \A t \in Tasks : Held(t) => Held(t)'
  BY <1>1, <1>6 DEF Held, Holds
<1>8. /\ Active(records) \subseteq Active(records)'
      /\ Active(records)' \subseteq Active(records) \cup {subject'}
  BY <1>1, <1>6 DEF Active, Effective, Holds
<1>9. Justified'
  <2>1. \A t \in retries' : Held(t)' \/ tracker'[t] = "in_progress"
    BY <1>1, <1>7 DEF IInv, TypeOK, Justified
  <2>2. \A t \in admitted' : DependsOn[t] \subseteq Done'
    BY <1>1 DEF IInv, Justified, Done
  <2>3. ASSUME subject' \in retries, admitted' = admitted
        PROVE  admitted' \subseteq Active(records)' \/ Cardinality(Active(records)' \cup admitted') <= Capacity
    <3>1. Held(subject') \/ tracker[subject'] = "in_progress"
      BY <2>3 DEF IInv, Justified
    <3>2. subject' \in Active(records)
      BY <1>1, <3>1 DEF Active, Effective, Held, Holds
    <3>3. Active(records)' = Active(records)
      BY <1>8, <3>2
    <3>. QED
      BY <2>3, <3>3 DEF IInv, Justified
  <2>4. ASSUME subject' \in admitted, admitted' = admitted \ {subject'}
        PROVE  admitted' \subseteq Active(records)' \/ Cardinality(Active(records)' \cup admitted') <= Capacity
    <3>1. CASE admitted \subseteq Active(records)
      BY <1>8, <2>4, <3>1
    <3>2. CASE Cardinality(Active(records) \cup admitted) <= Capacity
      <4>1. Active(records)' \cup admitted' \subseteq Active(records) \cup admitted
        BY <1>8, <2>4
      <4>2. Active(records) \cup admitted \subseteq Tasks
        BY DEF Active, IInv, TypeOK
      <4>3. IsFiniteSet(Active(records) \cup admitted)
        BY <4>2, FS_Subset
      <4>4. /\ Cardinality(Active(records)' \cup admitted') <= Cardinality(Active(records) \cup admitted)
            /\ IsFiniteSet(Active(records)' \cup admitted')
        BY <4>1, <4>3, FS_Subset
      <4>5. /\ Cardinality(Active(records)' \cup admitted') \in Nat
            /\ Cardinality(Active(records) \cup admitted) \in Nat
        BY <4>3, <4>4, FS_CardinalityType
      <4>. QED
        BY <3>2, <4>4, <4>5
    <3>. QED
      BY <3>1, <3>2 DEF IInv, Justified
  <2>. QED
    BY <1>1, <2>1, <2>2, <2>3, <2>4 DEF Justified
<1>. QED
  BY <1>2, <1>3, <1>5, <1>9 DEF IInv

LEMMA EnsureBranchStep ==
  ASSUME IInv, EnsureBranch
  PROVE  IInv'
<1>1. subject \in Tasks /\ tracker[subject] \in Status
  BY DEF IInv, TypeOK, Locals, EnsureBranch
<1>2. /\ branch' = [branch EXCEPT ![subject] = IF @ = "none" THEN tracker[subject] ELSE @]
      /\ branchEra' = [branchEra EXCEPT ![subject] = IF branch[subject] = "none" THEN era[subject] ELSE @]
      /\ fetched' = branch'[subject] /\ at = "branching" /\ at' = "opening"
      /\ UNCHANGED <<main, tracker, records, subject, retries, admitted, era, gone>>
  BY DEF EnsureBranch
<1>3. TypeOK'
  BY <1>1, <1>2 DEF IInv, TypeOK
<1>4. Locals' /\ CompletionsStay'
  BY <1>2 DEF IInv, Locals, CompletionsStay
<1>5. Opened'
  BY <1>1, <1>2 DEF IInv, TypeOK, Opened
<1>6. OfThisEra'
  BY <1>1, <1>2 DEF IInv, TypeOK, OfThisEra
<1>7. Justified'
  BY <1>2, StillJustified DEF IInv
<1>. QED
  BY <1>3, <1>4, <1>5, <1>6, <1>7 DEF IInv

LEMMA OpenBranchStep ==
  ASSUME IInv, OpenBranch
  PROVE  IInv'
<1>1. subject \in Tasks /\ at = "opening" /\ at' = "marking"
  BY DEF IInv, Locals, OpenBranch
<1>2. /\ \A t \in Tasks : t # subject => branch'[t] = branch[t] /\ gone'[t] = gone[t]
      /\ branch' \in [Tasks -> Status \cup {"none"}] /\ gone' \in [Tasks -> BOOLEAN]
      /\ branch'[subject] \in WasOpened \cup {"none"}
      /\ gone'[subject] <=> branch'[subject] = "none"
  BY <1>1 DEF IInv, TypeOK, Opened, OpenBranch
<1>3. UNCHANGED <<main, tracker, records, subject, retries, admitted, fetched, era, branchEra>>
  BY DEF OpenBranch, locals
<1>4. TypeOK' /\ Locals' /\ CompletionsStay'
  BY <1>1, <1>2, <1>3 DEF IInv, TypeOK, Locals, CompletionsStay
<1>5. Opened'
  BY <1>1, <1>2, <1>3 DEF IInv, Opened
<1>6. OfThisEra'
  BY <1>1, <1>2, <1>3 DEF IInv, OfThisEra
<1>7. Justified'
  BY <1>3, StillJustified DEF IInv
<1>. QED
  BY <1>4, <1>5, <1>6, <1>7 DEF IInv

LEMMA PrepareFailsStep ==
  ASSUME IInv, PrepareFails
  PROVE  IInv'
<1>1. /\ subject \in Tasks /\ tracker[subject] \in Status
      /\ at \in {"branching", "opening"} /\ at' = "idle"
      /\ subject' = "all" /\ retries' = {} /\ admitted' = {} /\ fetched' = "none"
      /\ UNCHANGED <<main, tracker, records, era, gone>>
  BY DEF IInv, TypeOK, Locals, PrepareFails, durable
<1>2. \/ UNCHANGED <<branch, branchEra>>
      \/ /\ branch[subject] = "none"
         /\ branch' = [branch EXCEPT ![subject] = tracker[subject]]
         /\ branchEra' = [branchEra EXCEPT ![subject] = era[subject]]
      \/ /\ at = "opening"
         /\ branch' = [branch EXCEPT ![subject] = "in_progress"]
         /\ UNCHANGED branchEra
  BY DEF PrepareFails
<1>3. TypeOK'
  BY <1>1, <1>2 DEF IInv, TypeOK
<1>4. Locals' /\ CompletionsStay'
  BY <1>1 DEF IInv, Locals, CompletionsStay
<1>5. Opened'
  BY <1>1, <1>2 DEF IInv, TypeOK, Opened
<1>6. OfThisEra'
  BY <1>1, <1>2 DEF IInv, TypeOK, OfThisEra
<1>7. Justified'
  BY <1>1 DEF Justified
<1>. QED
  BY <1>3, <1>4, <1>5, <1>6, <1>7 DEF IInv

LEMMA MarkPreparedStep ==
  ASSUME IInv, MarkPrepared
  PROVE  IInv'
<1>1. /\ subject \in Tasks /\ at = "marking" /\ at' = "choosing" /\ fetched' = "none"
      /\ records' = [records EXCEPT ![subject].prepared = TRUE]
      /\ UNCHANGED <<main, tracker, branch, subject, retries, admitted, era, branchEra, gone>>
  BY DEF IInv, Locals, MarkPrepared, ghosts
<1>2. TypeOK'
  <2>1. records' \in [Tasks -> Record]
    BY <1>1, RecordUpdates DEF IInv, TypeOK
  <2>. QED
    BY <1>1, <2>1 DEF IInv, TypeOK
<1>6. Locals' /\ CompletionsStay' /\ OfThisEra'
  BY <1>1 DEF IInv, Locals, CompletionsStay, OfThisEra
<1>3. Opened'
  BY <1>1 DEF IInv, TypeOK, Opened
<1>4. \A t \in Tasks : /\ records'[t].status = records[t].status
                       /\ records'[t].expired = records[t].expired
  BY <1>1 DEF IInv, TypeOK
<1>5. Justified'
  <2>1. \A t \in Tasks : Holds(records'[t], tracker[t]) <=> Holds(records[t], tracker[t])
    BY <1>4 DEF Holds
  <2>. QED
    BY <1>1, <2>1, StillJustified DEF IInv
<1>. QED
  BY <1>2, <1>3, <1>5, <1>6 DEF IInv

------------------------------------------------------------------------------
(* expire *)

LEMMA ExpireStep ==
  ASSUME IInv, NEW t \in Tasks, Expire(t)
  PROVE  IInv'
<1>1. /\ at = "idle" /\ at' = "deleting" /\ subject' = t /\ era[t] < MaxEra
      /\ UNCHANGED <<main, tracker, records, branch, retries, admitted, fetched, era, branchEra, gone>>
  BY DEF Expire, ghosts
<1>2. TypeOK' /\ Locals' /\ CompletionsStay' /\ Opened' /\ OfThisEra'
  BY <1>1 DEF IInv, TypeOK, Locals, CompletionsStay, Opened, OfThisEra
<1>3. Justified'
  BY <1>1, StillJustified DEF IInv
<1>. QED
  BY <1>2, <1>3 DEF IInv

LEMMA ExpireDeletesStep ==
  ASSUME IInv, ExpireDeletes
  PROVE  IInv'
<1>1. /\ subject \in Tasks /\ at = "deleting" /\ at' = "forgetting"
      /\ branch' = [branch EXCEPT ![subject] = "none"]
      /\ gone' = [gone EXCEPT ![subject] = @ \/ branch[subject] # "none"]
      /\ UNCHANGED <<main, tracker, records, subject, retries, admitted, fetched, era, branchEra>>
  BY DEF IInv, Locals, ExpireDeletes, locals
<1>2. /\ branch' \in [Tasks -> Status \cup {"none"}] /\ gone' \in [Tasks -> BOOLEAN]
      /\ \A t \in Tasks : t # subject => branch'[t] = branch[t] /\ gone'[t] = gone[t]
      /\ branch'[subject] = "none"
      /\ gone'[subject] <=> gone[subject] \/ branch[subject] # "none"
  BY <1>1 DEF IInv, TypeOK
<1>3. TypeOK' /\ Locals' /\ CompletionsStay'
  BY <1>1, <1>2 DEF IInv, TypeOK, Locals, CompletionsStay
<1>4. Opened'
  BY <1>1, <1>2 DEF IInv, Opened
<1>5. OfThisEra'
  BY <1>1, <1>2 DEF IInv, OfThisEra
<1>6. Justified'
  BY <1>1, StillJustified DEF IInv
<1>. QED
  BY <1>3, <1>4, <1>5, <1>6 DEF IInv

LEMMA ExpireFailsStep ==
  ASSUME IInv, ExpireFails
  PROVE  IInv'
<1>1. /\ subject \in Tasks /\ at = "deleting" /\ at' = "idle" /\ subject' = "all"
      /\ branch' = branch \/ branch' = [branch EXCEPT ![subject] = "none"]
      /\ gone' = [gone EXCEPT ![subject] = @ \/ branch'[subject] # branch[subject]]
      /\ UNCHANGED <<main, tracker, records, retries, admitted, fetched, era, branchEra>>
  BY DEF IInv, Locals, ExpireFails
<1>2. /\ branch' \in [Tasks -> Status \cup {"none"}] /\ gone' \in [Tasks -> BOOLEAN]
      /\ \A t \in Tasks : t # subject => branch'[t] = branch[t] /\ gone'[t] = gone[t]
      /\ branch'[subject] \in {branch[subject], "none"}
      /\ gone'[subject] <=> gone[subject] \/ branch'[subject] # branch[subject]
  BY <1>1 DEF IInv, TypeOK
<1>3. TypeOK' /\ Locals' /\ CompletionsStay'
  BY <1>1, <1>2 DEF IInv, TypeOK, Locals, CompletionsStay
<1>4. Opened' /\ OfThisEra'
  BY <1>1, <1>2 DEF IInv, Opened, OfThisEra
<1>5. Justified'
  BY <1>1, StillJustified DEF IInv
<1>. QED
  BY <1>3, <1>4, <1>5 DEF IInv

LEMMA ExpireWritesStep ==
  ASSUME IInv, ExpireWrites
  PROVE  IInv'
<1>1. /\ subject \in Tasks /\ at = "forgetting" /\ at' = "idle" /\ subject' = "all"
      /\ records' = [records EXCEPT ![subject].expired = TRUE, ![subject].prepared = FALSE]
      /\ era' = [era EXCEPT ![subject] = @ + 1]
      /\ retries = {} /\ admitted = {} /\ era[subject] < MaxEra
      /\ UNCHANGED <<main, tracker, branch, retries, admitted, fetched, branchEra, gone>>
  BY DEF IInv, Locals, ExpireWrites
<1>2. /\ records' \in [Tasks -> Record]
      /\ \A t \in Tasks : t # subject => records'[t] = records[t]
      /\ ~records'[subject].prepared
  <2>1. records \in [Tasks -> Record]
    BY DEF IInv, TypeOK
  <2>2. [records[subject] EXCEPT !.expired = TRUE, !.prepared = FALSE] \in Record
    BY <1>1, <2>1 DEF Record
  <2>3. records' = [records EXCEPT ![subject] = [@ EXCEPT !.expired = TRUE, !.prepared = FALSE]]
    BY <1>1, <2>1 DEF Record
  <2>4. records' \in [Tasks -> Record]
    BY <1>1, <2>1, <2>2, <2>3
  <2>5. \A t \in Tasks : t # subject => records'[t] = records[t]
    BY <1>1, <2>1, <2>3
  <2>6. ~records'[subject].prepared
    BY <1>1, <2>1, <2>3 DEF Record
  <2>. QED
    BY <2>4, <2>5, <2>6
<1>3. /\ era' \in [Tasks -> 0..MaxEra]
      /\ \A t \in Tasks : t # subject => era'[t] = era[t]
  BY <1>1 DEF IInv, TypeOK
<1>4. TypeOK' /\ Locals' /\ CompletionsStay'
  BY <1>1, <1>2, <1>3 DEF IInv, TypeOK, Locals, CompletionsStay
<1>5. Opened' /\ OfThisEra'
  BY <1>1, <1>2, <1>3 DEF IInv, Opened, OfThisEra
<1>6. Justified'
  BY <1>1 DEF Justified
<1>. QED
  BY <1>4, <1>5, <1>6 DEF IInv

------------------------------------------------------------------------------
(* The rest of the system *)

LEMMA MainMovesStep ==
  ASSUME IInv, NEW t \in Tasks, MainMoves(t)
  PROVE  IInv'
<1>1. PICK status \in Edits \ {main[t]} : main' = [main EXCEPT ![t] = status]
  BY DEF MainMoves
<1>2. /\ main[t] # "completed"
      /\ UNCHANGED <<tracker, records, branch, at, subject, retries, admitted, fetched, era, branchEra, gone>>
  BY DEF MainMoves, locals, ghosts
<1>3. TypeOK' /\ CompletionsStay'
  BY <1>1, <1>2 DEF IInv, TypeOK, CompletionsStay
<1>4. Locals' /\ Opened' /\ OfThisEra'
  BY <1>2 DEF IInv, Locals, Opened, OfThisEra
<1>5. Justified'
  BY <1>2, StillJustified DEF IInv
<1>. QED
  BY <1>3, <1>4, <1>5 DEF IInv

LEMMA StampStep ==
  ASSUME IInv, NEW t \in Tasks, Stamp(t)
  PROVE  IInv'
<1>1. /\ branch[t] = "in_progress" /\ branch' = [branch EXCEPT ![t] = "completed"]
      /\ UNCHANGED <<main, tracker, records, at, subject, retries, admitted, fetched, era, branchEra, gone>>
  BY DEF Stamp, locals, ghosts
<1>2. /\ branch' \in [Tasks -> Status \cup {"none"}]
      /\ \A u \in Tasks : u # t => branch'[u] = branch[u]
      /\ branch'[t] = "completed"
  BY <1>1 DEF IInv, TypeOK
<1>3. TypeOK' /\ Locals' /\ CompletionsStay'
  BY <1>1, <1>2 DEF IInv, TypeOK, Locals, CompletionsStay
<1>4. Opened' /\ OfThisEra'
  BY <1>1, <1>2 DEF IInv, Locals, Opened, OfThisEra
<1>5. Justified'
  BY <1>1, StillJustified DEF IInv
<1>. QED
  BY <1>3, <1>4, <1>5 DEF IInv

LEMMA OutsiderDeletesStep ==
  ASSUME IInv, NEW t \in Tasks, OutsiderDeletes(t)
  PROVE  IInv'
<1>1. /\ branch' = [branch EXCEPT ![t] = "none"] /\ gone' = [gone EXCEPT ![t] = TRUE]
      /\ UNCHANGED <<main, tracker, records, at, subject, retries, admitted, fetched, era, branchEra>>
  BY DEF OutsiderDeletes, locals
<1>2. /\ branch' \in [Tasks -> Status \cup {"none"}] /\ gone' \in [Tasks -> BOOLEAN]
      /\ \A u \in Tasks : u # t => branch'[u] = branch[u] /\ gone'[u] = gone[u]
      /\ branch'[t] = "none" /\ gone'[t]
  BY <1>1 DEF IInv, TypeOK
<1>3. TypeOK' /\ Locals' /\ CompletionsStay'
  BY <1>1, <1>2 DEF IInv, TypeOK, Locals, CompletionsStay
<1>4. Opened' /\ OfThisEra'
  BY <1>1, <1>2 DEF IInv, Locals, Opened, OfThisEra
<1>5. Justified'
  BY <1>1, StillJustified DEF IInv
<1>. QED
  BY <1>3, <1>4, <1>5 DEF IInv

LEMMA CrashStep ==
  ASSUME IInv, Crash
  PROVE  IInv'
<1>1. /\ at' = "idle" /\ subject' = "all" /\ retries' = {} /\ admitted' = {} /\ fetched' = "none"
      /\ UNCHANGED <<main, tracker, records, branch, era, branchEra, gone>>
  BY DEF Crash, durable, ghosts
<1>2. TypeOK' /\ Locals' /\ CompletionsStay' /\ Opened' /\ OfThisEra'
  BY <1>1 DEF IInv, TypeOK, Locals, CompletionsStay, Opened, OfThisEra
<1>3. Justified'
  BY <1>1 DEF Justified
<1>. QED
  BY <1>2, <1>3 DEF IInv

LEMMA LoseStateStep ==
  ASSUME IInv, LoseState
  PROVE  IInv'
<1>1. /\ at = "idle" /\ retries = {} /\ admitted = {}
      /\ tracker' = [t \in Tasks |-> "unknown"] /\ records' = [t \in Tasks |-> NoRecord]
      /\ UNCHANGED <<main, branch, at, subject, retries, admitted, fetched, era, branchEra, gone>>
  BY DEF IInv, Locals, LoseState, locals, ghosts
<1>2. TypeOK' /\ Locals' /\ CompletionsStay' /\ Opened' /\ OfThisEra'
  BY <1>1 DEF IInv, TypeOK, Locals, CompletionsStay, Opened, OfThisEra, NoRecord
<1>3. Justified'
  BY <1>1 DEF Justified
<1>. QED
  BY <1>2, <1>3 DEF IInv

LEMMA StutterStep ==
  ASSUME IInv, UNCHANGED vars
  PROVE  IInv'
<1>1. TypeOK' /\ Locals' /\ CompletionsStay' /\ Opened' /\ OfThisEra'
  BY DEF vars, IInv, TypeOK, Locals, CompletionsStay, Opened, OfThisEra
<1>2. Justified'
  BY StillJustified DEF vars, IInv
<1>. QED
  BY <1>1, <1>2 DEF IInv

LEMMA StepIInv == ASSUME IInv, [Next]_vars PROVE IInv'
<1>1. CASE Panel
  BY <1>1, SyncPullsStep, SyncSavesStep, SyncEndsStep, ReserveStep, EnsureBranchStep, OpenBranchStep,
     PrepareFailsStep, MarkPreparedStep, ExpireStep, ExpireDeletesStep, ExpireFailsStep, ExpireWritesStep
     DEF Panel, StartSync
<1>2. CASE World
  BY <1>2, MainMovesStep, StampStep, OutsiderDeletesStep, CrashStep, LoseStateStep DEF World
<1>3. CASE UNCHANGED vars
  BY <1>3, StutterStep
<1>. QED
  BY <1>1, <1>2, <1>3 DEF Next

------------------------------------------------------------------------------
(* The theorems *)

\* The invariant is inductive.
THEOREM Inductive == Spec => []IInv
<1>1. IInv /\ [Next]_vars => IInv'
  BY StepIInv
<1>. QED
  BY InitIInv, <1>1, PTL DEF Spec

\* The state files, the branches and the handler's variables keep their shape.
THEOREM TypeCorrect == Spec => []TypeOK
<1>1. IInv => TypeOK
  BY DEF IInv
<1>. QED
  BY Inductive, <1>1, PTL

\* Whatever failed or died during a preparation, a record that says prepared has
\* its opening commit at origin (push_opening_commit) until the branch is deleted.
THEOREM PreparedIsOpened == Spec => []PreparedMeansOpened
<1>1. IInv => PreparedMeansOpened
  BY DEF IInv, Opened, PreparedMeansOpened
<1>. QED
  BY Inductive, <1>1, PTL

\* Preparation never reuses a branch from before an expiry (expire).
THEOREM ExpiryStartsAfresh == Spec => []FreshAfterExpiry
<1>1. IInv => FreshAfterExpiry
  BY DEF IInv, Opened, OfThisEra, FreshAfterExpiry
<1>. QED
  BY Inductive, <1>1, PTL

\* Only the reservation makes a lease hold.
LEMMA OnlyReserveClaims ==
  ASSUME IInv, IInv', [Next]_vars, NEW t \in Tasks, Claims(t), tracker[t] = "pending"
  PROVE  Reserve /\ t = subject'
<1>1. ~Held(t) /\ Held(t)'
  BY DEF Claims
<1>2. records[t].status # "in_progress" \/ records[t].expired
  BY <1>1 DEF Held, Holds
<1>3. records'[t].status = "in_progress" /\ ~records'[t].expired
  BY <1>1 DEF Held, Holds
<1>4. records' # records /\ records'[t] # NoRecord
  BY <1>2, <1>3 DEF NoRecord
<1>5. ~World /\ ~UNCHANGED vars
  BY <1>4 DEF World, MainMoves, Stamp, OutsiderDeletes, Crash, LoseState, durable, vars
<1>. records \in [Tasks -> Record]
  BY DEF IInv, TypeOK
<1>6. ~SyncSaves
  <2>1. Retired[t].expired = records[t].expired
    BY DEF Retired, Record
  <2>2. Retired[t].status \in {records[t].status, "completed"}
    BY DEF Retired, Record
  <2>3. SyncSaves => records' = Retired
    BY DEF SyncSaves
  <2>. QED
    BY <1>2, <1>3, <2>1, <2>2, <2>3
<1>7. ~MarkPrepared
  <2>1. ASSUME MarkPrepared
        PROVE  /\ records'[t].status = records[t].status
               /\ records'[t].expired = records[t].expired
    <3>1. records' = [records EXCEPT ![subject].prepared = TRUE]
      BY <2>1 DEF MarkPrepared
    <3>. QED
      BY <3>1 DEF Record
  <2>. QED
    BY <1>2, <1>3, <2>1
<1>8. ~ExpireWrites
  BY <1>2, <1>3 DEF ExpireWrites, IInv, TypeOK
<1>9. Reserve
  BY <1>4, <1>5, <1>6, <1>7, <1>8
     DEF Next, Panel, StartSync, SyncPulls, SyncEnds, EnsureBranch, OpenBranch, PrepareFails,
         Expire, ExpireDeletes, ExpireFails, durable
<1>10. t = subject'
  BY <1>2, <1>3, <1>9, ReserveFacts DEF IInv, TypeOK
<1>. QED
  BY <1>9, <1>10

\* What a claim takes comes from what was admitted: a retry would be a lease already.
LEMMA ClaimsAreAdmitted ==
  ASSUME IInv, IInv', [Next]_vars, NEW t \in Tasks, Claims(t), tracker[t] = "pending"
  PROVE  t \in admitted /\ t \notin Active(records)
<1>1. Reserve /\ t = subject'
  BY OnlyReserveClaims
<1>2. t \in retries \/ t \in admitted
  BY <1>1, ReserveFacts
<1>3. ~Held(t)
  BY DEF Claims
<1>4. t \notin retries
  BY <1>3 DEF IInv, Justified
<1>5. t \notin Active(records)
  BY <1>3, ActiveTasks DEF Held
<1>. QED
  BY <1>2, <1>4, <1>5

\* sync() and requested() never claim a task before main completed what it needs.
THEOREM OnlyReadyTasksAreClaimed == Spec => ClaimsAreReady
<1>. DEFINE MainAllows == \A t \in Tasks :
              Claims(t) /\ tracker[t] = "pending" => \A d \in DependsOn[t] : main[d] = "completed"
<1>1. ASSUME IInv, IInv', [Next]_vars
      PROVE  MainAllows
  <2>1. SUFFICES ASSUME NEW t \in Tasks, Claims(t), tracker[t] = "pending", NEW d \in DependsOn[t]
                 PROVE  main[d] = "completed"
    OBVIOUS
  <2>2. DependsOn[t] \subseteq Done
    <3>1. t \in admitted
      BY <1>1, <2>1, ClaimsAreAdmitted
    <3>. QED
      BY <1>1, <3>1 DEF IInv, Justified
  <2>. QED
    BY <1>1, <2>1, <2>2 DEF IInv, CompletionsStay, Done
<1>. QED
  BY Inductive, <1>1, PTL DEF Spec, ClaimsAreReady

\* An admitted task that is not in progress finds a free slot.
LEMMA AdmittedFits ==
  ASSUME IInv, NEW t \in admitted, t \notin Active(records)
  PROVE  Cardinality(Active(records)) < Capacity
<1>1. Cardinality(Active(records) \cup admitted) <= Capacity
  BY DEF IInv, Justified
<1>2. Active(records) \subseteq Tasks /\ admitted \subseteq Tasks
  BY DEF Active, IInv, TypeOK
<1>3. IsFiniteSet(Active(records)) /\ IsFiniteSet(Active(records) \cup admitted)
  BY <1>2, FS_Subset
<1>4. /\ Cardinality(Active(records) \cup {t}) = Cardinality(Active(records)) + 1
      /\ Cardinality(Active(records) \cup {t}) <= Cardinality(Active(records) \cup admitted)
  BY <1>3, FS_AddElement, FS_Subset
<1>5. Cardinality(Active(records)) \in Nat /\ Cardinality(Active(records) \cup admitted) \in Nat
  BY <1>3, FS_CardinalityType
<1>. QED
  BY <1>1, <1>4, <1>5

\* Nor do they claim one when every slot of TaskScheduler.capacity is taken.
THEOREM ClaimsFitCapacity == Spec => AdmissionWithinCapacity
<1>. DEFINE Fits == \A t \in Tasks :
              Claims(t) /\ tracker[t] = "pending" => Cardinality(Active(records)) < Capacity
<1>1. ASSUME IInv, IInv', [Next]_vars
      PROVE  Fits
  <2>1. SUFFICES ASSUME NEW t \in Tasks, Claims(t), tracker[t] = "pending"
                 PROVE  Cardinality(Active(records)) < Capacity
    OBVIOUS
  <2>2. t \in admitted /\ t \notin Active(records)
    BY <1>1, <2>1, ClaimsAreAdmitted
  <2>. QED
    BY <1>1, <2>2, AdmittedFits
<1>. QED
  BY Inductive, <1>1, PTL DEF Spec, AdmissionWithinCapacity
=============================================================================
