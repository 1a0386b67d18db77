------------------------ MODULE StageDispatchProofs ------------------------
(***************************************************************************)
(* Theorems about StageDispatch, for any stages, pull requests and bounds. *)
(***************************************************************************)
EXTENDS StageDispatch, FiniteSetTheorems, SequenceTheorems, WellFoundedInduction, TLAPS

USE StageDispatchAssumption

------------------------------------------------------------------------------
(* Numbers *)

\* A set of branch numbers that is not empty has a highest one (next_stage_number).
LEMMA HighestNumber ==
  ASSUME NEW S, S \subseteq 0..MaxNumber, S # {}
  PROVE  Max(S) \in S /\ \A n \in S : n <= Max(S)
<1>. DEFINE Higher(n) == {u \in S : n < u}
            F == {Higher(n) : n \in S}
<1>1. IsFiniteSet(0..MaxNumber)
  BY FS_Interval
<1>2. F \subseteq FiniteSubsetsOf(0..MaxNumber) /\ F # {}
  <2>1. \A n \in S : Higher(n) \in SUBSET (0..MaxNumber)
    OBVIOUS
  <2>2. \A T : T \subseteq 0..MaxNumber => T \in FiniteSubsetsOf(0..MaxNumber)
    BY <1>1, FS_FiniteSubsetsOfFinite
  <2>. HIDE DEF Higher
  <2>. QED
    BY <2>1, <2>2
<1>3. PICK X \in F : \A Y \in F : ~(<<Y, X>> \in StrictSubsetOrdering(0..MaxNumber))
  <2>. HIDE DEF F
  <2>. QED
    BY <1>1, <1>2, FS_StrictSubsetOrderingWellFounded, WFMin
<1>4. PICK n \in S : X = Higher(n)
  OBVIOUS
<1>5. ASSUME NEW u \in S, n < u
      PROVE  FALSE
  <2>1. Higher(u) \subseteq Higher(n) /\ u \in Higher(n) /\ u \notin Higher(u)
    <3>1. \A m \in S : m \in Int
      OBVIOUS
    <3>2. \A m \in S : u < m => n < m
      BY <1>5, <3>1
    <3>3. ~(u < u)
      BY <3>1
    <3>. QED
      BY <1>5, <3>2, <3>3
  <2>2. Higher(u) \in SUBSET (0..MaxNumber) /\ Higher(n) \in SUBSET (0..MaxNumber)
    OBVIOUS
  <2>. HIDE DEF Higher
  <2>3. <<Higher(u), Higher(n)>> \in StrictSubsetOrdering(0..MaxNumber)
    BY <2>1, <2>2 DEF StrictSubsetOrdering
  <2>. QED
    BY <1>3, <1>4, <2>3
<1>6. \A u \in S : n >= u
  BY <1>5
<1>. QED
  BY <1>6 DEF Max

LEMMA NextNumberIsFresh ==
  ASSUME TypeOK, NEW s \in CodexStages
  PROVE  /\ NextNumber(s) \in Nat \ {0}
         /\ \A n \in origin[s] \cup Recorded(s) : n < NextNumber(s)
<1>. DEFINE S == origin[s] \cup Recorded(s) \cup {0}
<1>1. attempts[s] \in Seq(Attempt)
  BY DEF TypeOK, Stages
<1>2. Recorded(s) \subseteq 0..MaxNumber
  <2>1. \A i \in 1..Len(attempts[s]) : attempts[s][i] \in Attempt
    BY <1>1, ElementOfSeq
  <2>2. \A a \in Attempt : a.number \in 0..MaxNumber
    BY DEF Attempt
  <2>. QED
    BY <2>1, <2>2 DEF Recorded, NumbersIn
<1>3. origin[s] \subseteq 0..MaxNumber
  BY DEF TypeOK, Numbers
<1>4. S \subseteq 0..MaxNumber /\ S # {}
  BY <1>2, <1>3
<1>5. Max(S) \in S /\ \A n \in S : n <= Max(S)
  <2>. HIDE DEF S
  <2>. QED
    BY <1>4, HighestNumber
<1>. QED
  BY <1>4, <1>5 DEF NextNumber

------------------------------------------------------------------------------
(* Lists of attempts *)

\* Saving a new attempt: it is the last, and the others are untouched.
LEMMA Appending ==
  ASSUME NEW list \in Seq(Attempt), NEW a \in Attempt, NEW new, new = Append(list, a)
  PROVE  /\ new \in Seq(Attempt) /\ new # <<>> /\ Len(new) = Len(list) + 1
         /\ \A i \in 1..Len(list) : new[i] = list[i]
         /\ new[Len(list) + 1] = a
BY AppendProperties

\* An update of one attempt leaves the others alone.
LEMMA Replacing ==
  ASSUME NEW list \in Seq(Attempt), NEW i \in 1..Len(list), NEW a \in Attempt,
         NEW new, new = [list EXCEPT ![i] = a]
  PROVE  /\ new \in Seq(Attempt) /\ Len(new) = Len(list)
         /\ new[i] = a
         /\ \A j \in 1..Len(list) : j # i => new[j] = list[j]
BY ExceptSeq

\* Which attempts concern a revision depends on their revisions only.
LEMMA SameHeads ==
  ASSUME NEW list \in Seq(Attempt), NEW new \in Seq(Attempt), Len(new) = Len(list),
         \A i \in 1..Len(list) : new[i].head = list[i].head
  PROVE  \A r : At(new, r) = At(list, r)
BY DEF At

LEMMA CountedAttempts ==
  ASSUME NEW list \in Seq(Attempt), NEW r
  PROVE  IsFiniteSet(At(list, r)) /\ Cardinality(At(list, r)) \in Nat
<1>1. IsFiniteSet(1..Len(list))
  BY FS_Interval
<1>2. At(list, r) \subseteq 1..Len(list)
  BY DEF At
<1>. QED
  BY <1>1, <1>2, FS_Subset, FS_CardinalityType

\* A new attempt raises the count of its own revision by one.
LEMMA OneMoreAttempt ==
  ASSUME NEW list \in Seq(Attempt), NEW a \in Attempt, NEW r
  PROVE  Cardinality(At(Append(list, a), r))
           = Cardinality(At(list, r)) + (IF a.head = r THEN 1 ELSE 0)
<1>. DEFINE new == Append(list, a)
<1>1. /\ Len(new) = Len(list) + 1
      /\ \A i \in 1..Len(list) : new[i] = list[i]
      /\ new[Len(list) + 1] = a
  BY AppendProperties
<1>. HIDE DEF new
<1>2. CASE a.head = r
  <2>1. At(new, r) = At(list, r) \cup {Len(list) + 1} /\ Len(list) + 1 \notin At(list, r)
    BY <1>1, <1>2 DEF At
  <2>. QED
    BY <1>2, <2>1, CountedAttempts, FS_AddElement DEF new
<1>3. CASE a.head # r
  <2>1. At(new, r) = At(list, r)
    BY <1>1, <1>3 DEF At
  <2>. QED
    BY <1>3, <2>1, CountedAttempts DEF new
<1>. QED
  BY <1>2, <1>3

\* Dropping the last attempt lowers it again (attempts.pop).
OneLess(list, new, r) ==
  /\ new \in Seq(Attempt) /\ Len(new) = Len(list) - 1
  /\ \A i \in 1..Len(new) : new[i] = list[i]
  /\ Cardinality(At(new, r))
       = Cardinality(At(list, r)) - (IF list[Len(list)].head = r THEN 1 ELSE 0)

LEMMA OneAttemptLess ==
  ASSUME NEW list \in Seq(Attempt), list # <<>>, NEW r, NEW new, new = SubSeq(list, 1, Len(list) - 1)
  PROVE  OneLess(list, new, r)
<1>1. Len(list) \in Nat \ {0}
  BY EmptySeq
<1>2. /\ new \in Seq(Attempt) /\ Len(new) = Len(list) - 1
      /\ \A i \in 1..Len(new) : new[i] = list[i]
  <2>. DEFINE k == Len(list) - 1
  <2>1. k \in Nat /\ \A i \in 1..k : list[i] \in Attempt
    BY <1>1, ElementOfSeq
  <2>. HIDE DEF k
  <2>2. /\ SubSeq(list, 1, k) \in Seq(Attempt)
        /\ Len(SubSeq(list, 1, k)) = IF 1 <= k THEN k - 1 + 1 ELSE 0
        /\ \A i \in 1..(k - 1 + 1) : SubSeq(list, 1, k)[i] = list[1 + i - 1]
    BY <2>1, SubSeqProperties
  <2>3. new = SubSeq(list, 1, k)
    BY DEF k
  <2>4. Len(new) = k
    BY <2>1, <2>2, <2>3
  <2>5. \A i \in 1..k : new[i] = list[i]
    BY <2>1, <2>2, <2>3
  <2>. QED
    BY <2>2, <2>3, <2>4, <2>5 DEF k
<1>3. CASE list[Len(list)].head = r
  <2>1. At(new, r) = At(list, r) \ {Len(list)} /\ Len(list) \in At(list, r)
    BY <1>1, <1>2, <1>3 DEF At
  <2>2. IsFiniteSet(At(list, r))
    BY CountedAttempts
  <2>3. Cardinality(At(new, r)) = Cardinality(At(list, r)) - 1
    BY <2>1, <2>2, FS_RemoveElement
  <2>. QED
    BY <1>2, <1>3, <2>3 DEF OneLess
<1>4. CASE list[Len(list)].head # r
  <2>1. At(new, r) = At(list, r)
    BY <1>1, <1>2, <1>4 DEF At
  <2>2. Cardinality(At(new, r)) = Cardinality(At(list, r)) - 0
    BY <2>1, CountedAttempts
  <2>. QED
    BY <1>2, <1>4, <2>2 DEF OneLess
<1>. QED
  BY <1>3, <1>4

------------------------------------------------------------------------------
(* The inductive invariant *)

InHand == at \in {"pushing", "submitting", "recording", "popping"}
Number == attempts[stage][Last].number

\* What the handler knows, from where it stands.
Locals ==
  /\ InHand \/ at = "listing" => lease = "leased" /\ head \in Revisions
  /\ InHand => attempts[stage] # <<>> /\ attempts[stage][Last].head = head
  /\ at = "pushing" => stage \in CodexStages
  /\ at = "popping" => stage = "audit"
  /\ InHand /\ stage \in CodexStages => Number \in Numbers

\* Before a new attempt is saved, all those at its revision are expired.
NoneStands ==
  at = "listing" =>
    \A i \in At(attempts[stage], head) : attempts[stage][i].status = "expired"

\* The attempt in hand is not needed yet to account for a session.
OneToSpare ==
  at \in {"pushing", "submitting", "popping"} =>
    accepted[stage][head] < Cardinality(At(attempts[stage], head))

\* Sessions are told only numbers that origin or a record remembers, and so never
\* the number in hand, nor, while it may still be raised, a higher one.
Fresh ==
  /\ \A s \in CodexStages, n \in Numbers :
       told[s][n] # 0 => n \in origin[s] \cup NumbersIn(attempts[s])
  /\ at = "pushing" => \A n \in Numbers : n >= Number => told[stage][n] = 0
  /\ at = "submitting" /\ stage \in CodexStages => told[stage][Number] = 0

\* Branches above the number in hand were pushed by others.
RaisedByOthers ==
  at = "pushing" => \A n \in origin[stage] : n >= Number => n <= MaxOutside

IInv ==
  /\ TypeOK
  /\ Locals
  /\ NoneStands
  /\ OnlyNewestStands
  /\ SessionsAreRecorded
  /\ OneToSpare
  /\ ReleasedLeavesNothing
  /\ Fresh
  /\ OwnBranch
  /\ RaisedByOthers

USE DEF Stages, Revisions, Numbers, Steps

\* A handler that is over, or a release under way, knows nothing.
LEMMA NothingInHand ==
  ASSUME at' \in {"idle", "forgetting"}
  PROVE  /\ Locals' /\ NoneStands' /\ OneToSpare' /\ RaisedByOthers'
         /\ at' # "pushing" /\ at' # "submitting"
BY DEF Locals, InHand, NoneStands, OneToSpare, RaisedByOthers

LEMMA InitIInv == Init => IInv
<1>1. SUFFICES ASSUME Init PROVE IInv
  OBVIOUS
<1>2. \A s \in Stages : attempts[s] = <<>> /\ Len(attempts[s]) = 0
  BY <1>1 DEF Init
<1>3. TypeOK
  <2>1. \A s \in Stages : attempts[s] \in Seq(Attempt)
    BY <1>2, <1>1, EmptySeq DEF Init
  <2>2. attempts \in [Stages -> Seq(Attempt)]
    BY <1>1, <2>1 DEF Init
  <2>3. /\ pull \in [Pulls -> 0..MaxRevision] /\ origin \in [CodexStages -> SUBSET Numbers]
        /\ accepted \in [Stages -> [Revisions -> Nat]] /\ told \in [CodexStages -> [Numbers -> Nat]]
    BY <1>1 DEF Init
  <2>. QED
    BY <1>1, <2>2, <2>3 DEF Init, TypeOK
<1>4. Locals /\ NoneStands /\ OneToSpare /\ RaisedByOthers
  BY <1>1 DEF Init, Locals, InHand, NoneStands, OneToSpare, RaisedByOthers
<1>5. OnlyNewestStands /\ ReleasedLeavesNothing
  BY <1>2 DEF OnlyNewestStands, ReleasedLeavesNothing
<1>6. SessionsAreRecorded
  <2>1. \A s \in Stages, r \in Revisions : accepted[s][r] = 0
    BY <1>1 DEF Init
  <2>2. \A s \in Stages, r \in Revisions : Cardinality(At(attempts[s], r)) \in Nat
    BY <1>3, CountedAttempts DEF TypeOK
  <2>. QED
    BY <2>1, <2>2 DEF SessionsAreRecorded
<1>7. Fresh /\ OwnBranch
  BY <1>1 DEF Init, Fresh, OwnBranch
<1>. QED
  BY <1>3, <1>4, <1>5, <1>6, <1>7 DEF IInv

------------------------------------------------------------------------------
(* stage *)

LEMMA StageReadsStep ==
  ASSUME IInv, NEW s \in Stages, NEW r \in Revisions, StageReads(s, r)
  PROVE  IInv'
<1>1. /\ at' = "listing" /\ stage' = s /\ head' = r /\ lease = "leased"
      /\ Live(attempts[s], r) = {}
      /\ UNCHANGED <<lease, attempts, tip, pull, origin, accepted, told>>
  BY DEF StageReads, outside, ghosts
<1>2. TypeOK'
  <2>1. TypeOK
    BY DEF IInv
  <2>2. at' \in Steps /\ stage' \in Stages /\ head' \in 0..MaxRevision
    BY <1>1
  <2>. QED
    BY <1>1, <2>1, <2>2 DEF TypeOK
<1>3. Locals' /\ OneToSpare' /\ RaisedByOthers'
  BY <1>1 DEF Locals, InHand, OneToSpare, RaisedByOthers
<1>4. \A i \in At(attempts[s], r) : attempts[s][i].status = "expired"
  <2>1. SUFFICES ASSUME NEW i \in At(attempts[s], r), attempts[s][i].status # "expired"
                 PROVE  FALSE
    OBVIOUS
  <2>2. PICK j \in At(attempts[s], r) : ~(j <= i)
    BY <1>1, <2>1 DEF Live, IsNewest
  <2>3. /\ i \in 1..Len(attempts[s]) /\ j \in 1..Len(attempts[s])
        /\ attempts[s][i].head = attempts[s][j].head /\ i < j
    BY <2>1, <2>2 DEF At
  <2>. QED
    BY <2>1, <2>3 DEF IInv, OnlyNewestStands
<1>5. NoneStands'
  BY <1>1, <1>4 DEF NoneStands
<1>6. OnlyNewestStands' /\ ReleasedLeavesNothing' /\ OwnBranch' /\ Fresh' /\ SessionsAreRecorded'
  BY <1>1 DEF IInv, OnlyNewestStands, ReleasedLeavesNothing, OwnBranch, Fresh, SessionsAreRecorded
<1>. QED
  BY <1>2, <1>3, <1>5, <1>6 DEF IInv

\* A handler that stops where it is disturbs nothing.
LEMMA HandlerIsOver ==
  ASSUME IInv, at' \in {"idle", "forgetting"}, stage' \in Stages, head' \in 0..MaxRevision,
         UNCHANGED <<lease, attempts, tip, pull, origin, accepted, told>>
  PROVE  IInv'
<1>1. TypeOK'
  BY DEF IInv, TypeOK
<1>2. OnlyNewestStands' /\ ReleasedLeavesNothing' /\ OwnBranch' /\ SessionsAreRecorded'
  BY DEF IInv, OnlyNewestStands, ReleasedLeavesNothing, OwnBranch, SessionsAreRecorded
<1>3. Fresh'
  BY DEF IInv, Fresh
<1>. QED
  BY <1>1, <1>2, <1>3, NothingInHand DEF IInv

\* One stage's list is replaced.
LEMMA ListReplaced ==
  ASSUME TypeOK, NEW s \in Stages, NEW new \in Seq(Attempt), attempts' = [attempts EXCEPT ![s] = new]
  PROVE  /\ attempts' \in [Stages -> Seq(Attempt)]
         /\ attempts'[s] = new
         /\ \A u \in Stages : u # s => attempts'[u] = attempts[u]
BY DEF TypeOK

LEMMA StageRecordsStep ==
  ASSUME IInv, StageRecords
  PROVE  IInv'
<1>. DEFINE n == IF stage = "audit" THEN 0 ELSE NextNumber(stage)
            a == [status |-> "submitting", head |-> head, number |-> n]
            list == attempts[stage]
            new == Append(list, a)
<1>1. /\ at = "listing" /\ n <= MaxNumber
      /\ attempts' = [attempts EXCEPT ![stage] = new]
      /\ at' = IF stage = "audit" THEN "submitting" ELSE "pushing"
      /\ UNCHANGED <<lease, tip, pull, origin, stage, head, accepted, told>>
  BY DEF StageRecords, outside, ghosts
<1>2. /\ TypeOK /\ lease = "leased" /\ head \in Revisions /\ stage \in Stages
      /\ list \in Seq(Attempt)
  BY <1>1 DEF IInv, Locals, TypeOK
<1>3. stage # "audit" => /\ stage \in CodexStages /\ n \in Numbers
                         /\ \A m \in origin[stage] \cup Recorded(stage) : m < n
  BY <1>1, <1>2, NextNumberIsFresh
<1>4. a \in Attempt /\ a.head = head /\ a.number = n
  <2>1. n \in 0..MaxNumber
    BY <1>3
  <2>. HIDE DEF n
  <2>. QED
    BY <1>2, <2>1 DEF Attempt
<1>. HIDE DEF n, a
<1>5. /\ new \in Seq(Attempt) /\ new # <<>> /\ Len(new) = Len(list) + 1
      /\ \A i \in 1..Len(list) : new[i] = list[i]
      /\ new[Len(list) + 1] = a
  BY <1>2, <1>4, Appending
<1>6. /\ attempts' \in [Stages -> Seq(Attempt)]
      /\ attempts'[stage] = new
      /\ \A u \in Stages : u # stage => attempts'[u] = attempts[u]
  BY <1>1, <1>2, <1>5, ListReplaced
<1>7. TypeOK'
  <2>1. TypeOK
    BY <1>2
  <2>2. attempts' \in [Stages -> Seq(Attempt)]
    BY <1>6
  <2>3. at' \in Steps /\ UNCHANGED <<lease, tip, pull, origin, stage, head, accepted, told>>
    BY <1>1
  <2>. QED
    BY <2>1, <2>2, <2>3 DEF TypeOK
<1>8. \A r \in Revisions : /\ Cardinality(At(list, r)) \in Nat
                           /\ Cardinality(At(new, r))
                                = Cardinality(At(list, r)) + (IF head = r THEN 1 ELSE 0)
  BY <1>2, <1>4, OneMoreAttempt, CountedAttempts
<1>9. Len(list) \in Nat
  BY <1>2
<1>. HIDE DEF list, new
<1>10. Number' = n
  BY <1>1, <1>4, <1>5, <1>6 DEF Number, Last
<1>11. Locals'
  BY <1>1, <1>2, <1>3, <1>4, <1>5, <1>6, <1>10 DEF Locals, InHand, Last
<1>12. NoneStands'
  BY <1>1 DEF NoneStands
<1>13. OnlyNewestStands'
  <2>1. SUFFICES ASSUME NEW s \in Stages, NEW i \in 1..Len(attempts'[s]), NEW j \in 1..Len(attempts'[s]),
                        i < j, attempts'[s][i].head = attempts'[s][j].head
                 PROVE  attempts'[s][i].status = "expired"
    BY DEF OnlyNewestStands
  <2>2. CASE s # stage
    BY <1>6, <2>1, <2>2 DEF IInv, OnlyNewestStands
  <2>3. CASE s = stage /\ j # Len(list) + 1
    <3>1. i \in 1..Len(list) /\ j \in 1..Len(list) /\ list[i].head = list[j].head
      BY <1>5, <1>6, <1>9, <2>1, <2>3
    <3>2. list[i].status = "expired"
      BY <1>2, <2>1, <3>1 DEF IInv, OnlyNewestStands, list
    <3>. QED
      BY <1>5, <1>6, <2>3, <3>1, <3>2
  <2>4. CASE s = stage /\ j = Len(list) + 1
    <3>1. i \in 1..Len(list) /\ list[i].head = head
      BY <1>4, <1>5, <1>6, <1>9, <2>1, <2>4
    <3>2. list[i].status = "expired"
      BY <1>1, <3>1 DEF IInv, NoneStands, At, list
    <3>. QED
      BY <1>5, <1>6, <2>4, <3>1, <3>2
  <2>. QED
    BY <2>2, <2>3, <2>4
<1>14. SessionsAreRecorded'
  <2>1. \A r \in Revisions : accepted[stage][r] \in Nat /\ accepted[stage][r] <= Cardinality(At(list, r))
    BY <1>2 DEF IInv, SessionsAreRecorded, TypeOK, list
  <2>2. \A r \in Revisions : accepted[stage][r] <= Cardinality(At(new, r))
    BY <1>8, <2>1
  <2>. QED
    BY <1>1, <1>6, <2>2 DEF IInv, SessionsAreRecorded
<1>15. OneToSpare'
  <2>1. accepted[stage][head] \in Nat /\ accepted[stage][head] <= Cardinality(At(list, head))
    BY <1>2 DEF IInv, SessionsAreRecorded, TypeOK, list
  <2>2. accepted[stage][head] < Cardinality(At(new, head))
    BY <1>2, <1>8, <2>1
  <2>. QED
    BY <1>1, <1>6, <2>2 DEF OneToSpare
<1>16. ReleasedLeavesNothing' /\ OwnBranch'
  BY <1>1, <1>2 DEF IInv, ReleasedLeavesNothing, OwnBranch
<1>17. Fresh'
  <2>1. \A s \in CodexStages : NumbersIn(attempts[s]) \subseteq NumbersIn(attempts'[s])
    <3>1. NumbersIn(list) \subseteq NumbersIn(new)
      BY <1>5, <1>9 DEF NumbersIn
    <3>. QED
      BY <1>6, <3>1 DEF list
  <2>2. \A s \in CodexStages, m \in Numbers :
          told'[s][m] # 0 => m \in origin'[s] \cup NumbersIn(attempts'[s])
    BY <1>1, <2>1 DEF IInv, Fresh
  <2>3. at' = "pushing" => \A m \in Numbers : m >= n => told[stage][m] = 0
    BY <1>1, <1>3 DEF IInv, Fresh, Recorded
  <2>4. ~(at' = "submitting" /\ stage' \in CodexStages)
    BY <1>1
  <2>. QED
    BY <1>1, <1>10, <2>2, <2>3, <2>4 DEF Fresh
<1>18. RaisedByOthers'
  <2>1. at' = "pushing" => \A m \in origin[stage] : m \in Nat /\ n \in Nat /\ m < n
    BY <1>1, <1>2, <1>3 DEF TypeOK
  <2>. QED
    BY <1>1, <1>10, <2>1 DEF RaisedByOthers
<1>. QED
  BY <1>7, <1>11, <1>12, <1>13, <1>14, <1>15, <1>16, <1>17, <1>18 DEF IInv

\* One attempt is replaced by one at the same revision: the others, and how many
\* there are of each revision, stay as they are.
Updated(s, i, a) ==
  /\ attempts' \in [Stages -> Seq(Attempt)]
  /\ attempts'[s][i] = a
  /\ \A u \in Stages : Len(attempts'[u]) = Len(attempts[u])
  /\ \A u \in Stages : \A j \in 1..Len(attempts[u]) :
       u # s \/ j # i => attempts'[u][j] = attempts[u][j]
  /\ \A u \in Stages, r \in Revisions : At(attempts'[u], r) = At(attempts[u], r)

LEMMA Updating ==
  ASSUME TypeOK, NEW s \in Stages, NEW i \in 1..Len(attempts[s]), NEW a \in Attempt,
         a.head = attempts[s][i].head,
         attempts' = [attempts EXCEPT ![s] = [attempts[s] EXCEPT ![i] = a]]
  PROVE  Updated(s, i, a)
<1>. DEFINE new == [attempts[s] EXCEPT ![i] = a]
<1>1. attempts[s] \in Seq(Attempt)
  BY DEF TypeOK
<1>2. /\ new \in Seq(Attempt) /\ Len(new) = Len(attempts[s])
      /\ new[i] = a
      /\ \A j \in 1..Len(attempts[s]) : j # i => new[j] = attempts[s][j]
  BY <1>1, Replacing
<1>3. /\ attempts' \in [Stages -> Seq(Attempt)]
      /\ attempts'[s] = new
      /\ \A u \in Stages : u # s => attempts'[u] = attempts[u]
  BY <1>2, ListReplaced
<1>. HIDE DEF new
<1>4. \A r \in Revisions : At(new, r) = At(attempts[s], r)
  <2>1. \A j \in 1..Len(attempts[s]) : new[j].head = attempts[s][j].head
    BY <1>2
  <2>. QED
    BY <1>1, <1>2, <2>1, SameHeads
<1>. QED
  BY <1>2, <1>3, <1>4 DEF Updated

\* In particular, marking it expired.
LEMMA Expiring ==
  ASSUME IInv, NEW s \in Stages, NEW i \in 1..Len(attempts[s]),
         attempts' = [attempts EXCEPT ![s][i].status = "expired"],
         UNCHANGED <<lease, accepted, told>>
  PROVE  /\ attempts' \in [Stages -> Seq(Attempt)]
         /\ OnlyNewestStands' /\ SessionsAreRecorded' /\ ReleasedLeavesNothing'
         /\ \A u \in CodexStages : NumbersIn(attempts'[u]) = NumbersIn(attempts[u])
<1>. DEFINE a == [attempts[s][i] EXCEPT !.status = "expired"]
<1>1. TypeOK /\ attempts[s] \in Seq(Attempt) /\ attempts[s][i] \in Attempt
  BY ElementOfSeq DEF IInv, TypeOK
<1>2. /\ a \in Attempt /\ a.status = "expired"
      /\ a.head = attempts[s][i].head /\ a.number = attempts[s][i].number
  BY <1>1 DEF Attempt
<1>3. attempts' = [attempts EXCEPT ![s] = [attempts[s] EXCEPT ![i] = a]]
  BY <1>1 DEF TypeOK
<1>. HIDE DEF a
<1>4. Updated(s, i, a)
  BY <1>1, <1>2, <1>3, Updating
<1>5. \A u \in Stages : \A j \in 1..Len(attempts[u]) :
        /\ attempts'[u][j].head = attempts[u][j].head
        /\ attempts'[u][j].number = attempts[u][j].number
        /\ attempts'[u][j].status \in {attempts[u][j].status, "expired"}
  BY <1>2, <1>4 DEF Updated
<1>6. OnlyNewestStands'
  BY <1>4, <1>5 DEF Updated, IInv, OnlyNewestStands
<1>9. ReleasedLeavesNothing'
  BY <1>4, <1>5 DEF Updated, IInv, ReleasedLeavesNothing
<1>7. SessionsAreRecorded'
  BY <1>4 DEF Updated, IInv, SessionsAreRecorded
<1>8. \A u \in CodexStages : NumbersIn(attempts'[u]) = NumbersIn(attempts[u])
  BY <1>4, <1>5 DEF Updated, NumbersIn
<1>. QED
  BY <1>4, <1>6, <1>7, <1>8, <1>9 DEF Updated

\* What the attempt in hand is like.
LEMMA LastInHand ==
  ASSUME IInv, InHand
  PROVE  /\ TypeOK /\ stage \in Stages /\ head \in Revisions /\ lease = "leased"
         /\ attempts[stage] \in Seq(Attempt) /\ attempts[stage] # <<>>
         /\ Last \in 1..Len(attempts[stage])
         /\ attempts[stage][Last] \in Attempt
         /\ attempts[stage][Last].head = head
<1>1. /\ TypeOK /\ stage \in Stages /\ head \in Revisions /\ lease = "leased"
      /\ attempts[stage] \in Seq(Attempt) /\ attempts[stage] # <<>>
      /\ attempts[stage][Last].head = head
  BY DEF IInv, Locals, TypeOK
<1>2. Last \in 1..Len(attempts[stage])
  BY <1>1, EmptySeq DEF Last
<1>. QED
  BY <1>1, <1>2, ElementOfSeq

LEMMA NumberTakenStep ==
  ASSUME IInv, NumberTaken
  PROVE  IInv'
<1>. DEFINE a == [attempts[stage][Last] EXCEPT !.number = @ + 1]
<1>1. /\ at = "pushing" /\ Number \in origin[stage]
      /\ attempts' = [attempts EXCEPT ![stage][Last].number = @ + 1]
      /\ UNCHANGED <<lease, tip, pull, origin, at, stage, head, accepted, told>>
  BY DEF NumberTaken, Number, outside, ghosts
<1>2. /\ TypeOK /\ stage \in Stages /\ head \in Revisions /\ lease = "leased"
      /\ attempts[stage] \in Seq(Attempt) /\ attempts[stage] # <<>>
      /\ Last \in 1..Len(attempts[stage])
      /\ attempts[stage][Last] \in Attempt
      /\ attempts[stage][Last].head = head
  BY <1>1, LastInHand DEF InHand
<1>3. stage \in CodexStages /\ Number \in Numbers /\ Number + 1 \in Numbers
  <2>1. stage \in CodexStages /\ Number \in Numbers
    BY <1>1 DEF IInv, Locals, InHand
  <2>2. Number <= MaxOutside
    BY <1>1, <2>1 DEF IInv, RaisedByOthers
  <2>. QED
    BY <2>1, <2>2
<1>4. /\ a \in Attempt /\ a.number = Number + 1
      /\ a.head = attempts[stage][Last].head /\ a.status = attempts[stage][Last].status
  <2>1. \A b \in Attempt : b.number + 1 \in 0..MaxNumber =>
          /\ [b EXCEPT !.number = @ + 1] \in Attempt
          /\ [b EXCEPT !.number = @ + 1].number = b.number + 1
          /\ [b EXCEPT !.number = @ + 1].head = b.head
          /\ [b EXCEPT !.number = @ + 1].status = b.status
    BY DEF Attempt
  <2>2. attempts[stage][Last].number + 1 \in 0..MaxNumber
    BY <1>3 DEF Number
  <2>. QED
    BY <1>2, <2>1, <2>2 DEF Number
<1>5. attempts' = [attempts EXCEPT ![stage] = [attempts[stage] EXCEPT ![Last] = a]]
  BY <1>1, <1>2 DEF TypeOK
<1>. HIDE DEF a
<1>6. Updated(stage, Last, a)
  BY <1>2, <1>4, <1>5, Updating
<1>7. Number' = Number + 1 /\ Last' = Last
  BY <1>1, <1>2, <1>4, <1>6 DEF Number, Last, Updated
<1>8. \A u \in Stages : \A j \in 1..Len(attempts[u]) :
        /\ attempts'[u][j].head = attempts[u][j].head
        /\ attempts'[u][j].status = attempts[u][j].status
  BY <1>4, <1>6 DEF Updated
<1>9. TypeOK'
  BY <1>1, <1>2, <1>6 DEF TypeOK, Updated
<1>10. Locals'
  <2>1. attempts'[stage] # <<>>
    BY <1>2, <1>6 DEF Updated
  <2>2. attempts'[stage][Last].head = head
    BY <1>2, <1>8
  <2>. QED
    BY <1>1, <1>2, <1>3, <1>7, <2>1, <2>2 DEF Locals, InHand
<1>11. OnlyNewestStands' /\ ReleasedLeavesNothing'
  BY <1>1, <1>2, <1>6, <1>8 DEF IInv, OnlyNewestStands, ReleasedLeavesNothing, Updated
<1>12. SessionsAreRecorded' /\ OneToSpare' /\ NoneStands'
  BY <1>1, <1>2, <1>6 DEF IInv, SessionsAreRecorded, OneToSpare, NoneStands, Updated
<1>13. \A s \in CodexStages : NumbersIn(attempts[s]) \subseteq NumbersIn(attempts'[s]) \cup origin[s]
  <2>1. SUFFICES ASSUME NEW s \in CodexStages, NEW j \in 1..Len(attempts[s])
                 PROVE  attempts[s][j].number \in NumbersIn(attempts'[s]) \cup origin[s]
    BY DEF NumbersIn
  <2>2. CASE s = stage /\ j = Last
    BY <1>1, <2>2 DEF Number
  <2>3. CASE ~(s = stage /\ j = Last)
    BY <1>6, <2>1, <2>3 DEF NumbersIn, Updated
  <2>. QED
    BY <2>2, <2>3
<1>14. Fresh'
  <2>1. \A s \in CodexStages, n \in Numbers :
          told[s][n] # 0 => n \in origin[s] \cup NumbersIn(attempts'[s])
    BY <1>13 DEF IInv, Fresh
  <2>2. \A n \in Numbers : n >= Number + 1 => told[stage][n] = 0
    BY <1>1, <1>3 DEF IInv, Fresh
  <2>. QED
    BY <1>1, <1>7, <2>1, <2>2 DEF Fresh
<1>15. RaisedByOthers' /\ OwnBranch'
  <2>1. \A n \in origin[stage] : n >= Number + 1 => n <= MaxOutside
    BY <1>1, <1>2, <1>3 DEF IInv, RaisedByOthers, TypeOK
  <2>. QED
    BY <1>1, <1>7, <2>1 DEF IInv, RaisedByOthers, OwnBranch
<1>. QED
  BY <1>9, <1>10, <1>11, <1>12, <1>14, <1>15 DEF IInv

LEMMA PushBranchStep ==
  ASSUME IInv, PushBranch
  PROVE  IInv'
<1>1. /\ at = "pushing" /\ at' = "submitting" /\ stage \in CodexStages
      /\ origin' = [origin EXCEPT ![stage] = @ \cup {Number}]
      /\ Number \in Numbers
      /\ UNCHANGED <<lease, attempts, tip, pull, stage, head, accepted, told>>
  BY DEF IInv, Locals, InHand, PushBranch, Number, ghosts
<1>2. Number' = Number /\ Last' = Last
  BY <1>1 DEF Number, Last
<1>3. TypeOK /\ TypeOK'
  <2>1. TypeOK
    BY DEF IInv
  <2>. QED
    BY <1>1, <2>1 DEF TypeOK
<1>4. \A s \in CodexStages : origin[s] \subseteq origin'[s]
  BY <1>1, <1>3 DEF TypeOK
<1>5. Locals'
  BY <1>1, <1>2 DEF IInv, Locals, InHand
<1>6. NoneStands' /\ OneToSpare' /\ RaisedByOthers'
  BY <1>1 DEF IInv, NoneStands, OneToSpare, RaisedByOthers
<1>7. OnlyNewestStands' /\ ReleasedLeavesNothing' /\ OwnBranch' /\ SessionsAreRecorded'
  BY <1>1 DEF IInv, OnlyNewestStands, ReleasedLeavesNothing, OwnBranch, SessionsAreRecorded
<1>8. Fresh'
  <2>1. \A s \in CodexStages, n \in Numbers :
          told[s][n] # 0 => n \in origin'[s] \cup NumbersIn(attempts[s])
    BY <1>4 DEF IInv, Fresh
  <2>2. told[stage][Number] = 0
    BY <1>1 DEF IInv, Fresh
  <2>. QED
    BY <1>1, <1>2, <2>1, <2>2 DEF Fresh
<1>. QED
  BY <1>3, <1>5, <1>6, <1>7, <1>8 DEF IInv

LEMMA PushFailsStep ==
  ASSUME IInv, PushFails
  PROVE  IInv'
<1>1. /\ at = "pushing" /\ at' = "idle" /\ stage' = "audit" /\ head' = 0
      /\ origin' = origin \/ origin' = [origin EXCEPT ![stage] = @ \cup {Number}]
      /\ attempts' = [attempts EXCEPT ![stage][Last].status = "expired"]
      /\ UNCHANGED <<lease, tip, pull, accepted, told>>
  BY DEF PushFails, Returns, Number, ghosts
<1>2. TypeOK /\ stage \in Stages /\ Last \in 1..Len(attempts[stage])
  BY <1>1, LastInHand DEF InHand
<1>3. stage \in CodexStages /\ Number \in Numbers
  BY <1>1 DEF IInv, Locals, InHand
<1>4. /\ attempts' \in [Stages -> Seq(Attempt)]
      /\ OnlyNewestStands' /\ SessionsAreRecorded' /\ ReleasedLeavesNothing'
      /\ \A u \in CodexStages : NumbersIn(attempts'[u]) = NumbersIn(attempts[u])
  BY <1>1, <1>2, Expiring
<1>5. origin' \in [CodexStages -> SUBSET Numbers] /\ \A s \in CodexStages : origin[s] \subseteq origin'[s]
  <2>1. origin \in [CodexStages -> SUBSET Numbers]
    BY <1>2 DEF TypeOK
  <2>2. origin[stage] \cup {Number} \in SUBSET Numbers
    BY <1>3, <2>1
  <2>. QED
    BY <1>1, <1>3, <2>1, <2>2
<1>6. TypeOK'
  BY <1>1, <1>2, <1>4, <1>5 DEF TypeOK
<1>7. Fresh' /\ OwnBranch'
  BY <1>1, <1>4, <1>5 DEF IInv, Fresh, OwnBranch
<1>. QED
  BY <1>1, <1>4, <1>6, <1>7, NothingInHand DEF IInv

\* The agent takes the work: the attempt in hand accounts for the session.
LEMMA AcceptsAccounted ==
  ASSUME IInv, at = "submitting", Accepts, UNCHANGED attempts
  PROVE  /\ accepted' \in [Stages -> [Revisions -> Nat]]
         /\ told' \in [CodexStages -> [Numbers -> Nat]]
         /\ SessionsAreRecorded' /\ OwnBranch'
         /\ \A s \in CodexStages, n \in Numbers :
              told'[s][n] # 0 => n \in origin[s] \cup NumbersIn(attempts[s])
<1>1. /\ TypeOK /\ stage \in Stages /\ head \in Revisions
      /\ attempts[stage] \in Seq(Attempt) /\ Last \in 1..Len(attempts[stage])
  BY LastInHand DEF InHand
<1>2. /\ accepted \in [Stages -> [Revisions -> Nat]] /\ told \in [CodexStages -> [Numbers -> Nat]]
      /\ accepted' = [accepted EXCEPT ![stage] = [accepted[stage] EXCEPT ![head] = @ + 1]]
      /\ stage = "audit" => told' = told
      /\ stage # "audit" => told' = [told EXCEPT ![stage] = [told[stage] EXCEPT ![Number] = @ + 1]]
  BY <1>1 DEF TypeOK, Accepts, Number
<1>3. accepted' \in [Stages -> [Revisions -> Nat]]
  BY <1>1, <1>2
<1>4. /\ accepted'[stage][head] = accepted[stage][head] + 1
      /\ \A s \in Stages, r \in Revisions :
           s # stage \/ r # head => accepted'[s][r] = accepted[s][r]
  BY <1>1, <1>2
<1>5. SessionsAreRecorded'
  <2>1. accepted[stage][head] < Cardinality(At(attempts[stage], head))
    BY DEF IInv, OneToSpare
  <2>2. accepted[stage][head] \in Nat /\ Cardinality(At(attempts[stage], head)) \in Nat
    BY <1>1, <1>2, CountedAttempts
  <2>3. accepted'[stage][head] <= Cardinality(At(attempts[stage], head))
    BY <1>4, <2>1, <2>2
  <2>. QED
    BY <1>4, <2>3 DEF IInv, SessionsAreRecorded
<1>6. CASE stage = "audit"
  BY <1>2, <1>3, <1>5, <1>6 DEF IInv, OwnBranch, Fresh
<1>7. CASE stage # "audit"
  <2>1. stage \in CodexStages /\ Number \in Numbers /\ told[stage][Number] = 0
    BY <1>1, <1>7 DEF IInv, Locals, InHand, Fresh
  <2>. DEFINE row == [told[stage] EXCEPT ![Number] = @ + 1]
  <2>0. /\ row \in [Numbers -> Nat] /\ row[Number] = 1
        /\ \A n \in Numbers : n # Number => row[n] = told[stage][n]
    <3>1. told[stage] \in [Numbers -> Nat]
      BY <1>2, <2>1
    <3>2. row = [n \in Numbers |-> IF n = Number THEN told[stage][Number] + 1 ELSE told[stage][n]]
      BY <2>1, <3>1
    <3>. QED
      BY <2>1, <3>1, <3>2
  <2>. HIDE DEF row
  <2>2. told' \in [CodexStages -> [Numbers -> Nat]]
    <3>1. told' = [told EXCEPT ![stage] = row]
      BY <1>2, <1>7 DEF row
    <3>. QED
      BY <1>2, <2>0, <2>1, <3>1
  <2>3. /\ told'[stage][Number] = 1
        /\ \A s \in CodexStages, n \in Numbers : s # stage \/ n # Number => told'[s][n] = told[s][n]
    <3>1. told' = [told EXCEPT ![stage] = row]
      BY <1>2, <1>7 DEF row
    <3>. QED
      BY <1>2, <2>0, <2>1, <3>1
  <2>4. Number \in NumbersIn(attempts[stage])
    BY <1>1 DEF Number, NumbersIn
  <2>5. OwnBranch'
    BY <2>1, <2>3 DEF IInv, OwnBranch
  <2>6. \A s \in CodexStages, n \in Numbers :
          told'[s][n] # 0 => n \in origin[s] \cup NumbersIn(attempts[s])
    BY <2>1, <2>3, <2>4 DEF IInv, Fresh
  <2>. QED
    BY <1>3, <1>5, <2>2, <2>5, <2>6
<1>. QED
  BY <1>6, <1>7

\* Submit, and a failure that came after the agent took the work.
LEMMA SubmitStep ==
  ASSUME IInv, at = "submitting", Accepts, UNCHANGED <<lease, attempts, outside>>,
         \/ at' = "recording" /\ UNCHANGED <<stage, head>>
         \/ Returns
  PROVE  IInv'
<1>1. UNCHANGED <<lease, attempts, tip, pull, origin>>
  BY DEF outside
<1>2. /\ accepted' \in [Stages -> [Revisions -> Nat]]
      /\ told' \in [CodexStages -> [Numbers -> Nat]]
      /\ SessionsAreRecorded' /\ OwnBranch'
      /\ \A s \in CodexStages, n \in Numbers :
           told'[s][n] # 0 => n \in origin[s] \cup NumbersIn(attempts[s])
  BY <1>1, AcceptsAccounted
<1>3. at' \in {"recording", "idle"} /\ stage' \in Stages /\ head' \in 0..MaxRevision
  BY DEF IInv, TypeOK, Returns
<1>4. TypeOK'
  <2>1. TypeOK
    BY DEF IInv
  <2>. QED
    BY <1>1, <1>2, <1>3, <2>1 DEF TypeOK
<1>5. Locals'
  BY <1>1 DEF IInv, Locals, InHand, Number, Last, Returns
<1>6. NoneStands' /\ OneToSpare' /\ RaisedByOthers'
  BY <1>3 DEF NoneStands, OneToSpare, RaisedByOthers
<1>7. OnlyNewestStands' /\ ReleasedLeavesNothing'
  BY <1>1 DEF IInv, OnlyNewestStands, ReleasedLeavesNothing
<1>8. Fresh'
  BY <1>1, <1>2, <1>3 DEF Fresh
<1>. QED
  BY <1>2, <1>4, <1>5, <1>6, <1>7, <1>8 DEF IInv

LEMMA RefusedStep ==
  ASSUME IInv, Refused
  PROVE  IInv'
<1>1. /\ at = "submitting" /\ stage = "audit" /\ at' = "popping"
      /\ UNCHANGED <<lease, attempts, tip, pull, origin, stage, head, accepted, told>>
  BY DEF Refused, outside, ghosts
<1>2. TypeOK'
  BY <1>1 DEF IInv, TypeOK
<1>3. Locals' /\ NoneStands' /\ OneToSpare' /\ RaisedByOthers'
  BY <1>1 DEF IInv, Locals, InHand, Number, Last, NoneStands, OneToSpare, RaisedByOthers
<1>4. OnlyNewestStands' /\ ReleasedLeavesNothing' /\ OwnBranch' /\ SessionsAreRecorded' /\ Fresh'
  BY <1>1 DEF IInv, OnlyNewestStands, ReleasedLeavesNothing, OwnBranch, SessionsAreRecorded, Fresh
<1>. QED
  BY <1>2, <1>3, <1>4 DEF IInv

LEMMA PopAttemptStep ==
  ASSUME IInv, PopAttempt
  PROVE  IInv'
<1>. DEFINE list == attempts[stage]
            new == SubSeq(list, 1, Len(list) - 1)
<1>1. /\ at = "popping" /\ at' = "idle" /\ stage' = "audit" /\ head' = 0 /\ stage = "audit"
      /\ attempts' = [attempts EXCEPT ![stage] = new]
      /\ UNCHANGED <<lease, tip, pull, origin, accepted, told>>
  BY DEF PopAttempt, Returns, IInv, Locals, Last, outside, ghosts
<1>2. /\ TypeOK /\ stage \in Stages /\ head \in Revisions
      /\ list \in Seq(Attempt) /\ list # <<>> /\ list[Len(list)].head = head
      /\ Len(list) \in Nat \ {0}
  BY <1>1, LastInHand, EmptySeq DEF InHand, Last
<1>3. /\ new \in Seq(Attempt) /\ Len(new) = Len(list) - 1
      /\ \A i \in 1..Len(new) : new[i] = list[i]
      /\ \A r \in Revisions : Cardinality(At(new, r))
              = Cardinality(At(list, r)) - (IF list[Len(list)].head = r THEN 1 ELSE 0)
  <2>1. list \in Seq(Attempt) /\ list # <<>> /\ new = SubSeq(list, 1, Len(list) - 1)
    BY <1>2
  <2>. HIDE DEF list, new
  <2>2. ASSUME NEW r \in Revisions
        PROVE  OneLess(list, new, r)
    BY <2>1, OneAttemptLess
  <2>3. \E r \in Revisions : TRUE
    BY <1>2
  <2>. QED
    BY <2>2, <2>3 DEF OneLess
<1>4. /\ attempts' \in [Stages -> Seq(Attempt)]
      /\ attempts'[stage] = new
      /\ \A u \in Stages : u # stage => attempts'[u] = attempts[u]
  BY <1>1, <1>2, <1>3, ListReplaced
<1>. HIDE DEF new
<1>5. TypeOK'
  <2>1. TypeOK
    BY <1>2
  <2>2. attempts' \in [Stages -> Seq(Attempt)]
    BY <1>4
  <2>3. /\ at' \in Steps /\ stage' \in Stages /\ head' \in 0..MaxRevision
        /\ UNCHANGED <<lease, tip, pull, origin, accepted, told>>
    BY <1>1
  <2>. QED
    BY <2>1, <2>2, <2>3 DEF TypeOK
<1>6. \A u \in Stages : /\ Len(attempts'[u]) \in Nat
                        /\ Len(attempts[u]) \in Nat
                        /\ Len(attempts'[u]) <= Len(attempts[u])
                        /\ \A i \in 1..Len(attempts'[u]) : attempts'[u][i] = attempts[u][i]
  <2>1. SUFFICES ASSUME NEW u \in Stages
                 PROVE  /\ Len(attempts'[u]) \in Nat
                        /\ Len(attempts[u]) \in Nat
                        /\ Len(attempts'[u]) <= Len(attempts[u])
                        /\ \A i \in 1..Len(attempts'[u]) : attempts'[u][i] = attempts[u][i]
    OBVIOUS
  <2>2. attempts[u] \in Seq(Attempt) /\ Len(attempts[u]) \in Nat
    BY <1>2 DEF TypeOK
  <2>3. CASE u = stage
    <3>1. attempts'[u] = new /\ attempts[u] = list
      BY <1>4, <2>3
    <3>. HIDE DEF list
    <3>2. Len(new) \in Nat /\ Len(new) <= Len(list)
      BY <1>2, <1>3
    <3>. QED
      BY <1>3, <2>2, <3>1, <3>2
  <2>4. CASE u # stage
    BY <1>4, <2>2, <2>4
  <2>. QED
    BY <2>3, <2>4
<1>7. OnlyNewestStands' /\ ReleasedLeavesNothing'
  <2>1. \A u \in Stages : \A i \in 1..Len(attempts'[u]) : i \in 1..Len(attempts[u])
    BY <1>6
  <2>. QED
    BY <1>1, <1>6, <2>1 DEF IInv, OnlyNewestStands, ReleasedLeavesNothing
<1>8. SessionsAreRecorded'
  <2>1. \A r \in Revisions : accepted[stage][r] \in Nat /\ Cardinality(At(list, r)) \in Nat
    BY <1>2, CountedAttempts DEF TypeOK
  <2>2. accepted[stage][head] < Cardinality(At(list, head))
    BY <1>1 DEF IInv, OneToSpare
  <2>3. \A r \in Revisions : accepted[stage][r] <= Cardinality(At(list, r))
    BY <1>2 DEF IInv, SessionsAreRecorded
  <2>. HIDE DEF list
  <2>4. ASSUME NEW r \in Revisions
        PROVE  accepted[stage][r] <= Cardinality(At(new, r))
    <3>1. CASE r = head
      <4>1. Cardinality(At(new, r)) = Cardinality(At(list, r)) - 1
        BY <1>2, <1>3, <3>1
      <4>. QED
        BY <2>1, <2>2, <3>1, <4>1
    <3>2. CASE r # head
      <4>1. Cardinality(At(new, r)) = Cardinality(At(list, r))
        BY <1>2, <1>3, <2>1, <3>2
      <4>. QED
        BY <2>3, <4>1
    <3>. QED
      BY <3>1, <3>2
  <2>. QED
    BY <1>1, <1>4, <2>4 DEF IInv, SessionsAreRecorded
<1>9. Fresh' /\ OwnBranch'
  <2>1. \A s \in CodexStages : attempts'[s] = attempts[s]
    BY <1>1, <1>4
  <2>. QED
    BY <1>1, <2>1 DEF IInv, Fresh, OwnBranch
<1>. QED
  BY <1>1, <1>5, <1>7, <1>8, <1>9, NothingInHand DEF IInv

LEMMA RecordUrlStep ==
  ASSUME IInv, RecordUrl
  PROVE  IInv'
<1>. DEFINE a == [attempts[stage][Last] EXCEPT !.status = "submitted"]
<1>1. /\ at = "recording" /\ at' = "idle" /\ stage' = "audit" /\ head' = 0
      /\ attempts' = [attempts EXCEPT ![stage][Last].status = "submitted"]
      /\ UNCHANGED <<lease, tip, pull, origin, accepted, told>>
  BY DEF RecordUrl, Returns, outside, ghosts
<1>2. /\ TypeOK /\ stage \in Stages /\ lease = "leased"
      /\ Last \in 1..Len(attempts[stage]) /\ Last = Len(attempts[stage])
      /\ attempts[stage] \in Seq(Attempt) /\ attempts[stage][Last] \in Attempt
  BY <1>1, LastInHand DEF InHand, Last
<1>3. /\ a \in Attempt /\ a.head = attempts[stage][Last].head
      /\ a.number = attempts[stage][Last].number
  BY <1>2 DEF Attempt
<1>4. attempts' = [attempts EXCEPT ![stage] = [attempts[stage] EXCEPT ![Last] = a]]
  BY <1>1, <1>2 DEF TypeOK
<1>. HIDE DEF a
<1>5. Updated(stage, Last, a)
  BY <1>2, <1>3, <1>4, Updating
<1>6. \A u \in Stages : \A j \in 1..Len(attempts[u]) :
        /\ attempts'[u][j].head = attempts[u][j].head
        /\ attempts'[u][j].number = attempts[u][j].number
  BY <1>3, <1>5 DEF Updated
<1>7. TypeOK'
  BY <1>1, <1>2, <1>5 DEF TypeOK, Updated
<1>8. OnlyNewestStands'
  <2>1. SUFFICES ASSUME NEW s \in Stages, NEW i \in 1..Len(attempts[s]), NEW j \in 1..Len(attempts[s]),
                        i < j, attempts'[s][i].head = attempts'[s][j].head
                 PROVE  attempts'[s][i].status = "expired"
    BY <1>5 DEF OnlyNewestStands, Updated
  <2>2. attempts[s][i].status = "expired"
    BY <1>6, <2>1 DEF IInv, OnlyNewestStands
  <2>3. s # stage \/ i # Last
    BY <1>2, <2>1
  <2>. QED
    BY <1>5, <2>2, <2>3 DEF Updated
<1>9. SessionsAreRecorded' /\ ReleasedLeavesNothing'
  BY <1>1, <1>2, <1>5 DEF IInv, SessionsAreRecorded, ReleasedLeavesNothing, Updated
<1>10. Fresh' /\ OwnBranch'
  <2>1. \A s \in CodexStages : NumbersIn(attempts'[s]) = NumbersIn(attempts[s])
    BY <1>5, <1>6 DEF NumbersIn, Updated
  <2>. QED
    BY <1>1, <2>1 DEF IInv, Fresh, OwnBranch
<1>. QED
  BY <1>1, <1>7, <1>8, <1>9, <1>10, NothingInHand DEF IInv

------------------------------------------------------------------------------
(* expire_stage and expire *)

LEMMA ExpireStageStep ==
  ASSUME IInv, NEW s \in Stages, ExpireStage(s)
  PROVE  IInv'
<1>1. PICK i \in 1..Len(attempts[s]) : attempts' = [attempts EXCEPT ![s][i].status = "expired"]
  BY DEF ExpireStage, Live, At
<1>2. /\ at = "idle"
      /\ UNCHANGED <<lease, tip, pull, origin, at, stage, head, accepted, told>>
  BY DEF ExpireStage, outside, ghosts
<1>3. /\ attempts' \in [Stages -> Seq(Attempt)]
      /\ OnlyNewestStands' /\ SessionsAreRecorded' /\ ReleasedLeavesNothing'
      /\ \A u \in CodexStages : NumbersIn(attempts'[u]) = NumbersIn(attempts[u])
  BY <1>1, <1>2, Expiring
<1>4. TypeOK'
  <2>1. TypeOK
    BY DEF IInv
  <2>. QED
    BY <1>2, <1>3, <2>1 DEF TypeOK
<1>5. Fresh' /\ OwnBranch'
  BY <1>2, <1>3 DEF IInv, Fresh, OwnBranch
<1>. QED
  BY <1>2, <1>3, <1>4, <1>5, NothingInHand DEF IInv

\* The history keeps the sessions somebody remembers.
LEMMA RememberedSessions ==
  ASSUME TypeOK, NEW lists, NEW branches, told' = Remembered(lists, branches)
  PROVE  /\ told' \in [CodexStages -> [Numbers -> Nat]]
         /\ \A s \in CodexStages, n \in Numbers :
              /\ told'[s][n] \in {told[s][n], 0}
              /\ told'[s][n] # 0 => n \in branches[s] \cup NumbersIn(lists[s])
BY DEF TypeOK, Remembered

LEMMA ReleaseDeletesStep ==
  ASSUME IInv, ReleaseDeletes
  PROVE  IInv'
<1>1. /\ at' = "forgetting" /\ tip' = 0
      /\ origin' = [s \in CodexStages |-> {}]
      /\ told' = Remembered(attempts, origin')
      /\ UNCHANGED <<lease, attempts, pull, stage, head, accepted>>
  BY DEF ReleaseDeletes
<1>2. TypeOK
  BY DEF IInv
<1>3. /\ told' \in [CodexStages -> [Numbers -> Nat]]
      /\ \A s \in CodexStages, n \in Numbers :
           /\ told'[s][n] \in {told[s][n], 0}
           /\ told'[s][n] # 0 => n \in origin'[s] \cup NumbersIn(attempts[s])
  BY <1>1, <1>2, RememberedSessions
<1>4. TypeOK'
  <2>1. /\ tip' \in 0..MaxRevision /\ at' \in Steps
        /\ origin' \in [CodexStages -> SUBSET Numbers]
    BY <1>1
  <2>. QED
    BY <1>1, <1>2, <1>3, <2>1 DEF TypeOK
<1>5. OnlyNewestStands' /\ ReleasedLeavesNothing' /\ SessionsAreRecorded'
  BY <1>1 DEF IInv, OnlyNewestStands, ReleasedLeavesNothing, SessionsAreRecorded
<1>6. Fresh'
  BY <1>1, <1>3 DEF Fresh
<1>7. OwnBranch'
  BY <1>3 DEF IInv, OwnBranch
<1>. QED
  BY <1>1, <1>4, <1>5, <1>6, <1>7, NothingInHand DEF IInv

LEMMA ReleaseWritesStep ==
  ASSUME IInv, ReleaseWrites
  PROVE  IInv'
<1>. DEFINE New(s) == [i \in DOMAIN attempts[s] |-> [attempts[s][i] EXCEPT !.status = "expired"]]
<1>1. /\ at' = "idle" /\ stage' = "audit" /\ head' = 0 /\ lease' = "none"
      /\ attempts' = [s \in Stages |-> New(s)]
      /\ UNCHANGED <<tip, pull, origin, accepted, told>>
  BY DEF ReleaseWrites, Returns, outside, ghosts
<1>2. TypeOK /\ \A s \in Stages : attempts[s] \in Seq(Attempt)
  BY DEF IInv, TypeOK
<1>3. ASSUME NEW s \in Stages
      PROVE  /\ New(s) \in Seq(Attempt) /\ Len(New(s)) = Len(attempts[s])
             /\ \A i \in 1..Len(attempts[s]) : /\ New(s)[i].status = "expired"
                                               /\ New(s)[i].head = attempts[s][i].head
                                               /\ New(s)[i].number = attempts[s][i].number
  <2>1. DOMAIN attempts[s] = 1..Len(attempts[s]) /\ Len(attempts[s]) \in Nat
    BY <1>2
  <2>2. \A i \in 1..Len(attempts[s]) : attempts[s][i] \in Attempt
    BY <1>2, ElementOfSeq
  <2>3. \A a \in Attempt : /\ [a EXCEPT !.status = "expired"] \in Attempt
                           /\ [a EXCEPT !.status = "expired"].status = "expired"
                           /\ [a EXCEPT !.status = "expired"].head = a.head
                           /\ [a EXCEPT !.status = "expired"].number = a.number
    BY DEF Attempt
  <2>4. New(s) \in [1..Len(attempts[s]) -> Attempt]
    BY <2>1, <2>2, <2>3
  <2>5. New(s) \in Seq(Attempt) /\ Len(New(s)) = Len(attempts[s])
    <3>. HIDE DEF New
    <3>. QED
      BY <2>1, <2>4
  <2>. QED
    BY <2>1, <2>2, <2>3, <2>5
<1>4. /\ attempts' \in [Stages -> Seq(Attempt)]
      /\ \A s \in Stages : Len(attempts'[s]) = Len(attempts[s])
      /\ \A s \in Stages : \A i \in 1..Len(attempts[s]) :
           /\ attempts'[s][i].status = "expired"
           /\ attempts'[s][i].head = attempts[s][i].head
           /\ attempts'[s][i].number = attempts[s][i].number
  <2>. HIDE DEF New
  <2>. QED
    BY <1>1, <1>3
<1>5. TypeOK'
  <2>1. at' \in Steps /\ stage' \in Stages /\ head' \in 0..MaxRevision
    BY <1>1
  <2>. QED
    BY <1>1, <1>2, <1>4, <2>1 DEF TypeOK
<1>6. OnlyNewestStands' /\ ReleasedLeavesNothing'
  BY <1>4 DEF OnlyNewestStands, ReleasedLeavesNothing
<1>7. SessionsAreRecorded'
  <2>1. \A s \in Stages, r \in Revisions : At(attempts'[s], r) = At(attempts[s], r)
    BY <1>2, <1>4, SameHeads
  <2>. QED
    BY <1>1, <2>1 DEF IInv, SessionsAreRecorded
<1>8. Fresh' /\ OwnBranch'
  <2>1. \A s \in CodexStages : NumbersIn(attempts'[s]) = NumbersIn(attempts[s])
    BY <1>4 DEF NumbersIn
  <2>. QED
    BY <1>1, <2>1 DEF IInv, Fresh, OwnBranch
<1>. QED
  BY <1>1, <1>5, <1>6, <1>7, <1>8, NothingInHand DEF IInv

------------------------------------------------------------------------------
(* The rest of the system *)

\* What happens around the handler: the attempts, and what it knows of them, stay.
LEMMA AroundTheHandler ==
  ASSUME IInv, TypeOK', UNCHANGED <<attempts, at, stage, head, accepted>>
  PROVE  /\ NoneStands' /\ OnlyNewestStands' /\ SessionsAreRecorded' /\ OneToSpare'
         /\ Number' = Number
         /\ (InHand \/ at = "listing" => lease' = "leased") => Locals'
<1>1. OnlyNewestStands' /\ SessionsAreRecorded' /\ OneToSpare' /\ NoneStands'
  BY DEF IInv, OnlyNewestStands, SessionsAreRecorded, OneToSpare, NoneStands
<1>2. Number' = Number /\ Last' = Last
  BY DEF Number, Last
<1>3. (InHand \/ at = "listing" => lease' = "leased") => Locals'
  BY <1>2 DEF IInv, Locals, InHand
<1>. QED
  BY <1>1, <1>2, <1>3

LEMMA PrepareStep ==
  ASSUME IInv, Prepare
  PROVE  IInv'
<1>1. /\ at = "idle" /\ lease' = "leased" /\ tip' \in 0..MaxRevision
      /\ UNCHANGED <<attempts, pull, origin, at, stage, head, accepted, told>>
  BY DEF IInv, TypeOK, Prepare, ghosts
<1>2. TypeOK'
  <2>1. TypeOK
    BY DEF IInv
  <2>. QED
    BY <1>1, <2>1 DEF TypeOK
<1>3. OnlyNewestStands' /\ SessionsAreRecorded'
  BY <1>1, <1>2, AroundTheHandler
<1>4. ReleasedLeavesNothing' /\ OwnBranch' /\ Fresh'
  BY <1>1 DEF IInv, ReleasedLeavesNothing, OwnBranch, Fresh
<1>. QED
  BY <1>1, <1>2, <1>3, <1>4, NothingInHand DEF IInv

LEMMA CompleteStep ==
  ASSUME IInv, Complete
  PROVE  IInv'
<1>1. /\ at = "idle" /\ lease' = "completed"
      /\ UNCHANGED <<attempts, tip, pull, origin, at, stage, head, accepted, told>>
  BY DEF Complete, outside, ghosts
<1>2. TypeOK'
  <2>1. TypeOK
    BY DEF IInv
  <2>. QED
    BY <1>1, <2>1 DEF TypeOK
<1>3. OnlyNewestStands' /\ SessionsAreRecorded'
  BY <1>1, <1>2, AroundTheHandler
<1>4. ReleasedLeavesNothing' /\ OwnBranch' /\ Fresh'
  BY <1>1 DEF IInv, ReleasedLeavesNothing, OwnBranch, Fresh
<1>. QED
  BY <1>1, <1>2, <1>3, <1>4, NothingInHand DEF IInv

\* The tip or a pull request moves, under whichever handler.
LEMMA HeadsMove ==
  ASSUME IInv, UNCHANGED <<lease, attempts, origin, at, stage, head, accepted, told>>,
         tip' \in 0..MaxRevision, pull' \in [Pulls -> 0..MaxRevision]
  PROVE  IInv'
<1>1. TypeOK'
  <2>1. TypeOK
    BY DEF IInv
  <2>. QED
    BY <2>1 DEF TypeOK
<1>2. NoneStands' /\ OnlyNewestStands' /\ SessionsAreRecorded' /\ OneToSpare' /\ Number' = Number
  BY <1>1, AroundTheHandler
<1>3. Locals'
  <2>1. InHand \/ at = "listing" => lease' = "leased"
    BY DEF IInv, Locals
  <2>. QED
    BY <1>1, <2>1, AroundTheHandler
<1>4. ReleasedLeavesNothing' /\ OwnBranch' /\ RaisedByOthers' /\ Fresh'
  BY <1>2 DEF IInv, ReleasedLeavesNothing, OwnBranch, RaisedByOthers, Fresh
<1>. QED
  BY <1>1, <1>2, <1>3, <1>4 DEF IInv

LEMMA TipMovesStep ==
  ASSUME IInv, TipMoves
  PROVE  IInv'
<1>1. TypeOK
  BY DEF IInv
<1>2. /\ tip' \in 0..MaxRevision /\ pull' \in [Pulls -> 0..MaxRevision]
      /\ UNCHANGED <<lease, attempts, origin, at, stage, head, accepted, told>>
  BY <1>1 DEF TypeOK, TipMoves, ghosts
<1>. QED
  BY <1>2, HeadsMove

LEMMA PullMovesStep ==
  ASSUME IInv, NEW p \in Pulls, PullMoves(p)
  PROVE  IInv'
<1>1. TypeOK
  BY DEF IInv
<1>2. /\ tip' \in 0..MaxRevision /\ pull' \in [Pulls -> 0..MaxRevision]
      /\ UNCHANGED <<lease, attempts, origin, at, stage, head, accepted, told>>
  BY <1>1 DEF TypeOK, PullMoves, ghosts
<1>. QED
  BY <1>2, HeadsMove

LEMMA OutsiderPushesStep ==
  ASSUME IInv, NEW s \in CodexStages, NEW n \in Numbers, OutsiderPushes(s, n)
  PROVE  IInv'
<1>1. /\ n <= MaxOutside
      /\ origin' = [origin EXCEPT ![s] = @ \cup {n}]
      /\ UNCHANGED <<lease, attempts, tip, pull, at, stage, head, accepted, told>>
  BY DEF OutsiderPushes, ghosts
<1>2. TypeOK
  BY DEF IInv
<1>3. /\ origin' \in [CodexStages -> SUBSET Numbers]
      /\ \A u \in CodexStages : /\ origin[u] \subseteq origin'[u]
                                /\ origin'[u] \subseteq origin[u] \cup {n}
  <2>1. origin \in [CodexStages -> SUBSET Numbers]
    BY <1>2 DEF TypeOK
  <2>2. origin[s] \cup {n} \in SUBSET Numbers
    BY <2>1
  <2>. QED
    BY <1>1, <2>1, <2>2
<1>4. TypeOK'
  BY <1>1, <1>2, <1>3 DEF TypeOK
<1>5. NoneStands' /\ OnlyNewestStands' /\ SessionsAreRecorded' /\ OneToSpare' /\ Number' = Number
  BY <1>1, <1>4, AroundTheHandler
<1>6. Locals'
  <2>1. InHand \/ at = "listing" => lease' = "leased"
    BY <1>1 DEF IInv, Locals
  <2>. QED
    BY <1>1, <1>4, <2>1, AroundTheHandler
<1>7. ReleasedLeavesNothing' /\ OwnBranch'
  BY <1>1 DEF IInv, ReleasedLeavesNothing, OwnBranch
<1>8. RaisedByOthers'
  <2>1. at = "pushing" => stage \in CodexStages
    BY DEF IInv, Locals
  <2>. QED
    BY <1>1, <1>3, <1>5, <2>1 DEF IInv, RaisedByOthers
<1>9. Fresh'
  BY <1>1, <1>3, <1>5 DEF IInv, Fresh
<1>. QED
  BY <1>4, <1>5, <1>6, <1>7, <1>8, <1>9 DEF IInv

LEMMA BranchDeletedStep ==
  ASSUME IInv, NEW s \in CodexStages, NEW n \in Numbers, BranchDeleted(s, n)
  PROVE  IInv'
<1>1. /\ origin' = [origin EXCEPT ![s] = @ \ {n}]
      /\ told' = Remembered(attempts, origin')
      /\ UNCHANGED <<lease, attempts, tip, pull, at, stage, head, accepted>>
  BY DEF BranchDeleted
<1>2. TypeOK
  BY DEF IInv
<1>3. /\ origin' \in [CodexStages -> SUBSET Numbers]
      /\ \A u \in CodexStages : origin'[u] \subseteq origin[u]
  <2>1. origin \in [CodexStages -> SUBSET Numbers]
    BY <1>2 DEF TypeOK
  <2>2. origin[s] \ {n} \in SUBSET Numbers
    BY <2>1
  <2>. QED
    BY <1>1, <2>1, <2>2
<1>4. /\ told' \in [CodexStages -> [Numbers -> Nat]]
      /\ \A u \in CodexStages, m \in Numbers :
           /\ told'[u][m] \in {told[u][m], 0}
           /\ told'[u][m] # 0 => m \in origin'[u] \cup NumbersIn(attempts[u])
  BY <1>1, <1>2, RememberedSessions
<1>5. TypeOK'
  BY <1>1, <1>2, <1>3, <1>4 DEF TypeOK
<1>6. NoneStands' /\ OnlyNewestStands' /\ SessionsAreRecorded' /\ OneToSpare' /\ Number' = Number
  BY <1>1, <1>5, AroundTheHandler
<1>7. Locals'
  <2>1. InHand \/ at = "listing" => lease' = "leased"
    BY <1>1 DEF IInv, Locals
  <2>. QED
    BY <1>1, <1>5, <2>1, AroundTheHandler
<1>8. ReleasedLeavesNothing' /\ OwnBranch'
  <2>1. ReleasedLeavesNothing'
    BY <1>1 DEF IInv, ReleasedLeavesNothing
  <2>2. \A u \in CodexStages, m \in Numbers : told[u][m] <= 1
    BY DEF IInv, OwnBranch
  <2>3. OwnBranch'
    <3>1. \A u \in CodexStages, m \in Numbers : told'[u][m] \in {told[u][m], 0}
      BY <1>4
    <3>. QED
      BY <2>2, <3>1 DEF OwnBranch
  <2>. QED
    BY <2>1, <2>3
<1>9. RaisedByOthers' /\ Fresh'
  <2>1. at = "pushing" => stage \in CodexStages
    BY DEF IInv, Locals
  <2>2. RaisedByOthers'
    BY <1>1, <1>3, <1>6, <2>1 DEF IInv, RaisedByOthers
  <2>3. at = "submitting" /\ stage \in CodexStages => Number \in Numbers
    BY DEF IInv, Locals, InHand
  <2>4. Fresh'
    BY <1>1, <1>4, <1>6, <2>1, <2>3 DEF IInv, Fresh
  <2>. QED
    BY <2>2, <2>4
<1>. QED
  BY <1>5, <1>6, <1>7, <1>8, <1>9 DEF IInv

\* Nothing was promised that outlives the state file.
LEMMA LoseStateStep ==
  ASSUME IInv, LoseState
  PROVE  IInv'
<1>1. /\ at = "idle" /\ lease' \in {"none", "completed"}
      /\ attempts' = [s \in Stages |-> <<>>]
      /\ accepted' = [s \in Stages |-> [r \in Revisions |-> 0]]
      /\ told' = Remembered(attempts', origin)
      /\ UNCHANGED <<tip, pull, origin, at, stage, head>>
  BY DEF LoseState, outside
<1>2. TypeOK
  BY DEF IInv
<1>3. /\ told' \in [CodexStages -> [Numbers -> Nat]]
      /\ \A s \in CodexStages, n \in Numbers :
           /\ told'[s][n] \in {told[s][n], 0}
           /\ told'[s][n] # 0 => n \in origin[s] \cup NumbersIn(attempts'[s])
  BY <1>1, <1>2, RememberedSessions
<1>4. attempts' \in [Stages -> Seq(Attempt)] /\ \A s \in Stages : Len(attempts'[s]) = 0
  <2>1. <<>> \in Seq(Attempt) /\ Len(<<>>) = 0
    BY EmptySeq
  <2>. QED
    BY <1>1, <2>1
<1>5. accepted' \in [Stages -> [Revisions -> Nat]]
      /\ \A s \in Stages, r \in Revisions : accepted'[s][r] = 0
  BY <1>1
<1>6. TypeOK'
  BY <1>1, <1>2, <1>3, <1>4, <1>5 DEF TypeOK
<1>7. OnlyNewestStands' /\ ReleasedLeavesNothing'
  BY <1>4 DEF OnlyNewestStands, ReleasedLeavesNothing
<1>8. SessionsAreRecorded'
  <2>1. \A s \in Stages, r \in Revisions : Cardinality(At(attempts'[s], r)) \in Nat
    BY <1>4, CountedAttempts
  <2>. QED
    BY <1>5, <2>1 DEF SessionsAreRecorded
<1>9. Fresh' /\ OwnBranch'
  <2>1. \A s \in CodexStages, n \in Numbers : told[s][n] <= 1
    BY DEF IInv, OwnBranch
  <2>2. OwnBranch'
    BY <1>3, <2>1 DEF OwnBranch
  <2>3. Fresh'
    BY <1>1, <1>3 DEF Fresh
  <2>. QED
    BY <2>2, <2>3
<1>. QED
  BY <1>1, <1>6, <1>7, <1>8, <1>9, NothingInHand DEF IInv

\* A crash, and the failures after which a handler simply returns.
LEMMA ReturnsStep ==
  ASSUME IInv, Returns, UNCHANGED <<lease, attempts, outside, ghosts>>
  PROVE  IInv'
<1>1. at' = "idle" /\ stage' \in Stages /\ head' \in 0..MaxRevision
  BY DEF Returns
<1>. QED
  BY <1>1, HandlerIsOver DEF outside, ghosts

LEMMA SubmitFailsStep ==
  ASSUME IInv, SubmitFails
  PROVE  IInv'
<1>1. CASE Accepts
  BY <1>1, SubmitStep DEF SubmitFails
<1>2. CASE UNCHANGED ghosts
  BY <1>2, ReturnsStep DEF SubmitFails
<1>. QED
  BY <1>1, <1>2 DEF SubmitFails

LEMMA SendingStep ==
  ASSUME IInv, Sending
  PROVE  IInv'
<1>1. CASE StageRecords
  BY <1>1, StageRecordsStep
<1>2. CASE StageGivesUp \/ PushUnauthenticated
  BY <1>2, ReturnsStep DEF StageGivesUp, PushUnauthenticated
<1>3. CASE NumberTaken
  BY <1>3, NumberTakenStep
<1>4. CASE PushBranch
  BY <1>4, PushBranchStep
<1>5. CASE PushFails
  BY <1>5, PushFailsStep
<1>6. CASE Submit
  BY <1>6, SubmitStep DEF Submit
<1>7. CASE SubmitFails
  BY <1>7, SubmitFailsStep
<1>8. CASE Refused
  BY <1>8, RefusedStep
<1>9. CASE PopAttempt
  BY <1>9, PopAttemptStep
<1>10. CASE RecordUrl
  BY <1>10, RecordUrlStep
<1>. QED
  BY <1>1, <1>2, <1>3, <1>4, <1>5, <1>6, <1>7, <1>8, <1>9, <1>10 DEF Sending

LEMMA StepIInv == IInv /\ [Next]_vars => IInv'
<1>1. SUFFICES ASSUME IInv, [Next]_vars
               PROVE  IInv'
  OBVIOUS
<1>2. CASE \E s \in Stages, r \in Revisions : StageReads(s, r)
  BY <1>1, <1>2, StageReadsStep
<1>3. CASE Sending
  BY <1>1, <1>3, SendingStep
<1>4. CASE \E s \in Stages : ExpireStage(s)
  BY <1>1, <1>4, ExpireStageStep
<1>5. CASE ReleaseDeletes
  BY <1>1, <1>5, ReleaseDeletesStep
<1>6. CASE ReleaseWrites
  BY <1>1, <1>6, ReleaseWritesStep
<1>7. CASE Prepare
  BY <1>1, <1>7, PrepareStep
<1>8. CASE Crash
  BY <1>1, <1>8, ReturnsStep DEF Crash
<1>9. CASE LoseState
  BY <1>1, <1>9, LoseStateStep
<1>10. CASE Complete
  BY <1>1, <1>10, CompleteStep
<1>11. CASE TipMoves
  BY <1>1, <1>11, TipMovesStep
<1>12. CASE \E p \in Pulls : PullMoves(p)
  BY <1>1, <1>12, PullMovesStep
<1>13. CASE \E s \in CodexStages, n \in Numbers : OutsiderPushes(s, n)
  BY <1>1, <1>13, OutsiderPushesStep
<1>14. CASE \E s \in CodexStages, n \in Numbers : BranchDeleted(s, n)
  BY <1>1, <1>14, BranchDeletedStep
<1>15. CASE UNCHANGED vars
  <2>1. UNCHANGED <<lease, attempts, tip, pull, origin, at, stage, head, accepted, told>>
    BY <1>15 DEF vars
  <2>2. tip' \in 0..MaxRevision /\ pull' \in [Pulls -> 0..MaxRevision]
    BY <1>1, <2>1 DEF IInv, TypeOK
  <2>. QED
    BY <1>1, <2>1, <2>2, HeadsMove
<1>. QED
  BY <1>1, <1>2, <1>3, <1>4, <1>5, <1>6, <1>7, <1>8, <1>9, <1>10, <1>11, <1>12, <1>13, <1>14, <1>15
     DEF Next, Panel, World

------------------------------------------------------------------------------
(* Theorems *)

\* The strengthened invariant holds in every reachable state: it follows every
\* effect of stage, expire_stage and expire, every crash between two of them, and
\* everything origin and the operators do meanwhile.
THEOREM Inductive == Spec => []IInv
  BY InitIInv, StepIInv, PTL DEF Spec

\* Type correctness: what the record, the branches and the handler's locals hold.
THEOREM TypeCorrect == Spec => []TypeOK
<1>1. IInv => TypeOK
  BY DEF IInv
<1>. QED
  BY <1>1, Inductive, PTL

\* Of the attempts at one revision only the newest may still stand (live_attempt and
\* the refusal of stage), for any number of stages, revisions and attempts.
THEOREM OnlyNewestMayStand == Spec => []OnlyNewestStands
<1>1. IInv => OnlyNewestStands
  BY DEF IInv
<1>. QED
  BY <1>1, Inductive, PTL

\* Every session an agent accepted has an attempt of its own in the record, whatever
\* fails between saving the attempt and saving the reply (stage).
THEOREM SessionsHaveAttempts == Spec => []SessionsAreRecorded
<1>1. IInv => SessionsAreRecorded
  BY DEF IInv
<1>. QED
  BY <1>1, Inductive, PTL

\* No two sessions are told to work on the same stage branch (next_stage_number and
\* push_stage_branch), as long as a number may be passed on only past branches
\* that origin has.
THEOREM BranchesAreNotShared == Spec => []OwnBranch
<1>1. IInv => OwnBranch
  BY DEF IInv
<1>. QED
  BY <1>1, Inductive, PTL

\* A task nobody holds has no attempt standing (expire and the state file's loss).
THEOREM ReleaseIsComplete == Spec => []ReleasedLeavesNothing
<1>1. IInv => ReleasedLeavesNothing
  BY DEF IInv
<1>. QED
  BY <1>1, Inductive, PTL

------------------------------------------------------------------------------
(* The sessions *)

HIDE DEF Stages, Revisions, Numbers

\* What the inductive invariant leaves out: the attempt in hand still stands, and a
\* release is under way only where the task is not completed.
HandStands ==
  /\ InHand => attempts[stage][Last].status # "expired"
  /\ at = "forgetting" => lease # "completed"

SlotValues == {"free", "open", "closed"}
SlotOf(stands, sending) == IF ~stands THEN "free" ELSE IF sending THEN "open" ELSE "closed"

LEMMA SlotIs ==
  ASSUME NEW s \in Stages, NEW r \in Revisions
  PROVE  /\ Slot[s][r] = SlotOf(Stands(attempts[s], r), AboutToSend /\ s = stage /\ r = head)
         /\ Slot'[s][r] = SlotOf(Stands(attempts'[s], r), AboutToSend' /\ s = stage' /\ r = head')
BY DEF Slot, SlotOf

\* Slots are the same if they are at every stage and revision.
LEMMA SlotsAre ==
  ASSUME NEW f \in [Stages -> [Revisions -> SlotValues]],
         NEW g \in [Stages -> [Revisions -> SlotValues]],
         \A s \in Stages, r \in Revisions : f[s][r] = g[s][r]
  PROVE  f = g
<1>1. \A s \in Stages : f[s] = g[s]
  OBVIOUS
<1>. QED
  BY <1>1

LEMMA SlotType ==
  /\ Slot \in [Stages -> [Revisions -> SlotValues]]
  /\ Slot' \in [Stages -> [Revisions -> SlotValues]]
BY DEF Slot, SlotValues

LEMMA SlotsStay ==
  ASSUME \A s \in Stages, r \in Revisions : (Stands(attempts'[s], r) <=> Stands(attempts[s], r)),
         AboutToSend' <=> AboutToSend, AboutToSend => UNCHANGED <<stage, head>>
  PROVE  Slot' = Slot
<1>1. \A s \in Stages, r \in Revisions : Slot'[s][r] = Slot[s][r]
  BY SlotIs DEF SlotOf
<1>. QED
  BY <1>1, SlotType, SlotsAre

\* One slot moves.
LEMMA SlotMoves ==
  ASSUME NEW s \in Stages, NEW r \in Revisions, NEW x \in SlotValues,
         Slot'[s][r] = x,
         \A u \in Stages, q \in Revisions : u # s \/ q # r => Slot'[u][q] = Slot[u][q]
  PROVE  Slot' = [Slot EXCEPT ![s][r] = x]
<1>. DEFINE f == [Slot EXCEPT ![s][r] = x]
<1>1. f \in [Stages -> [Revisions -> SlotValues]]
  BY SlotType
<1>2. /\ f[s][r] = x
      /\ \A u \in Stages, q \in Revisions : u # s \/ q # r => f[u][q] = Slot[u][q]
  BY SlotType
<1>. HIDE DEF f
<1>3. Slot' = f
  BY <1>1, <1>2, SlotType, SlotsAre
<1>. QED
  BY <1>3 DEF f

\* No slot is open while no handler is about to send.
LEMMA NoneIsOpen ==
  ASSUME ~AboutToSend
  PROVE  /\ Sessions!NoneOpen
         /\ \A s \in Stages, r \in Revisions :
              Slot[s][r] = IF Stands(attempts[s], r) THEN "closed" ELSE "free"
<1>1. \A s \in Stages, r \in Revisions :
        Slot[s][r] = IF Stands(attempts[s], r) THEN "closed" ELSE "free"
  BY SlotIs DEF SlotOf
<1>. QED
  BY <1>1 DEF Sessions!NoneOpen, Sessions!IsOpen

\* The slot of the handler that is about to send is open.
LEMMA HandIsOpen ==
  ASSUME IInv, HandStands, AboutToSend
  PROVE  /\ stage \in Stages /\ head \in Revisions
         /\ Stands(attempts[stage], head)
         /\ Slot[stage][head] = "open"
<1>1. /\ InHand /\ stage \in Stages /\ head \in Revisions
      /\ Last \in 1..Len(attempts[stage]) /\ attempts[stage][Last].head = head
  BY LastInHand DEF InHand, AboutToSend
<1>2. Last \in At(attempts[stage], head) /\ attempts[stage][Last].status # "expired"
  BY <1>1 DEF At, HandStands
<1>3. Stands(attempts[stage], head)
  BY <1>2 DEF Stands
<1>. QED
  BY <1>1, <1>3, SlotIs DEF SlotOf

\* Where the agent has taken the work, or nothing is known of it, the attempt stays
\* and the slot closes.
LEMMA HandLetsGo ==
  ASSUME IInv, HandStands, AboutToSend, ~AboutToSend', UNCHANGED attempts
  PROVE  Slot' = [Slot EXCEPT ![stage][head] = "closed"]
<1>1. stage \in Stages /\ head \in Revisions /\ Stands(attempts[stage], head)
  BY HandIsOpen
<1>2. Slot'[stage][head] = "closed"
  BY <1>1, SlotIs DEF SlotOf
<1>3. \A u \in Stages, q \in Revisions : u # stage \/ q # head => Slot'[u][q] = Slot[u][q]
  BY <1>1, SlotIs DEF SlotOf
<1>. QED
  BY <1>1, <1>2, <1>3, SlotMoves DEF SlotValues

\* The attempt in hand goes, or is expired, and the slot is free.
LEMMA HandIsDropped ==
  ASSUME IInv, HandStands, AboutToSend, ~AboutToSend', UNCHANGED <<lease, accepted>>,
         ~Stands(attempts'[stage], head),
         \A u \in Stages, q \in Revisions :
           u # stage \/ q # head => (Stands(attempts'[u], q) <=> Stands(attempts[u], q))
  PROVE  Sessions!Next
<1>1. stage \in Stages /\ head \in Revisions /\ Slot[stage][head] = "open"
  BY HandIsOpen
<1>2. Slot'[stage][head] = "free"
  BY <1>1, SlotIs DEF SlotOf
<1>3. \A u \in Stages, q \in Revisions : u # stage \/ q # head => Slot'[u][q] = Slot[u][q]
  BY <1>1, SlotIs DEF SlotOf
<1>4. Slot' = [Slot EXCEPT ![stage][head] = "free"]
  BY <1>1, <1>2, <1>3, SlotMoves DEF SlotValues
<1>5. Sessions!Drop(stage, head)
  BY <1>1, <1>4 DEF Sessions!Drop, Sessions!IsOpen
<1>. QED
  BY <1>1, <1>5 DEF Sessions!Next

\* What concerns no slot.
LEMMA SessionsStay ==
  ASSUME UNCHANGED <<lease, accepted>>, Slot' = Slot
  PROVE  UNCHANGED Sessions!vars
BY DEF Sessions!vars

LEMMA AroundTheSessions ==
  ASSUME UNCHANGED <<lease, attempts, accepted>>,
         AboutToSend' <=> AboutToSend, AboutToSend => UNCHANGED <<stage, head>>
  PROVE  UNCHANGED Sessions!vars
<1>1. \A s \in Stages, r \in Revisions : (Stands(attempts'[s], r) <=> Stands(attempts[s], r))
  OBVIOUS
<1>. QED
  BY <1>1, SlotsStay, SessionsStay

\* A handler that stops leaves its attempt as it is.
LEMMA StopsShort ==
  ASSUME IInv, HandStands, Returns, UNCHANGED <<lease, attempts, accepted>>
  PROVE  [Sessions!Next]_(Sessions!vars)
<1>1. ~AboutToSend'
  BY DEF Returns, AboutToSend
<1>2. CASE AboutToSend
  <2>1. /\ stage \in Stages /\ head \in Revisions /\ Slot[stage][head] = "open"
        /\ Slot' = [Slot EXCEPT ![stage][head] = "closed"]
    BY <1>1, <1>2, HandIsOpen, HandLetsGo
  <2>2. Sessions!GiveUp(stage, head)
    BY <2>1 DEF Sessions!GiveUp, Sessions!IsOpen
  <2>. QED
    BY <2>1, <2>2 DEF Sessions!Next
<1>3. CASE ~AboutToSend
  BY <1>1, <1>3, AroundTheSessions
<1>. QED
  BY <1>2, <1>3

LEMMA StageRecordsClaims ==
  ASSUME IInv, StageRecords
  PROVE  Sessions!Next /\ HandStands'
<1>. DEFINE a == [status |-> "submitting", head |-> head,
                  number |-> IF stage = "audit" THEN 0 ELSE NextNumber(stage)]
<1>1. /\ at = "listing" /\ at' \in {"submitting", "pushing"}
      /\ attempts' = [attempts EXCEPT ![stage] = Append(@, a)]
      /\ a.number <= MaxNumber
      /\ UNCHANGED <<lease, stage, head, accepted>>
  BY DEF StageRecords, outside, ghosts
<1>2. /\ TypeOK /\ lease = "leased" /\ head \in Revisions /\ stage \in Stages
      /\ attempts[stage] \in Seq(Attempt)
  BY <1>1 DEF IInv, Locals, TypeOK
<1>3. a \in Attempt /\ a.head = head /\ a.status = "submitting"
  <2>1. stage \in CodexStages => NextNumber(stage) \in Nat
    BY <1>2, NextNumberIsFresh
  <2>2. a.number \in 0..MaxNumber
    BY <1>1, <1>2, <2>1 DEF Stages
  <2>. QED
    BY <1>2, <2>2 DEF Attempt
<1>. HIDE DEF a
<1>4. /\ attempts'[stage] \in Seq(Attempt)
      /\ Len(attempts'[stage]) = Len(attempts[stage]) + 1
      /\ \A i \in 1..Len(attempts[stage]) : attempts'[stage][i] = attempts[stage][i]
      /\ attempts'[stage][Len(attempts[stage]) + 1] = a
      /\ \A u \in Stages : u # stage => attempts'[u] = attempts[u]
  <2>. DEFINE new == Append(attempts[stage], a)
  <2>1. /\ new \in Seq(Attempt) /\ Len(new) = Len(attempts[stage]) + 1
        /\ \A i \in 1..Len(attempts[stage]) : new[i] = attempts[stage][i]
        /\ new[Len(attempts[stage]) + 1] = a
    BY <1>2, <1>3, Appending
  <2>2. attempts' = [attempts EXCEPT ![stage] = new]
    BY <1>1
  <2>. HIDE DEF new
  <2>. QED
    BY <1>2, <2>1, <2>2, ListReplaced
<1>5. Len(attempts[stage]) \in Nat
  BY <1>2
<1>6. ~Stands(attempts[stage], head) /\ ~AboutToSend /\ AboutToSend'
  BY <1>1 DEF IInv, NoneStands, Stands, AboutToSend
<1>7. Stands(attempts'[stage], head)
  <2>1. Len(attempts[stage]) + 1 \in At(attempts'[stage], head)
    BY <1>3, <1>4, <1>5 DEF At
  <2>. QED
    BY <1>3, <1>4, <2>1 DEF Stands
<1>8. \A q \in Revisions : q # head => (Stands(attempts'[stage], q) <=> Stands(attempts[stage], q))
  <2>1. ASSUME NEW q \in Revisions, q # head
        PROVE  At(attempts'[stage], q) = At(attempts[stage], q)
    BY <1>3, <1>4, <1>5, <2>1 DEF At
  <2>2. \A q : At(attempts[stage], q) \subseteq 1..Len(attempts[stage])
    BY DEF At
  <2>. QED
    BY <1>4, <2>1, <2>2 DEF Stands
<1>9. /\ Slot[stage][head] = "free" /\ Slot'[stage][head] = "open"
      /\ \A u \in Stages, q \in Revisions : u # stage \/ q # head => Slot'[u][q] = Slot[u][q]
  BY <1>1, <1>2, <1>4, <1>6, <1>7, <1>8, SlotIs DEF SlotOf
<1>10. Slot' = [Slot EXCEPT ![stage][head] = "open"]
  BY <1>2, <1>9, SlotMoves DEF SlotValues
<1>11. Sessions!Claim(stage, head)
  BY <1>1, <1>2, <1>6, <1>9, <1>10, NoneIsOpen DEF Sessions!Claim
<1>12. HandStands'
  <2>1. attempts'[stage'][Last'] = a
    BY <1>1, <1>4 DEF Last
  <2>. QED
    BY <1>1, <1>3, <2>1 DEF HandStands
<1>. QED
  BY <1>2, <1>11, <1>12 DEF Sessions!Next

\* An attempt is updated that stays what it is to the slots.
LEMMA UpdateKeepsSlots ==
  ASSUME TypeOK, NEW s \in Stages, NEW i \in 1..Len(attempts[s]), NEW a,
         Updated(s, i, a),
         (a.status = "expired") = (attempts[s][i].status = "expired")
  PROVE  \A u \in Stages, q \in Revisions : (Stands(attempts'[u], q) <=> Stands(attempts[u], q))
<1>1. \A u \in Stages, q \in Revisions :
        /\ At(attempts'[u], q) = At(attempts[u], q)
        /\ At(attempts[u], q) \subseteq 1..Len(attempts[u])
  BY DEF Updated, At
<1>2. \A u \in Stages : \A j \in 1..Len(attempts[u]) :
        (attempts'[u][j].status = "expired") = (attempts[u][j].status = "expired")
  BY DEF Updated
<1>. QED
  BY <1>1, <1>2 DEF Stands

\* The newest attempt at a revision is expired: nothing stands there any more.
LEMMA ExpiringFrees ==
  ASSUME IInv, NEW s \in Stages, NEW r \in Revisions, NEW i \in At(attempts[s], r),
         IsNewest(attempts[s], r, i),
         attempts' = [attempts EXCEPT ![s][i].status = "expired"]
  PROVE  /\ ~Stands(attempts'[s], r)
         /\ \A u \in Stages, q \in Revisions :
              u # s \/ q # r => (Stands(attempts'[u], q) <=> Stands(attempts[u], q))
<1>. DEFINE a == [attempts[s][i] EXCEPT !.status = "expired"]
<1>1. /\ TypeOK /\ attempts[s] \in Seq(Attempt) /\ i \in 1..Len(attempts[s])
      /\ attempts[s][i] \in Attempt /\ attempts[s][i].head = r
  BY ElementOfSeq DEF IInv, TypeOK, At
<1>2. a \in Attempt /\ a.status = "expired" /\ a.head = attempts[s][i].head
  BY <1>1 DEF Attempt
<1>3. attempts' = [attempts EXCEPT ![s] = [attempts[s] EXCEPT ![i] = a]]
  BY <1>1 DEF TypeOK
<1>. HIDE DEF a
<1>4. Updated(s, i, a)
  BY <1>1, <1>2, <1>3, Updating
<1>5. \A u \in Stages, q \in Revisions :
        /\ At(attempts'[u], q) = At(attempts[u], q)
        /\ At(attempts[u], q) \subseteq 1..Len(attempts[u])
  BY <1>4 DEF Updated, At
<1>6. ~Stands(attempts'[s], r)
  <2>1. SUFFICES ASSUME NEW j \in At(attempts[s], r)
                 PROVE  attempts'[s][j].status = "expired"
    BY <1>5 DEF Stands
  <2>2. CASE j = i
    BY <1>2, <1>4, <2>2 DEF Updated
  <2>3. CASE j # i
    <3>1. j \in 1..Len(attempts[s]) /\ j < i /\ attempts[s][j].head = attempts[s][i].head
      BY <1>1, <2>1, <2>3 DEF IsNewest, At
    <3>2. attempts[s][j].status = "expired"
      BY <1>1, <3>1 DEF IInv, OnlyNewestStands
    <3>. QED
      BY <1>4, <2>3, <3>1, <3>2 DEF Updated
  <2>. QED
    BY <2>2, <2>3
<1>7. ASSUME NEW u \in Stages, NEW q \in Revisions, u # s \/ q # r
      PROVE  (Stands(attempts'[u], q) <=> Stands(attempts[u], q))
  <2>1. \A j \in At(attempts[u], q) : attempts'[u][j] = attempts[u][j]
    BY <1>1, <1>4, <1>7 DEF Updated, At
  <2>. QED
    BY <1>5, <2>1 DEF Stands
<1>. QED
  BY <1>6, <1>7

LEMMA PushFailsDrops ==
  ASSUME IInv, HandStands, PushFails
  PROVE  Sessions!Next /\ HandStands'
<1>1. /\ at = "pushing" /\ at' = "idle"
      /\ attempts' = [attempts EXCEPT ![stage][Last].status = "expired"]
      /\ UNCHANGED <<lease, accepted>>
  BY DEF PushFails, Returns, ghosts
<1>2. /\ stage \in Stages /\ head \in Revisions /\ Len(attempts[stage]) \in Nat
      /\ Last \in At(attempts[stage], head)
      /\ IsNewest(attempts[stage], head, Last)
  <2>1. /\ stage \in Stages /\ head \in Revisions
        /\ attempts[stage] \in Seq(Attempt)
        /\ Last \in 1..Len(attempts[stage]) /\ attempts[stage][Last].head = head
    BY <1>1, LastInHand DEF InHand
  <2>. QED
    BY <2>1 DEF Last, At, IsNewest
<1>3. /\ ~Stands(attempts'[stage], head)
      /\ \A u \in Stages, q \in Revisions :
           u # stage \/ q # head => (Stands(attempts'[u], q) <=> Stands(attempts[u], q))
  BY <1>1, <1>2, ExpiringFrees
<1>4. AboutToSend /\ ~AboutToSend'
  BY <1>1 DEF AboutToSend
<1>5. Sessions!Next
  BY <1>1, <1>3, <1>4, HandIsDropped
<1>. QED
  BY <1>1, <1>5 DEF HandStands, InHand

LEMMA PopAttemptDrops ==
  ASSUME IInv, HandStands, PopAttempt
  PROVE  Sessions!Next /\ HandStands'
<1>. DEFINE list == attempts[stage]
            new == SubSeq(list, 1, Len(list) - 1)
<1>1. /\ at = "popping" /\ at' = "idle"
      /\ attempts' = [attempts EXCEPT ![stage] = new]
      /\ UNCHANGED <<lease, accepted>>
  BY DEF PopAttempt, Returns, Last, ghosts
<1>2. /\ TypeOK /\ stage \in Stages /\ head \in Revisions
      /\ list \in Seq(Attempt) /\ list # <<>> /\ list[Len(list)].head = head
      /\ Len(list) \in Nat \ {0}
  BY <1>1, LastInHand, EmptySeq DEF InHand, Last
<1>3. /\ new \in Seq(Attempt) /\ Len(new) = Len(list) - 1
      /\ \A i \in 1..Len(new) : new[i] = list[i]
  <2>1. list \in Seq(Attempt) /\ list # <<>> /\ new = SubSeq(list, 1, Len(list) - 1)
    BY <1>2
  <2>. HIDE DEF list, new
  <2>2. OneLess(list, new, head)
    BY <2>1, OneAttemptLess
  <2>. QED
    BY <2>2 DEF OneLess
<1>4. /\ attempts'[stage] = new
      /\ \A u \in Stages : u # stage => attempts'[u] = attempts[u]
  BY <1>1, <1>2, <1>3, ListReplaced
<1>5. OnlyNewestStands
  BY DEF IInv
<1>. HIDE DEF new
<1>6. ~Stands(attempts'[stage], head)
  <2>1. SUFFICES ASSUME NEW i \in At(new, head)
                 PROVE  new[i].status = "expired"
    BY <1>4 DEF Stands
  <2>2. /\ i \in 1..Len(list) /\ i < Len(list) /\ Len(list) \in 1..Len(list)
        /\ new[i] = list[i] /\ list[i].head = head
    BY <1>2, <1>3, <2>1 DEF At
  <2>3. list[i].status = "expired"
    BY <1>2, <1>5, <2>2 DEF OnlyNewestStands
  <2>. QED
    BY <2>2, <2>3
<1>7. ASSUME NEW q \in Revisions, q # head
      PROVE  Stands(new, q) <=> Stands(list, q)
  <2>. HIDE DEF list
  <2>1. At(new, q) = At(list, q)
    BY <1>2, <1>3, <1>7 DEF At
  <2>2. \A i \in At(new, q) : new[i] = list[i]
    BY <1>3 DEF At
  <2>. QED
    BY <2>1, <2>2 DEF Stands
<1>8. \A u \in Stages, q \in Revisions :
        u # stage \/ q # head => (Stands(attempts'[u], q) <=> Stands(attempts[u], q))
  BY <1>4, <1>7
<1>9. AboutToSend /\ ~AboutToSend'
  BY <1>1 DEF AboutToSend
<1>10. Sessions!Next
  BY <1>1, <1>6, <1>8, <1>9, HandIsDropped
<1>. QED
  BY <1>1, <1>10 DEF HandStands, InHand

\* The agent takes the work, and the handler goes on to save its reply or has lost it.
LEMMA AcceptsSends ==
  ASSUME IInv, HandStands, at = "submitting", Accepts, UNCHANGED <<lease, attempts>>,
         at' \notin {"pushing", "submitting", "popping"}
  PROVE  Sessions!Next
<1>1. AboutToSend /\ ~AboutToSend'
  BY DEF AboutToSend
<1>2. /\ stage \in Stages /\ head \in Revisions /\ Slot[stage][head] = "open"
      /\ Slot' = [Slot EXCEPT ![stage][head] = "closed"]
  BY <1>1, HandIsOpen, HandLetsGo
<1>3. accepted' = [accepted EXCEPT ![stage][head] = @ + 1]
  BY DEF Accepts
<1>4. Sessions!Send(stage, head)
  BY <1>2, <1>3 DEF Sessions!Send, Sessions!IsOpen
<1>. QED
  BY <1>2, <1>4 DEF Sessions!Next

LEMMA NumberTakenKeepsSlots ==
  ASSUME IInv, HandStands, NumberTaken
  PROVE  UNCHANGED Sessions!vars /\ HandStands'
<1>. DEFINE a == [attempts[stage][Last] EXCEPT !.number = @ + 1]
<1>1. /\ at = "pushing" /\ Number \in origin[stage]
      /\ attempts' = [attempts EXCEPT ![stage][Last].number = @ + 1]
      /\ UNCHANGED <<lease, at, stage, head, accepted>>
  BY DEF NumberTaken, Number, outside, ghosts
<1>2. /\ TypeOK /\ stage \in Stages /\ attempts[stage] \in Seq(Attempt)
      /\ Last \in 1..Len(attempts[stage]) /\ attempts[stage][Last] \in Attempt
  BY <1>1, LastInHand DEF InHand
<1>3. Number + 1 \in 0..MaxNumber
  <2>1. stage \in CodexStages /\ Number \in Numbers
    BY <1>1 DEF IInv, Locals, InHand
  <2>2. Number <= MaxOutside
    BY <1>1, <2>1 DEF IInv, RaisedByOthers, Numbers
  <2>. QED
    BY <2>1, <2>2 DEF Numbers
<1>4. /\ a \in Attempt
      /\ a.head = attempts[stage][Last].head /\ a.status = attempts[stage][Last].status
  <2>1. \A b \in Attempt : b.number + 1 \in 0..MaxNumber =>
          /\ [b EXCEPT !.number = @ + 1] \in Attempt
          /\ [b EXCEPT !.number = @ + 1].head = b.head
          /\ [b EXCEPT !.number = @ + 1].status = b.status
    BY DEF Attempt
  <2>. QED
    BY <1>2, <1>3, <2>1 DEF Number
<1>5. attempts' = [attempts EXCEPT ![stage] = [attempts[stage] EXCEPT ![Last] = a]]
  BY <1>1, <1>2 DEF TypeOK
<1>. HIDE DEF a
<1>6. Updated(stage, Last, a)
  BY <1>2, <1>4, <1>5, Updating
<1>7. \A u \in Stages, q \in Revisions : (Stands(attempts'[u], q) <=> Stands(attempts[u], q))
  BY <1>2, <1>4, <1>6, UpdateKeepsSlots
<1>8. Slot' = Slot
  BY <1>1, <1>7, SlotsStay DEF AboutToSend
<1>9. HandStands'
  <2>1. Last' = Last /\ attempts'[stage][Last].status = attempts[stage][Last].status
    BY <1>1, <1>2, <1>4, <1>6 DEF Last, Updated
  <2>. QED
    BY <1>1, <2>1 DEF HandStands, InHand
<1>. QED
  BY <1>1, <1>8, <1>9, SessionsStay

LEMMA RecordUrlKeepsSlots ==
  ASSUME IInv, HandStands, RecordUrl
  PROVE  UNCHANGED Sessions!vars /\ HandStands'
<1>. DEFINE a == [attempts[stage][Last] EXCEPT !.status = "submitted"]
<1>1. /\ at = "recording" /\ at' = "idle"
      /\ attempts' = [attempts EXCEPT ![stage][Last].status = "submitted"]
      /\ UNCHANGED <<lease, accepted>>
  BY DEF RecordUrl, Returns, ghosts
<1>2. /\ TypeOK /\ stage \in Stages /\ attempts[stage] \in Seq(Attempt)
      /\ Last \in 1..Len(attempts[stage]) /\ attempts[stage][Last] \in Attempt
      /\ attempts[stage][Last].status # "expired"
  BY <1>1, LastInHand DEF InHand, HandStands
<1>3. /\ a \in Attempt /\ a.head = attempts[stage][Last].head /\ a.status = "submitted"
  BY <1>2 DEF Attempt
<1>4. attempts' = [attempts EXCEPT ![stage] = [attempts[stage] EXCEPT ![Last] = a]]
  BY <1>1, <1>2 DEF TypeOK
<1>. HIDE DEF a
<1>5. Updated(stage, Last, a)
  BY <1>2, <1>3, <1>4, Updating
<1>6. \A u \in Stages, q \in Revisions : (Stands(attempts'[u], q) <=> Stands(attempts[u], q))
  BY <1>2, <1>3, <1>5, UpdateKeepsSlots
<1>7. ~AboutToSend /\ ~AboutToSend'
  BY <1>1 DEF AboutToSend
<1>8. Slot' = Slot
  BY <1>6, <1>7, SlotsStay
<1>. QED
  BY <1>1, <1>8, SessionsStay DEF HandStands, InHand

LEMMA ExpireStageRetires ==
  ASSUME IInv, HandStands, NEW s \in Stages, ExpireStage(s)
  PROVE  Sessions!Next /\ HandStands'
<1>. DEFINE r == IF s = "audit" THEN attempts[s][Len(attempts[s])].head ELSE tip
<1>1. PICK i \in Live(attempts[s], r) : attempts' = [attempts EXCEPT ![s][i].status = "expired"]
  BY DEF ExpireStage
<1>2. /\ i \in At(attempts[s], r) /\ IsNewest(attempts[s], r, i)
      /\ attempts[s][i].status # "expired"
      /\ at = "idle" /\ at' = "idle" /\ UNCHANGED <<lease, accepted>>
  BY <1>1 DEF Live, ExpireStage, ghosts
<1>. HIDE DEF r
<1>3. r \in Revisions
  <2>1. attempts[s] \in Seq(Attempt) /\ i \in 1..Len(attempts[s]) /\ attempts[s][i].head = r
    BY <1>2 DEF IInv, TypeOK, At
  <2>2. attempts[s][i] \in Attempt
    BY <2>1, ElementOfSeq
  <2>. QED
    BY <2>1, <2>2 DEF Attempt
<1>4. Stands(attempts[s], r)
  BY <1>2 DEF Stands
<1>5. /\ ~Stands(attempts'[s], r)
      /\ \A u \in Stages, q \in Revisions :
           u # s \/ q # r => (Stands(attempts'[u], q) <=> Stands(attempts[u], q))
  BY <1>1, <1>2, <1>3, ExpiringFrees
<1>6. ~AboutToSend /\ ~AboutToSend'
  BY <1>2 DEF AboutToSend
<1>7. /\ Slot[s][r] = "closed" /\ Slot'[s][r] = "free"
      /\ \A u \in Stages, q \in Revisions : u # s \/ q # r => Slot'[u][q] = Slot[u][q]
  BY <1>3, <1>4, <1>5, <1>6, SlotIs DEF SlotOf
<1>8. Slot' = [Slot EXCEPT ![s][r] = "free"]
  BY <1>3, <1>7, SlotMoves DEF SlotValues
<1>9. Sessions!Retire(s, r)
  BY <1>2, <1>6, <1>7, <1>8, NoneIsOpen DEF Sessions!Retire
<1>. QED
  BY <1>2, <1>3, <1>9 DEF Sessions!Next, HandStands, InHand

\* Nothing stands any more.
LEMMA AllSlotsFree ==
  ASSUME \A s \in Stages, r \in Revisions : ~Stands(attempts'[s], r)
  PROVE  Slot' = Sessions!AllFree
<1>1. \A s \in Stages, r \in Revisions : Slot'[s][r] = "free"
  BY SlotIs DEF SlotOf
<1>2. /\ Sessions!AllFree \in [Stages -> [Revisions -> SlotValues]]
      /\ \A s \in Stages, r \in Revisions : Sessions!AllFree[s][r] = "free"
  BY DEF Sessions!AllFree, SlotValues
<1>. QED
  BY <1>1, <1>2, SlotType, SlotsAre

LEMMA ReleaseWritesReleases ==
  ASSUME IInv, HandStands, ReleaseWrites
  PROVE  Sessions!Next /\ HandStands'
<1>1. /\ at = "forgetting" /\ at' = "idle" /\ lease' = "none" /\ UNCHANGED accepted
      /\ attempts' = [s \in Stages |-> [i \in DOMAIN attempts[s] |->
                        [attempts[s][i] EXCEPT !.status = "expired"]]]
  BY DEF ReleaseWrites, Returns, ghosts
<1>2. \A s \in Stages : \A i \in DOMAIN attempts[s] : attempts'[s][i].status = "expired"
  <2>1. SUFFICES ASSUME NEW s \in Stages, NEW i \in DOMAIN attempts[s]
                 PROVE  attempts'[s][i].status = "expired"
    OBVIOUS
  <2>2. attempts[s] \in Seq(Attempt) /\ i \in 1..Len(attempts[s])
    BY DEF IInv, TypeOK
  <2>3. attempts[s][i] \in Attempt
    BY <2>2, ElementOfSeq
  <2>4. attempts'[s][i] = [attempts[s][i] EXCEPT !.status = "expired"]
    BY <1>1
  <2>. QED
    BY <2>3, <2>4 DEF Attempt
<1>3. \A s \in Stages : 1..Len(attempts'[s]) = DOMAIN attempts[s]
  <2>1. SUFFICES ASSUME NEW s \in Stages
                 PROVE  1..Len(attempts'[s]) = DOMAIN attempts[s]
    OBVIOUS
  <2>2. Len(attempts[s]) \in Nat /\ DOMAIN attempts[s] = 1..Len(attempts[s])
    BY DEF IInv, TypeOK
  <2>3. DOMAIN attempts'[s] = 1..Len(attempts[s])
    BY <1>1, <2>2
  <2>4. attempts'[s] \in Seq(Attempt)
    BY ReleaseWritesStep DEF IInv, TypeOK
  <2>. QED
    BY <2>2, <2>3, <2>4
<1>4. \A s \in Stages, r \in Revisions : ~Stands(attempts'[s], r)
  BY <1>2, <1>3 DEF Stands, At
<1>5. Slot' = Sessions!AllFree
  BY <1>4, AllSlotsFree
<1>6. Sessions!NoneOpen /\ lease # "completed"
  BY <1>1, NoneIsOpen DEF AboutToSend, HandStands
<1>7. Sessions!ReleaseAll
  BY <1>1, <1>5, <1>6 DEF Sessions!ReleaseAll
<1>. QED
  BY <1>1, <1>7 DEF Sessions!Next, HandStands, InHand

LEMMA NoAttempts ==
  ASSUME NEW s \in Stages, NEW r \in Revisions, attempts' = [u \in Stages |-> <<>>]
  PROVE  ~Stands(attempts'[s], r)
<1>1. Len(attempts'[s]) = 0
  BY EmptySeq
<1>. QED
  BY <1>1 DEF Stands, At

LEMMA LoseStateLoses ==
  ASSUME IInv, HandStands, LoseState
  PROVE  Sessions!Next /\ HandStands'
<1>1. /\ at = "idle" /\ at' = "idle"
      /\ lease' = IF lease = "completed" THEN lease ELSE "none"
      /\ attempts' = [s \in Stages |-> <<>>]
      /\ accepted' = [s \in Stages |-> [r \in Revisions |-> 0]]
  BY DEF LoseState
<1>2. Slot' = Sessions!AllFree
  BY <1>1, NoAttempts, AllSlotsFree
<1>3. Sessions!NoneOpen
  BY <1>1, NoneIsOpen DEF AboutToSend
<1>4. Sessions!Lose
  BY <1>1, <1>2, <1>3 DEF Sessions!Lose
<1>. QED
  BY <1>1, <1>4 DEF Sessions!Next, HandStands, InHand

\* The lease is taken, or the task completed, between two handlers.
LEMMA LeaseMoves ==
  ASSUME IInv, HandStands, Prepare \/ Complete
  PROVE  [Sessions!Next]_(Sessions!vars) /\ HandStands'
<1>1. at = "idle" /\ UNCHANGED <<attempts, at, stage, head, accepted>>
  BY DEF Prepare, Complete, outside, ghosts
<1>2. ~AboutToSend /\ ~AboutToSend'
  BY <1>1 DEF AboutToSend
<1>3. Slot' = Slot
  BY <1>1, <1>2, SlotsStay
<1>4. HandStands'
  BY <1>1 DEF HandStands, InHand
<1>5. CASE Prepare /\ lease = "none"
  <2>1. Sessions!Take
    BY <1>1, <1>3, <1>5 DEF Prepare, Sessions!Take
  <2>. QED
    BY <1>4, <2>1 DEF Sessions!Next
<1>6. CASE Prepare /\ lease # "none"
  <2>1. lease' = lease
    BY <1>6 DEF Prepare
  <2>2. UNCHANGED Sessions!vars
    BY <1>1, <1>3, <2>1, SessionsStay
  <2>. QED
    BY <1>4, <2>2
<1>7. CASE Complete
  <2>1. Sessions!NoneOpen
    BY <1>2, NoneIsOpen
  <2>2. Sessions!Complete
    BY <1>1, <1>3, <1>7, <2>1 DEF Complete, Sessions!Complete
  <2>. QED
    BY <1>4, <2>2 DEF Sessions!Next
<1>. QED
  BY <1>5, <1>6, <1>7

\* Steps that leave the attempts alone, and whether the handler is about to send.
LEMMA HandStaysAsItIs ==
  ASSUME IInv, HandStands, UNCHANGED <<lease, attempts, accepted>>,
         \/ UNCHANGED <<at, stage, head>>
         \/ PushBranch \/ Refused
         \/ \E s \in Stages, r \in Revisions : StageReads(s, r)
         \/ ReleaseDeletes
  PROVE  UNCHANGED Sessions!vars /\ HandStands'
<1>1. CASE UNCHANGED <<at, stage, head>>
  <2>1. UNCHANGED Sessions!vars
    BY <1>1, AroundTheSessions DEF AboutToSend
  <2>2. HandStands'
    BY <1>1 DEF HandStands, InHand, Last
  <2>. QED
    BY <2>1, <2>2
<1>2. CASE PushBranch \/ Refused
  <2>1. /\ at \in {"pushing", "submitting"} /\ at' \in {"submitting", "popping"}
        /\ UNCHANGED <<stage, head>>
    BY <1>2 DEF PushBranch, Refused
  <2>2. UNCHANGED Sessions!vars
    BY <2>1, AroundTheSessions DEF AboutToSend
  <2>3. HandStands'
    BY <2>1 DEF HandStands, InHand, Last
  <2>. QED
    BY <2>2, <2>3
<1>3. CASE \E s \in Stages, r \in Revisions : StageReads(s, r)
  <2>1. at = "idle" /\ at' = "listing"
    BY <1>3 DEF StageReads
  <2>2. UNCHANGED Sessions!vars
    BY <2>1, AroundTheSessions DEF AboutToSend
  <2>. QED
    BY <2>1, <2>2 DEF HandStands, InHand
<1>4. CASE ReleaseDeletes
  <2>1. at = "idle" /\ at' = "forgetting" /\ lease \in {"leased", "none"}
    BY <1>4 DEF ReleaseDeletes
  <2>2. UNCHANGED Sessions!vars
    BY <2>1, AroundTheSessions DEF AboutToSend
  <2>. QED
    BY <2>1, <2>2 DEF HandStands, InHand
<1>. QED
  BY <1>1, <1>2, <1>3, <1>4

\* Steps that put the handler down without touching an attempt.
LEMMA HandIsEmpty ==
  ASSUME IInv, HandStands, Returns, UNCHANGED <<lease, attempts, accepted>>
  PROVE  [Sessions!Next]_(Sessions!vars) /\ HandStands'
<1>1. at' = "idle"
  BY DEF Returns
<1>. QED
  BY <1>1, StopsShort DEF HandStands, InHand

LEMMA SendingSessions ==
  ASSUME IInv, HandStands, Sending
  PROVE  [Sessions!Next]_(Sessions!vars) /\ HandStands'
<1>1. CASE StageRecords
  BY <1>1, StageRecordsClaims
<1>2. CASE StageGivesUp \/ PushUnauthenticated
  <2>1. Returns /\ UNCHANGED <<lease, attempts, accepted>>
    BY <1>2 DEF StageGivesUp, PushUnauthenticated, ghosts
  <2>. QED
    BY <2>1, HandIsEmpty
<1>3. CASE NumberTaken
  BY <1>3, NumberTakenKeepsSlots
<1>4. CASE PushBranch \/ Refused
  <2>1. UNCHANGED <<lease, attempts, accepted>>
    BY <1>4 DEF PushBranch, Refused, ghosts
  <2>. QED
    BY <1>4, <2>1, HandStaysAsItIs
<1>5. CASE PushFails
  BY <1>5, PushFailsDrops
<1>6. CASE Submit
  <2>1. /\ at = "submitting" /\ at' = "recording" /\ Accepts
        /\ UNCHANGED <<lease, attempts, stage, head>>
    BY <1>6 DEF Submit
  <2>2. HandStands'
    BY <2>1 DEF HandStands, InHand, Last
  <2>. QED
    BY <2>1, <2>2, AcceptsSends
<1>7. CASE SubmitFails
  <2>1. /\ at = "submitting" /\ at' = "idle" /\ Returns /\ UNCHANGED <<lease, attempts>>
        /\ Accepts \/ UNCHANGED accepted
    BY <1>7 DEF SubmitFails, Returns, ghosts
  <2>2. HandStands'
    BY <2>1 DEF HandStands, InHand
  <2>. QED
    BY <2>1, <2>2, AcceptsSends, HandIsEmpty
<1>8. CASE PopAttempt
  BY <1>8, PopAttemptDrops
<1>9. CASE RecordUrl
  BY <1>9, RecordUrlKeepsSlots
<1>. QED
  BY <1>1, <1>2, <1>3, <1>4, <1>5, <1>6, <1>7, <1>8, <1>9 DEF Sending

LEMMA InitSessions == Init => Sessions!Init /\ HandStands
<1>1. SUFFICES ASSUME Init PROVE Sessions!Init /\ HandStands
  OBVIOUS
<1>2. \A s \in Stages, r \in Revisions : Slot[s][r] = "free"
  <2>1. \A s \in Stages : Len(attempts[s]) = 0
    BY <1>1, EmptySeq DEF Init
  <2>2. \A s \in Stages, r \in Revisions : ~Stands(attempts[s], r)
    BY <2>1 DEF Stands, At
  <2>. QED
    BY <2>2, SlotIs DEF SlotOf
<1>3. /\ Sessions!AllFree \in [Stages -> [Revisions -> SlotValues]]
      /\ \A s \in Stages, r \in Revisions : Sessions!AllFree[s][r] = "free"
  BY DEF Sessions!AllFree, SlotValues
<1>4. Slot = Sessions!AllFree
  BY <1>2, <1>3, SlotType, SlotsAre
<1>. QED
  BY <1>1, <1>4 DEF Init, Sessions!Init, HandStands, InHand

\* Every step of the handlers and around them is one that SessionBook allows.
LEMMA StepSessions ==
  ASSUME IInv, HandStands, [Next]_vars
  PROVE  [Sessions!Next]_(Sessions!vars) /\ HandStands'
<1>1. CASE \/ \E s \in Stages, r \in Revisions : StageReads(s, r)
           \/ ReleaseDeletes
  <2>1. UNCHANGED <<lease, attempts, accepted>>
    BY <1>1 DEF StageReads, ReleaseDeletes, ghosts
  <2>. QED
    BY <1>1, <2>1, HandStaysAsItIs
<1>2. CASE \/ TipMoves \/ \E p \in Pulls : PullMoves(p)
           \/ \E s \in CodexStages, n \in Numbers : OutsiderPushes(s, n) \/ BranchDeleted(s, n)
           \/ UNCHANGED vars
  <2>1. UNCHANGED <<lease, attempts, at, stage, head, accepted>>
    BY <1>2 DEF TipMoves, PullMoves, OutsiderPushes, BranchDeleted, vars, ghosts
  <2>. QED
    BY <2>1, HandStaysAsItIs
<1>3. CASE Sending
  BY <1>3, SendingSessions
<1>4. CASE \E s \in Stages : ExpireStage(s)
  BY <1>4, ExpireStageRetires
<1>5. CASE ReleaseWrites
  BY <1>5, ReleaseWritesReleases
<1>6. CASE Prepare \/ Complete
  BY <1>6, LeaseMoves
<1>7. CASE Crash
  <2>1. Returns /\ UNCHANGED <<lease, attempts, accepted>>
    BY <1>7 DEF Crash, ghosts
  <2>. QED
    BY <2>1, HandIsEmpty
<1>8. CASE LoseState
  BY <1>8, LoseStateLoses
<1>. QED
  BY <1>1, <1>2, <1>3, <1>4, <1>5, <1>6, <1>7, <1>8 DEF Next, Panel, World

\* The dispatch of stages implements SessionBook: at most one session comes of each
\* claim of a stage at a revision, whatever number of branches is passed over,
\* whichever call fails after it was obeyed, wherever the process dies, and however
\* the tip and the pull requests move meanwhile.
THEOREM DispatchImplementsBook == Spec => ImplementsSessionBook
<1>1. Spec => [](IInv /\ HandStands)
  <2>1. Init => IInv /\ HandStands
    BY InitIInv, InitSessions
  <2>2. IInv /\ HandStands /\ [Next]_vars => (IInv /\ HandStands)'
    BY StepIInv, StepSessions
  <2>. QED
    BY <2>1, <2>2, PTL DEF Spec
<1>2. Init => Sessions!Init
  BY InitSessions
<1>3. IInv /\ HandStands /\ [Next]_vars => [Sessions!Next]_(Sessions!vars)
  BY StepSessions
<1>. QED
  BY <1>1, <1>2, <1>3, PTL DEF Spec, ImplementsSessionBook, Sessions!Spec
=============================================================================
