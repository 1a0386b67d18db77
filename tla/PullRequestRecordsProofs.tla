---------------------- MODULE PullRequestRecordsProofs ----------------------
(***************************************************************************)
(* Proofs about PullRequestRecords, for any tasks and any number of pull   *)
(* requests. What is saved was first a draft, so the inductive invariant   *)
(* asks of the drafts what RecordsAreTrue asks of the records; that an     *)
(* answer of GitHub's may be recorded rests on the open pull requests      *)
(* being newer than the task's last expiry and on a branch that is there.  *)
(***************************************************************************)
EXTENDS PullRequestRecords, WellFoundedInduction, TLAPS

DraftsAreTrue == \A t \in Tasks : MaySay(t, draft[t])

OpenOnBranch == \A t \in Tasks \ branch : In(t, "OPEN") = {}

NewSinceExpiry ==
  \A t \in Tasks, n \in Numbers : pulls[t][n] \in {"none", "OPEN"} => n > since[t]

\* GitHub numbers pull requests in the order they are opened.
InOrder ==
  \A t \in Tasks, n, m \in Numbers : pulls[t][n] = "none" /\ n < m => pulls[t][m] = "none"

Subjects ==
  /\ at \in {"asking", "creating"} => subject \in prepared
  /\ at = "deleted" => subject \in Tasks \ branch
  /\ left \subseteq prepared

IInv ==
  /\ TypeOK /\ RecordsAreTrue /\ DraftsAreTrue
  /\ OpenOnBranch /\ NewSinceExpiry /\ InOrder /\ Subjects

------------------------------------------------------------------------------
(* The newest *)

LEMMA LessOnNaturals ==
  OpToRel(<, Nat) = {pair \in Nat \X Nat : pair[1] < pair[2]}
BY DEF OpToRel

\* A non-empty set of numbers up to N has a largest.
LEMMA NewestExists ==
  ASSUME NEW N \in Nat, NEW S \in SUBSET (0..N), S # {}
  PROVE  \E n \in S : \A m \in S : m <= n
<1> DEFINE Gaps == {k \in 0..N : N - k \in S}
<1> DEFINE Less == OpToRel(<, Nat)
<1>1. Gaps \subseteq Nat
  OBVIOUS
<1>2. Gaps # {}
  <2>1. PICK n \in S : n \in 0..N
    OBVIOUS
  <2>2. N - n \in 0..N /\ N - (N - n) = n
    BY <2>1
  <2> QED BY <2>2
<1>3. IsWellFoundedOn(Less, Nat)
  BY NatLessThanWellFounded
<1>4. PICK gap \in Gaps : \A k \in Gaps : ~ (<<k, gap>> \in Less)
  <2> HIDE DEF Less, Gaps
  <2> QED BY <1>1, <1>2, <1>3, WFMin
<1>5. \A k \in Gaps : k >= gap
  <2> SUFFICES ASSUME NEW k \in Gaps PROVE k >= gap
    OBVIOUS
  <2>1. k \in Nat /\ gap \in Nat
    BY <1>1
  <2>2. <<k, gap>> \notin {pair \in Nat \X Nat : pair[1] < pair[2]}
    BY <1>4, LessOnNaturals
  <2> QED BY <2>1, <2>2
<1>6. gap \in 0..N /\ N - gap \in S
  OBVIOUS
<1>7. ASSUME NEW m \in S PROVE m <= N - gap
  <2>1. m \in 0..N /\ N - m \in 0..N /\ N - (N - m) = m
    OBVIOUS
  <2>2. N - m \in Gaps
    BY <2>1
  <2> HIDE DEF Gaps
  <2>3. N - m >= gap
    BY <2>2, <1>5
  <2> QED BY <2>1, <2>3, <1>6
<1> QED BY <1>6, <1>7

LEMMA NewestOf ==
  ASSUME NEW S \in SUBSET (0..MaxPulls), S # {}
  PROVE  Newest(S) \in S /\ \A m \in S : m <= Newest(S)
<1>1. \E n \in S : \A m \in S : m <= n
  BY NewestExists, PullRequestRecordsAssumption
<1> QED BY <1>1 DEF Newest

------------------------------------------------------------------------------
(* What an operation may put in a draft *)

\* What GitHub answers about a prepared task may be recorded.
LEMMA LookupMayBeSaid ==
  ASSUME IInv, NEW t \in prepared
  PROVE  Lookup(t) \in Found /\ MaySay(t, Lookup(t))
<1>1. t \in Tasks /\ MaxPulls \in Nat
  BY PullRequestRecordsAssumption DEF IInv, TypeOK
<1>2. CASE In(t, "OPEN") # {}
  <2>1. In(t, "OPEN") \in SUBSET (0..MaxPulls)
    BY <1>1 DEF In, Numbers
  <2>2. Newest(In(t, "OPEN")) \in In(t, "OPEN")
    BY <1>2, <2>1, NewestOf
  <2>3. Lookup(t) = [pull |-> Newest(In(t, "OPEN")), state |-> "OPEN"]
    BY <1>2 DEF Lookup
  <2>4. Newest(In(t, "OPEN")) > since[t]
    BY <1>1, <2>2 DEF IInv, NewSinceExpiry, In
  <2>5. Newest(In(t, "OPEN")) \in 0..MaxPulls
    BY <2>1, <2>2
  <2> QED BY <2>3, <2>4, <2>5 DEF Found, MaySay
<1>3. CASE In(t, "OPEN") = {} /\ In(t, "MERGED") # {}
  <2>1. In(t, "MERGED") \in SUBSET (0..MaxPulls)
    BY <1>1 DEF In, Numbers
  <2>2. Newest(In(t, "MERGED")) \in In(t, "MERGED")
    BY <1>3, <2>1, NewestOf
  <2>3. Lookup(t) = [pull |-> Newest(In(t, "MERGED")), state |-> "MERGED"]
    BY <1>3 DEF Lookup
  <2>4. Newest(In(t, "MERGED")) \in 0..MaxPulls
    BY <2>1, <2>2
  <2> QED BY <2>2, <2>3, <2>4 DEF Found, MaySay
<1>4. CASE In(t, "OPEN") = {} /\ In(t, "MERGED") = {}
  <2>1. Lookup(t) = Nothing
    BY <1>4 DEF Lookup
  <2> QED BY <2>1, <1>1 DEF Found, MaySay, Nothing
<1> QED BY <1>2, <1>3, <1>4

\* A draft that is changed at one task, to something it may say, stays sound.
LEMMA DraftChanges ==
  ASSUME IInv, NEW t \in Tasks, NEW found \in Found, MaySay(t, found)',
         draft' = [draft EXCEPT ![t] = found],
         \A u \in Tasks \ {t} : MaySay(u, draft[u]) => MaySay(u, draft[u])'
  PROVE  draft' \in [Tasks -> Found] /\ DraftsAreTrue'
<1>1. draft' \in [Tasks -> Found] /\ draft \in [Tasks -> Found]
  BY DEF IInv, TypeOK
<1>2. \A u \in Tasks : draft'[u] = IF u = t THEN found ELSE draft[u]
  BY <1>1
<1>3. ASSUME NEW u \in Tasks PROVE MaySay(u, draft[u])'
  <2>1. CASE u = t
    BY <1>2, <2>1 DEF MaySay
  <2>2. CASE u # t
    <3>1. MaySay(u, draft[u])
      BY DEF IInv, DraftsAreTrue
    <3> QED BY <2>2, <3>1, <1>2
  <2> QED BY <2>1, <2>2
<1> QED BY <1>1, <1>3 DEF DraftsAreTrue

\* An operation that ends leaves no draft, which says nothing.
LEMMA EndsClean ==
  ASSUME TypeOK, Ends
  PROVE  /\ draft' \in [Tasks -> Found] /\ DraftsAreTrue'
         /\ at' = "idle" /\ subject' = "all" /\ left' = {}
         /\ Subjects'
<1>1. Nothing \in Found
  BY PullRequestRecordsAssumption DEF Nothing, Found
<1>2. draft' = [t \in Tasks |-> Nothing]
  BY DEF Ends
<1>3. DraftsAreTrue'
  BY <1>2 DEF DraftsAreTrue, MaySay, Nothing
<1>4. at' = "idle" /\ subject' = "all" /\ left' = {}
  BY DEF Ends
<1> QED BY <1>1, <1>2, <1>3, <1>4 DEF Subjects
------------------------------------------------------------------------------
(* What happens to the pull requests *)

\* One that is not merged moves; what may be said of any task may still be said.
LEMMA PullMoves ==
  ASSUME IInv, NEW t \in Tasks, NEW n \in Numbers, NEW state \in {"OPEN", "CLOSED", "MERGED"},
         pulls[t][n] # "MERGED",
         \A m \in Numbers : pulls[t][n] = "none" /\ pulls[t][m] = "none" => n <= m,
         state = "OPEN" => t \in branch /\ n > since[t],
         pulls' = [pulls EXCEPT ![t][n] = state],
         UNCHANGED <<branch, prepared, since>>
  PROVE  /\ pulls' \in [Tasks -> [Numbers -> {"none", "OPEN", "CLOSED", "MERGED"}]]
         /\ OpenOnBranch' /\ NewSinceExpiry' /\ InOrder'
         /\ \A u \in Tasks : \A found : MaySay(u, found) => MaySay(u, found)'
<1>1. /\ pulls \in [Tasks -> [Numbers -> {"none", "OPEN", "CLOSED", "MERGED"}]]
      /\ since \in [Tasks -> 0..MaxPulls]
  BY DEF IInv, TypeOK
<1>2. pulls' \in [Tasks -> [Numbers -> {"none", "OPEN", "CLOSED", "MERGED"}]]
  BY <1>1
<1>3. \A u \in Tasks, m \in Numbers :
        pulls'[u][m] = IF u = t /\ m = n THEN state ELSE pulls[u][m]
  BY <1>1
<1>4. OpenOnBranch'
  <2> SUFFICES ASSUME NEW u \in Tasks \ branch', NEW m \in Numbers PROVE pulls'[u][m] # "OPEN"
    BY DEF OpenOnBranch, In
  <2>1. u \notin branch /\ In(u, "OPEN") = {}
    BY DEF IInv, OpenOnBranch
  <2>2. pulls[u][m] # "OPEN"
    BY <2>1 DEF In
  <2> QED BY <1>3, <2>1, <2>2
<1>5. NewSinceExpiry'
  <2> SUFFICES ASSUME NEW u \in Tasks, NEW m \in Numbers, pulls'[u][m] \in {"none", "OPEN"}
               PROVE  m > since'[u]
    BY DEF NewSinceExpiry
  <2>1. CASE u = t /\ m = n
    BY <1>3, <2>1
  <2>2. CASE ~ (u = t /\ m = n)
    BY <1>3, <2>2 DEF IInv, NewSinceExpiry
  <2> QED BY <2>1, <2>2
<1>6. ASSUME NEW u \in Tasks, NEW found, MaySay(u, found) PROVE MaySay(u, found)'
  <2>1. \A m \in Numbers : pulls[u][m] = "MERGED" => pulls'[u][m] = "MERGED"
    BY <1>3
  <2>2. found.state = "MERGED" => found.pull \in {m \in Numbers : pulls'[u][m] = "MERGED"}
    BY <1>6, <2>1 DEF MaySay, In
  <2> QED BY <1>6, <2>2 DEF MaySay, In
<1>7. InOrder'
  <2> SUFFICES ASSUME NEW u \in Tasks, NEW k \in Numbers, NEW m \in Numbers,
                      pulls'[u][k] = "none", k < m
               PROVE  pulls'[u][m] = "none"
    BY DEF InOrder
  <2>1. pulls[u][k] = "none" /\ pulls[u][m] = "none"
    BY <1>3 DEF IInv, InOrder
  <2>2. ~ (u = t /\ m = n)
    <3>1. k \in Int /\ m \in Int
      BY DEF Numbers
    <3> QED BY <2>1, <3>1
  <2> QED BY <1>3, <2>1, <2>2
<1> QED BY <1>2, <1>4, <1>5, <1>6, <1>7

\* The branch goes, and what is open for it closes.
LEMMA BranchGoes ==
  ASSUME IInv, NEW t \in Tasks, WithoutBranch(t), UNCHANGED <<prepared, since>>
  PROVE  /\ pulls' \in [Tasks -> [Numbers -> {"none", "OPEN", "CLOSED", "MERGED"}]]
         /\ branch' = branch \ {t} /\ OpenOnBranch' /\ NewSinceExpiry' /\ InOrder'
         /\ \A u \in Tasks : \A found : MaySay(u, found) => MaySay(u, found)'
<1>1. /\ pulls \in [Tasks -> [Numbers -> {"none", "OPEN", "CLOSED", "MERGED"}]]
      /\ since \in [Tasks -> 0..MaxPulls]
  BY DEF IInv, TypeOK
<1>2. [n \in Numbers |-> IF pulls[t][n] = "OPEN" THEN "CLOSED" ELSE pulls[t][n]]
        \in [Numbers -> {"none", "OPEN", "CLOSED", "MERGED"}]
  BY <1>1
<1>3. pulls' \in [Tasks -> [Numbers -> {"none", "OPEN", "CLOSED", "MERGED"}]]
  BY <1>1, <1>2 DEF WithoutBranch
<1>4. \A u \in Tasks, m \in Numbers :
        pulls'[u][m] = IF u = t /\ pulls[u][m] = "OPEN" THEN "CLOSED" ELSE pulls[u][m]
  BY <1>1 DEF WithoutBranch
<1>5. OpenOnBranch'
  <2> SUFFICES ASSUME NEW u \in Tasks \ branch', NEW m \in Numbers PROVE pulls'[u][m] # "OPEN"
    BY DEF OpenOnBranch, In
  <2>1. CASE u = t
    BY <1>4, <2>1
  <2>2. CASE u # t
    <3>1. In(u, "OPEN") = {}
      BY <2>2 DEF IInv, OpenOnBranch, WithoutBranch
    <3> QED BY <1>4, <2>2, <3>1 DEF In
  <2> QED BY <2>1, <2>2
<1>6. NewSinceExpiry'
  BY <1>4 DEF IInv, NewSinceExpiry
<1>7. ASSUME NEW u \in Tasks, NEW found, MaySay(u, found) PROVE MaySay(u, found)'
  <2>1. \A m \in Numbers : pulls[u][m] = "MERGED" => pulls'[u][m] = "MERGED"
    BY <1>4
  <2>2. found.state = "MERGED" => found.pull \in {m \in Numbers : pulls'[u][m] = "MERGED"}
    BY <1>7, <2>1 DEF MaySay, In
  <2> QED BY <1>7, <2>2 DEF MaySay, In
<1>8. branch' = branch \ {t}
  BY DEF WithoutBranch
<1>9. InOrder'
  BY <1>4 DEF IInv, InOrder
<1> QED BY <1>3, <1>5, <1>6, <1>7, <1>8, <1>9

\* What may be said is said of the records and the drafts that do not change.
LEMMA StillSaid ==
  ASSUME IInv, \A u \in Tasks : \A found : MaySay(u, found) => MaySay(u, found)'
  PROVE  /\ record' = record => RecordsAreTrue'
         /\ draft' = draft => DraftsAreTrue'
<1>1. ASSUME record' = record PROVE RecordsAreTrue'
  <2>1. ASSUME NEW u \in Tasks PROVE MaySay(u, record[u])'
    <3>1. PICK found : found = record[u]
      OBVIOUS
    <3>2. MaySay(u, found)
      BY <3>1 DEF IInv, RecordsAreTrue
    <3>3. MaySay(u, found)'
      BY <3>2
    <3> QED BY <3>1, <3>3, <1>1 DEF MaySay
  <2> QED BY <2>1 DEF RecordsAreTrue
<1>2. ASSUME draft' = draft PROVE DraftsAreTrue'
  <2>1. ASSUME NEW u \in Tasks PROVE MaySay(u, draft[u])'
    <3>1. PICK found : found = draft[u]
      OBVIOUS
    <3>2. MaySay(u, found)
      BY <3>1 DEF IInv, DraftsAreTrue
    <3>3. MaySay(u, found)'
      BY <3>2
    <3> QED BY <3>1, <3>3, <1>2 DEF MaySay
  <2> QED BY <2>1 DEF DraftsAreTrue
<1> QED BY <1>1, <1>2

\* Where neither GitHub nor the leases change, nothing that may be said does.
LEMMA NothingHappens ==
  ASSUME IInv, UNCHANGED <<pulls, branch, prepared, since>>
  PROVE  /\ OpenOnBranch' /\ NewSinceExpiry' /\ InOrder'
         /\ \A u \in Tasks : \A found : MaySay(u, found) => MaySay(u, found)'
<1>1. OpenOnBranch' /\ NewSinceExpiry' /\ InOrder'
  BY DEF IInv, OpenOnBranch, NewSinceExpiry, InOrder, In
<1>2. \A u \in Tasks : \A found : MaySay(u, found) => MaySay(u, found)'
  BY DEF MaySay, In
<1> QED BY <1>1, <1>2

------------------------------------------------------------------------------
(* The steps *)

LEMMA InitHolds ==
  ASSUME Init
  PROVE  IInv
<1>1. MaxPulls \in Nat /\ MaxDeaths \in Nat /\ Nothing \in Found
  BY PullRequestRecordsAssumption DEF Nothing, Found
<1>2. TypeOK
  BY <1>1 DEF Init, TypeOK
<1>3. RecordsAreTrue /\ DraftsAreTrue
  BY DEF Init, RecordsAreTrue, DraftsAreTrue, MaySay, Nothing
<1>4. OpenOnBranch
  BY DEF Init, OpenOnBranch, In
<1>5. NewSinceExpiry
  BY <1>1 DEF Init, NewSinceExpiry, Numbers
<1>6. InOrder /\ Subjects
  BY DEF Init, InOrder, Subjects
<1> QED BY <1>2, <1>3, <1>4, <1>5, <1>6 DEF IInv

LEMMA PeopleKeep ==
  ASSUME IInv, People
  PROVE  IInv'
<1>1. UNCHANGED <<saved, at, subject, left, draft>>
  BY DEF People
<1>2. PICK t \in Tasks, n \in Numbers, state \in {"OPEN", "CLOSED", "MERGED"} :
        /\ pulls[t][n] # "MERGED"
        /\ \A m \in Numbers : pulls[t][n] = "none" /\ pulls[t][m] = "none" => n <= m
        /\ state = "OPEN" => t \in branch /\ n > since[t]
        /\ pulls' = [pulls EXCEPT ![t][n] = state]
        /\ branch' = branch
  <2>1. PICK t \in Tasks :
          \/ \E n \in Numbers : Opens(t, n) /\ UNCHANGED branch
          \/ \E n \in In(t, "OPEN"), state \in {"CLOSED", "MERGED"} :
               pulls' = [pulls EXCEPT ![t][n] = state] /\ UNCHANGED branch
          \/ \E n \in In(t, "CLOSED") :
               t \in branch /\ In(t, "OPEN") = {} /\ n > since[t] /\ Open(t, n) /\ UNCHANGED branch
    BY DEF People
  <2>2. ASSUME NEW n \in Numbers, Opens(t, n), branch' = branch
        PROVE  /\ pulls[t][n] # "MERGED" /\ t \in branch /\ n > since[t]
               /\ \A m \in Numbers : pulls[t][m] = "none" => n <= m
               /\ pulls' = [pulls EXCEPT ![t][n] = "OPEN"]
    BY <2>2 DEF Opens, Open, In, IInv, NewSinceExpiry
  <2>3. ASSUME NEW n \in In(t, "OPEN") PROVE n \in Numbers /\ pulls[t][n] \notin {"none", "MERGED"}
    BY DEF In
  <2>4. ASSUME NEW n \in In(t, "CLOSED") PROVE n \in Numbers /\ pulls[t][n] \notin {"none", "MERGED"}
    BY DEF In
  <2> QED BY <2>1, <2>2, <2>3, <2>4 DEF Open
<1>3. UNCHANGED <<branch, prepared, since>>
  BY <1>1, <1>2 DEF saved
<1>4. /\ pulls' \in [Tasks -> [Numbers -> {"none", "OPEN", "CLOSED", "MERGED"}]]
      /\ OpenOnBranch' /\ NewSinceExpiry' /\ InOrder'
      /\ \A u \in Tasks : \A found : MaySay(u, found) => MaySay(u, found)'
  BY <1>2, <1>3, PullMoves
<1>5. RecordsAreTrue' /\ DraftsAreTrue'
  BY <1>1, <1>4, StillSaid DEF saved
<1>6. TypeOK'
  BY <1>1, <1>3, <1>4 DEF IInv, TypeOK, saved
<1>7. Subjects'
  BY <1>1, <1>3 DEF IInv, Subjects, saved
<1> QED BY <1>4, <1>5, <1>6, <1>7 DEF IInv

\* A step that ends the operation and writes nothing about the leases.
LEMMA EndingKeeps ==
  ASSUME IInv, Ends, UNCHANGED <<github, prepared, since>>,
         record' \in {record, draft}, completed' \in SUBSET Tasks, deaths' \in 0..MaxDeaths
  PROVE  IInv'
<1>1. UNCHANGED <<pulls, branch, prepared, since>>
  BY DEF github
<1>2. /\ draft' \in [Tasks -> Found] /\ DraftsAreTrue'
      /\ at' = "idle" /\ subject' = "all" /\ left' = {} /\ Subjects'
  BY EndsClean DEF IInv
<1>3. OpenOnBranch' /\ NewSinceExpiry' /\ InOrder'
  BY <1>1, NothingHappens
<1>4. RecordsAreTrue'
  <2>1. ASSUME NEW u \in Tasks PROVE MaySay(u, record'[u])
    BY DEF IInv, RecordsAreTrue, DraftsAreTrue
  <2> QED BY <1>1, <2>1 DEF RecordsAreTrue, MaySay, In
<1>5. TypeOK'
  BY <1>1, <1>2 DEF IInv, TypeOK
<1> QED BY <1>2, <1>3, <1>4, <1>5 DEF IInv

\* A step that leaves GitHub and the records alone and drafts what may be said.
LEMMA DraftingKeeps ==
  ASSUME IInv, UNCHANGED <<github, prepared, record, since, deaths>>,
         draft' \in [Tasks -> Found], DraftsAreTrue', completed' \in SUBSET Tasks,
         at' \in {"idle", "tracking", "asking", "creating", "writing", "deleted"},
         subject' \in Tasks \cup {"all"}, Subjects'
  PROVE  IInv'
<1>1. UNCHANGED <<pulls, branch, prepared, since>>
  BY DEF github
<1>2. /\ OpenOnBranch' /\ NewSinceExpiry' /\ InOrder'
      /\ \A u \in Tasks : \A found : MaySay(u, found) => MaySay(u, found)'
  BY <1>1, NothingHappens
<1>3. RecordsAreTrue'
  BY <1>2, StillSaid
<1>4. left' \subseteq Tasks
  BY <1>1 DEF IInv, TypeOK, Subjects
<1>5. TypeOK'
  BY <1>1, <1>4 DEF IInv, TypeOK
<1> QED BY <1>2, <1>3, <1>5 DEF IInv

LEMMA WriteKeeps ==
  ASSUME IInv, Write
  PROVE  IInv'
<1>1. completed \in SUBSET Tasks /\ deaths \in 0..MaxDeaths
  BY DEF IInv, TypeOK
<1>2. Ends /\ UNCHANGED <<github, prepared, completed, since, deaths>> /\ record' = draft
  BY DEF Write
<1> QED BY <1>1, <1>2, EndingKeeps

LEMMA RefusedKeeps ==
  ASSUME IInv, Refused
  PROVE  IInv'
<1>1. completed \in SUBSET Tasks /\ deaths \in 0..MaxDeaths
  BY DEF IInv, TypeOK
<1>2. Ends /\ UNCHANGED <<github, prepared, record, completed, since, deaths>>
  BY DEF Refused, saved
<1> QED BY <1>1, <1>2, EndingKeeps

LEMMA DiesKeeps ==
  ASSUME IInv, Dies
  PROVE  IInv'
<1>1. completed \in SUBSET Tasks /\ deaths \in 0..MaxDeaths
  BY DEF IInv, TypeOK
<1>2. deaths' \in 0..MaxDeaths
  BY <1>1, PullRequestRecordsAssumption DEF Dies
<1>3. Ends /\ UNCHANGED <<github, prepared, record, completed, since>>
  BY DEF Dies
<1> QED BY <1>1, <1>2, <1>3, EndingKeeps

LEMMA SyncLoadsKeeps ==
  ASSUME IInv, SyncLoads
  PROVE  IInv'
<1>1. /\ at' = "tracking" /\ subject' = "all" /\ draft' = record
      /\ UNCHANGED <<github, prepared, record, completed, since, deaths>>
  BY DEF SyncLoads, saved
<1>2. left' = {t \in prepared : record[t].state # "MERGED"}
  BY DEF SyncLoads
<1>3. \A u \in Tasks : MaySay(u, record[u])
  BY DEF IInv, RecordsAreTrue
<1>4. DraftsAreTrue'
  BY <1>1, <1>3 DEF DraftsAreTrue, MaySay, In, github
<1>5. record \in [Tasks -> Found] /\ completed \in SUBSET Tasks
  BY DEF IInv, TypeOK
<1>6. Subjects'
  BY <1>1, <1>2 DEF Subjects
<1> QED BY <1>1, <1>4, <1>5, <1>6, DraftingKeeps

\* The draft takes what GitHub answers about a prepared task.
LEMMA LooksUp ==
  ASSUME IInv, NEW t \in prepared, draft' = [draft EXCEPT ![t] = Lookup(t)],
         UNCHANGED <<github, prepared, since>>
  PROVE  draft' \in [Tasks -> Found] /\ DraftsAreTrue'
<1>1. PICK found : found = Lookup(t)
  OBVIOUS
<1>2. found \in Found /\ MaySay(t, found)
  BY <1>1, LookupMayBeSaid
<1>3. \A u \in Tasks : \A any : MaySay(u, any) => MaySay(u, any)'
  BY NothingHappens DEF github
<1>4. t \in Tasks /\ draft' = [draft EXCEPT ![t] = found]
  BY <1>1 DEF IInv, TypeOK
<1>5. MaySay(t, found)'
  BY <1>2, <1>3, <1>4
<1>6. ASSUME NEW u \in Tasks \ {t}, MaySay(u, draft[u]) PROVE MaySay(u, draft[u])'
  <2>1. u \in Tasks /\ draft'[u] = draft[u]
    BY <1>4 DEF IInv, TypeOK
  <2> QED BY <1>6, <2>1 DEF MaySay, In, github
<1> QED BY <1>2, <1>4, <1>5, <1>6, DraftChanges

LEMMA TrackKeeps ==
  ASSUME IInv, NEW t \in Tasks, Track(t) \/ TrackFails(t)
  PROVE  IInv'
<1>1. /\ t \in prepared /\ at = "tracking" /\ left' = left \ {t}
      /\ UNCHANGED <<github, prepared, record, completed, since, deaths, at, subject>>
  BY DEF Track, TrackFails, IInv, Subjects, saved
<1>2. draft' \in [Tasks -> Found] /\ DraftsAreTrue'
  <2>1. CASE Track(t)
    BY <1>1, <2>1, LooksUp DEF Track
  <2>2. CASE TrackFails(t)
    <3>1. draft' = draft
      BY <2>2 DEF TrackFails
    <3>2. draft' \in [Tasks -> Found]
      BY <3>1 DEF IInv, TypeOK
    <3>3. DraftsAreTrue'
      BY <1>1, <3>1, NothingHappens, StillSaid DEF github
    <3> QED BY <3>2, <3>3
  <2> QED BY <2>1, <2>2
<1>3. Subjects'
  BY <1>1 DEF IInv, Subjects
<1>4. /\ completed \in SUBSET Tasks /\ subject \in Tasks \cup {"all"}
      /\ at \in {"idle", "tracking", "asking", "creating", "writing", "deleted"}
  BY DEF IInv, TypeOK
<1> QED BY <1>1, <1>2, <1>3, <1>4, DraftingKeeps

\* The drafts as they are, in a step that leaves GitHub and the leases alone.
LEMMA SameDrafts ==
  ASSUME IInv, UNCHANGED <<github, prepared, since, draft>>
  PROVE  draft' \in [Tasks -> Found] /\ DraftsAreTrue'
<1>1. DraftsAreTrue'
  BY NothingHappens, StillSaid DEF github
<1>2. draft' \in [Tasks -> Found]
  BY DEF IInv, TypeOK
<1> QED BY <1>1, <1>2

LEMMA TrackedKeeps ==
  ASSUME IInv, Tracked
  PROVE  IInv'
<1>1. /\ at' = "writing"
      /\ UNCHANGED <<github, prepared, record, since, deaths, subject, left, draft>>
  BY DEF Tracked
<1>2. completed' \in SUBSET Tasks
  <2>1. completed \in SUBSET Tasks
    BY DEF IInv, TypeOK
  <2> QED BY <2>1 DEF Tracked
<1>3. draft' \in [Tasks -> Found] /\ DraftsAreTrue'
  BY <1>1, SameDrafts
<1>4. Subjects'
  BY <1>1 DEF IInv, Subjects
<1>5. subject' \in Tasks \cup {"all"}
  BY <1>1 DEF IInv, TypeOK
<1> QED BY <1>1, <1>2, <1>3, <1>4, <1>5, DraftingKeeps

LEMMA AsksKeeps ==
  ASSUME IInv, NEW t \in Tasks, Asks(t)
  PROVE  IInv'
<1>1. /\ t \in prepared /\ at' = "asking" /\ subject' = t /\ draft' = record
      /\ UNCHANGED <<github, prepared, record, completed, since, deaths, left>>
  BY DEF Asks, saved
<1>2. \A u \in Tasks : MaySay(u, record[u])
  BY DEF IInv, RecordsAreTrue
<1>3. DraftsAreTrue'
  BY <1>1, <1>2 DEF DraftsAreTrue, MaySay, In, github
<1>4. record \in [Tasks -> Found] /\ completed \in SUBSET Tasks
  BY DEF IInv, TypeOK
<1>5. Subjects'
  BY <1>1 DEF IInv, Subjects
<1> QED BY <1>1, <1>3, <1>4, <1>5, DraftingKeeps

LEMMA AskedKeeps ==
  ASSUME IInv, NEW t \in Tasks, Refresh(t) \/ CreateLooksUp(t) \/ CreateForced(t)
  PROVE  IInv'
<1>1. /\ t \in prepared /\ at = "asking" /\ t = subject
      /\ at' \in {"writing", "creating"}
      /\ UNCHANGED <<github, prepared, record, completed, since, deaths, subject, left>>
  BY DEF Refresh, CreateLooksUp, CreateForced, IInv, Subjects, saved
<1>2. draft' \in [Tasks -> Found] /\ DraftsAreTrue'
  <2>1. CASE Refresh(t) \/ CreateLooksUp(t)
    BY <1>1, <2>1, LooksUp DEF Refresh, CreateLooksUp
  <2>2. CASE CreateForced(t)
    BY <1>1, <2>2, SameDrafts DEF CreateForced
  <2> QED BY <2>1, <2>2
<1>3. Subjects'
  BY <1>1 DEF IInv, Subjects
<1>4. completed \in SUBSET Tasks /\ subject \in Tasks \cup {"all"}
  BY DEF IInv, TypeOK
<1> QED BY <1>1, <1>2, <1>3, <1>4, DraftingKeeps

LEMMA CreateKeeps ==
  ASSUME IInv, NEW t \in Tasks, Create(t)
  PROVE  IInv'
<1>1. at = "creating" /\ t = subject /\ t \in prepared /\ UNCHANGED <<branch, saved>>
  BY DEF Create, IInv, Subjects
<1>2. PICK n \in Numbers :
        /\ Opens(t, n)
        /\ \/ /\ draft' = [draft EXCEPT ![t] = [pull |-> n, state |-> "OPEN"]]
              /\ at' = "writing"
              /\ UNCHANGED <<subject, left>>
           \/ Ends
  BY DEF Create
<1>3. UNCHANGED <<branch, prepared, record, completed, since, deaths>>
  BY <1>1 DEF saved
<1>4. /\ pulls[t][n] # "MERGED" /\ t \in branch /\ n > since[t]
      /\ \A m \in Numbers : pulls[t][m] = "none" => n <= m
      /\ pulls' = [pulls EXCEPT ![t][n] = "OPEN"]
  BY <1>2 DEF Opens, Open, In, IInv, NewSinceExpiry
<1>5. /\ pulls' \in [Tasks -> [Numbers -> {"none", "OPEN", "CLOSED", "MERGED"}]]
      /\ OpenOnBranch' /\ NewSinceExpiry' /\ InOrder'
      /\ \A u \in Tasks : \A found : MaySay(u, found) => MaySay(u, found)'
  BY <1>3, <1>4, PullMoves
<1>6. RecordsAreTrue'
  BY <1>3, <1>5, StillSaid
<1>7. CASE Ends
  <2>1. /\ draft' \in [Tasks -> Found] /\ DraftsAreTrue'
        /\ at' = "idle" /\ subject' = "all" /\ left' = {} /\ Subjects'
    BY <1>7, EndsClean DEF IInv
  <2>2. TypeOK'
    BY <1>3, <1>5, <2>1 DEF IInv, TypeOK
  <2> QED BY <1>5, <1>6, <2>1, <2>2 DEF IInv
<1>8. CASE /\ draft' = [draft EXCEPT ![t] = [pull |-> n, state |-> "OPEN"]]
           /\ at' = "writing"
           /\ UNCHANGED <<subject, left>>
  <2>1. PICK found : found = [pull |-> n, state |-> "OPEN"]
    OBVIOUS
  <2>2. n \in 0..MaxPulls
    BY PullRequestRecordsAssumption DEF Numbers
  <2>3. found \in Found
    BY <2>1, <2>2 DEF Found
  <2>4. MaySay(t, found)'
    BY <1>1, <1>3, <1>4, <2>1 DEF MaySay
  <2>5. draft' = [draft EXCEPT ![t] = found]
    BY <1>8, <2>1
  <2>6. ASSUME NEW u \in Tasks \ {t}, MaySay(u, draft[u]) PROVE MaySay(u, draft[u])'
    <3>1. u \in Tasks /\ draft'[u] = draft[u]
      BY <2>5 DEF IInv, TypeOK
    <3>2. PICK any : any = draft[u]
      OBVIOUS
    <3>3. MaySay(u, any)'
      BY <1>5, <2>6, <3>1, <3>2
    <3> QED BY <3>1, <3>2, <3>3 DEF MaySay
  <2>7. draft' \in [Tasks -> Found] /\ DraftsAreTrue'
    BY <2>3, <2>4, <2>5, <2>6, DraftChanges
  <2>8. Subjects'
    BY <1>3, <1>8 DEF IInv, Subjects
  <2>9. TypeOK'
    BY <1>3, <1>5, <1>8, <2>7 DEF IInv, TypeOK
  <2> QED BY <1>5, <1>6, <2>7, <2>8, <2>9 DEF IInv
<1> QED BY <1>2, <1>7, <1>8

LEMMA PrepareKeeps ==
  ASSUME IInv, NEW t \in Tasks, Prepare(t)
  PROVE  IInv'
<1>1. /\ at = "idle" /\ branch' = branch \cup {t} /\ prepared' \in {prepared, prepared \cup {t}}
      /\ UNCHANGED <<pulls, record, completed, since, deaths, at, subject, left, draft>>
  BY DEF Prepare
<1>2. TypeOK'
  BY <1>1 DEF IInv, TypeOK
<1>3. ASSUME NEW u \in Tasks, NEW found, MaySay(u, found) PROVE MaySay(u, found)'
  BY <1>1, <1>3 DEF MaySay, In
<1>4. RecordsAreTrue' /\ DraftsAreTrue'
  BY <1>1, <1>3, StillSaid
<1>5. OpenOnBranch' /\ NewSinceExpiry' /\ InOrder'
  BY <1>1 DEF IInv, OpenOnBranch, NewSinceExpiry, InOrder, In
<1>6. Subjects'
  BY <1>1 DEF IInv, Subjects
<1> QED BY <1>2, <1>4, <1>5, <1>6 DEF IInv

LEMMA ExpireDeletesKeeps ==
  ASSUME IInv, NEW t \in Tasks, ExpireDeletes(t)
  PROVE  IInv'
<1>1. /\ WithoutBranch(t) /\ subject' = t /\ at' = "deleted"
      /\ UNCHANGED <<prepared, record, completed, since, deaths, left, draft>>
  BY DEF ExpireDeletes, saved
<1>2. /\ pulls' \in [Tasks -> [Numbers -> {"none", "OPEN", "CLOSED", "MERGED"}]]
      /\ branch' = branch \ {t} /\ OpenOnBranch' /\ NewSinceExpiry' /\ InOrder'
      /\ \A u \in Tasks : \A found : MaySay(u, found) => MaySay(u, found)'
  BY <1>1, BranchGoes
<1>3. RecordsAreTrue' /\ DraftsAreTrue'
  BY <1>1, <1>2, StillSaid
<1>4. TypeOK'
  BY <1>1, <1>2 DEF IInv, TypeOK
<1>5. Subjects'
  BY <1>1, <1>2 DEF IInv, Subjects
<1> QED BY <1>2, <1>3, <1>4, <1>5 DEF IInv

\* The expired task's record is emptied, and what is open later is newer.
LEMMA ExpireWritesKeeps ==
  ASSUME IInv, NEW t \in Tasks, ExpireWrites(t)
  PROVE  IInv'
<1> DEFINE known == (Numbers \ In(t, "none")) \cup {0}
<1>1. PICK last : last = Newest(known)
  OBVIOUS
<1>2. /\ prepared' = prepared \ {t} /\ record' = [record EXCEPT ![t] = Nothing]
      /\ since' = [since EXCEPT ![t] = last]
      /\ Ends /\ UNCHANGED <<pulls, branch, completed, deaths>>
  BY <1>1 DEF ExpireWrites, github
<1>3. MaxPulls \in Nat /\ known \in SUBSET (0..MaxPulls) /\ known # {}
  BY PullRequestRecordsAssumption DEF Numbers
<1>4. last \in known /\ \A n \in known : n <= last
  <2> HIDE DEF known
  <2> QED BY <1>1, <1>3, NewestOf
<1>5. /\ draft' \in [Tasks -> Found] /\ DraftsAreTrue'
      /\ at' = "idle" /\ subject' = "all" /\ left' = {} /\ Subjects'
  BY <1>2, EndsClean DEF IInv
<1>6. Nothing \in Found
  BY PullRequestRecordsAssumption DEF Nothing, Found
<1>7. /\ record \in [Tasks -> Found] /\ since \in [Tasks -> 0..MaxPulls]
  BY DEF IInv, TypeOK
<1>8. last \in 0..MaxPulls
  BY <1>3, <1>4
<1>9. record' \in [Tasks -> Found] /\ since' \in [Tasks -> 0..MaxPulls]
  BY <1>2, <1>6, <1>7, <1>8
<1>10. TypeOK'
  <2> HIDE DEF known
  <2> QED BY <1>2, <1>5, <1>9 DEF IInv, TypeOK
<1>11. \A u \in Tasks : /\ record'[u] = IF u = t THEN Nothing ELSE record[u]
                        /\ since'[u] = IF u = t THEN last ELSE since[u]
  BY <1>2, <1>7
<1>12. RecordsAreTrue'
  <2> SUFFICES ASSUME NEW u \in Tasks PROVE MaySay(u, record[u])'
    BY DEF RecordsAreTrue
  <2>1. CASE u = t
    BY <1>11, <2>1 DEF MaySay, Nothing
  <2>2. CASE u # t
    <3>1. MaySay(u, record[u])
      BY DEF IInv, RecordsAreTrue
    <3> QED BY <1>2, <1>11, <2>2, <3>1 DEF MaySay, In
  <2> QED BY <2>1, <2>2
<1>13. OpenOnBranch' /\ InOrder'
  BY <1>2 DEF IInv, OpenOnBranch, InOrder, In
<1>14. NewSinceExpiry'
  <2> SUFFICES ASSUME NEW u \in Tasks, NEW n \in Numbers, pulls[u][n] \in {"none", "OPEN"}
               PROVE  n > since'[u]
    BY <1>2 DEF NewSinceExpiry
  <2>1. CASE u = t
    <3>1. In(t, "OPEN") = {}
      BY DEF ExpireWrites, IInv, Subjects, OpenOnBranch
    <3>2. pulls[t][n] = "none"
      BY <2>1, <3>1 DEF In
    <3>3. \A m \in Numbers : n < m => pulls[t][m] = "none"
      BY <3>2 DEF IInv, InOrder
    <3>4. last = 0 \/ (last \in Numbers /\ pulls[t][last] # "none")
      BY <1>4 DEF In
    <3>5. n > last
      <4>1. n \in Int /\ n > 0 /\ last \in Int
        BY <1>8 DEF Numbers
      <4> HIDE DEF known
      <4> QED BY <3>2, <3>3, <3>4, <4>1
    <3> QED BY <1>11, <2>1, <3>5
  <2>2. CASE u # t
    BY <1>11, <2>2 DEF IInv, NewSinceExpiry
  <2> QED BY <2>1, <2>2
<1> QED BY <1>5, <1>10, <1>12, <1>13, <1>14 DEF IInv

LEMMA StutterKeeps ==
  ASSUME IInv, UNCHANGED vars
  PROVE  IInv'
<1>1. UNCHANGED <<pulls, branch, prepared, since>>
  BY DEF vars
<1>2. /\ OpenOnBranch' /\ NewSinceExpiry' /\ InOrder'
      /\ \A u \in Tasks : \A found : MaySay(u, found) => MaySay(u, found)'
  BY <1>1, NothingHappens
<1>3. RecordsAreTrue' /\ DraftsAreTrue'
  BY <1>2, StillSaid DEF vars
<1>4. TypeOK' /\ Subjects'
  BY DEF vars, IInv, TypeOK, Subjects
<1> QED BY <1>2, <1>3, <1>4 DEF IInv

LEMMA NextKeeps ==
  ASSUME IInv, [Next]_vars
  PROVE  IInv'
<1>1. CASE Goes
  <2>1. CASE Tracked \/ Write \/ Refused
    BY <2>1, TrackedKeeps, WriteKeeps, RefusedKeeps
  <2>2. ASSUME NEW t \in Tasks,
               \/ Track(t) \/ TrackFails(t) \/ Refresh(t) \/ CreateLooksUp(t) \/ CreateForced(t)
               \/ Create(t) \/ ExpireWrites(t)
        PROVE  IInv'
    BY <2>2, TrackKeeps, AskedKeeps, CreateKeeps, ExpireWritesKeeps
  <2> QED BY <1>1, <2>1, <2>2 DEF Goes
<1>2. CASE SyncLoads \/ Dies \/ People
  BY <1>2, SyncLoadsKeeps, DiesKeeps, PeopleKeep
<1>3. ASSUME NEW t \in Tasks, Asks(t) \/ Prepare(t) \/ ExpireDeletes(t)
      PROVE  IInv'
  BY <1>3, AsksKeeps, PrepareKeeps, ExpireDeletesKeeps
<1>4. CASE UNCHANGED vars
  BY <1>4, StutterKeeps
<1> QED BY <1>1, <1>2, <1>3, <1>4 DEF Next

------------------------------------------------------------------------------
(* The theorems *)

\* The inductive invariant holds of every reachable state.
THEOREM Inductive == Spec => []IInv
<1>1. Init => IInv
  BY InitHolds
<1>2. IInv /\ [Next]_vars => IInv'
  BY NextKeeps
<1> QED BY <1>1, <1>2, PTL DEF Spec

\* Type correctness: nothing but open and merged pull requests is ever recorded.
THEOREM TypeCorrect == Spec => []TypeOK
<1>1. IInv => TypeOK
  BY DEF IInv
<1> QED BY <1>1, Inductive, PTL

\* Whatever people and GitHub do between the lookups and the writes, and wherever
\* an operation is cut short, no record names a pull request of an earlier lease
\* as open or calls merged what is not.
THEOREM RecordsStayTrue == Spec => []RecordsAreTrue
<1>1. IInv => RecordsAreTrue
  BY DEF IInv
<1> QED BY <1>1, Inductive, PTL
------------------------------------------------------------------------------
(* Merges are remembered *)

\* What may replace a recorded merge: a later one, or one open in the same lease.
Follows(found, next) ==
  found.state = "MERGED" =>
    next.state = "OPEN" \/ (next.state = "MERGED" /\ found.pull <= next.pull)

\* A record that names a merged pull request is never emptied or set back to an
\* earlier one by a lookup, a creation, a failure or a crash, only by an expiry.
MergesAreRemembered ==
  [][\A t \in Tasks : Follows(record[t], record'[t]) \/ (at = "deleted" /\ subject = t)]_vars

\* So it is of what the operation holding the lock is about to write.
Drafting == {"tracking", "asking", "creating", "writing"}
DraftsFollow == at \in Drafting => \A t \in Tasks : Follows(record[t], draft[t])

LEMMA RecordFollowsItself ==
  ASSUME IInv, NEW t \in Tasks
  PROVE  Follows(record[t], record[t])
BY PullRequestRecordsAssumption DEF IInv, TypeOK, Found, Follows

\* GitHub does not take a merge back, so no lookup answers with less.
LEMMA LookupFollows ==
  ASSUME IInv, NEW t \in Tasks
  PROVE  Follows(record[t], Lookup(t))
<1>1. SUFFICES ASSUME record[t].state = "MERGED"
               PROVE  \/ Lookup(t).state = "OPEN"
                      \/ Lookup(t).state = "MERGED" /\ record[t].pull <= Lookup(t).pull
  BY DEF Follows
<1>2. record[t].pull \in In(t, "MERGED")
  BY <1>1 DEF IInv, RecordsAreTrue, MaySay
<1>3. CASE In(t, "OPEN") # {}
  BY <1>3 DEF Lookup
<1>4. CASE In(t, "OPEN") = {}
  <2>1. In(t, "MERGED") \in SUBSET (0..MaxPulls)
    BY PullRequestRecordsAssumption DEF In, Numbers
  <2>2. record[t].pull <= Newest(In(t, "MERGED"))
    BY <1>2, <2>1, NewestOf
  <2>3. Lookup(t) = [pull |-> Newest(In(t, "MERGED")), state |-> "MERGED"]
    BY <1>2, <1>4 DEF Lookup
  <2>. QED
    BY <2>2, <2>3
<1>. QED
  BY <1>3, <1>4

\* A draft that is changed at one task, to something that follows its record.
LEMMA DraftedFollows ==
  ASSUME IInv, DraftsFollow, at \in Drafting, record' = record, NEW t \in Tasks, NEW found,
         Follows(record[t], found), draft' = [draft EXCEPT ![t] = found]
  PROVE  DraftsFollow'
<1>1. \A u \in Tasks : draft'[u] = IF u = t THEN found ELSE draft[u]
  BY DEF IInv, TypeOK
<1>. QED
  BY <1>1 DEF DraftsFollow

LEMMA StepFollows ==
  ASSUME IInv, DraftsFollow, [Next]_vars
  PROVE  DraftsFollow'
<1>1. ASSUME at' = "idle" \/ at' = "deleted" PROVE DraftsFollow'
  BY <1>1 DEF DraftsFollow, Drafting
<1>2. ASSUME record' = record, draft' = draft, at' \in Drafting => at \in Drafting
      PROVE  DraftsFollow'
  BY <1>2 DEF DraftsFollow
<1>3. ASSUME record' = record, draft' = record PROVE DraftsFollow'
  BY <1>3, RecordFollowsItself DEF DraftsFollow
<1>4. CASE UNCHANGED vars
  BY <1>2, <1>4 DEF vars
<1>5. CASE Write \/ Refused \/ Dies
  BY <1>1, <1>5 DEF Write, Refused, Dies, Ends
<1>6. CASE Tracked
  BY <1>2, <1>6 DEF Tracked, Drafting
<1>7. CASE SyncLoads \/ \E t \in Tasks : Asks(t)
  BY <1>3, <1>7 DEF SyncLoads, Asks, saved
<1>8. CASE People
  BY <1>2, <1>8 DEF People, saved
<1>9. ASSUME NEW t \in Tasks, Track(t) \/ Refresh(t) \/ CreateLooksUp(t) PROVE DraftsFollow'
  <2>1. at \in Drafting /\ record' = record /\ draft' = [draft EXCEPT ![t] = Lookup(t)]
    BY <1>9 DEF Track, Refresh, CreateLooksUp, saved, Drafting
  <2>. QED
    BY <2>1, LookupFollows, DraftedFollows
<1>10. ASSUME NEW t \in Tasks, TrackFails(t) \/ CreateForced(t) PROVE DraftsFollow'
  BY <1>2, <1>10 DEF TrackFails, CreateForced, saved, Drafting
<1>11. ASSUME NEW t \in Tasks, Create(t) PROVE DraftsFollow'
  <2>1. at \in Drafting /\ record' = record
    BY <1>11 DEF Create, saved, Drafting
  <2>2. PICK n \in Numbers : draft' = [draft EXCEPT ![t] = [pull |-> n, state |-> "OPEN"]] \/ Ends
    BY <1>11 DEF Create
  <2>3. Follows(record[t], [pull |-> n, state |-> "OPEN"])
    BY DEF Follows
  <2>4. CASE draft' = [draft EXCEPT ![t] = [pull |-> n, state |-> "OPEN"]]
    BY <2>1, <2>3, <2>4, DraftedFollows
  <2>5. CASE Ends
    BY <1>1, <2>5 DEF Ends
  <2>. QED
    BY <2>2, <2>4, <2>5
<1>12. ASSUME NEW t \in Tasks, Prepare(t) \/ ExpireDeletes(t) \/ ExpireWrites(t)
       PROVE  DraftsFollow'
  <2>1. at' = "idle" \/ at' = "deleted"
    BY <1>12 DEF Prepare, ExpireDeletes, ExpireWrites, Ends
  <2>. QED
    BY <1>1, <2>1
<1>. QED
  BY <1>4, <1>5, <1>6, <1>7, <1>8, <1>9, <1>10, <1>11, <1>12 DEF Next, Goes

\* Whatever lookups fail, answers are lost or operations die: that a task's pull
\* request was merged is forgotten with its lease only, or for a later one.
THEOREM MergesStayRecorded == Spec => MergesAreRemembered
<1>1. Init => DraftsFollow
  BY DEF Init, DraftsFollow, Drafting
<1>2. IInv /\ DraftsFollow /\ [Next]_vars => DraftsFollow'
  BY StepFollows
<1>3. IInv /\ DraftsFollow /\ [Next]_vars =>
        [\A t \in Tasks : Follows(record[t], record'[t]) \/ (at = "deleted" /\ subject = t)]_vars
  <2>1. SUFFICES ASSUME IInv, DraftsFollow, Next, NEW t \in Tasks
                 PROVE  Follows(record[t], record'[t]) \/ (at = "deleted" /\ subject = t)
    BY DEF vars
  <2>2. CASE Write
    BY <2>1, <2>2 DEF Write, DraftsFollow, Drafting
  <2>3. CASE record' = record
    BY <2>1, <2>3, RecordFollowsItself
  <2>4. ASSUME NEW u \in Tasks, ExpireWrites(u), u # t
        PROVE  Follows(record[t], record'[t])
    <3>1. record'[t] = record[t]
      BY <2>1, <2>4 DEF ExpireWrites, IInv, TypeOK
    <3>. QED
      BY <2>1, <3>1, RecordFollowsItself
  <2>5. CASE ExpireWrites(t)
    BY <2>5 DEF ExpireWrites
  <2>6. \/ Write \/ record' = record \/ \E u \in Tasks : ExpireWrites(u)
    BY <2>1 DEF Next, Goes, Tracked, Refused, Track, TrackFails, Refresh, CreateLooksUp,
       CreateForced, Create, SyncLoads, Dies, People, Asks, Prepare, ExpireDeletes, saved
  <2>. QED
    BY <2>2, <2>3, <2>4, <2>5, <2>6
<1>. QED
  BY <1>1, <1>2, <1>3, Inductive, PTL DEF Spec, MergesAreRemembered
==============================================================================
