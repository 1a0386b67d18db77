-------------------------- MODULE TaskRebaseProofs --------------------------
(***************************************************************************)
(* What TaskRebase promises, for any number of pull requests, pieces of    *)
(* work, rebases and rewrites.                                             *)
(***************************************************************************)
EXTENDS TaskRebase, TLAPS

USE TaskRebaseAssumption

\* A branch that exists is on a line, and contains no more of main than there is.
OnLines ==
  /\ \A b \in Branches : origin[b] # NoTip => origin[b].line > 0
  /\ \A b \in Branches : origin[b].base <= main
  /\ at \in {"fetched", "pushed"} => new.line > 0 /\ new.base <= main

\* The task branch at origin is ahead of what the clone remembers of it.
Ahead(tip) == origin[Task] # NoTip /\ Descends(origin[Task], tip)

\* Between operations nothing but others, or an operation cut short, takes the
\* branch off what the clone remembers...
Follows ==
  at \notin {"pushed", "deleted"} /\ ~rewritten /\ ~cut => track = NoTip \/ Ahead(track)

\* ...and after the push nothing but others takes it off what was pushed.
FollowsPush == at = "pushed" /\ ~rewritten => Ahead(new)

IInv == TypeOK /\ OnLines /\ Follows /\ FollowsPush

LEMMA InitIInv == Init => IInv
<1> SUFFICES ASSUME Init PROVE IInv
  OBVIOUS
<1>1. NoTip \in Tips /\ 1 \in 1..MaxMain /\ 0 \in 0..MaxMain /\ 0 \in 0..MaxLine
  BY DEF NoTip, Tips
<1>2. TypeOK
  BY <1>1 DEF Init, TypeOK
<1>3. \A b \in Branches : origin[b] = NoTip /\ origin[b].base <= main
  BY DEF Init, NoTip
<1> QED BY <1>2, <1>3 DEF Init, IInv, OnLines, Follows, FollowsPush

\* A tip that gains work or more of main stays ahead of what it was ahead of.
LEMMA GrowthKeepsAhead ==
  ASSUME NEW a \in Tips, NEW b \in Tips, NEW c \in Tips, Descends(a, b), Descends(b, c)
  PROVE  Descends(a, c)
BY DEF Descends, Tips

LEMMA DescendsReflexive ==
  ASSUME NEW a \in Tips
  PROVE  Descends(a, a)
BY DEF Descends, Tips

\* The replayed branches are tips, on the new line, ahead of the new task branch and
\* with all the work of the branch they replace.
LEMMA ReplayedKeepsWork ==
  ASSUME TypeOK, NEW b \in Branches
  PROVE  /\ Replayed(b) \in Tips
         /\ Replayed(b).line = new.line /\ Replayed(b).base = new.base
         /\ Descends(Replayed(b), new)
         /\ b # Task => old[b].work \subseteq Replayed(b).work
<1>1. new \in Tips /\ old[b] \in Tips
  BY DEF TypeOK
<1>2. CASE b = Task
  BY <1>1, <1>2, DescendsReflexive DEF Replayed
<1>3. CASE b # Task
  <2>1. Replayed(b) = [new EXCEPT !.work = new.work \cup old[b].work]
    BY <1>3 DEF Replayed
  <2> QED BY <1>1, <1>3, <2>1 DEF Tips, Descends
<1> QED BY <1>2, <1>3

\* What a push that goes through does to the branches.
LEMMA PushReplaces ==
  ASSUME TypeOK, OnLines, at = "fetched", PushLeased
  PROVE  /\ origin' \in [Branches -> Tips]
         /\ \A b \in Branches : origin'[b] # NoTip => origin'[b].line > 0
         /\ \A b \in Branches : origin'[b].base <= main
         /\ origin'[Task] = new /\ new # NoTip
<1>1. origin' = [b \in Branches |-> IF b \in Pushed THEN Replayed(b) ELSE origin[b]]
  BY DEF PushLeased
<1>2. \A b \in Branches : /\ Replayed(b) \in Tips
                           /\ Replayed(b).line = new.line /\ Replayed(b).base = new.base
  BY ReplayedKeepsWork
<1>3. new.line > 0 /\ new.line \in Nat /\ new.base <= main
  BY DEF OnLines, TypeOK, Tips
<1>4. origin' \in [Branches -> Tips]
  BY <1>1, <1>2 DEF TypeOK
<1>5. \A b \in Branches : origin'[b] # NoTip => origin'[b].line > 0
  BY <1>1, <1>2, <1>3 DEF OnLines
<1>9. \A b \in Branches : origin'[b].base <= main
  BY <1>1, <1>2, <1>3 DEF OnLines
<1>6. Task \in Branches /\ Task \in Pushed /\ Replayed(Task) = new
  BY DEF Branches, Pushed, Replayed
<1>7. new # NoTip
  BY <1>3 DEF NoTip
<1>8. origin'[Task] = new
  BY <1>1, <1>6
<1> QED BY <1>4, <1>5, <1>7, <1>8, <1>9

\* A tip that exists and is fetched is what the clone remembers afterwards.
LEMMA FetchFollows ==
  ASSUME TypeOK, origin[Task] # NoTip, UNCHANGED origin, track' = origin[Task]
  PROVE  track' \in Tips /\ Ahead(track)'
<1>1. origin[Task] \in Tips
  BY DEF TypeOK, Branches
<1> QED BY <1>1, DescendsReflexive DEF Ahead

\* The steps of a rebase keep the invariant.
LEMMA RebasingKeeps ==
  ASSUME IInv, Rebasing
  PROVE  IInv'
<1>1. TypeOK /\ OnLines
  BY DEF IInv
<1>2. CASE RebaseLists
  <2>1. TypeOK'
    BY <1>1, <1>2 DEF TypeOK, RebaseLists, outside, history
  <2>2. OnLines' /\ Follows' /\ FollowsPush'
    BY <1>2 DEF IInv, RebaseLists, outside, history, OnLines, Follows, FollowsPush, Ahead
  <2> QED BY <2>1, <2>2 DEF IInv
<1>3. CASE RebaseFetches
  <2>1. origin[Task] # NoTip /\ track' = origin[Task] /\ UNCHANGED <<main, origin, open, leased>>
        /\ rewritten' = FALSE /\ cut' = FALSE
    BY <1>3 DEF RebaseFetches
  <2>2. track' \in Tips /\ Ahead(track)'
    BY <1>1, <2>1, FetchFollows
  <2>3. CASE origin[Task].base = main
    <3>1. at' = "idle" /\ UNCHANGED local /\ UNCHANGED lines
      BY <1>3, <2>3 DEF RebaseFetches, Returns
    <3>2. TypeOK'
      BY <1>1, <2>1, <2>2, <3>1 DEF TypeOK, local
    <3> QED BY <1>1, <2>1, <2>2, <3>1, <3>2 DEF IInv, OnLines, Follows, FollowsPush
  <2>4. CASE origin[Task].base # main
    <3>1. /\ lines < MaxLine /\ lines' = lines + 1 /\ old' = origin /\ onto' = main
          /\ new' = [base |-> main, line |-> lines', work |-> origin[Task].work]
          /\ at' = "fetched" /\ UNCHANGED heads
      BY <1>3, <2>4 DEF RebaseFetches
    <3>2. lines' \in 0..MaxLine /\ lines' > 0 /\ main \in 0..MaxMain /\ origin[Task].work \subseteq Works
      BY <1>1, <3>1 DEF TypeOK, Branches, Tips
    <3>3. new' \in Tips /\ new'.line > 0 /\ new'.base <= main'
      BY <2>1, <3>1, <3>2 DEF Tips
    <3>4. TypeOK'
      BY <1>1, <2>1, <2>2, <3>1, <3>2, <3>3 DEF TypeOK
    <3> QED BY <1>1, <2>1, <2>2, <3>1, <3>3, <3>4 DEF IInv, OnLines, Follows, FollowsPush
  <2> QED BY <2>3, <2>4
<1>4. CASE RebaseFails
  <2>1. TypeOK'
    BY <1>1, <1>4 DEF TypeOK, RebaseFails, Returns, local, outside, history
  <2>2. OnLines' /\ Follows' /\ FollowsPush'
    BY <1>4 DEF IInv, RebaseFails, Returns, local, outside, history, OnLines, Follows, FollowsPush, Ahead
  <2> QED BY <2>1, <2>2 DEF IInv
<1>5. CASE RebasePushes \/ RebasePushesUnheard
  <2>1. at = "fetched" /\ PushLeased /\ UNCHANGED <<main, open, lines, track, leased, local, rewritten>>
        /\ \/ at' = "pushed" /\ cut' = cut
           \/ at' = "idle" /\ cut' = TRUE
    BY <1>5 DEF RebasePushes, RebasePushesUnheard, Returns, history, local
  <2>2. /\ origin' \in [Branches -> Tips]
        /\ \A b \in Branches : origin'[b] # NoTip => origin'[b].line > 0
        /\ \A b \in Branches : origin'[b].base <= main
        /\ origin'[Task] = new /\ new # NoTip
    BY <1>1, <2>1, PushReplaces
  <2>3. TypeOK'
    BY <1>1, <2>1, <2>2 DEF TypeOK, local
  <2>4. OnLines'
    BY <1>1, <2>1, <2>2 DEF OnLines, local
  <2>5. Ahead(new)'
    <3>1. new \in Tips
      BY <1>1 DEF TypeOK
    <3> QED BY <2>1, <2>2, <3>1, DescendsReflexive DEF Ahead, local
  <2>6. Follows' /\ FollowsPush'
    BY <2>1, <2>5 DEF Follows, FollowsPush
  <2> QED BY <2>3, <2>4, <2>6 DEF IInv
<1>6. CASE RebaseTracks
  <2>1. at = "pushed" /\ track' = new /\ at' = "idle" /\ UNCHANGED <<local, outside, leased, history>>
    BY <1>6 DEF RebaseTracks, Returns
  <2>2. TypeOK'
    BY <1>1, <2>1 DEF TypeOK, local, outside, history
  <2>3. OnLines' /\ FollowsPush'
    BY <1>1, <2>1 DEF OnLines, FollowsPush, outside
  <2>4. Follows'
    BY <2>1 DEF IInv, Follows, FollowsPush, Ahead, local, outside, history
  <2> QED BY <2>2, <2>3, <2>4 DEF IInv
<1> QED BY <1>2, <1>3, <1>4, <1>5, <1>6 DEF Rebasing

\* So do the other operations of the panel.
LEMMA OtherOperationsKeep ==
  ASSUME IInv, OtherOperations
  PROVE  IInv'
<1>1. TypeOK /\ OnLines
  BY DEF IInv
<1>2. CASE ReadHead \/ FetchBranch
  <2>1. at = "idle" /\ UNCHANGED <<outside, at, local, history>>
        /\ (track' = track \/ (Readable /\ track' = origin[Task])) /\ leased' \in BOOLEAN
    BY <1>1, <1>2 DEF ReadHead, FetchBranch, TypeOK
  <2>2. CASE track' = track
    <3>1. TypeOK'
      BY <1>1, <2>1, <2>2 DEF TypeOK, outside, local, history
    <3> QED BY <2>1, <2>2, <3>1 DEF IInv, OnLines, Follows, FollowsPush, Ahead, outside, local, history
  <2>3. CASE Readable /\ track' = origin[Task]
    <3>1. track' \in Tips /\ Ahead(track)'
      BY <1>1, <2>1, <2>3, FetchFollows DEF Readable, Fetchable, outside
    <3>2. TypeOK'
      BY <1>1, <2>1, <3>1 DEF TypeOK, outside, local, history
    <3> QED BY <1>1, <2>1, <3>1, <3>2 DEF IInv, OnLines, Follows, FollowsPush, outside, local
  <2> QED BY <2>1, <2>2, <2>3
<1>3. CASE CreateBranch
  <2>1. /\ at = "idle" /\ origin[Task] = NoTip /\ lines < MaxLine /\ lines' = lines + 1
        /\ origin' = [origin EXCEPT ![Task] = [base |-> main, line |-> lines', work |-> {}]]
        /\ UNCHANGED <<main, open, track, leased, at, local, history>>
    BY <1>3 DEF CreateBranch
  <2>2. lines' \in 0..MaxLine /\ lines' > 0 /\ main \in 0..MaxMain
    BY <1>1, <2>1 DEF TypeOK
  <2>3. [base |-> main, line |-> lines', work |-> {}] \in Tips
    BY <2>2 DEF Tips
  <2>4. TypeOK'
    BY <1>1, <2>1, <2>2, <2>3 DEF TypeOK, local, history
  <2>5. OnLines'
    BY <1>1, <2>1, <2>2 DEF OnLines, TypeOK, local
  <2>6. Follows' /\ FollowsPush'
    BY <2>1 DEF IInv, Follows, FollowsPush, Ahead, history
  <2> QED BY <2>4, <2>5, <2>6 DEF IInv
<1>4. CASE ExpireDeletes
  <2>1. NoTip \in Tips
    BY DEF NoTip, Tips
  <2>2. TypeOK'
    BY <1>1, <1>4, <2>1 DEF TypeOK, ExpireDeletes, local, history
  <2>3. \A b \in Branches : origin'[b] = NoTip /\ origin'[b].base <= main'
    BY <1>1, <1>4 DEF ExpireDeletes, NoTip, TypeOK
  <2>4. OnLines' /\ Follows' /\ FollowsPush'
    BY <1>4, <2>3 DEF ExpireDeletes, OnLines, Follows, FollowsPush
  <2> QED BY <2>2, <2>4 DEF IInv
<1>5. CASE ExpireUntracks
  <2>1. NoTip \in Tips
    BY DEF NoTip, Tips
  <2>2. TypeOK'
    BY <1>1, <1>5, <2>1 DEF TypeOK, ExpireUntracks, Returns, local, outside
  <2>3. OnLines' /\ Follows' /\ FollowsPush'
    BY <1>1, <1>5 DEF ExpireUntracks, Returns, outside, OnLines, Follows, FollowsPush
  <2> QED BY <2>2, <2>3 DEF IInv
<1>6. CASE Crash
  <2>1. TypeOK'
    BY <1>1, <1>6 DEF TypeOK, Crash, Returns, local, outside
  <2>2. OnLines' /\ Follows' /\ FollowsPush'
    BY <1>6 DEF IInv, Crash, Returns, outside, OnLines, Follows, FollowsPush, Ahead
  <2> QED BY <2>1, <2>2 DEF IInv
<1> QED BY <1>2, <1>3, <1>4, <1>5, <1>6 DEF OtherOperations

\* What every step of somebody else does: the branches stay sound, and the task
\* branch stays ahead of where it was, or that counts as a rewrite.
OthersStep ==
  /\ main' \in 1..MaxMain /\ main <= main'
  /\ lines' \in 0..MaxLine /\ open' \subseteq Pulls /\ rewritten' \in BOOLEAN
  /\ origin' \in [Branches -> Tips]
  /\ \A b \in Branches : (origin'[b] # NoTip => origin'[b].line > 0) /\ origin'[b].base <= main'
  /\ ~rewritten' =>
       /\ ~rewritten
       /\ origin[Task] # NoTip => origin'[Task] # NoTip /\ Descends(origin'[Task], origin[Task])

LEMMA OthersStepKeeps ==
  ASSUME IInv, OthersStep, UNCHANGED <<track, leased, at, heads, old, onto, new, cut>>
  PROVE  IInv'
<1>1. TypeOK /\ OnLines
  BY DEF IInv
<1>2. TypeOK'
  BY <1>1 DEF TypeOK, OthersStep
<1>3. OnLines'
  <2>1. new.base \in Nat /\ main \in Nat
    BY <1>1 DEF TypeOK, Tips
  <2>2. at' \in {"fetched", "pushed"} => new'.line > 0 /\ new'.base <= main'
    BY <1>1, <2>1 DEF OnLines, OthersStep
  <2> QED BY <2>2 DEF OnLines, OthersStep
<1>4. ASSUME NEW tip \in Tips, Ahead(tip), ~rewritten'
      PROVE  origin'[Task] # NoTip /\ Descends(origin'[Task], tip)
  <2>1. origin'[Task] # NoTip /\ Descends(origin'[Task], origin[Task])
    BY <1>4 DEF Ahead, OthersStep
  <2>2. origin'[Task] \in Tips /\ origin[Task] \in Tips
    BY <1>1 DEF OthersStep, TypeOK, Branches
  <2> QED BY <1>4, <2>1, <2>2, GrowthKeepsAhead DEF Ahead
<1>5. track \in Tips /\ new \in Tips /\ (~rewritten' => ~rewritten)
  BY <1>1 DEF TypeOK, OthersStep
<1>6. Follows'
  <2> SUFFICES ASSUME at \notin {"pushed", "deleted"}, ~rewritten', ~cut, track # NoTip
               PROVE  origin'[Task] # NoTip /\ Descends(origin'[Task], track)
    BY DEF Follows, Ahead
  <2> QED BY <1>4, <1>5 DEF IInv, Follows
<1>7. FollowsPush'
  <2> SUFFICES ASSUME at = "pushed", ~rewritten'
               PROVE  origin'[Task] # NoTip /\ Descends(origin'[Task], new)
    BY DEF FollowsPush, Ahead
  <2> QED BY <1>4, <1>5 DEF IInv, FollowsPush
<1> QED BY <1>2, <1>3, <1>6, <1>7 DEF IInv

\* A branch that exists is replaced by a tip that is ahead of it.
Advances(b, tip) ==
  /\ origin[b] # NoTip
  /\ tip \in Tips /\ Descends(tip, origin[b]) /\ tip.base <= main
  /\ origin' = [origin EXCEPT ![b] = tip]
  /\ open' \subseteq open
  /\ UNCHANGED <<main, lines, rewritten>>

LEMMA AdvancesIsOthersStep ==
  ASSUME TypeOK, OnLines, NEW b \in Branches, NEW tip, Advances(b, tip)
  PROVE  OthersStep
<1>1. Task \in Branches /\ main \in 1..MaxMain /\ \A c \in Branches : origin[c] \in Tips
  BY DEF TypeOK, Branches
<1>2. tip.line > 0 /\ tip # NoTip
  BY DEF Advances, Descends, OnLines, NoTip
<1>3. \A c \in Branches : origin'[c] = IF c = b THEN tip ELSE origin[c]
  BY DEF TypeOK, Advances
<1>4. origin' \in [Branches -> Tips]
  BY DEF TypeOK, Advances
<1>5. \A c \in Branches : (origin'[c] # NoTip => origin'[c].line > 0) /\ origin'[c].base <= main
  BY <1>2, <1>3 DEF OnLines, Advances
<1>6. Descends(origin[Task], origin[Task])
  BY <1>1, DescendsReflexive
<1>7. origin[Task] # NoTip => origin'[Task] # NoTip /\ Descends(origin'[Task], origin[Task])
  BY <1>1, <1>2, <1>3, <1>6 DEF Advances
<1>8. lines' \in 0..MaxLine /\ open' \subseteq Pulls /\ rewritten' \in BOOLEAN
      /\ (~rewritten' => ~rewritten) /\ main' = main /\ main <= main
  BY <1>1 DEF TypeOK, Advances
<1> QED BY <1>1, <1>4, <1>5, <1>7, <1>8 DEF OthersStep

\* A branch is replaced by any sound tip, and that counts as a rewrite if it is
\* the task branch.
Replaces(b, tip) ==
  /\ tip \in Tips /\ tip.base <= main /\ (tip # NoTip => tip.line > 0)
  /\ origin' = [origin EXCEPT ![b] = tip]
  /\ open' \subseteq Pulls /\ lines' \in 0..MaxLine
  /\ main' = main /\ rewritten' = (rewritten \/ b = Task)

LEMMA ReplacesIsOthersStep ==
  ASSUME TypeOK, OnLines, NEW b \in Branches, NEW tip, Replaces(b, tip)
  PROVE  OthersStep
<1>1. Task \in Branches /\ main \in 1..MaxMain /\ \A c \in Branches : origin[c] \in Tips
  BY DEF TypeOK, Branches
<1>2. \A c \in Branches : origin'[c] = IF c = b THEN tip ELSE origin[c]
  BY DEF TypeOK, Replaces
<1>3. origin' \in [Branches -> Tips]
  BY DEF TypeOK, Replaces
<1>4. \A c \in Branches : (origin'[c] # NoTip => origin'[c].line > 0) /\ origin'[c].base <= main
  BY <1>2 DEF OnLines, Replaces
<1>5. ~rewritten' => ~rewritten /\ b # Task
  BY DEF Replaces
<1>6. rewritten' \in BOOLEAN
  BY DEF TypeOK, Replaces
<1>7. ~rewritten' => origin'[Task] = origin[Task]
  BY <1>1, <1>2, <1>5
<1>8. Descends(origin[Task], origin[Task])
  BY <1>1, DescendsReflexive
<1>9. main' = main /\ main <= main /\ lines' \in 0..MaxLine /\ open' \subseteq Pulls
  BY <1>1 DEF Replaces
<1> QED BY <1>1, <1>3, <1>4, <1>5, <1>6, <1>7, <1>8, <1>9 DEF OthersStep

\* Everybody else's steps keep the invariant.
LEMMA OthersKeep ==
  ASSUME IInv, Others
  PROVE  IInv'
<1>1. TypeOK /\ OnLines
  BY DEF IInv
<1>2. UNCHANGED <<track, leased, at, heads, old, onto, new, cut>>
  BY DEF Others, MainMoves, MergesMain, Deletes, Pushes, Rewrites, Opens, Closes, MergesPull, panel, local
<1>3. /\ Task \in Branches /\ main \in 1..MaxMain /\ main \in 0..MaxMain /\ main <= main
      /\ \A b \in Branches : origin[b] \in Tips /\ origin[b].base \in Nat
  BY <1>1 DEF TypeOK, Branches, Tips
<1>4. Descends(origin[Task], origin[Task])
  BY <1>3, DescendsReflexive
<1>5. ASSUME MainMoves PROVE OthersStep
  <2>1. main < MaxMain /\ main' = main + 1 /\ UNCHANGED <<origin, open, lines, rewritten>>
    BY <1>5 DEF MainMoves
  <2>2. main' \in 1..MaxMain /\ main <= main'
    BY <1>3, <2>1
  <2>3. \A b \in Branches : (origin'[b] # NoTip => origin'[b].line > 0) /\ origin'[b].base <= main'
    BY <1>1, <1>3, <2>1, <2>2 DEF OnLines
  <2> QED BY <1>1, <1>4, <2>1, <2>2, <2>3 DEF TypeOK, OthersStep
<1>6. ASSUME NEW b \in Branches, MergesMain(b) PROVE OthersStep
  <2> DEFINE tip == [origin[b] EXCEPT !.base = main]
  <2>1. origin[b] # NoTip /\ origin' = [origin EXCEPT ![b] = tip] /\ open' \subseteq open
        /\ UNCHANGED <<main, lines, rewritten>>
    BY <1>6 DEF MergesMain
  <2>2. origin[b] \in Tips /\ origin[b].base <= main
    BY <1>1, <1>3 DEF OnLines
  <2>3. tip \in Tips /\ Descends(tip, origin[b]) /\ tip.base <= main
    BY <1>3, <2>2 DEF Tips, Descends
  <2> HIDE DEF tip
  <2>4. Advances(b, tip)
    BY <2>1, <2>3 DEF Advances
  <2> QED BY <1>1, <2>4, AdvancesIsOthersStep
<1>7. ASSUME NEW b \in Branches, NEW w \in Works, Pushes(b, w) PROVE OthersStep
  <2> DEFINE tip == [origin[b] EXCEPT !.work = origin[b].work \cup {w}]
  <2>1. origin[b] # NoTip /\ origin' = [origin EXCEPT ![b] = tip] /\ open' \subseteq open
        /\ UNCHANGED <<main, lines, rewritten>>
    BY <1>7 DEF Pushes
  <2>2. origin[b] \in Tips /\ origin[b].base <= main
    BY <1>1, <1>3 DEF OnLines
  <2>3. tip \in Tips /\ Descends(tip, origin[b]) /\ tip.base <= main
    BY <1>3, <2>2 DEF Tips, Descends
  <2> HIDE DEF tip
  <2>4. Advances(b, tip)
    BY <2>1, <2>3 DEF Advances
  <2> QED BY <1>1, <2>4, AdvancesIsOthersStep
<1>8. ASSUME NEW p \in Pulls, MergesPull(p) PROVE OthersStep
  <2> DEFINE base == IF origin[Task].base < origin[p].base THEN origin[p].base ELSE origin[Task].base
             tip == [base |-> base, line |-> origin[Task].line, work |-> origin[Task].work \cup origin[p].work]
  <2>1. origin[Task] # NoTip /\ origin' = [origin EXCEPT ![Task] = tip] /\ open' \subseteq open
        /\ UNCHANGED <<main, lines, rewritten>>
    BY <1>8 DEF MergesPull
  <2>2. p \in Branches /\ origin[p] \in Tips /\ origin[Task] \in Tips
        /\ origin[p].base <= main /\ origin[Task].base <= main
    BY <1>1, <1>3 DEF Branches, OnLines
  <2>3. base \in 0..MaxMain /\ base <= main /\ origin[Task].base <= base
    BY <1>3, <2>2 DEF Tips
  <2> HIDE DEF base
  <2>4. tip \in Tips /\ Descends(tip, origin[Task]) /\ tip.base <= main
    BY <1>3, <2>2, <2>3 DEF Tips, Descends
  <2> HIDE DEF tip
  <2>5. Advances(Task, tip)
    BY <2>1, <2>4 DEF Advances
  <2> QED BY <1>1, <1>3, <2>5, AdvancesIsOthersStep
<1>9. ASSUME NEW b \in Branches, Deletes(b) PROVE OthersStep
  <2>1. NoTip \in Tips /\ NoTip.base <= main
    BY <1>3 DEF NoTip, Tips
  <2>2. open' \subseteq Pulls /\ lines' \in 0..MaxLine
    BY <1>1, <1>9 DEF Deletes, TypeOK
  <2>3. Replaces(b, NoTip)
    BY <1>9, <2>1, <2>2 DEF Deletes, Replaces
  <2> QED BY <1>1, <2>3, ReplacesIsOthersStep
<1>10. ASSUME NEW b \in Branches, NEW work \in SUBSET Works, Rewrites(b, work) PROVE OthersStep
  <2> DEFINE tip == [base |-> main, line |-> lines', work |-> work]
  <2>1. lines < MaxLine /\ lines' = lines + 1 /\ origin' = [origin EXCEPT ![b] = tip]
        /\ rewritten' = (rewritten \/ b = Task) /\ main' = main /\ open' = open
    BY <1>10 DEF Rewrites
  <2>2. lines' \in 0..MaxLine /\ lines' > 0 /\ open' \subseteq Pulls
    BY <1>1, <2>1 DEF TypeOK
  <2>3. tip \in Tips /\ tip.base <= main /\ tip.line > 0
    BY <1>3, <2>2 DEF Tips
  <2> HIDE DEF tip
  <2>4. Replaces(b, tip)
    BY <2>1, <2>2, <2>3 DEF Replaces
  <2> QED BY <1>1, <2>4, ReplacesIsOthersStep
<1>11. ASSUME NEW p \in Pulls, Opens(p) PROVE OthersStep
  <2>1. /\ open' = open \cup {p} /\ UNCHANGED <<main, lines, rewritten>>
        /\ \/ origin' = [origin EXCEPT ![p] = origin[Task]]
           \/ origin' = origin
    BY <1>11 DEF Opens
  <2>2. p \in Branches /\ p # Task
    BY DEF Branches
  <2>3. \A c \in Branches : origin'[c] = origin[c] \/ origin'[c] = origin[Task]
    BY <1>1, <2>1 DEF TypeOK
  <2>4. origin'[Task] = origin[Task]
    BY <1>1, <1>3, <2>1, <2>2 DEF TypeOK
  <2>5. \A c \in Branches : (origin'[c] # NoTip => origin'[c].line > 0) /\ origin'[c].base <= main
    BY <1>1, <1>3, <2>3 DEF OnLines
  <2>6. origin' \in [Branches -> Tips]
    BY <1>1, <1>3, <2>1 DEF TypeOK
  <2> QED BY <1>1, <1>3, <1>4, <2>1, <2>4, <2>5, <2>6 DEF TypeOK, OthersStep
<1>12. ASSUME NEW p \in Pulls, Closes(p) PROVE OthersStep
  <2>1. open' \subseteq open /\ UNCHANGED <<main, origin, lines, rewritten>>
    BY <1>12 DEF Closes
  <2> QED BY <1>1, <1>3, <1>4, <2>1 DEF TypeOK, OnLines, OthersStep
<1>13. OthersStep
  BY <1>5, <1>6, <1>7, <1>8, <1>9, <1>10, <1>11, <1>12 DEF Others
<1> QED BY <1>2, <1>13, OthersStepKeeps

LEMMA NextKeeps == IInv /\ [Next]_vars => IInv'
<1> SUFFICES ASSUME IInv, [Next]_vars PROVE IInv'
  OBVIOUS
<1>1. CASE UNCHANGED vars
  BY <1>1 DEF vars, IInv, TypeOK, OnLines, Follows, FollowsPush, Ahead
<1> QED BY <1>1, RebasingKeeps, OtherOperationsKeep, OthersKeep DEF Next

\* Every branch that exists is a replay or a continuation of one, and the clone's
\* memory of the task branch is behind origin unless others, or an operation cut
\* short, changed that: IInv holds in every reachable state.
THEOREM Inductive == Spec => []IInv
BY InitIInv, NextKeeps, PTL DEF Spec

\* The branches, the tracking ref and the operation in progress keep their shape.
THEOREM TypeCorrect == Spec => []TypeOK
<1>1. IInv => TypeOK
  BY DEF IInv
<1> QED BY <1>1, Inductive, PTL

\* The panel's own rebases and expiries leave the branch readable.
THEOREM OwnRebasesAreReadable == Spec => []OwnRebaseReadable
<1>1. IInv => OwnRebaseReadable
  BY DEF IInv, OwnRebaseReadable, Follows, Ahead, Readable, Fetchable
<1> QED BY <1>1, Inductive, PTL

\* A step of the panel that changes branches after fetching them is the leased push.
LEMMA PushesAreLeased ==
  ASSUME IInv, [Next]_vars, PanelPushes
  PROVE  PushLeased
BY DEF Next, vars, PanelPushes, Rebasing, RebaseLists, RebaseFetches, RebaseFails, RebasePushes,
   RebasePushesUnheard, RebaseTracks, OtherOperations, ReadHead, CreateBranch, FetchBranch, ExpireDeletes,
   ExpireUntracks, Crash, Others, MainMoves, MergesMain, Deletes, Pushes, Rewrites, Opens, Closes, MergesPull,
   panel, outside

\* What was fetched were branches that exist, and the replayed task branch holds the
\* work of the one that was fetched.
WorkCarried ==
  at = "fetched" =>
    /\ new.work = old[Task].work
    /\ \A b \in Pushed : old[b] # NoTip

LEMMA CarriesWork == Spec => []WorkCarried
<1>1. Init => WorkCarried
  BY DEF Init, WorkCarried
<1>2. WorkCarried /\ [Next]_vars => WorkCarried'
  <2> SUFFICES ASSUME WorkCarried, [Next]_vars, at' = "fetched"
               PROVE  new'.work = old'[Task].work /\ \A b \in Pushed' : old'[b] # NoTip
    BY DEF WorkCarried
  <2>1. CASE RebaseFetches
    <3>1. /\ old' = origin /\ heads' = heads
          /\ new' = [base |-> main, line |-> lines', work |-> origin[Task].work]
          /\ \A b \in heads \cup {Task} : origin[b] # NoTip
      BY <2>1 DEF RebaseFetches, Returns
    <3> QED BY <3>1 DEF Pushed
  <2>2. CASE ~RebaseFetches
    <3>1. at = "fetched" /\ UNCHANGED <<new, old, heads>>
      BY <2>2 DEF Next, vars, Rebasing, RebaseLists, RebaseFails, RebasePushes, RebasePushesUnheard,
         RebaseTracks, OtherOperations, ReadHead, CreateBranch, FetchBranch, ExpireDeletes, ExpireUntracks,
         Crash, Others, MainMoves, MergesMain, Deletes, Pushes, Rewrites, Opens, Closes, MergesPull,
         panel, local, Returns
    <3> QED BY <3>1 DEF WorkCarried, Pushed
  <2> QED BY <2>1, <2>2
<1> QED BY <1>1, <1>2, PTL DEF Spec

\* A rebase loses nobody's work, however the branches move meanwhile.
THEOREM RebasesDropNothing == Spec => NoWorkDropped
<1>1. ASSUME IInv, WorkCarried, [Next]_vars, PanelPushes, NEW b \in Branches
      PROVE  /\ origin[b].work \subseteq origin'[b].work
             /\ origin[b] = NoTip => origin'[b] = NoTip
  <2>1. PushLeased /\ TypeOK /\ at = "fetched"
    BY <1>1, PushesAreLeased DEF IInv, PanelPushes
  <2>2. /\ \A c \in Pushed : origin[c] = old[c]
        /\ origin'[b] = IF b \in Pushed THEN Replayed(b) ELSE origin[b]
    BY <2>1 DEF PushLeased
  <2>3. CASE b \in Pushed
    <3>1. old[b].work \subseteq Replayed(b).work
      BY <1>1, <2>1, ReplayedKeepsWork DEF WorkCarried, Replayed
    <3>2. origin[b] = old[b] /\ origin'[b] = Replayed(b)
      BY <2>2, <2>3
    <3>3. origin[b] # NoTip
      BY <1>1, <2>1, <2>3, <3>2 DEF WorkCarried
    <3> QED BY <3>1, <3>2, <3>3
  <2>4. CASE b \notin Pushed
    BY <2>2, <2>4
  <2> QED BY <2>3, <2>4
<1>2. IInv /\ WorkCarried /\ [Next]_vars =>
        [PanelPushes => \A b \in Branches :
           /\ origin[b].work \subseteq origin'[b].work
           /\ origin[b] = NoTip => origin'[b] = NoTip]_vars
  BY <1>1
<1> QED BY <1>2, Inductive, CarriesWork, PTL DEF NoWorkDropped, Spec

\* A rebase takes along every pull request it listed, or nothing.
THEOREM RebasesAreWhole == Spec => WholeRebases
<1>1. ASSUME IInv, [Next]_vars, PanelPushes, NEW p \in heads
      PROVE  Descends(origin'[p], origin'[Task])
  <2>1. PushLeased /\ TypeOK /\ p \in Branches /\ p # Task /\ Task \in Branches
    BY <1>1, PushesAreLeased DEF IInv, TypeOK, Branches
  <2>2. origin'[p] = Replayed(p) /\ origin'[Task] = new
    BY <1>1, <2>1 DEF PushLeased, Pushed, Replayed
  <2> QED BY <2>1, <2>2, ReplayedKeepsWork
<1>2. IInv /\ [Next]_vars => [PanelPushes => \A p \in heads : Descends(origin'[p], origin'[Task])]_vars
  BY <1>1
<1> QED BY <1>2, Inductive, PTL DEF WholeRebases, Spec
==============================================================================
