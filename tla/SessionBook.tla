---------------------------- MODULE SessionBook -----------------------------
(***************************************************************************)
(* What the panel promises about the sessions of one task, whatever the    *)
(* records, branches, calls and crashes they are made of.  Each stage has  *)
(* a slot for every revision.  A session is only ever started from a slot  *)
(* somebody has just opened, one slot is open at a time, and a slot that   *)
(* may have started a session stays closed until the operator retires it   *)
(* or the task is released.  StageDispatch implements this specification.  *)
(***************************************************************************)
EXTENDS Integers

CONSTANTS
  Stages,    \* refine, implement, audit
  Revisions  \* the commits a session may be asked to work on

VARIABLES
  lease,     \* "none", "leased" or "completed"
  slot,      \* per stage and revision: "free", "open" or "closed"
  sessions   \* the sessions started, per stage and revision

vars == <<lease, slot, sessions>>

IsOpen(s, r) == slot[s][r] = "open"
NoneOpen     == \A s \in Stages, r \in Revisions : ~IsOpen(s, r)

AllFree == [s \in Stages |-> [r \in Revisions |-> "free"]]

Init ==
  /\ lease = "none"
  /\ slot = AllFree
  /\ sessions = [s \in Stages |-> [r \in Revisions |-> 0]]

Take ==
  /\ lease = "none" /\ lease' = "leased"
  /\ UNCHANGED <<slot, sessions>>

\* A task is completed between two stages, never under one.
Complete ==
  /\ lease = "leased" /\ NoneOpen
  /\ lease' = "completed"
  /\ UNCHANGED <<slot, sessions>>

\* Only the task's holder opens a slot, only a free one, and one at a time.
Claim(s, r) ==
  /\ lease = "leased" /\ NoneOpen
  /\ slot[s][r] = "free"
  /\ slot' = [slot EXCEPT ![s][r] = "open"]
  /\ UNCHANGED <<lease, sessions>>

\* One session comes of an open slot, which closes as the agent takes the work.
Send(s, r) ==
  /\ IsOpen(s, r)
  /\ slot' = [slot EXCEPT ![s][r] = "closed"]
  /\ sessions' = [sessions EXCEPT ![s][r] = @ + 1]
  /\ UNCHANGED lease

\* The outcome is not known: the slot closes as if the work had been taken.
GiveUp(s, r) ==
  /\ IsOpen(s, r)
  /\ slot' = [slot EXCEPT ![s][r] = "closed"]
  /\ UNCHANGED <<lease, sessions>>

\* It is known that nothing started: the slot is free for another try.
Drop(s, r) ==
  /\ IsOpen(s, r)
  /\ slot' = [slot EXCEPT ![s][r] = "free"]
  /\ UNCHANGED <<lease, sessions>>

\* The operator has looked, and allows the stage to be sent again.
Retire(s, r) ==
  /\ NoneOpen /\ slot[s][r] = "closed"
  /\ slot' = [slot EXCEPT ![s][r] = "free"]
  /\ UNCHANGED <<lease, sessions>>

\* A task is released whole, unless main has it completed.
ReleaseAll ==
  /\ lease # "completed" /\ NoneOpen
  /\ lease' = "none" /\ slot' = AllFree
  /\ UNCHANGED sessions

\* The volume is lost, and with it every promise; what is completed stays so.
Lose ==
  /\ NoneOpen
  /\ lease' = IF lease = "completed" THEN lease ELSE "none"
  /\ slot' = AllFree
  /\ sessions' = [s \in Stages |-> [r \in Revisions |-> 0]]

Next ==
  \/ Take \/ Complete \/ ReleaseAll \/ Lose
  \/ \E s \in Stages, r \in Revisions :
       Claim(s, r) \/ Send(s, r) \/ GiveUp(s, r) \/ Drop(s, r) \/ Retire(s, r)

Spec == Init /\ [][Next]_vars
==============================================================================
