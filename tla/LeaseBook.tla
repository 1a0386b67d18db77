----------------------------- MODULE LeaseBook ------------------------------
(***************************************************************************)
(* What the scheduler promises about leases, whatever the files, branches, *)
(* failures and restarts it is made of: which tasks it holds, which of     *)
(* them are ready to be worked on, and what it knows main to say of each.  *)
(* TaskLeases implements this specification.                               *)
(***************************************************************************)
EXTENDS Integers, FiniteSets

CONSTANTS
  Tasks,      \* the tasks of the workplan
  DependsOn,  \* the tasks each of them waits for
  Capacity    \* how many may be in progress at a time

VARIABLES
  known,      \* the status main gives each task, as last read
  leases,     \* the tasks held
  ready       \* those whose branch is open for work

vars == <<known, leases, ready>>

Statuses == {"pending", "in_progress", "blocked", "completed"}

Init ==
  /\ known = [t \in Tasks |-> "unknown"]
  /\ leases = {} /\ ready = {}

\* Reading main ends the leases of what it has completed, and no other.
Learn(status) ==
  /\ known' = status
  /\ leases' = {t \in leases : status[t] # "completed"}
  /\ ready' = ready \cap leases'

InProgress == leases \cup {t \in Tasks : known[t] = "in_progress"}

\* A lease is taken on what main already calls in progress, or on a pending task
\* that waits for nothing, if there is a free slot.
Claim(t) ==
  /\ t \notin leases
  /\ \/ known[t] = "in_progress"
     \/ /\ known[t] = "pending"
        /\ \A d \in DependsOn[t] : known[d] = "completed"
        /\ Cardinality(InProgress) < Capacity
  /\ leases' = leases \cup {t}
  /\ UNCHANGED <<known, ready>>

\* Only what is held becomes ready.
Prepare(t) ==
  /\ t \in leases
  /\ ready' = ready \cup {t}
  /\ UNCHANGED <<known, leases>>

\* A lease is given up whole.
Release(t) ==
  /\ leases' = leases \ {t} /\ ready' = ready \ {t}
  /\ UNCHANGED known

\* The volume is lost, and everything with it.
Forget ==
  /\ known' = [t \in Tasks |-> "unknown"]
  /\ leases' = {} /\ ready' = {}

Next ==
  \/ \E status \in [Tasks -> Statuses] : Learn(status)
  \/ \E t \in Tasks : Claim(t) \/ Prepare(t) \/ Release(t)
  \/ Forget

Spec == Init /\ [][Next]_vars
==============================================================================
