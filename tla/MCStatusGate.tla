---------------------------- MODULE MCStatusGate ----------------------------
(***************************************************************************)
(* Two pull requests into main, of a task each: one the gate may push to,  *)
(* and one from a fork.                                                    *)
(***************************************************************************)
EXTENDS StatusGate

CONSTANTS p1, p2, t1, t2

MCPulls == {p1, p2}
MCTasks == {t1, t2}
MCNamed == [p \in {p1, p2} |-> IF p = p1 THEN {t1} ELSE {t2}]

\* No job is cut short, and the authors leave their branches alone.
SmoothNext ==
  \/ \E p \in Pulls : Job(p) \/ Approve(p) \/ Merge(p)
  \/ \E completed \in SUBSET Tasks : Replan(completed)
SmoothSpec == Init /\ [][SmoothNext]_vars
==============================================================================
