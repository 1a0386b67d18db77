---------------------------- MODULE MCTaskLeases ----------------------------
(* Two tasks in tracker order: independent ones for capacity, a chain for   *)
(* dependencies and liveness.                                               *)
EXTENDS TaskLeases, TLC

CONSTANTS a, b

MCTasks       == {a, b}
MCRank        == (a :> 1) @@ (b :> 2)
MCIndependent == (a :> {}) @@ (b :> {})
MCChain       == (a :> {}) @@ (b :> {a})

\* Both tasks compete for the loop of one pass (main may call b in progress
\* before a is completed); the volume is not lost and the branches are left alone.
CalmNext == Panel \/ Crash \/ \E t \in Tasks : MainMoves(t)
CalmSpec == Init /\ [][CalmNext]_vars /\ Progress /\ Persistence
==============================================================================
