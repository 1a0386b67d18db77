---------------------------- MODULE MCTaskRebase ----------------------------
(* One pull request into the task branch and one piece of work: enough for a *)
(* branch to move alone.                                                     *)
EXTENDS TaskRebase
==============================================================================
