------------------------ MODULE MCInstallationToken ------------------------
(* Two threads, a token of five ticks, and the proportions of the code: the    *)
(* margin is as long as a command may run.                                   *)
EXTENDS InstallationToken
==============================================================================
