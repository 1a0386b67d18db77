------------------------ MODULE MCPullRequestRecords ------------------------
(* Two tasks, so that the lookup of one can fail while that of the other is   *)
(* answered, and a second pull request of one of them, to follow an expiry.   *)
EXTENDS PullRequestRecords
==============================================================================
