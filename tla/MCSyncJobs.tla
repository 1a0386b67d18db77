----------------------------- MODULE MCSyncJobs -----------------------------
(* Model checking SyncJobs: a table of two retained jobs stands for 32. *)
EXTENDS SyncJobs
==============================================================================
