--------------------------- MODULE MCStageDispatch ---------------------------
(* One Codex stage (refine and implement never meet) and the audit.          *)
EXTENDS StageDispatch
==============================================================================
