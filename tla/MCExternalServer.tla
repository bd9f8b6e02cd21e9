-------------------------- MODULE MCExternalServer --------------------------
(***************************************************************************)
(* Model-checking instance of ExternalServer: two targets, three cycles,  *)
(* two process incarnations, a sequential server and small pipes.        *)
(***************************************************************************)
EXTENDS ExternalServer

\* Cycles exhausted (Finished) is the only terminal state; state space is
\* finite because cycles, incarnations and pipes are bounded.
=============================================================================
