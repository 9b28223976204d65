----------------------------- MODULE MCFaultLog -----------------------------
(* The readings of MCFrameToGlass, with the log.                            *)
EXTENDS FaultLog, MCFrameToGlass
=============================================================================
