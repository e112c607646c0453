------------------------------ MODULE MCVoice -------------------------------
(* Values for checking Voice with TLC: those of MCTRSwitch. *)
EXTENDS Voice, MCTRSwitch
=============================================================================
