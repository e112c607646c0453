----------------------------- MODULE MCSession ------------------------------
(* A behaviour of Session, or one of the byte stream beneath it, which it   *)
(* takes for granted; Init chooses.                                         *)
EXTENDS Session, ByteStream

VARIABLE part

MCInit == /\ part \in {"session", "stream"}
          /\ IF part = "stream" THEN BsInit ELSE BsIdle
          /\ Init

MCNext == /\ UNCHANGED part
          /\ \/ part = "session" /\ Next /\ UNCHANGED bsVars
             \/ part = "stream" /\ BsNext /\ UNCHANGED vars

\* The steps of the part not chosen are never enabled.
MCSpec == MCInit /\ [][MCNext]_<<vars, bsVars, part>> /\ Fairness /\ BsFairness
=============================================================================
