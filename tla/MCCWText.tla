------------------------------ MODULE MCCWText ------------------------------
(* A behaviour of CWText, or one of the generator whose buffers it counts;  *)
(* Init chooses.                                                            *)
EXTENDS CWText, Keyer

VARIABLE part

MCInit == /\ part \in {"text", "generator"}
          /\ KyBegin(IF part = "generator" THEN MaxChars ELSE 0)
          /\ Init /\ (part = "generator" => cw /\ careful)

MCNext == /\ UNCHANGED part
          /\ \/ part = "text" /\ Next /\ UNCHANGED kyVars
             \/ part = "generator" /\ KyNext /\ UNCHANGED vars

\* At first none of the steps that CWText is fair to is enabled.
MCSpec == MCInit /\ [][MCNext]_<<vars, kyVars, part>>
            /\ WF_vars(Cwtx) /\ WF_vars(Usrptx)
=============================================================================
