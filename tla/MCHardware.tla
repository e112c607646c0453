----------------------------- MODULE MCHardware -----------------------------
(* The hardware around the radio: the relay board with a bad line and both *)
(* sequencers; the radio's parts and choices, for an N2xx and a B2xx, two  *)
(* bands, and a file as an operator left it or as it never was; and where  *)
(* the oscillators go.  They share no variable: Init chooses one.          *)
EXTENDS Sequencer, RadioSetup, IntegerN

MCOffers == [rx_ant |-> <<"TX/RX", "RX2">>, tx_ant |-> <<"TX/RX", "CAL">>,
             mode |-> <<"CW_U", "USB">>, filter |-> <<"BW_2000">>]
MCRadios == {{"gpio", "fe", "relay"}, {"relay"}}
MCBandAnts == <<[rx_ant |-> "RX2", tx_ant |-> "TX/RX"], [rx_ant |-> "TX/RX", tx_ant |-> "J1"]>>
MCSettings == {[clock |-> FALSE, mode |-> "none", filter |-> "none", band |-> 1, rx_ant |-> 1, tx_ant |-> 1],
               [clock |-> TRUE, mode |-> "USB", filter |-> "BW_2000", band |-> 2, rx_ant |-> 3, tx_ant |-> 2]}

\* 5 MHz to 2.2 GHz.
MCRange == <<150, 66000>>

VARIABLE part

MCInit == /\ part \in {"relay", "setup", "oscillators"}
          /\ Init /\ RsInit /\ InInit
          /\ part # "relay" => ~sleeps
          /\ part # "setup" => has = {"relay"}
          /\ part # "oscillators" => supports_IntN_Mode

MCNext ==
  /\ UNCHANGED part
  /\ \/ part = "relay" /\ Next /\ UNCHANGED <<rsVars, inVars>>
     \/ part = "setup" /\ RsNext /\ UNCHANGED <<vars, inVars>>
     \/ part = "oscillators" /\ InNext /\ UNCHANGED <<vars, rsVars>>

MCSpec == MCInit /\ [][MCNext]_<<vars, rsVars, inVars, part>>
=============================================================================
