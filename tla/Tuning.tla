------------------------------- MODULE Tuning -------------------------------
(***************************************************************************)
(* Three-stage tuning.  USRPCtrl puts the receiver's front end on a coarse *)
(* grid below the wanted frequency and asks USRPRX, over the CMD mailbox,  *)
(* to make up the rest with its own oscillator (the "third LO").  UI has   *)
(* to know where the front end is to cut the right slice out of the        *)
(* spectrum.  An LO check takes the front end away for a while, behind     *)
(* USRPCtrl's back, and UI ends it.  While receiving, the transmitter's LO *)
(* is parked off the transmit frequency.                                   *)
(*                                                                         *)
(* Frequencies are multiples of one unit.  What the hardware is asked for  *)
(* it does: how it splits a setting between the PLL and the DSP chain is   *)
(* left out, because only the reports show it.                             *)
(***************************************************************************)
EXTENDS Integers, Sequences

CONSTANTS Grid,            \* the front end's 100 kHz steps
          RxLow, RxHigh,   \* rx_rf_freq_range
          TxLow, TxHigh,   \* tx_rf_freq_range
          Park,            \* rxmode_offset
          StartFreq,       \* the 144.2 MHz UI starts with
          RxFreqs, TxFreqs, CheckFreqs,  \* what the client asks for
          Garbage,         \* values a local that is never set may hold
          Sensors,         \* the front ends with an "lo_locked" sensor
          MaxRequests      \* bound: commands of the client

ASSUME TuningAssumption ==
  /\ Grid \in Nat \ {0}
  /\ {RxLow, RxHigh, TxLow, TxHigh, Park, StartFreq} \subseteq Int
  /\ RxLow <= RxHigh /\ TxLow <= TxHigh
  /\ RxFreqs \cup TxFreqs \cup CheckFreqs \cup Garbage \subseteq Int
  /\ 0 \notin CheckFreqs
  /\ Sensors \subseteq {"r", "t"}
  /\ MaxRequests \in Nat

VARIABLES
  cmds, lo3q, uiq,     \* CMD mailbox: what USRPCtrl, USRPRX, UI have to take
  pc,                  \* USRPCtrl: "ready", or the LO checkLock waits for
  last_rx_req_freq, last_rx_tune,     \* last_rx_tune_result, rf minus dsp
  tx_freq, tx_freq_rxmode_offset, tx_on,
  hw,                  \* where the front ends are, and which LO is locked
  lo3,                 \* USRPRX: the frequency of IF_osc
  baseband_rx_freq, lo_check_mode,    \* UI
  wanted, requests     \* the frequency last asked for, if any; commands sent

ctrl == <<last_rx_req_freq, last_rx_tune, tx_freq, tx_freq_rxmode_offset, tx_on>>
ui   == <<baseband_rx_freq, lo_check_mode>>
client == <<wanted, requests>>
vars == <<cmds, lo3q, uiq, pc, ctrl, hw, lo3, ui, client>>

Cmd(t, f) == [t |-> t, f |-> f]

Init ==
  \* USRPCtrl's and UI's own first commands, in either order.
  /\ LET off == Cmd("TX_STATE", 0)
         start == <<Cmd("RX_FE_FREQ", StartFreq), Cmd("TX_FE_FREQ", StartFreq)>>
     IN  cmds \in {<<off>> \o start \o <<off>>, start \o <<off, off>>}
  /\ lo3q = <<Grid>> /\ uiq = <<>>
  /\ pc = "ready"
  /\ last_rx_req_freq = 0 /\ last_rx_tune = 0
  /\ tx_freq = 0 /\ tx_freq_rxmode_offset = 0 /\ tx_on = FALSE
  /\ hw = [r |-> 0, t |-> 0, locked |-> {"r", "t"}]
  /\ lo3 = 0
  /\ baseband_rx_freq = StartFreq - 2 * Grid /\ lo_check_mode = FALSE
  /\ wanted = {} /\ requests = 0

-----------------------------------------------------------------------------
(* set1stLOFreq.                                                           *)

Clamp(f, low, high) == IF f < low THEN low ELSE IF f > high THEN high ELSE f

\* The grid point between one and two steps below f.
FirstTarget(f) ==
  LET below == Grid * (f \div Grid)
  IN  IF f - below < Grid THEN below - Grid ELSE below

RxTarget(f) == FirstTarget(Clamp(f, RxLow, RxHigh))

\* The front end sel moves to f, and its LO starts to settle.
Tuned(sel, f) == [hw EXCEPT ![sel] = f, !.locked = @ \ {sel}]

MustWait(sel) == sel \in Sensors

\* set1stLOFreq up to checkLock; the command stays first in line meanwhile.
SetFirstLO(sel, f) ==
  /\ hw' = Tuned(sel, IF sel = "r" THEN RxTarget(f) ELSE Clamp(f, TxLow, TxHigh))
  /\ pc' = sel

\* checkLock has returned (at once, where there is no sensor to ask).
LockSeen(sel) == pc = sel /\ (MustWait(sel) => sel \in hw.locked)

\* The PLL settles.
LockUp(sel) ==
  /\ sel \notin hw.locked
  /\ hw' = [hw EXCEPT !.locked = @ \cup {sel}]
  /\ UNCHANGED <<cmds, lo3q, uiq, pc, ctrl, lo3, ui, client>>

-----------------------------------------------------------------------------
(* USRPCtrl's commands.                                                    *)

Next1(t) == pc = "ready" /\ cmds # <<>> /\ Head(cmds).t \in t
F == Head(cmds).f
Take == cmds' = Tail(cmds)

\* The third LO's offset for a wanted f, and the report of the front end.
Offset(diffs) == lo3q' = lo3q \o diffs
ReportFE(rx) == uiq' = Append(uiq, Cmd("RX_FE_FREQ", rx))

FineRange == Grid + 1 .. 2 * Grid - 1

\* RX_RETUNE_FREQ within reach of the third LO: the front end stays put.
RetuneFine ==
  /\ Next1({"RX_RETUNE_FREQ"}) /\ F - last_rx_tune \in FineRange
  /\ Take
  /\ last_rx_req_freq' = F
  /\ Offset(<<F - last_rx_tune>>)
  /\ ReportFE(last_rx_tune)
  /\ UNCHANGED <<pc, last_rx_tune, tx_freq, tx_freq_rxmode_offset, tx_on, hw,
                 lo3, ui, client>>

\* RX_RETUNE_FREQ out of reach, and RX_FE_FREQ: the front end moves.
RetuneCoarse ==
  /\ \/ Next1({"RX_RETUNE_FREQ"}) /\ F - last_rx_tune \notin FineRange
     \/ Next1({"RX_FE_FREQ"})
  /\ last_rx_req_freq' = F
  /\ SetFirstLO("r", F)
  /\ UNCHANGED <<cmds, lo3q, uiq, last_rx_tune, tx_freq, tx_freq_rxmode_offset,
                 tx_on, lo3, ui, client>>

\* Slip: the offset set1stLOFreq sends is left to stand.
RetuneCoarseDoneOnce ==
  /\ LockSeen("r") /\ Head(cmds).t \in {"RX_RETUNE_FREQ", "RX_FE_FREQ"}
  /\ pc' = "ready" /\ Take
  /\ last_rx_tune' = hw.r
  /\ Offset(<<Clamp(F, RxLow, RxHigh) - RxTarget(F)>>)
  /\ ReportFE(hw.r)
  /\ UNCHANGED <<last_rx_req_freq, tx_freq, tx_freq_rxmode_offset, tx_on, hw,
                 lo3, ui, client>>

\* ... and what follows the lock.  The second offset is taken from "freq",
\* which RX_FE_FREQ has not set.
RetuneCoarseDone ==
  /\ LockSeen("r") /\ Head(cmds).t \in {"RX_RETUNE_FREQ", "RX_FE_FREQ"}
  /\ pc' = "ready" /\ Take
  /\ last_rx_tune' = hw.r
  /\ \E freq \in IF Head(cmds).t = "RX_FE_FREQ" THEN Garbage ELSE {F} :
       Offset(<<Clamp(F, RxLow, RxHigh) - RxTarget(F), freq - hw.r>>)
  /\ ReportFE(hw.r)
  /\ UNCHANGED <<last_rx_req_freq, tx_freq, tx_freq_rxmode_offset, tx_on, hw,
                 lo3, ui, client>>

\* LO_CHECK with a frequency: go and look there; the result is not kept.
LoCheckGo ==
  /\ Next1({"LO_CHECK"}) /\ F # 0
  /\ Take
  /\ hw' = Tuned("r", F)
  /\ uiq' = Append(uiq, Cmd("LO_OFFSET", 0))
  /\ UNCHANGED <<lo3q, pc, ctrl, lo3, ui, client>>

\* LO_CHECK 0: back to the frequency last requested.
LoCheckBack ==
  /\ Next1({"LO_CHECK"}) /\ F = 0
  /\ SetFirstLO("r", last_rx_req_freq)
  /\ UNCHANGED <<cmds, lo3q, uiq, ctrl, lo3, ui, client>>

LoCheckBackDone ==
  /\ LockSeen("r") /\ Head(cmds).t = "LO_CHECK"
  /\ pc' = "ready" /\ Take
  /\ last_rx_tune' = hw.r
  /\ UNCHANGED <<lo3q, uiq, last_rx_req_freq, tx_freq, tx_freq_rxmode_offset,
                 tx_on, hw, lo3, ui, client>>

\* TX_RETUNE_FREQ, TX_TUNE_FREQ and TX_FE_FREQ.
TxTune ==
  /\ Next1({"TX_RETUNE_FREQ", "TX_FE_FREQ"})
  /\ SetFirstLO("t", F + tx_freq_rxmode_offset)
  /\ UNCHANGED <<cmds, lo3q, uiq, ctrl, lo3, ui, client>>

TxTuneDone ==
  /\ LockSeen("t") /\ Head(cmds).t \in {"TX_RETUNE_FREQ", "TX_FE_FREQ"}
  /\ pc' = "ready" /\ Take
  /\ tx_freq' = F
  /\ UNCHANGED <<lo3q, uiq, last_rx_req_freq, last_rx_tune,
                 tx_freq_rxmode_offset, tx_on, hw, lo3, ui, client>>

\* TX_STATE 1 and 0, as far as the transmitter's LO goes.
TxState ==
  /\ Next1({"TX_STATE"})
  /\ tx_on' = (F = 1)
  /\ tx_freq_rxmode_offset' = IF F = 1 THEN 0 ELSE Park
  /\ SetFirstLO("t", tx_freq + tx_freq_rxmode_offset')
  /\ UNCHANGED <<cmds, lo3q, uiq, last_rx_req_freq, last_rx_tune, tx_freq,
                 lo3, ui, client>>

TxStateDone ==
  /\ LockSeen("t") /\ Head(cmds).t = "TX_STATE"
  /\ pc' = "ready" /\ Take
  /\ UNCHANGED <<lo3q, uiq, ctrl, hw, lo3, ui, client>>

UsrpCtrl == \/ RetuneFine \/ RetuneCoarse \/ RetuneCoarseDone
            \/ LoCheckGo \/ LoCheckBack \/ LoCheckBackDone
            \/ TxTune \/ TxTuneDone \/ TxState \/ TxStateDone

-----------------------------------------------------------------------------
(* USRPRX and UI.                                                          *)

\* RX_LO3_FREQ.
UsrpRx ==
  /\ lo3q # <<>>
  /\ lo3' = Head(lo3q)
  /\ lo3q' = Tail(lo3q)
  /\ UNCHANGED <<cmds, uiq, pc, ctrl, hw, ui, client>>

\* UI hears where the front end is, or is asked to measure the LO's offset.
UiTakes ==
  /\ uiq # <<>>
  /\ uiq' = Tail(uiq)
  /\ IF Head(uiq).t = "RX_FE_FREQ"
       THEN baseband_rx_freq' = Head(uiq).f /\ UNCHANGED lo_check_mode
       ELSE lo_check_mode' = TRUE /\ UNCHANGED baseband_rx_freq
  /\ UNCHANGED <<cmds, lo3q, pc, ctrl, hw, lo3, client>>

\* Slip: nobody tells USRPCtrl that the check is over.
UiEndsLoCheckQuietly ==
  /\ lo_check_mode
  /\ lo_check_mode' = FALSE
  /\ UNCHANGED <<cmds, lo3q, uiq, pc, ctrl, hw, lo3, baseband_rx_freq, client>>

\* sendFFT has averaged eight buffers for the LO check: report, and end it.
UiEndsLoCheck ==
  /\ lo_check_mode
  /\ lo_check_mode' = FALSE
  /\ cmds' = Append(cmds, Cmd("LO_CHECK", 0))
  /\ UNCHANGED <<lo3q, uiq, pc, ctrl, hw, lo3, baseband_rx_freq, client>>

\* UI posts what the client sends.
Request(c) ==
  /\ requests < MaxRequests
  /\ requests' = requests + 1
  /\ cmds' = Append(cmds, c)
  /\ wanted' = IF c.t = "RX_RETUNE_FREQ" THEN {c.f} ELSE wanted
  /\ UNCHANGED <<lo3q, uiq, pc, ctrl, hw, lo3, ui>>

Client == \/ \E f \in RxFreqs : Request(Cmd("RX_RETUNE_FREQ", f))
          \/ \E f \in TxFreqs : Request(Cmd("TX_RETUNE_FREQ", f))
          \/ \E f \in CheckFreqs : Request(Cmd("LO_CHECK", f))
          \/ \E s \in {0, 1} : Request(Cmd("TX_STATE", s))

Next == UsrpCtrl \/ UsrpRx \/ UiTakes \/ UiEndsLoCheck \/ Client
        \/ \E sel \in {"r", "t"} : LockUp(sel)

\* Every thread goes on; a PLL that is left alone locks.  sendFFT needs the
\* receiver to stream and a client on the waterfall socket.
Fairness == /\ WF_vars(UsrpCtrl) /\ WF_vars(UsrpRx)
            /\ WF_vars(UiTakes) /\ WF_vars(UiEndsLoCheck)
            /\ \A sel \in {"r", "t"} : WF_vars(LockUp(sel))

Spec == Init /\ [][Next]_vars /\ Fairness

-----------------------------------------------------------------------------
\* Nothing is queued, half done or being measured.
Quiet == /\ cmds = <<>> /\ lo3q = <<>> /\ uiq = <<>>
         /\ pc = "ready" /\ ~lo_check_mode

Listening(f) == hw.r + lo3 = f

\* At rest every oscillator is where the others need it.  The front end and the
\* third LO, set by two threads, add up to the frequency last asked for, whether
\* the front end was moved for it or not, in range or not, and whatever LO checks
\* went on around the request.  UI knows where the front end is, so that it cuts
\* the right slice out of the spectrum.  The transmitter's LO is on the transmit
\* frequency during an over and parked, "so tuning works", between overs: tune
\* commands and overs may come in any order.
OscillatorsAgree ==
  Quiet => /\ \A f \in wanted : Listening(f)
           /\ baseband_rx_freq = hw.r
           /\ hw.t = Clamp(tx_freq + (IF tx_on THEN 0 ELSE Park), TxLow, TxHigh)

\* A request for a frequency is obeyed in the end, LO checks notwithstanding,
\* unless another one takes its place.
RequestObeyed == \A f \in RxFreqs : wanted = {f} ~> (Listening(f) \/ wanted # {f})

=============================================================================
