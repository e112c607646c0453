----------------------------- MODULE BaseBandRX -----------------------------
(***************************************************************************)
(* The receiver's baseband thread: one command, then up to five RF buffers *)
(* and round again.  A buffer becomes one buffer of audio, demodulated by  *)
(* mode through the audio filter, or silence while a half-duplex voice     *)
(* over is on.  NBFM has a squelch, open for a while after each loud       *)
(* buffer.  The edges of the filter go to the GUI, which draws them on its *)
(* spectrum: there they are the operator's only sight of the filter.       *)
(* Samples are left out: a buffer is loud or quiet.                        *)
(***************************************************************************)
EXTENDS Integers, Sequences

CONSTANTS Modes, AFFilters,   \* what the GUI's two selectors offer
          HangTime,         \* nbfm_squelch_hang_time
          Uninitialised,    \* what the hang count may hold at first
          MaxCmd            \* bound: commands of the GUI

Edges == [BW_100 |-> <<400, 500>>, BW_500 |-> <<400, 900>>,
          BW_2000 |-> <<300, 2300>>, BW_6000 |-> <<300, 6300>>,
          BW_PASS |-> <<10, 15000>>, BW_WSPR |-> <<1400, 1600>>]

ASSUME BaseBandRXAssumption ==
  /\ Modes \subseteq {"LSB", "USB", "CW_U", "CW_L", "AM", "WBFM", "NBFM"}
  /\ AFFilters \subseteq DOMAIN Edges
  /\ HangTime \in Nat \ {0} /\ Uninitialised \subseteq Int /\ MaxCmd \in Nat

VARIABLES
  gui_mode, gui_filter, key, n_cmd,  \* GUI: Mode_cb, AFBw_cb, push-to-talk
  marker,                            \* GUI: lo and hi offsets of the markers
  cmds, reports,                     \* to BaseBandRX; to the GUI, through UI
  rx_modulation, af_filter_selection,
  sidetone_stream_enabled, audio_rx_stream_enabled, af_is_sidetone,
  hang_count,                        \* nbfm_squelch_hang_count
  heard,         \* the last buffer of audio: what it was made of
  broken, quiet  \* NBFM: some buffer was loud; quiet ones since, to HangTime

gui == <<gui_mode, gui_filter, key, n_cmd>>
over == <<sidetone_stream_enabled, audio_rx_stream_enabled, af_is_sidetone>>
squelch == <<hang_count, heard, broken, quiet>>
bbVars == <<gui, marker, cmds, reports, rx_modulation, af_filter_selection,
            over, squelch>>

Set(t, v) == [t |-> t, v |-> v]
IsCW(m) == m \in {"CW_U", "CW_L"}

-----------------------------------------------------------------------------
(* The GUI.  USRPCtrl's answer to a key-up is the 2 that ends the over.    *)

Send(ms) ==
  /\ n_cmd < MaxCmd /\ n_cmd' = n_cmd + 1
  /\ cmds' = cmds \o ms
  /\ UNCHANGED <<marker, reports, rx_modulation, af_filter_selection, over, squelch>>

SetModulation(m) ==
  /\ m # gui_mode /\ gui_mode' = m
  /\ Send(<<Set("RX_MODE", m), Set("TX_MODE", m)>>)
  /\ UNCHANGED <<gui_filter, key>>

SetAFFilter(f) ==
  /\ f # gui_filter /\ gui_filter' = f
  /\ Send(<<Set("RX_AF_FILTER", f)>>)
  /\ UNCHANGED <<gui_mode, key>>

\* TX_STATE 1, with and without the full-duplex flag, or in the end 2.
SetPTT(state) ==
  /\ key = (state = "receive") /\ key' = ~key
  /\ Send(<<Set("TX_STATE", state)>>)
  /\ UNCHANGED <<gui_mode, gui_filter>>

\* SIGNAL repMarkerOffset.
ShowMarkers ==
  /\ reports # <<>> /\ Head(reports).t = "SHAPE"
  /\ marker' = Head(reports).v
  /\ reports' = Tail(reports)
  /\ UNCHANGED <<gui, cmds, rx_modulation, af_filter_selection, over, squelch>>

-----------------------------------------------------------------------------
(* BaseBandRX: its commands.                                               *)

\* repAFFilterShape: which side of the carrier the filter's edges are on.
Shape(m, f) ==
  LET lo == Edges[f][1]
      hi == Edges[f][2]
  IN  CASE m \in {"USB", "CW_U"} -> <<lo, hi>>
        [] m \in {"LSB", "CW_L"} -> <<-lo, -hi>>
        [] m = "AM" -> <<-hi, hi>>
        [] OTHER -> <<-100, 100>>

Reports(m, f) == reports' = Append(reports, Set("SHAPE", Shape(m, f)))

Command(t) == cmds # <<>> /\ Head(cmds).t = t /\ cmds' = Tail(cmds)
Value == Head(cmds).v

HearMode ==
  /\ Command("RX_MODE")
  /\ rx_modulation' = Value
  /\ Reports(Value, af_filter_selection)
  /\ UNCHANGED <<gui, marker, af_filter_selection, over, squelch>>

\* filter_map has all that the GUI offers; the widest one stands in for others.
HearFilter ==
  /\ Command("RX_AF_FILTER")
  /\ af_filter_selection' = Value
  /\ Reports(rx_modulation, Value)
  /\ UNCHANGED <<gui, marker, rx_modulation, over, squelch>>

HearTXMode ==
  /\ Command("TX_MODE")
  /\ sidetone_stream_enabled' = IsCW(Value)
  /\ UNCHANGED <<gui, marker, reports, rx_modulation, af_filter_selection,
                 audio_rx_stream_enabled, af_is_sidetone, squelch>>

\* Full duplex leaves the receiver alone, CW plays it at the sidetone's gain.
HearTXState ==
  /\ Command("TX_STATE")
  /\ \/ Value = "duplex" /\ UNCHANGED <<audio_rx_stream_enabled, af_is_sidetone>>
     \/ /\ Value = "half"
        /\ IF sidetone_stream_enabled
             THEN af_is_sidetone' = TRUE /\ UNCHANGED audio_rx_stream_enabled
             ELSE audio_rx_stream_enabled' = FALSE /\ UNCHANGED af_is_sidetone
     \/ /\ Value = "receive"
        /\ af_is_sidetone' = FALSE /\ audio_rx_stream_enabled' = TRUE
  /\ UNCHANGED <<gui, marker, reports, rx_modulation, af_filter_selection,
                 sidetone_stream_enabled, squelch>>

-----------------------------------------------------------------------------
(* BaseBandRX: the buffers.                                                *)

\* Slip: the count goes on down where it should stop.
HangPastZero(loud) == IF loud THEN HangTime ELSE hang_count - 1
Hang(loud) == IF loud THEN HangTime
              ELSE IF hang_count > 0 THEN hang_count - 1 ELSE hang_count

\* demodulateNBFM: heard unless the count is zero.
DemodulateNBFM(loud) ==
  /\ hang_count' = Hang(loud)
  /\ heard' = IF hang_count' # 0 THEN "nbfm" ELSE "closed"
  /\ broken' = (broken \/ loud)
  /\ quiet' = IF loud THEN 0 ELSE IF quiet < HangTime THEN quiet + 1 ELSE quiet

\* demodulate, or pendNullBuffer while the audio is off.
Hear(loud) ==
  /\ IF audio_rx_stream_enabled /\ rx_modulation = "NBFM"
       THEN DemodulateNBFM(loud)
       ELSE /\ heard' = IF audio_rx_stream_enabled THEN "signal" ELSE "silence"
            /\ UNCHANGED <<hang_count, broken, quiet>>
  /\ UNCHANGED <<gui, marker, cmds, reports, rx_modulation, af_filter_selection,
                 over>>

-----------------------------------------------------------------------------
\* The GUI has restored its selectors and sent them; UI's RX_AF_FILTER 1 came first.
BbInit ==
  /\ gui_mode \in Modes /\ gui_filter \in AFFilters /\ key = FALSE /\ n_cmd = 0
  /\ marker = <<0, 1000>>
  /\ cmds = <<Set("RX_AF_FILTER", "BW_500"), Set("RX_MODE", gui_mode),
              Set("TX_MODE", gui_mode), Set("RX_AF_FILTER", gui_filter)>>
  /\ reports = <<>>
  /\ rx_modulation = "USB" /\ af_filter_selection = "BW_6000"
  /\ sidetone_stream_enabled \in BOOLEAN
  /\ audio_rx_stream_enabled = TRUE /\ af_is_sidetone = FALSE
  /\ hang_count \in Uninitialised
  /\ heard = "silence" /\ broken = FALSE /\ quiet = HangTime

BbNext ==
  \/ \E m \in Modes : SetModulation(m)
  \/ \E f \in AFFilters : SetAFFilter(f)
  \/ \E s \in {"duplex", "half", "receive"} : SetPTT(s)
  \/ ShowMarkers
  \/ HearMode \/ HearFilter \/ HearTXMode \/ HearTXState
  \/ \E loud \in BOOLEAN : Hear(loud)

BbSpec == BbInit /\ [][BbNext]_bbVars

-----------------------------------------------------------------------------
\* The NBFM squelch, once something has broken it, never stays open on HangTime
\* quiet buffers or more, whatever overs and changes of mode come between them
\* and whatever the count, which no constructor sets, held at first.
SquelchFades == heard = "nbfm" /\ broken => quiet < HangTime
=============================================================================
