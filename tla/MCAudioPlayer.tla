--------------------------- MODULE MCAudioPlayer ----------------------------
(* The path of a sample: the recorder of the raw signal, the receiver's     *)
(* resampler, the baseband, the server's filters, and the GUI's player and *)
(* recorder behind them.  They share no variable, so a behaviour is of one *)
(* of them, whichever Init chooses.                                        *)
EXTENDS AudioPlayer, SignalPath, BaseBandRX, IFRecorder

\* What a counter that nobody sets may hold: less than nothing, nothing, and
\* more than the hang time.
AnyCount == {-1, 0, 4}

VARIABLE part

MCInit == /\ part \in {"raw", "resampler", "baseband", "filter", "player"}
          /\ IF part = "resampler" THEN TdInit ELSE TdIdle
          /\ IF part = "filter" THEN OsInit ELSE OsIdle
          /\ BbInit
          /\ part # "baseband" => /\ gui_mode = "USB" /\ gui_filter = "BW_500"
                                  /\ ~sidetone_stream_enabled /\ hang_count = 0
          /\ IrInit /\ (part # "raw" => toCtrl = <<1>>)
          /\ Init

MCNext ==
  /\ UNCHANGED part
  /\ \/ part = "raw" /\ IrNext /\ UNCHANGED <<tdVars, osVars, bbVars, vars>>
     \/ part = "resampler" /\ TdNext /\ UNCHANGED <<osVars, bbVars, irVars, vars>>
     \/ part = "baseband" /\ BbNext /\ UNCHANGED <<tdVars, osVars, irVars, vars>>
     \/ part = "filter" /\ OsNext /\ UNCHANGED <<tdVars, bbVars, irVars, vars>>
     \/ part = "player" /\ Next /\ UNCHANGED <<tdVars, osVars, bbVars, irVars>>

MCSpec == MCInit /\ [][MCNext]_<<tdVars, osVars, bbVars, irVars, vars, part>>

=============================================================================
