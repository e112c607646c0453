----------------------------- MODULE IFRecorder -----------------------------
(***************************************************************************)
(* The recorder of the receiver's raw signal.  It reads the RX mailbox as  *)
(* the baseband does, at all times, and the CMD mailbox, where it hears of *)
(* a recording to start from UI and of the front end's frequency, which it *)
(* writes in front of the signal, from USRPCtrl, once that has tuned.      *)
(***************************************************************************)
EXTENDS Integers, Sequences, SequencesExt

CONSTANTS FeFreqs,   \* where the front end may be; 0 before the first tuning
          MaxIF,     \* bound: buffers of the receiver
          MaxRec     \* bound: commands of the client

ASSUME IFRecorderAssumption == 0 \notin FeFreqs /\ MaxIF \in Nat /\ MaxRec \in Nat

VARIABLES
  toCtrl, fe, reporting,   \* USRPCtrl: requests, front end, its report is due
  cmd_stream, rx_stream,   \* what the recorder has to take
  left,                    \* buffers it may take before it looks at a command
  write_stream_on, current_rx_center_freq,
  ostr,                    \* the file: its name, "none" when closed, and content
  looping,               \* the thread has not left its loop
  n_if, n_rec

irQueues == <<toCtrl, cmd_stream, rx_stream>>
irRecorder == <<left, write_stream_on, current_rx_center_freq, ostr, looping>>
irVars == <<irQueues, fe, reporting, irRecorder, n_if, n_rec>>

\* due is where the front end is, if no tuning is under way.
Start(name, due) == [t |-> "RF_RECORD_START", name |-> name, due |-> due]
Other(t) == [t |-> t]
Report(f) == [t |-> "RX_FE_FREQ", f |-> f]

Closed == [name |-> "none", header |-> 0, bufs |-> <<>>, due |-> {}]

-----------------------------------------------------------------------------
(* The other threads.                                                      *)

ClientAsks ==
  /\ n_rec < MaxRec /\ n_rec' = n_rec + 1
  /\ \/ /\ \E f \in FeFreqs : toCtrl' = Append(toCtrl, f)
        /\ UNCHANGED cmd_stream
     \/ /\ LET due == IF toCtrl = <<>> /\ ~reporting THEN {fe} ELSE {}
           IN  \E m \in {Start("a", due), Start("b", due),
                         Other("RF_RECORD_STOP"), Other("STOP")} :
                 cmd_stream' = Append(cmd_stream, m)
        /\ UNCHANGED toCtrl
  /\ UNCHANGED <<rx_stream, fe, reporting, irRecorder, n_if>>

CtrlMoves ==
  /\ ~reporting /\ toCtrl # <<>>
  /\ fe' = Head(toCtrl) /\ toCtrl' = Tail(toCtrl) /\ reporting' = TRUE
  /\ UNCHANGED <<cmd_stream, rx_stream, irRecorder, n_if, n_rec>>

CtrlReports ==
  /\ reporting /\ reporting' = FALSE
  /\ cmd_stream' = Append(cmd_stream, Report(fe))
  /\ UNCHANGED <<toCtrl, rx_stream, fe, irRecorder, n_if, n_rec>>

UsrpRxPuts ==
  /\ n_if < MaxIF /\ n_if' = n_if + 1
  /\ rx_stream' = Append(rx_stream, n_if')
  /\ UNCHANGED <<toCtrl, cmd_stream, fe, reporting, irRecorder, n_rec>>

-----------------------------------------------------------------------------
(* The recorder's loop: a command if there is one, then up to two buffers. *)

\* The file is opened anew, and the front end's frequency as it is known goes first.
OpenOutStream(m) ==
  /\ ostr' = [name |-> m.name, header |-> current_rx_center_freq, bufs |-> <<>>,
              due |-> m.due]
  /\ write_stream_on' = TRUE
  /\ UNCHANGED <<current_rx_center_freq, looping>>

CloseOutStream == ostr' = Closed /\ write_stream_on' = FALSE
                  /\ UNCHANGED <<current_rx_center_freq, looping>>

\* The loop ends behind the buffers of its last round, which closes the file.
LastRound == looping' = FALSE
             /\ UNCHANGED <<write_stream_on, current_rx_center_freq, ostr>>

TakesCommand ==
  /\ looping /\ left = 0
  /\ left' = 2
  /\ IF cmd_stream = <<>>
       THEN UNCHANGED <<cmd_stream, write_stream_on, current_rx_center_freq, ostr, looping>>
       ELSE /\ cmd_stream' = Tail(cmd_stream)
            /\ LET m == Head(cmd_stream)
               IN  \/ m.t = "RF_RECORD_START" /\ OpenOutStream(m)
                   \/ m.t = "RF_RECORD_STOP" /\ CloseOutStream
                   \/ m.t = "STOP" /\ LastRound
                   \/ /\ m.t = "RX_FE_FREQ" /\ current_rx_center_freq' = m.f
                      /\ UNCHANGED <<write_stream_on, ostr, looping>>
  /\ UNCHANGED <<toCtrl, rx_stream, fe, reporting, n_if, n_rec>>

\* Slip: the second buffer of a round is freed unwritten.
TakesBufferFirstOnly ==
  /\ left > 0 /\ rx_stream # <<>>
  /\ left' = left - 1 /\ rx_stream' = Tail(rx_stream)
  /\ ostr' = IF write_stream_on /\ left = 2
               THEN [ostr EXCEPT !.bufs = Append(@, Head(rx_stream))] ELSE ostr
  /\ UNCHANGED <<toCtrl, cmd_stream, fe, reporting, write_stream_on,
                 current_rx_center_freq, looping, n_if, n_rec>>

TakesBuffer ==
  /\ left > 0 /\ rx_stream # <<>>
  /\ left' = left - 1 /\ rx_stream' = Tail(rx_stream)
  /\ ostr' = IF write_stream_on THEN [ostr EXCEPT !.bufs = Append(@, Head(rx_stream))]
             ELSE ostr
  /\ UNCHANGED <<toCtrl, cmd_stream, fe, reporting, write_stream_on,
                 current_rx_center_freq, looping, n_if, n_rec>>

\* No buffer is there; after STOP the file is closed, and write_stream_on stays.
EndsRound ==
  /\ left > 0 /\ rx_stream = <<>>
  /\ left' = 0
  /\ UNCHANGED <<irQueues, fe, reporting, write_stream_on, current_rx_center_freq,
                 ostr, looping, n_if, n_rec>>

LeavesLoop ==
  /\ ~looping /\ left = 0 /\ ostr.name # "none"
  /\ ostr' = Closed
  /\ UNCHANGED <<irQueues, fe, reporting, left, write_stream_on,
                 current_rx_center_freq, looping, n_if, n_rec>>

-----------------------------------------------------------------------------
\* UI's first command, to tune, is under way.
IrInit ==
  /\ \E f \in FeFreqs : toCtrl = <<f>>
  /\ fe = 0 /\ reporting = FALSE
  /\ cmd_stream = <<>> /\ rx_stream = <<>> /\ left = 0
  /\ write_stream_on = FALSE /\ current_rx_center_freq = 0
  /\ ostr = Closed /\ looping = TRUE
  /\ n_if = 0 /\ n_rec = 0

IrNext == \/ ClientAsks \/ CtrlMoves \/ CtrlReports \/ UsrpRxPuts
          \/ TakesCommand \/ TakesBuffer \/ EndsRound \/ LeavesLoop

IrSpec == IrInit /\ [][IrNext]_irVars

-----------------------------------------------------------------------------
\* A recording has no gap: its buffers follow one another as the receiver put
\* them, whatever commands come in between and however far the recorder is
\* behind; none is missed between the last one written and the next to be read.
\* And its header is where the front end was when the recording was asked for, if
\* no tuning was under way: reports still in the mailbox are heeded first.
RecordingWhole ==
  ostr.name # "none" =>
    /\ \A i \in 2 .. Len(ostr.bufs) : ostr.bufs[i] = ostr.bufs[i - 1] + 1
    /\ ostr.bufs # <<>> /\ rx_stream # <<>> => Head(rx_stream) = Last(ostr.bufs) + 1
    /\ \A f \in ostr.due : ostr.header = f
=============================================================================
