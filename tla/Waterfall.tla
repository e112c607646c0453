----------------------------- MODULE Waterfall ------------------------------
(***************************************************************************)
(* What the operator sees of the receiver.  UI adds the Fourier transform  *)
(* of each RF buffer to the spectrum, and of every fft_update_interval'th  *)
(* spectrum sends the slice round the centre frequency through a socket of *)
(* its own.  The slice is bare numbers.  Its place on the frequency axis   *)
(* is the centre the GUI was told last, through the command socket.  The   *)
(* GUI keeps the last rows in a ring, and the plot asks for a row by its   *)
(* time.  Whether the centre is within the spectrum is module Tuning's.    *)
(***************************************************************************)
EXTENDS Integers, Sequences

CONSTANTS Centres,     \* spectrum centre frequencies
          Rates,       \* positions of the update rate slider
          num_rows,    \* rows of the waterfall (300 in the code)
          num_buckets, \* buckets in a row
          MaxSock, MaxCmd  \* bounds: slices in the socket, the GUI's commands

VARIABLES
  n_cmd, ui_cmds,                    \* commands of the GUI, for the bound; UI's queue
  spectrum_center_freq, fft_send_counter, fft_update_interval,  \* UI
  dims, spect_sock,                  \* command socket (SPEC_DIMS); spectrum socket
  spect_center_freq,                 \* GUI: the centre it was told
  heatmap, start_freq, cur_row_idx, cur_freq_idx   \* GUI: WFallData

ui == <<spectrum_center_freq, fft_send_counter, fft_update_interval>>
plot == <<heatmap, start_freq, cur_row_idx, cur_freq_idx>>
vars == <<n_cmd, ui_cmds, ui, dims, spect_sock, spect_center_freq, plot>>

heatmap_size == num_rows * num_buckets

-----------------------------------------------------------------------------
\* The GUI recentres its plots, or moves the slider.
Ask(target, value) ==
  /\ n_cmd < MaxCmd /\ n_cmd' = n_cmd + 1
  /\ ui_cmds' = Append(ui_cmds, [target |-> target, value |-> value])
  /\ UNCHANGED <<ui, dims, spect_sock, spect_center_freq, plot>>

UICommand(t) ==
  ui_cmds # <<>> /\ Head(ui_cmds).target = t /\ ui_cmds' = Tail(ui_cmds)
Asked == Head(ui_cmds).value

\* reportSpectrumCenterFreq goes straight to the socket.
UICentre ==
  /\ UICommand("SPEC_CENTER_FREQ")
  /\ spectrum_center_freq' = Asked
  /\ dims' = Append(dims, Asked)
  /\ UNCHANGED <<n_cmd, fft_send_counter, fft_update_interval, spect_sock,
                 spect_center_freq, plot>>

UIRate ==
  /\ UICommand("SPEC_UPDATE_RATE")
  /\ fft_update_interval' = 11 - Asked
  /\ UNCHANGED <<n_cmd, spectrum_center_freq, fft_send_counter, dims,
                 spect_sock, spect_center_freq, plot>>

\* sendFFT, for each buffer that USRPRX passes on.
SendFFT ==
  /\ IF fft_send_counter + 1 >= fft_update_interval
       THEN /\ Len(spect_sock) < MaxSock
            /\ spect_sock' = Append(spect_sock, spectrum_center_freq)
            /\ fft_send_counter' = 0
       ELSE /\ fft_send_counter' = fft_send_counter + 1
            /\ UNCHANGED spect_sock
  /\ UNCHANGED <<n_cmd, ui_cmds, spectrum_center_freq, fft_update_interval,
                 dims, spect_center_freq, plot>>

\* SIGNAL configureSpectrum, and setupSpectrumBuffer.
GetDims ==
  /\ dims # <<>>
  /\ dims' = Tail(dims)
  /\ spect_center_freq' = Head(dims)
  /\ UNCHANGED <<n_cmd, ui_cmds, ui, spect_sock, plot>>

-----------------------------------------------------------------------------
(* The ring of rows.                                                       *)

Wraps(i) == i > heatmap_size - num_buckets

\* updateData: the next row, whose content is the centre it was cut around, and
\* the centre that its frequencies are reckoned from.
UpdateData(row, cfreq) ==
  LET next == cur_row_idx + num_buckets
  IN  /\ cur_row_idx' = IF Wraps(next) THEN 0 ELSE next
      /\ cur_freq_idx' = IF Wraps(next) THEN 0 ELSE cur_freq_idx + 1
      /\ heatmap' = [heatmap EXCEPT ![cur_row_idx'] = row]
      /\ start_freq' = [start_freq EXCEPT ![cur_freq_idx'] = cfreq]

\* processSpectrum reads a slice only when there is more behind it.
ProcessSpectrum ==
  /\ Len(spect_sock) > 1
  /\ spect_sock' = Tail(spect_sock)
  /\ UpdateData(Head(spect_sock), spect_center_freq)
  /\ UNCHANGED <<n_cmd, ui_cmds, ui, dims, spect_center_freq>>

\* value(): the indices of the row for time t, from -num_rows to 0.
RowIndex(t) ==
  LET r == cur_row_idx - num_buckets * (t + num_rows)
  IN  IF t = 0 THEN cur_row_idx
      ELSE IF r < 0 THEN r + heatmap_size
      ELSE IF r > heatmap_size - num_buckets THEN r - heatmap_size
      ELSE r

FreqIndex(t) ==
  LET r == cur_row_idx - num_buckets * (t + num_rows)
      q == cur_freq_idx - (t + num_rows)
  IN  IF t = 0 THEN cur_freq_idx
      ELSE IF r < 0 THEN q + num_rows
      ELSE IF r > heatmap_size - num_buckets THEN q - num_rows
      ELSE q

-----------------------------------------------------------------------------
Init ==
  /\ n_cmd = 0 /\ ui_cmds = <<>> /\ fft_send_counter = 0 /\ fft_update_interval = 4
  /\ spectrum_center_freq \in Centres /\ spect_center_freq = spectrum_center_freq
  /\ dims = <<>>
  /\ spect_sock = <<>>
  /\ heatmap = [i \in {num_buckets * k : k \in 0 .. num_rows - 1} |-> 0]
  /\ start_freq = [i \in 0 .. num_rows - 1 |-> 0]
  /\ cur_row_idx = 0 /\ cur_freq_idx = 0

Next ==
  \/ \E c \in Centres : Ask("SPEC_CENTER_FREQ", c)
  \/ \E n \in Rates : Ask("SPEC_UPDATE_RATE", n)
  \/ UICentre \/ UIRate \/ SendFFT
  \/ GetDims \/ ProcessSpectrum

Spec == Init /\ [][Next]_vars

-----------------------------------------------------------------------------
\* "heatmap[i * num_buckets] is the start of the scan for a sample between
\* start_freq[i] and start_freq[i] + span_in_freq" (soda_wfall_data.hpp): at every
\* time of the plot, a row is drawn over the frequencies it was received on.
RowsLabelled ==
  \A t \in -num_rows .. 0 : heatmap[RowIndex(t)] = start_freq[FreqIndex(t)]
=============================================================================
