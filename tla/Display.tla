------------------------------ MODULE Display -------------------------------
(***************************************************************************)
(* The window on the spectrum: which frequencies waterfall and spectrum    *)
(* plot show, where they draw the receiver's marker, and what clicks,      *)
(* buttons, reports of the server and the tuning do to them.               *)
(*                                                                         *)
(* Both plots show a window of the data (a slice round the centre that the *)
(* server was asked for).  The spectrum plot knows where the data is from  *)
(* the report of a new centre, the waterfall only from the next row.       *)
(***************************************************************************)
EXTENDS Integers, Sequences

CONSTANTS
  Targets,       \* frequencies the receiver is tuned to
  Spans,         \* of the frequency span boxes: multiples of 4
  SpectrumSpan,  \* what the server sends (200 kHz), and the waterfall shows at first
  NarrowSpan,    \* what the spectrum plot shows at first (10 kHz)
  Shapes,        \* the edges of the audio filters
  StartAt,       \* the server's centre at first
  PlotAt,        \* the plots'
  Unset,         \* what a member that nobody has set may hold
  MaxSteps, MaxDims   \* bounds: the operator's steps, centres on their way

\* Spans are halved and quartered, in Hz, and no window is wider than the data.
ASSUME DisplayAssumption ==
  /\ Targets \cup Unset \cup {StartAt, PlotAt} \subseteq Int
  /\ \A shape \in Shapes : shape[1] \in Int /\ shape[2] \in Int
  /\ \A s \in Spans \cup {NarrowSpan, SpectrumSpan} :
       s \in 1 .. SpectrumSpan /\ s % 4 = 0

VARIABLES
  wfall, spect,  \* the two plots
  rx_freq,       \* the receiver's frequency, -1 before the settings are restored
  dims,          \* centres asked for and not reported yet
  data_at,       \* the centre reported last
  d_steps        \* bound

displayVars == <<wfall, spect, rx_freq, dims, data_at, d_steps>>

NotTuned == -1

\* initPlot, and what setupWaterFall and setupSpectrum add.  spectrum_input_span
\* and last_input_cfreq of the waterfall are freq_span_in and center_freq_in.
NewPlot(at, span, in, garbage) ==
  [center |-> at, freq_span |-> span, in |-> in, in_span |-> garbage,
   marker |-> garbage, lo |-> 0, hi |-> 1, rect |-> garbage]

-----------------------------------------------------------------------------
(* What the plots do to themselves.                                        *)

Half(n) == n \div 2
Shows(p, f) == f \in p.center - Half(p.freq_span) .. p.center + Half(p.freq_span)

\* Slip: the display's span is not taken off the data's.
CorrectCenterFreqPlain(p, c) ==
  LET top == p.in + Half(p.in_span)  bottom == p.in - Half(p.in_span)
  IN  IF c > top THEN top ELSE IF c < bottom THEN bottom ELSE c

\* The window is pushed down into the data, and then up.
CorrectCenterFreq(p, c) ==
  LET top    == p.in + Half(p.in_span)
      bottom == p.in - Half(p.in_span)
      room   == Half(p.in_span - p.freq_span)
      down   == IF c + Half(p.freq_span) > top THEN p.in + room ELSE c
  IN  IF down - Half(p.freq_span) < bottom THEN p.in - room ELSE down

\* Slip: the marker may be scrolled away.
SetFreqSpanOnly(p, span) ==
  LET q == [p EXCEPT !.freq_span = span]
  IN  [q EXCEPT !.center = CorrectCenterFreq(q, @)]

\* Called with check_boundary by the boxes and on a change of tab.
SetFreqSpan(p, span) ==
  LET q == [p EXCEPT !.freq_span = span]
      r == [q EXCEPT !.center = CorrectCenterFreq(q, @)]
  IN  IF Shows(r, r.marker) THEN r
      ELSE [r EXCEPT !.center = CorrectCenterFreq(r, r.marker)]

SetFreqMarker(p, f) == [p EXCEPT !.marker = f, !.rect = f + p.lo]

SetMarkerOffset(p, shape) ==
  SetFreqMarker([p EXCEPT !.lo = shape[1], !.hi = shape[2]], p.marker)

\* configureSpectrum.  The spectrum plot takes the centre for its marker and
\* does not draw it there.
ConfigureWFall(p, cfreq) == [p EXCEPT !.center = cfreq, !.in_span = SpectrumSpan]
ConfigureSpect(p, cfreq) ==
  [p EXCEPT !.center = cfreq, !.in_span = SpectrumSpan, !.in = cfreq, !.marker = cfreq]

-----------------------------------------------------------------------------
Does == d_steps < MaxSteps /\ d_steps' = d_steps + 1

SetSpectrumCenter(f) == Len(dims) < MaxDims /\ dims' = Append(dims, f)

\* setRXFreq_nocross; retuning to another band, from a hamlib client or with the
\* band selector centres the data too.
TuneDisplay(f, recentre) ==
  /\ Does
  /\ rx_freq' = f
  /\ wfall' = SetFreqMarker(wfall, f) /\ spect' = SetFreqMarker(spect, f)
  /\ IF recentre THEN SetSpectrumCenter(f) ELSE UNCHANGED dims
  /\ UNCHANGED data_at

\* pickPoint, by the first button or the middle one, which also sets and spends
\* center_on_next_setting; its signal xClick reaches the window's setRXFreq.
PickPoint(p, pos, recentre) ==
  LET f == pos - p.lo
  IN  /\ Does
      /\ Shows(p, pos)
      /\ rx_freq' = f
      /\ wfall' = SetFreqMarker(wfall, f) /\ spect' = SetFreqMarker(spect, f)
      /\ IF recentre THEN SetSpectrumCenter(f) ELSE UNCHANGED dims
      /\ UNCHANGED data_at

RX2Center ==
  /\ Does /\ rx_freq # NotTuned /\ SetSpectrumCenter(rx_freq)
  /\ UNCHANGED <<wfall, spect, rx_freq, data_at>>

SpanWFall(span) ==
  /\ Does /\ wfall' = SetFreqSpan(wfall, span)
  /\ UNCHANGED <<spect, rx_freq, dims, data_at>>

SpanSpect(span) ==
  /\ Does /\ spect' = SetFreqSpan(spect, span)
  /\ UNCHANGED <<wfall, rx_freq, dims, data_at>>

\* The arrow buttons.  The spectrum plot ignores check_boundary.
ScrollWFall(dir) ==
  /\ Does
  /\ wfall' = [wfall EXCEPT !.center =
                 CorrectCenterFreq(wfall, @ + dir * (wfall.freq_span \div 4))]
  /\ UNCHANGED <<spect, rx_freq, dims, data_at>>

ScrollSpect(dir) ==
  /\ Does
  /\ spect' = [spect EXCEPT !.center = @ + dir * (spect.freq_span \div 4)]
  /\ UNCHANGED <<wfall, rx_freq, dims, data_at>>

\* Reports of the server: SPEC_DIMS, RX_AF_FILTER_SHAPE, and a row of data.
ReportDims ==
  /\ dims # <<>> /\ dims' = Tail(dims) /\ data_at' = Head(dims)
  /\ wfall' = ConfigureWFall(wfall, Head(dims))
  /\ spect' = ConfigureSpect(spect, Head(dims))
  /\ UNCHANGED <<rx_freq, d_steps>>

ReportShape(shape) ==
  /\ Does
  /\ wfall' = SetMarkerOffset(wfall, shape) /\ spect' = SetMarkerOffset(spect, shape)
  /\ UNCHANGED <<rx_freq, dims, data_at>>

DisplayRow ==
  /\ wfall' = [wfall EXCEPT !.in = data_at]
  /\ UNCHANGED <<spect, rx_freq, dims, data_at, d_steps>>

-----------------------------------------------------------------------------
\* The server has reported once: the first of dims.
DisplayInit ==
  \E garbage \in Unset :
    /\ wfall = NewPlot(PlotAt, SpectrumSpan, 0, garbage)
    /\ spect = NewPlot(PlotAt, NarrowSpan, garbage, garbage)
    /\ rx_freq = NotTuned /\ dims = <<StartAt>> /\ data_at = StartAt /\ d_steps = 0

DisplayNext ==
  \/ \E f \in Targets, r \in BOOLEAN : TuneDisplay(f, r)
  \/ \E pos \in Targets, r \in BOOLEAN :
       PickPoint(wfall, pos, r) \/ PickPoint(spect, pos, r)
  \/ RX2Center
  \/ \E s \in Spans : SpanWFall(s) \/ SpanSpect(s)
  \/ \E d \in {-1, 1} : ScrollWFall(d) \/ ScrollSpect(d)
  \/ ReportDims \/ DisplayRow
  \/ \E s \in Shapes : ReportShape(s)

DisplaySpec == DisplayInit /\ [][DisplayNext]_displayVars

-----------------------------------------------------------------------------
\* The plot is on the data, and knows where that is.
Placed(p) == p.in_span = SpectrumSpan /\ p.in = data_at

Inside(p) ==
  /\ p.center - Half(p.freq_span) >= data_at - Half(SpectrumSpan)
  /\ p.center + Half(p.freq_span) <= data_at + Half(SpectrumSpan)

\* The receiver has been put somewhere, and the data reaches there.
HasData(f) ==
  f # NotTuned /\ f \in data_at - Half(SpectrumSpan) .. data_at + Half(SpectrumSpan)

\* correctCenterFreq and "make sure we don't scroll the marker away" (soda_wfall.cpp
\* setFreqSpan): once a row has told the waterfall where the data is, scrolling and
\* changing its span leave it on the data, and a change of span leaves the frequency
\* the receiver is on in view, if there is data for it; the spectrum plot's
\* change of span leaves it on the data.
ViewKept ==
  [][/\ Placed(wfall) /\ (\E s \in Spans : SpanWFall(s)) =>
          Inside(wfall') /\ (HasData(rx_freq) => Shows(wfall', rx_freq))
     /\ Placed(wfall) /\ (\E d \in {-1, 1} : ScrollWFall(d)) => Inside(wfall')
     /\ Placed(spect) /\ (\E s \in Spans : SpanSpect(s)) => Inside(spect')]_displayVars
=============================================================================
