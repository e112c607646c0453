-------------------------- MODULE FrontPanelProofs --------------------------
(***************************************************************************)
(* That the panel's receiver stays where it was sent and that hamlib hears *)
(* of it, and that bands remember frequencies of their own only: for any   *)
(* bands, clients and frequencies.  Slots are operators from panel to      *)
(* panel, so there is a lemma for each slot, composed as the slots are.    *)
(* Of the plots, that their windows keep to the data and the marker; of    *)
(* the log, that its file always brings the table back; that a restart     *)
(* brings back band and frequencies; and that hamlib's text, cut anywhere, *)
(* does what its commands do.                                              *)
(***************************************************************************)
EXTENDS FrontPanel, LogBook, Display, Rigctl, FiniteSetTheorems, SequenceTheorems,
        WellFoundedInduction, TLAPS

PanelFields == {"band_map", "items", "bandSel", "current", "auto", "lock", "rx", "tx",
                "offset", "mode", "radio", "told"}
EntryFields == {"lo", "hi", "rx", "tx", "mode", "off", "ena"}
Sides == {"rx", "tx"}

EntryInRange(b) == DOMAIN b = EntryFields /\ InBand(b, b.rx) /\ InBand(b, b.tx)
MapInRange(map) == \A n \in DOMAIN map : EntryInRange(map[n])

Sound(p) == /\ DOMAIN p = PanelFields
            /\ DOMAIN p.radio = Sides /\ DOMAIN p.told = Sides
            /\ MapInRange(p.band_map)

\* The receiver is on f, in the window, the radio and the hamlib handler; it is
\* where it was; the handler has heard of it.
On(p, f) == p.rx = f /\ p.radio.rx = f /\ p.told.rx = f
Stays(p, q) == q.rx = p.rx /\ q.radio.rx = p.radio.rx /\ q.told.rx = p.told.rx
Heard(p) == p.told.rx = p.rx

-----------------------------------------------------------------------------
(* The slots, from the innermost out.                                      *)

LEMMA SetRXFreqNocrossSets ==
  ASSUME NEW p, Sound(p), NEW f
  PROVE  LET q == SetRXFreq_nocross(p, f)
         IN  Sound(q) /\ On(q, f) /\ q.lock = p.lock /\ q.auto = p.auto
BY DEF Sound, SetRXFreq_nocross, On, PanelFields, Sides

LEMMA SetTXFreqNocrossStays ==
  ASSUME NEW p, Sound(p), NEW f
  PROVE  LET q == SetTXFreq_nocross(p, f)
         IN  Sound(q) /\ Stays(p, q) /\ q.lock = p.lock /\ q.auto = p.auto
BY DEF Sound, SetTXFreq_nocross, Stays, PanelFields, Sides

\* The lock moves the transmitter only.
LEMMA SetRXFreqSets ==
  ASSUME NEW p, Sound(p), NEW f
  PROVE  LET q == SetRXFreq(p, f) IN Sound(q) /\ On(q, f) /\ q.lock = p.lock
<1> DEFINE q == SetRXFreq_nocross(p, f)
<1>1. Sound(q) /\ On(q, f) /\ q.lock = p.lock
  BY SetRXFreqNocrossSets
<1> HIDE DEF q
<1> DEFINE r == SetTXFreq_nocross(q, f + p.offset)
<1>2. Sound(r) /\ Stays(q, r) /\ r.lock = q.lock
  BY <1>1, SetTXFreqNocrossStays
<1>3. SetRXFreq(p, f) = IF p.lock THEN r ELSE q
  BY DEF SetRXFreq, q
<1> QED BY <1>1, <1>2, <1>3 DEF On, Stays

\* Without the lock the receiver stays; with it the handler hears where it goes.
LEMMA SetTXFreqStays ==
  ASSUME NEW p, Sound(p), NEW f
  PROVE  LET q == SetTXFreq(p, f)
         IN  /\ Sound(q) /\ q.lock = p.lock /\ (Heard(p) => Heard(q))
             /\ ~p.lock => Stays(p, q)
<1> DEFINE q == SetTXFreq_nocross(p, f)
<1>1. Sound(q) /\ Stays(p, q) /\ q.lock = p.lock
  BY SetTXFreqNocrossStays
<1> HIDE DEF q
<1> DEFINE r == SetRXFreq_nocross(q, f - p.offset)
<1>2. Sound(r) /\ On(r, f - p.offset) /\ r.lock = q.lock
  BY <1>1, SetRXFreqNocrossSets
<1>3. SetTXFreq(p, f) = IF p.lock THEN r ELSE q
  BY DEF SetTXFreq, q
<1> QED BY <1>1, <1>2, <1>3 DEF On, Stays, Heard

\* One field of the window changes; the receiver's do not.
LEMMA FieldChanges ==
  ASSUME NEW p, Sound(p), NEW x,
         NEW field \in {"items", "bandSel", "current", "auto", "lock", "tx", "offset", "mode"}
  PROVE  LET q == [p EXCEPT ![field] = x]
         IN  Sound(q) /\ Stays(p, q) /\ (field # "lock" => q.lock = p.lock)
BY DEF Sound, Stays, PanelFields

\* The label shows a frequency; the handler is told of one.
LEMMA LabelShows ==
  ASSUME NEW p, Sound(p), NEW f
  PROVE  Sound([p EXCEPT !.rx = f]) /\ [p EXCEPT !.rx = f].lock = p.lock
BY DEF Sound, PanelFields, Sides

LEMMA HandlerHears ==
  ASSUME NEW p, Sound(p), NEW side \in Sides, NEW f
  PROVE  LET q == [p EXCEPT !.told[side] = f]
         IN  /\ Sound(q) /\ q.rx = p.rx /\ q.radio = p.radio
             /\ side # "rx" => q.told.rx = p.told.rx
BY DEF Sound, PanelFields, Sides

LEMMA NewRXFreqSets ==
  ASSUME NEW p, Sound(p), NEW f
  PROVE  Sound(NewRXFreq(p, f)) /\ On(NewRXFreq(p, f), f) /\ NewRXFreq(p, f).lock = p.lock
<1> DEFINE q == [p EXCEPT !.rx = f]
           r == SetRXFreq(q, f)
           s == [r EXCEPT !.told["rx"] = f]
<1>1. Sound(q) /\ q.lock = p.lock
  BY LabelShows
<1> HIDE DEF q
<1>2. Sound(r) /\ On(r, f) /\ r.lock = q.lock
  BY <1>1, SetRXFreqSets
<1> HIDE DEF r
<1>3. Sound(s) /\ s.rx = r.rx /\ s.radio = r.radio /\ s.told.rx = f /\ s.lock = r.lock
  BY <1>2 DEF Sound, PanelFields, Sides
<1>4. NewRXFreq(p, f) = s
  BY DEF NewRXFreq, q, r
<1> QED BY <1>1, <1>2, <1>3, <1>4 DEF On

LEMMA NewTXFreqStays ==
  ASSUME NEW p, Sound(p), NEW f
  PROVE  LET q == NewTXFreq(p, f)
         IN  /\ Sound(q) /\ (Heard(p) => Heard(q))
             /\ ~p.lock => Stays(p, q)
<1> DEFINE q == [p EXCEPT !["tx"] = f]
           r == SetTXFreq(q, f)
           s == [r EXCEPT !.told["tx"] = f]
<1>1. Sound(q) /\ q.lock = p.lock /\ Stays(p, q)
  BY FieldChanges
<1> HIDE DEF q
<1>2. Sound(r) /\ (Heard(q) => Heard(r)) /\ (~q.lock => Stays(q, r))
  BY <1>1, SetTXFreqStays
<1> HIDE DEF r
<1>3. Sound(s) /\ s.rx = r.rx /\ s.radio = r.radio /\ s.told.rx = r.told.rx
  BY <1>2, HandlerHears DEF Sides
<1>4. NewTXFreq(p, f) = s
  BY DEF NewTXFreq, q, r
<1> HIDE DEF s
<1> QED BY <1>1, <1>2, <1>3, <1>4 DEF Stays, Heard

-----------------------------------------------------------------------------
(* Bands.                                                                  *)

\* Only frequencies in range are remembered.
LEMMA SaveCurrentFreqsKeeps ==
  ASSUME NEW p, Sound(p)
  PROVE  LET q == SaveCurrentFreqs(p)
         IN  Sound(q) /\ Stays(p, q) /\ q.auto = p.auto /\ q.lock = p.lock
<1>1. CASE p.current \notin DOMAIN p.band_map
  BY <1>1 DEF SaveCurrentFreqs, Stays
<1>2. CASE p.current \in DOMAIN p.band_map
  <2> DEFINE b == p.band_map[p.current]
             rx == IF InBand(b, p.rx) THEN p.rx ELSE b.rx
             tx == IF InBand(b, p.tx) THEN p.tx ELSE b.tx
             entry == [b EXCEPT !.rx = rx, !.tx = tx]
             map == [p.band_map EXCEPT ![p.current] = entry]
  <2>1. EntryInRange(b)
    BY <1>2 DEF Sound, MapInRange
  <2>2. InBand(b, rx) /\ InBand(b, tx)
    BY <2>1 DEF EntryInRange
  <2> HIDE DEF rx, tx
  <2>3. EntryInRange(entry)
    BY <2>1, <2>2 DEF EntryInRange, InBand, EntryFields
  <2> HIDE DEF entry
  <2>4. MapInRange(map)
    BY <2>3 DEF Sound, MapInRange
  <2>5. SaveCurrentFreqs(p) = [p EXCEPT !.band_map = map]
    BY <1>2 DEF SaveCurrentFreqs, entry, rx, tx
  <2> HIDE DEF map
  <2> QED BY <2>4, <2>5 DEF Sound, Stays, PanelFields
<1> QED BY <1>1, <1>2

\* A band chosen by the operator brings its frequency along; one that only follows
\* the frequency does not.
LEMMA ChangeBandKeeps ==
  ASSUME NEW p, Sound(p), NEW band
  PROVE  LET q == ChangeBand(p, band)
         IN  Sound(q) /\ (Heard(p) => Heard(q)) /\ (band = p.auto => Stays(p, q))
<1> DEFINE q == IF band # p.current THEN SaveCurrentFreqs(p) ELSE p
           b == q.band_map[band]
           q1 == [q EXCEPT !["offset"] = IF b.ena THEN b.off ELSE 0]
           q2 == [q1 EXCEPT !["mode"] = IF p.auto # None THEN b.mode ELSE q.mode]
           r == SetRXFreq(q2, b.rx)
           byUser == SetTXFreq_nocross(r, IF p.lock THEN b.rx + b.off ELSE b.tx)
           automatic == [q EXCEPT !["auto"] = None]
           s == IF band # p.auto THEN byUser ELSE automatic
           t == [s EXCEPT !["current"] = band]
<1>1. Sound(q) /\ Stays(p, q)
  BY SaveCurrentFreqsKeeps DEF Stays
<1>2. CASE band \notin DOMAIN q.band_map
  <2>1. ChangeBand(p, band) = q
    BY <1>2 DEF ChangeBand
  <2> QED BY <1>1, <2>1 DEF Stays, Heard
<1>3. CASE band \in DOMAIN q.band_map
  <2>1. ChangeBand(p, band) = t
    <3>1. [q EXCEPT !.offset = IF b.ena THEN b.off ELSE 0,
                    !.mode = IF p.auto # None THEN b.mode ELSE @] = q2
      BY <1>1 DEF Sound, PanelFields
    <3> QED BY <1>3, <3>1 DEF ChangeBand
  <2> HIDE DEF q
  <2>2. Sound(q1) /\ Sound(q2)
    <3>1. Sound(q1)
      BY <1>1, FieldChanges
    <3> HIDE DEF q1
    <3> QED BY <3>1, FieldChanges
  <2> HIDE DEF q2
  <2>3. Sound(r) /\ On(r, b.rx)
    BY <2>2, SetRXFreqSets
  <2> HIDE DEF r
  <2>4. Sound(byUser) /\ On(byUser, b.rx)
    BY <2>3, SetTXFreqNocrossStays DEF On, Stays
  <2>5. Sound(automatic) /\ Stays(q, automatic)
    BY <1>1, FieldChanges
  <2> HIDE DEF byUser, automatic
  <2>6. /\ Sound(s) /\ (Heard(p) => Heard(s)) /\ (band = p.auto => Stays(p, s))
    BY <1>1, <2>4, <2>5 DEF On, Stays, Heard
  <2> HIDE DEF s
  <2>7. Sound(t) /\ Stays(s, t)
    BY <2>6, FieldChanges
  <2> HIDE DEF t
  <2> QED BY <2>1, <2>6, <2>7 DEF Stays, Heard
<1> QED BY <1>2, <1>3

LEMMA ShowKeeps ==
  ASSUME NEW p, Sound(p), NEW band
  PROVE  LET q == Show(p, band)
         IN  Sound(q) /\ (Heard(p) => Heard(q)) /\ (band = p.auto => Stays(p, q))
<1> DEFINE q == [p EXCEPT !["bandSel"] = band]
           r == ChangeBand(q, band)
<1>1. Sound(q) /\ Stays(p, q) /\ q.auto = p.auto
  BY DEF Sound, Stays, PanelFields
<1> HIDE DEF q
<1>2. Sound(r) /\ (Heard(q) => Heard(r)) /\ (band = q.auto => Stays(q, r))
  BY <1>1, ChangeBandKeeps
<1> HIDE DEF r
<1>3. Show(p, band) = IF p.bandSel = band THEN p ELSE r
  BY DEF Show, q, r
<1> QED BY <1>1, <1>2, <1>3 DEF Stays, Heard

\* The band display follows the frequency and leaves it where it is.
LEMMA UpdateBandDisplayStays ==
  ASSUME NEW p, Sound(p), NEW f
  PROVE  Sound(UpdateBandDisplay(p, f)) /\ Stays(p, UpdateBandDisplay(p, f))
<1> DEFINE band == FindBand(p.band_map, f)
           q == [p EXCEPT !["auto"] = band]
           r == Show(q, band)
           s == [r EXCEPT !["mode"] = p.mode]
<1> HIDE DEF band
<1>1. Sound(q) /\ Stays(p, q) /\ q.auto = band
  BY DEF Sound, Stays, PanelFields
<1> HIDE DEF q
<1>2. Sound(r) /\ Stays(q, r)
  BY <1>1, ShowKeeps
<1> HIDE DEF r
<1>3. Sound(s) /\ Stays(r, s)
  BY <1>2, FieldChanges
<1>4. UpdateBandDisplay(p, f) = IF band = None THEN p ELSE s
  BY DEF UpdateBandDisplay, band, q, r
<1> HIDE DEF s
<1> QED BY <1>1, <1>2, <1>3, <1>4 DEF Stays

\* A band that is set up remembers the middle of its range.
LEMMA WriteBandMapEntryKeeps ==
  ASSUME NEW p, Sound(p), NEW name \in DOMAIN NewLimits
  PROVE  LET q == WriteBandMapEntry(p, name)
         IN  Sound(q) /\ (Heard(p) => Heard(q)) /\ (p.items # <<>> => Stays(p, q))
<1> DEFINE lo == NewLimits[name][1]
           hi == NewLimits[name][2]
           mid == (lo + hi) \div 2
           b == [lo |-> lo, hi |-> hi, rx |-> mid, tx |-> mid,
                 mode |-> p.mode, off |-> 0, ena |-> FALSE]
           map == [n \in DOMAIN p.band_map \cup {name} |->
                     IF n = name THEN b ELSE p.band_map[n]]
           q == [p EXCEPT !.band_map = map]
           r == [q EXCEPT !["items"] = Append(q.items, name)]
<1>1. lo \in Int /\ hi \in Int /\ lo <= hi
  <2>1. NewLimits[name] \in Int \X Int /\ lo <= hi
    BY PanelAssumption
  <2> QED BY <2>1
<1> HIDE DEF lo, hi
<1>2. mid \in lo .. hi
  BY <1>1
<1> HIDE DEF mid
<1>3. EntryInRange(b)
  BY <1>2 DEF EntryInRange, EntryFields, InBand
<1>4. WriteBandMapEntry(p, name) =
        IF name \in Range(p.items) THEN q
        ELSE IF p.items = <<>> THEN Show(r, name) ELSE r
  BY DEF WriteBandMapEntry, mid, lo, hi
<1> HIDE DEF b
<1>5. MapInRange(map)
  BY <1>3 DEF Sound, MapInRange
<1> HIDE DEF map
<1>6. Sound(q) /\ Stays(p, q)
  BY <1>5 DEF Sound, Stays, PanelFields
<1> HIDE DEF q
<1>7. Sound(r) /\ Stays(q, r)
  BY <1>6, FieldChanges
<1> HIDE DEF r
<1>8. Sound(Show(r, name)) /\ (Heard(r) => Heard(Show(r, name)))
  BY <1>7, ShowKeeps
<1> QED BY <1>4, <1>6, <1>7, <1>8 DEF Stays, Heard

-----------------------------------------------------------------------------
(* The settings file.                                                      *)

LEMMA SavedInRange == ASSUME NEW p, Sound(p) PROVE MapInRange(Saved(p).band_map)
<1>1. MapInRange(SaveCurrentFreqs(p).band_map)
  BY SaveCurrentFreqsKeeps DEF Sound
<1> DEFINE map == SaveCurrentFreqs(p).band_map
<1>2. Saved(p).band_map = map
  BY DEF Saved
<1> QED BY <1>1, <1>2

LEMMA BandMapRestoreKeeps ==
  ASSUME NEW p, Sound(p), NEW file, MapInRange(file.band_map)
  PROVE  Sound(BandMapRestore(p, file))
<1> DEFINE map == [n \in DOMAIN p.band_map \cup DOMAIN file.band_map |->
                     IF n \in DOMAIN file.band_map THEN file.band_map[n]
                     ELSE p.band_map[n]]
           names == Listed(DOMAIN map)
           q == [p EXCEPT !.band_map = map]
           cleared == Show(q, None)
           filled == [cleared EXCEPT !["items"] = names]
<1>1. BandMapRestore(p, file) = IF names = <<>> THEN cleared ELSE Show(filled, names[1])
  BY DEF BandMapRestore
<1> HIDE DEF names
<1>2. MapInRange(map)
  BY DEF Sound, MapInRange
<1> HIDE DEF map
<1>3. Sound(q)
  BY <1>2 DEF Sound, PanelFields
<1> HIDE DEF q
<1>4. Sound(cleared)
  BY <1>3, ShowKeeps
<1> HIDE DEF cleared
<1>5. Sound(filled)
  BY <1>4, FieldChanges
<1> HIDE DEF filled
<1>6. Sound(Show(filled, names[1]))
  BY <1>5, ShowKeeps
<1> QED BY <1>1, <1>4, <1>6

\* The settings that come back are heard of everywhere.
LEMMA RestoreSettingsTells ==
  ASSUME NEW p, Sound(p), NEW file, MapInRange(file.band_map)
  PROVE  Sound(RestoreSettings(p, file)) /\ Heard(RestoreSettings(p, file))
<1> DEFINE q == BandMapRestore(p, file)
           mode == [q EXCEPT !["mode"] = file.mode]
           rx == NewRXFreq(mode, file.rx)
           freqs == NewTXFreq(rx, file.tx)
           lock == [freqs EXCEPT !["lock"] = file.lock]
           band == IF file.index = 0 THEN None ELSE q.items[file.index]
<1>1. Sound(q)
  BY BandMapRestoreKeeps
<1> HIDE DEF q
<1>2. Sound(mode)
  BY <1>1, FieldChanges
<1> HIDE DEF mode
<1>3. Sound(rx) /\ On(rx, file.rx)
  BY <1>2, NewRXFreqSets
<1> HIDE DEF rx
<1>4. Sound(freqs) /\ Heard(freqs)
  BY <1>3, NewTXFreqStays DEF On, Heard
<1> HIDE DEF freqs
<1>5. Sound(lock) /\ Stays(freqs, lock)
  BY <1>4, FieldChanges
<1> HIDE DEF lock
<1>6. RestoreSettings(p, file) = Show(lock, band)
  BY DEF RestoreSettings, WidgetRestore, q, mode, rx, freqs, lock
<1> QED BY <1>4, <1>5, <1>6, ShowKeeps DEF Stays, Heard

-----------------------------------------------------------------------------
(* The invariant.                                                          *)

Slots == [slot : {"setRXFreq", "setTXFreq", "updateBandDisplay"}, f : HlFreqs]

\* A client has told the handler a frequency that the GUI thread will bring.
Emitting(c) == emitting[c] # <<>> /\ emitting[c][1] = "rx"
Underway == \/ \E c \in Clients : Emitting(c)
            \/ \E i \in 1 .. Len(events) : events[i].slot = "setRXFreq"

PanelInv ==
  /\ emitting \in [Clients -> {<<>>} \cup (Sides \X HlFreqs)]
  /\ events \in Seq(Slots)
  /\ Sound(panel) /\ MapInRange(settings.band_map)
  /\ \A f \in asked : panel.rx = f /\ panel.radio.rx = f
  /\ restored => Heard(panel) \/ Underway

LEMMA PanelInvCovers == PanelInv => FrequencyObeyed /\ BandMemoryInRange
<1> SUFFICES ASSUME PanelInv PROVE FrequencyObeyed /\ BandMemoryInRange
  OBVIOUS
<1>1. FrequencyObeyed
  <2>1. events = <<>> => 1 .. Len(events) = {}
    OBVIOUS
  <2> QED BY <2>1 DEF PanelInv, FrequencyObeyed, Heard, Underway, Emitting
<1>2. BandMemoryInRange
  BY DEF PanelInv, BandMemoryInRange, Sound, MapInRange, EntryInRange
<1> QED BY <1>1, <1>2

\* What the operator does leaves the clients' requests where they are.
LEMMA OperatorKeeps ==
  ASSUME PanelInv, NEW p, NEW wish, Operator(p, wish), Sound(p),
         Heard(panel) => Heard(p),
         \A f \in wish : p.rx = f /\ p.radio.rx = f
  PROVE  PanelInv'
<1>1. /\ panel' = p /\ asked' = wish
      /\ UNCHANGED <<settings, restored, emitting, events>>
  BY DEF Operator
<1> QED BY <1>1 DEF PanelInv, Underway, Emitting, Heard

LEMMA PanelActionsKeep ==
  ASSUME PanelInv,
         \/ \E f \in Freqs : TuneRX(f) \/ TuneTX(f)
         \/ RXfreq2TXfreq \/ TXfreq2RXfreq \/ LockClicked
         \/ \E m \in Modes : SelectMode(m)
         \/ \E b \in Range(Order) : SelectBand(b)
         \/ \E b \in DOMAIN NewLimits : BandSetupOK(b)
         \/ OpenConfig
  PROVE  PanelInv'
<1>0. /\ Sound(panel) /\ MapInRange(settings.band_map)
      /\ \A f \in asked : panel.rx = f /\ panel.radio.rx = f
  BY DEF PanelInv
<1>1. ASSUME NEW f \in Freqs, TuneRX(f) PROVE PanelInv'
  <2>1. Sound(NewRXFreq(panel, f)) /\ On(NewRXFreq(panel, f), f)
    BY <1>0, NewRXFreqSets
  <2> QED BY <1>1, <2>1, OperatorKeeps DEF TuneRX, On, Heard
<1>2. ASSUME NEW f \in Freqs, TuneTX(f) PROVE PanelInv'
  <2> DEFINE q == NewTXFreq(panel, f)
  <2>1. Sound(q) /\ (Heard(panel) => Heard(q)) /\ (~panel.lock => Stays(panel, q))
    BY <1>0, NewTXFreqStays
  <2>2. Operator(q, IF panel.lock THEN {} ELSE asked)
    BY <1>2 DEF TuneTX
  <2> HIDE DEF q
  <2> QED BY <1>0, <2>1, <2>2, OperatorKeeps DEF Stays
<1>3. CASE RXfreq2TXfreq
  <2> DEFINE q == SetTXFreq(panel, panel.rx)
  <2>1. Sound(q) /\ (Heard(panel) => Heard(q))
    BY <1>0, SetTXFreqStays
  <2>2. Operator(q, {})
    BY <1>3 DEF RXfreq2TXfreq
  <2> HIDE DEF q
  <2> QED BY <2>1, <2>2, OperatorKeeps
<1>4. CASE TXfreq2RXfreq
  <2> DEFINE q == SetRXFreq(panel, panel.tx)
  <2>1. Sound(q) /\ On(q, panel.tx)
    BY <1>0, SetRXFreqSets
  <2>2. Operator(q, {panel.tx})
    BY <1>4 DEF TXfreq2RXfreq
  <2> HIDE DEF q
  <2> QED BY <2>1, <2>2, OperatorKeeps DEF On, Heard
<1>5. CASE LockClicked
  <2> DEFINE q == [panel EXCEPT !["lock"] = ~panel.lock]
             r == SetRXFreq(q, panel.rx)
  <2>1. Sound(q)
    BY <1>0, FieldChanges
  <2>2. Operator(r, asked)
    BY <1>5 DEF LockClicked
  <2> HIDE DEF q
  <2>3. Sound(r) /\ On(r, panel.rx)
    BY <2>1, SetRXFreqSets
  <2> HIDE DEF r
  <2> QED BY <1>0, <2>2, <2>3, OperatorKeeps DEF On, Heard
<1>6. ASSUME NEW m \in Modes, SelectMode(m) PROVE PanelInv'
  <2> DEFINE q == [panel EXCEPT !["mode"] = m]
  <2>1. Sound(q) /\ Stays(panel, q)
    BY <1>0, FieldChanges
  <2>2. Operator(q, asked)
    BY <1>6 DEF SelectMode
  <2> HIDE DEF q
  <2> QED BY <1>0, <2>1, <2>2, OperatorKeeps DEF Stays, Heard
<1>7. ASSUME NEW b \in Range(Order), SelectBand(b) PROVE PanelInv'
  <2> DEFINE q == Show(panel, b)
  <2>1. Sound(q) /\ (Heard(panel) => Heard(q))
    BY <1>0, ShowKeeps
  <2>2. Operator(q, {})
    BY <1>7 DEF SelectBand
  <2> HIDE DEF q
  <2> QED BY <2>1, <2>2, OperatorKeeps
<1>8. ASSUME NEW b \in DOMAIN NewLimits, BandSetupOK(b) PROVE PanelInv'
  <2> DEFINE q == WriteBandMapEntry(panel, b)
  <2>1. /\ Sound(q) /\ (Heard(panel) => Heard(q))
        /\ panel.items # <<>> => Stays(panel, q)
    BY <1>0, WriteBandMapEntryKeeps
  <2>2. Operator(q, IF panel.items = <<>> THEN {} ELSE asked)
    BY <1>8 DEF BandSetupOK
  <2> HIDE DEF q
  <2> QED BY <1>0, <2>1, <2>2, OperatorKeeps DEF Stays
<1>9. CASE OpenConfig
  <2> DEFINE q == RestoreSettings(panel, settings)
  <2>1. Sound(q) /\ Heard(q)
    BY <1>0, RestoreSettingsTells
  <2>2. Operator(q, {})
    BY <1>9 DEF OpenConfig
  <2> HIDE DEF q
  <2> QED BY <2>1, <2>2, OperatorKeeps
<1> QED BY <1>1, <1>2, <1>3, <1>4, <1>5, <1>6, <1>7, <1>8, <1>9

LEMMA FreshPanelIsSound == \A offset : Sound(FreshPanel(offset))
<1> TAKE offset
<1> DEFINE p == FreshPanel(offset)
<1>1. /\ DOMAIN p = PanelFields /\ DOMAIN p.radio = Sides /\ DOMAIN p.told = Sides
      /\ p.band_map = <<>>
  BY DEF FreshPanel, PanelFields, Sides
<1>2. \A n \in DOMAIN <<>> : EntryInRange(<<>>[n])
  OBVIOUS
<1> HIDE DEF p
<1>3. Sound(p)
  BY <1>1, <1>2 DEF Sound, MapInRange
<1> QED BY <1>3 DEF p

\* The settings file: saving, reading it at the start, leaving the program.
LEMMA SettingsKeep ==
  ASSUME PanelInv, SaveConfig \/ InitSetupComplete \/ Restart PROVE PanelInv'
<1>0. Sound(panel) /\ MapInRange(settings.band_map) /\ MapInRange(Saved(panel).band_map)
  BY SavedInRange DEF PanelInv
<1>1. CASE SaveConfig
  <2>1. /\ settings' = Saved(panel) /\ panel' = SaveCurrentFreqs(panel)
        /\ UNCHANGED <<restored, emitting, events, asked>>
    BY <1>1 DEF SaveConfig
  <2>2. Sound(panel') /\ Stays(panel, panel')
    BY <1>0, <2>1, SaveCurrentFreqsKeeps
  <2>3. MapInRange(settings'.band_map)
    BY <1>0, <2>1
  <2> QED BY <2>1, <2>2, <2>3 DEF PanelInv, Stays, Heard, Underway, Emitting
<1>2. CASE InitSetupComplete
  <2>1. /\ panel' = RestoreSettings(panel, settings) /\ asked' = {}
        /\ UNCHANGED <<settings, emitting, events>>
    BY <1>2 DEF InitSetupComplete
  <2>2. Sound(panel') /\ Heard(panel')
    BY <1>0, <2>1, RestoreSettingsTells
  <2> QED BY <2>1, <2>2 DEF PanelInv
<1>3. CASE Restart
  <2>1. /\ settings' = Saved(panel) /\ restored' = FALSE
        /\ emitting' = [c \in Clients |-> <<>>] /\ events' = <<>> /\ asked' = {}
    BY <1>3 DEF Restart
  <2>2. Sound(panel')
    BY <1>3, FreshPanelIsSound DEF Restart
  <2>3. MapInRange(settings'.band_map)
    BY <1>0, <2>1
  <2> QED BY <2>1, <2>2, <2>3 DEF PanelInv
<1> QED BY <1>1, <1>2, <1>3

LEMMA MoreQueued ==
  ASSUME NEW S, NEW q \in Seq(S), NEW n \in Seq(S), n # <<>>
  PROVE  /\ q \o n \in Seq(S) /\ Len(q) \in Nat /\ Len(q) + 1 \in 1 .. Len(q \o n)
         /\ \A i \in 1 .. Len(q) : i \in 1 .. Len(q \o n) /\ (q \o n)[i] = q[i]
         /\ (q \o n)[Len(q) + 1] = n[1]
<1>1. /\ Len(q) \in Nat /\ Len(n) \in Nat \ {0} /\ q \o n \in Seq(S)
      /\ Len(q \o n) = Len(q) + Len(n)
  BY ConcatProperties
<1>2. \A i \in 1 .. Len(q) + Len(n) :
        (q \o n)[i] = IF i <= Len(q) THEN q[i] ELSE n[i - Len(q)]
  BY <1>1, ConcatProperties
<1>3. \A i \in 1 .. Len(q) : i \in 1 .. Len(q) + Len(n) /\ i <= Len(q)
  BY <1>1
<1>4. /\ Len(q) + 1 \in 1 .. Len(q) + Len(n) /\ ~(Len(q) + 1 <= Len(q))
      /\ (Len(q) + 1) - Len(q) = 1
  BY <1>1
<1> QED BY <1>1, <1>2, <1>3, <1>4

\* A client's thread: the handler's copy first, the GUI thread's queue later.
LEMMA HamlibKeeps ==
  ASSUME PanelInv, NEW c \in Clients, Hamlib(c) PROVE PanelInv'
<1>1. ASSUME NEW which \in Sides, NEW f \in HlFreqs, HlSet(c, which, f) PROVE PanelInv'
  <2>1. /\ emitting[c] = <<>> /\ panel' = [panel EXCEPT !.told[which] = f]
        /\ emitting' = [emitting EXCEPT ![c] = <<which, f>>]
        /\ UNCHANGED <<settings, restored, events, asked>>
    BY <1>1 DEF HlSet
  <2>2. /\ Sound(panel') /\ panel'.rx = panel.rx /\ panel'.radio = panel.radio
        /\ which # "rx" => panel'.told.rx = panel.told.rx
    <3> DEFINE q == [panel EXCEPT !.told[which] = f]
    <3>1. /\ Sound(q) /\ q.rx = panel.rx /\ q.radio = panel.radio
          /\ which # "rx" => q.told.rx = panel.told.rx
      <4>1. Sound(panel)
        BY DEF PanelInv
      <4> QED BY <4>1, HandlerHears
    <3> HIDE DEF q
    <3>2. panel' = q
      BY <2>1 DEF q
    <3> QED BY <3>1, <3>2
  <2>3. /\ emitting' \in [Clients -> {<<>>} \cup (Sides \X HlFreqs)]
        /\ emitting'[c] = <<which, f>>
        /\ \A d \in Clients \ {c} : emitting'[d] = emitting[d]
    BY <2>1 DEF PanelInv
  <2>4. Underway => Underway'
    BY <2>1, <2>3 DEF Underway, Emitting
  <2>5. which = "rx" => Underway'
    BY <2>3 DEF Underway, Emitting
  <2> QED BY <2>1, <2>2, <2>3, <2>4, <2>5 DEF PanelInv, Heard, Sides
<1>2. CASE Emit(c)
  <2> DEFINE f == emitting[c][2]
             rx == <<Queued("setRXFreq", f), Queued("updateBandDisplay", f)>>
             tx == <<Queued("setTXFreq", f), Queued("setTXFreq", f)>>
             new == IF emitting[c][1] = "rx" THEN rx ELSE tx
  <2>1. /\ emitting[c] # <<>> /\ events' = events \o new
        /\ emitting' = [emitting EXCEPT ![c] = <<>>]
        /\ UNCHANGED <<panel, settings, restored, asked>>
    BY <1>2 DEF Emit
  <2>2. events \in Seq(Slots) /\ f \in HlFreqs
    BY <2>1 DEF PanelInv
  <2>3. new \in Seq(Slots) /\ new # <<>>
        /\ (emitting[c][1] = "rx" => new[1].slot = "setRXFreq")
    <3>1. /\ Queued("setRXFreq", f) \in Slots /\ Queued("updateBandDisplay", f) \in Slots
          /\ Queued("setTXFreq", f) \in Slots /\ Queued("setRXFreq", f).slot = "setRXFreq"
      BY <2>2 DEF Queued, Slots
    <3>2. ASSUME NEW x \in Slots, NEW y \in Slots
          PROVE  <<x, y>> \in Seq(Slots) /\ <<x, y>> # <<>> /\ <<x, y>>[1] = x
      OBVIOUS
    <3> QED BY <3>1, <3>2
  <2> HIDE DEF new
  <2>4. /\ events' \in Seq(Slots)
        /\ \A i \in 1 .. Len(events) : i \in 1 .. Len(events') /\ events'[i] = events[i]
        /\ Len(events) + 1 \in 1 .. Len(events') /\ events'[Len(events) + 1] = new[1]
    BY <2>1, <2>2, <2>3, MoreQueued
  <2>5. /\ emitting' \in [Clients -> {<<>>} \cup (Sides \X HlFreqs)]
        /\ \A d \in Clients \ {c} : emitting'[d] = emitting[d]
    BY <2>1 DEF PanelInv
  <2>6. Underway => Underway'
    <3>1. CASE Emitting(c)
      <4>1. Len(events) + 1 \in 1 .. Len(events') /\ events'[Len(events) + 1].slot = "setRXFreq"
        BY <2>3, <2>4, <3>1 DEF Emitting
      <4> QED BY <4>1 DEF Underway
    <3>2. CASE \E d \in Clients \ {c} : Emitting(d)
      BY <2>5, <3>2 DEF Underway, Emitting
    <3>3. CASE \E i \in 1 .. Len(events) : events[i].slot = "setRXFreq"
      BY <2>4, <3>3 DEF Underway
    <3> QED BY <3>1, <3>2, <3>3 DEF Underway
  <2> QED BY <2>1, <2>4, <2>5, <2>6 DEF PanelInv, Heard
<1>3. ASSUME NEW s, CmdSplit(c, s) PROVE PanelInv'
  BY <1>3 DEF CmdSplit, PanelInv, Heard, Underway, Emitting
<1>4. ASSUME NEW f \in HlFreqs, CmdFreq(c, f) \/ CmdSplitFreq(c, f) PROVE PanelInv'
  BY <1>1, <1>4 DEF CmdFreq, CmdSplitFreq, Sides
<1> QED BY <1>2, <1>3, <1>4 DEF Hamlib

LEMMA GuiTakesKeeps == ASSUME PanelInv, GuiTakes PROVE PanelInv'
<1> DEFINE e == events[1]
           f == e.f
<1>1. /\ events # <<>> /\ events' = Tail(events)
      /\ UNCHANGED <<settings, restored, emitting>>
      /\ Sound(panel) /\ \A x \in asked : panel.rx = x /\ panel.radio.rx = x
  BY DEF GuiTakes, PanelInv
<1>2. /\ events \in Seq(Slots) /\ Len(events) \in Nat \ {0} /\ e \in Slots /\ Head(events) = e
      /\ events' \in Seq(Slots) /\ Len(events') = Len(events) - 1
      /\ \A i \in 1 .. Len(events) - 1 : events'[i] = events[i + 1]
  BY <1>1 DEF PanelInv
<1>3. e.slot # "setRXFreq" /\ Underway => Underway'
  <2>1. CASE \E c \in Clients : Emitting(c)
    BY <1>1, <2>1 DEF Underway, Emitting
  <2>2. ASSUME NEW i \in 1 .. Len(events), events[i].slot = "setRXFreq", i # 1
        PROVE  Underway'
    <3>1. i - 1 \in 1 .. Len(events') /\ events'[i - 1].slot = "setRXFreq"
      BY <1>2, <2>2
    <3> QED BY <3>1 DEF Underway
  <2> QED BY <2>1, <2>2 DEF Underway
<1>4. CASE e.slot = "setRXFreq"
  <2>1. panel' = SetRXFreq(panel, f) /\ asked' = {f}
    BY <1>2, <1>4 DEF GuiTakes
  <2>2. Sound(panel') /\ On(panel', f)
    BY <1>1, <2>1, SetRXFreqSets
  <2> QED BY <1>1, <1>2, <2>1, <2>2 DEF PanelInv, On, Heard
<1>5. CASE e.slot = "setTXFreq"
  <2>1. panel' = SetTXFreq(panel, f) /\ asked' = IF panel.lock THEN {} ELSE asked
    BY <1>2, <1>5 DEF GuiTakes
  <2>2. /\ Sound(panel') /\ (Heard(panel) => Heard(panel'))
        /\ ~panel.lock => Stays(panel, panel')
    BY <1>1, <2>1, SetTXFreqStays
  <2>3. \A x \in asked' : panel'.rx = x /\ panel'.radio.rx = x
    BY <1>1, <2>1, <2>2 DEF Stays
  <2> QED BY <1>1, <1>2, <1>3, <1>5, <2>2, <2>3 DEF PanelInv, Heard
<1>6. CASE e.slot = "updateBandDisplay"
  <2>1. panel' = UpdateBandDisplay(panel, f) /\ UNCHANGED asked
    BY <1>2, <1>6 DEF GuiTakes
  <2>2. Sound(panel') /\ Stays(panel, panel')
    BY <1>1, <2>1, UpdateBandDisplayStays
  <2> QED BY <1>1, <1>2, <1>3, <1>6, <2>1, <2>2 DEF PanelInv, Stays, Heard
<1> QED BY <1>2, <1>4, <1>5, <1>6 DEF Slots

LEMMA PanelStartsRight == Init => PanelInv
<1> SUFFICES ASSUME Init PROVE PanelInv
  OBVIOUS
<1> DEFINE p == [FreshPanel(0) EXCEPT !.band_map = FileBands]
           s == Saved(p)
<1>1. MapInRange(FileBands)
  <2> SUFFICES ASSUME NEW n \in DOMAIN FileBands PROVE EntryInRange(FileBands[n])
    BY DEF MapInRange
  <2>1. /\ FileBands[n] \in [lo : Int, hi : Int, rx : Int, tx : Int, mode : Modes,
                             off : Int, ena : BOOLEAN]
        /\ {FileBands[n].rx, FileBands[n].tx} \subseteq FileBands[n].lo .. FileBands[n].hi
    BY PanelAssumption
  <2> QED BY <2>1 DEF EntryInRange, EntryFields, InBand
<1>2. Sound(p)
  BY <1>1, FreshPanelIsSound DEF Sound, PanelFields
<1> HIDE DEF p
<1>3. MapInRange(s.band_map)
  BY <1>2, SavedInRange
<1>4. settings.band_map = s.band_map
  <2>1. settings = [s EXCEPT !.index = 1]
    BY DEF Init, p
  <2>2. "band_map" \in DOMAIN s
    BY DEF Saved
  <2> HIDE DEF s
  <2> QED BY <2>1, <2>2
<1>5. Sound(panel)
  BY FreshPanelIsSound DEF Init
<1> QED BY <1>3, <1>4, <1>5 DEF Init, PanelInv

\* Every step of the panel and of the hamlib clients keeps the invariant.
THEOREM PanelInvariant == Spec => []PanelInv
<1>1. Init => PanelInv
  BY PanelStartsRight
<1>2. PanelInv /\ [Next]_vars => PanelInv'
  <2> SUFFICES ASSUME PanelInv, [Next]_vars PROVE PanelInv'
    OBVIOUS
  <2>1. CASE \E c \in Clients : Hamlib(c)
    BY <2>1, HamlibKeeps
  <2>2. CASE UNCHANGED vars
    BY <2>2 DEF vars, PanelInv, Heard, Underway, Emitting
  <2> QED BY <2>1, <2>2, PanelActionsKeep, SettingsKeep, GuiTakesKeeps DEF Next
<1> QED BY <1>1, <1>2, PTL DEF Spec

\* The receiver stays where it was sent last, and hamlib is told where that is.
THEOREM FrequencyIsObeyed == Spec => []FrequencyObeyed
BY PanelInvCovers, PanelInvariant, PTL

\* Bands, in the window and in the file, remember frequencies of their own only.
THEOREM BandsRememberTheirOwn == Spec => []BandMemoryInRange
BY PanelInvCovers, PanelInvariant, PTL

-----------------------------------------------------------------------------
(* The plots.  A window is pushed down into the data and then up; as it is *)
(* no wider than the data, the second push does not undo the first.        *)

Widths == Spans \cup {NarrowSpan, SpectrumSpan}
Plot == [center: Int, freq_span: Widths, in: Int, in_span: Int, marker: Int,
         lo: Int, hi: Int, rect: Int]

\* The plots are plots, and the waterfall's marker is on the receiver.
DisplayInv ==
  /\ wfall \in Plot /\ spect \in Plot
  /\ rx_freq \in Int /\ data_at \in Int /\ dims \in Seq(Int)
  /\ rx_freq # NotTuned => wfall.marker = rx_freq

LEMMA Halves ==
  ASSUME NEW s \in Widths
  PROVE  \E k, n \in Nat \ {0} : /\ s = 4 * k /\ SpectrumSpan = 4 * n /\ k =< n
                                 /\ Half(s) = 2 * k /\ Half(SpectrumSpan) = 2 * n
                                 /\ Half(SpectrumSpan - s) = 2 * n - 2 * k
<1>0. s \in 1 .. SpectrumSpan /\ s % 4 = 0 /\ SpectrumSpan \in 1 .. SpectrumSpan
      /\ SpectrumSpan % 4 = 0
  BY DisplayAssumption DEF DisplayAssumption, Widths
<1>1. PICK k \in Nat \ {0} : s = 4 * k /\ s =< SpectrumSpan
  <2>1. s = 4 * (s \div 4) /\ s \div 4 \in Nat \ {0} /\ s =< SpectrumSpan
    BY <1>0
  <2> QED BY <2>1
<1>2. PICK n \in Nat \ {0} : SpectrumSpan = 4 * n
  <2>1. SpectrumSpan = 4 * (SpectrumSpan \div 4) /\ SpectrumSpan \div 4 \in Nat \ {0}
    BY <1>0
  <2> QED BY <2>1
<1>3. ASSUME NEW m \in Int PROVE (4 * m) \div 2 = 2 * m
  OBVIOUS
<1>4. SpectrumSpan - s = 4 * (n - k) /\ n - k \in Int /\ k \in Int /\ n \in Int
  BY <1>1, <1>2
<1>5. Half(s) = 2 * k /\ Half(SpectrumSpan) = 2 * n /\ Half(SpectrumSpan - s) = 2 * (n - k)
  BY <1>1, <1>2, <1>3, <1>4 DEF Half
<1> QED BY <1>1, <1>2, <1>5

\* A plot that covers some of d's data and nothing else.
Within(p, d) == /\ p.center - Half(p.freq_span) >= d - Half(SpectrumSpan)
                /\ p.center + Half(p.freq_span) =< d + Half(SpectrumSpan)

LEMMA CorrectedIsInt ==
  ASSUME NEW p \in Plot, NEW c \in Int
  PROVE  CorrectCenterFreq(p, c) \in Int /\ [p EXCEPT !.center = CorrectCenterFreq(p, c)] \in Plot
<1>1. p.freq_span \in Int
  BY Halves DEF Plot
<1>2. p.in \in Int /\ p.in_span \in Int
  BY DEF Plot
<1>3. CorrectCenterFreq(p, c) \in Int
  BY <1>1, <1>2 DEF CorrectCenterFreq, Half
<1> QED BY <1>3 DEF Plot

\* correctCenterFreq puts the window on the data, and keeps what was asked for in it.
LEMMA CorrectedIsOnData ==
  ASSUME NEW p \in Plot, p.in_span = SpectrumSpan, NEW c \in Int
  PROVE  LET q == [p EXCEPT !.center = CorrectCenterFreq(p, c)]
         IN  /\ q \in Plot /\ Within(q, p.in)
             /\ c \in p.in - Half(SpectrumSpan) .. p.in + Half(SpectrumSpan) => Shows(q, c)
<1> DEFINE w == CorrectCenterFreq(p, c)
           q == [p EXCEPT !.center = w]
<1>1. p.freq_span \in Widths /\ p.in \in Int
  BY DEF Plot
<1>2. PICK k, n \in Nat \ {0} :
        /\ p.freq_span = 4 * k /\ SpectrumSpan = 4 * n /\ k =< n
        /\ Half(p.freq_span) = 2 * k /\ Half(SpectrumSpan) = 2 * n
        /\ Half(SpectrumSpan - p.freq_span) = 2 * n - 2 * k
  BY <1>1, Halves
<1>3. w = LET down == IF c + 2 * k > p.in + 2 * n THEN p.in + (2 * n - 2 * k) ELSE c
          IN  IF down - 2 * k < p.in - 2 * n THEN p.in - (2 * n - 2 * k) ELSE down
  BY <1>2 DEF CorrectCenterFreq
<1> HIDE DEF w
<1>4. /\ w \in Int
      /\ w - 2 * k >= p.in - 2 * n /\ w + 2 * k =< p.in + 2 * n
      /\ c \in p.in - 2 * n .. p.in + 2 * n => c \in w - 2 * k .. w + 2 * k
  BY <1>1, <1>2, <1>3
<1>5. q \in Plot /\ q.center = w /\ q.freq_span = p.freq_span
  BY <1>4 DEF Plot
<1> QED BY <1>2, <1>4, <1>5 DEF Within, Shows, w

\* setFreqSpan: the window is on the data, and on the marker if there is data for it.
LEMMA SpanIsOnData ==
  ASSUME NEW p \in Plot, NEW s \in Spans
  PROVE  LET q == SetFreqSpan(p, s)
         IN  /\ q \in Plot /\ q.marker = p.marker
             /\ p.in_span = SpectrumSpan =>
                  /\ Within(q, p.in)
                  /\ p.marker \in p.in - Half(SpectrumSpan) .. p.in + Half(SpectrumSpan)
                       => Shows(q, p.marker)
<1> DEFINE q == [p EXCEPT !.freq_span = s]
           r == [q EXCEPT !.center = CorrectCenterFreq(q, @)]
           t == [r EXCEPT !.center = CorrectCenterFreq(r, r.marker)]
<1>1. /\ q \in Plot /\ q.marker = p.marker /\ q.in = p.in /\ q.in_span = p.in_span
      /\ q.center \in Int
  BY DEF Plot, Widths
<1> HIDE DEF q
<1>2. /\ r \in Plot /\ r.marker = p.marker /\ r.in = p.in /\ r.in_span = p.in_span
      /\ r.marker \in Int
      /\ p.in_span = SpectrumSpan => Within(r, p.in)
  <2>1. CorrectCenterFreq(q, q.center) \in Int
    BY <1>1, CorrectedIsInt
  <2>2. r = [q EXCEPT !.center = CorrectCenterFreq(q, q.center)]
    OBVIOUS
  <2> QED BY <1>1, <2>1, <2>2, CorrectedIsOnData DEF Plot
<1> HIDE DEF r
<1>3. /\ t \in Plot /\ t.marker = p.marker
      /\ p.in_span = SpectrumSpan =>
           /\ Within(t, p.in)
           /\ p.marker \in p.in - Half(SpectrumSpan) .. p.in + Half(SpectrumSpan)
                => Shows(t, p.marker)
  <2>1. t = [r EXCEPT !.center = CorrectCenterFreq(r, p.marker)] /\ p.marker \in Int
    BY <1>2
  <2>2. t \in Plot
    BY <1>2, <2>1, CorrectedIsInt
  <2>3. t.marker = p.marker
    BY <1>2, <2>1 DEF Plot
  <2>4. CASE p.in_span = SpectrumSpan
    BY <1>2, <2>1, <2>2, <2>3, <2>4, CorrectedIsOnData
  <2> QED BY <2>2, <2>3, <2>4
<1>4. SetFreqSpan(p, s) = IF Shows(r, r.marker) THEN r ELSE t
  BY DEF SetFreqSpan, q, r
<1> QED BY <1>2, <1>3, <1>4

\* Whatever moves a marker, offsets it or configures a plot leaves a plot.
LEMMA PlotsMove ==
  ASSUME NEW p \in Plot, NEW f \in Int
  PROVE  /\ SetFreqMarker(p, f) \in Plot /\ SetFreqMarker(p, f).marker = f
         /\ ConfigureWFall(p, f) \in Plot /\ ConfigureWFall(p, f).marker = p.marker
         /\ ConfigureSpect(p, f) \in Plot
         /\ [p EXCEPT !.in = f] \in Plot /\ [p EXCEPT !.in = f].marker = p.marker
         /\ [p EXCEPT !.center = f] \in Plot /\ [p EXCEPT !.center = f].marker = p.marker
<1>1. SpectrumSpan \in Int
  BY DisplayAssumption DEF DisplayAssumption
<1>2. p.lo \in Int
  BY DEF Plot
<1>3. SetFreqMarker(p, f) \in Plot /\ SetFreqMarker(p, f).marker = f
  <2> DEFINE x == f + p.lo
  <2>1. x \in Int
    BY <1>2
  <2> HIDE DEF x
  <2>2. [p EXCEPT !.marker = f, !.rect = x] \in Plot
    BY <2>1 DEF Plot
  <2>3. [p EXCEPT !.marker = f, !.rect = x].marker = f
    BY DEF Plot
  <2> QED BY <2>2, <2>3 DEF SetFreqMarker, x
<1>4. ConfigureWFall(p, f) \in Plot /\ ConfigureWFall(p, f).marker = p.marker
  BY <1>1 DEF Plot, ConfigureWFall
<1>5. ConfigureSpect(p, f) \in Plot
  BY <1>1 DEF Plot, ConfigureSpect
<1>6. [p EXCEPT !.in = f] \in Plot /\ [p EXCEPT !.in = f].marker = p.marker
  BY DEF Plot
<1>7. [p EXCEPT !.center = f] \in Plot /\ [p EXCEPT !.center = f].marker = p.marker
  BY DEF Plot
<1> QED BY <1>3, <1>4, <1>5, <1>6, <1>7

LEMMA ShapesMove ==
  ASSUME NEW p \in Plot, NEW shape \in Shapes
  PROVE  SetMarkerOffset(p, shape) \in Plot /\ SetMarkerOffset(p, shape).marker = p.marker
<1>1. shape[1] \in Int /\ shape[2] \in Int
  BY DisplayAssumption DEF DisplayAssumption
<1> DEFINE q == [p EXCEPT !.lo = shape[1], !.hi = shape[2]]
<1>2. q \in Plot /\ q.marker = p.marker /\ p.marker \in Int
  BY <1>1 DEF Plot
<1>3. p.marker \in Int
  BY DEF Plot
<1> HIDE DEF q
<1>4. SetFreqMarker(q, p.marker) \in Plot /\ SetFreqMarker(q, p.marker).marker = p.marker
  BY <1>2, <1>3, PlotsMove
<1> QED BY <1>4 DEF SetMarkerOffset, q

LEMMA TunedKeeps ==
  ASSUME DisplayInv, NEW f \in Int, NEW recentre \in BOOLEAN,
         rx_freq' = f, wfall' = SetFreqMarker(wfall, f), spect' = SetFreqMarker(spect, f),
         IF recentre THEN SetSpectrumCenter(f) ELSE UNCHANGED dims, UNCHANGED data_at
  PROVE  DisplayInv'
<1>1. wfall' \in Plot /\ spect' \in Plot /\ wfall'.marker = f
  BY PlotsMove DEF DisplayInv
<1>2. dims' \in Seq(Int)
  BY AppendProperties DEF SetSpectrumCenter, DisplayInv
<1> QED BY <1>1, <1>2 DEF DisplayInv

LEMMA DisplayKeeps == ASSUME DisplayInv, DisplayNext PROVE DisplayInv'
<1>1. CASE \E f \in Targets, r \in BOOLEAN : TuneDisplay(f, r)
  <2>1. PICK f \in Targets, r \in BOOLEAN : TuneDisplay(f, r)
    BY <1>1
  <2>2. f \in Int
    BY DisplayAssumption DEF DisplayAssumption
  <2> QED BY <2>1, <2>2, TunedKeeps DEF TuneDisplay
<1>2. CASE \E pos \in Targets, r \in BOOLEAN : PickPoint(wfall, pos, r) \/ PickPoint(spect, pos, r)
  <2>1. PICK pos \in Targets, r \in BOOLEAN, p \in {wfall, spect} : PickPoint(p, pos, r)
    BY <1>2
  <2>2. pos \in Int /\ p.lo \in Int
    BY DisplayAssumption DEF DisplayAssumption, DisplayInv, Plot
  <2>3. pos - p.lo \in Int
    BY <2>2
  <2> QED BY <2>1, <2>3, TunedKeeps DEF PickPoint
<1>3. CASE RX2Center
  <2>1. dims' \in Seq(Int)
    BY <1>3, AppendProperties DEF RX2Center, SetSpectrumCenter, DisplayInv
  <2> QED BY <1>3, <2>1 DEF RX2Center, DisplayInv
<1>4. CASE \E s \in Spans : SpanWFall(s)
  BY <1>4, SpanIsOnData DEF SpanWFall, DisplayInv
<1>5. CASE \E s \in Spans : SpanSpect(s)
  BY <1>5, SpanIsOnData DEF SpanSpect, DisplayInv
<1>6. CASE \E d \in {-1, 1} : ScrollWFall(d) \/ ScrollSpect(d)
  <2>1. PICK d \in {-1, 1} : ScrollWFall(d) \/ ScrollSpect(d)
    BY <1>6
  <2>2. ASSUME NEW p \in Plot
        PROVE  p.center + d * (p.freq_span \div 4) \in Int
    <3>1. p.center \in Int /\ p.freq_span \in Int
      BY Halves DEF Plot
    <3> QED BY <3>1
  <2>3. CASE ScrollWFall(d)
    <3>1. wfall \in Plot
      BY DEF DisplayInv
    <3>2. LET c == CorrectCenterFreq(wfall, wfall.center + d * (wfall.freq_span \div 4))
          IN  c \in Int /\ wfall' = [wfall EXCEPT !.center = c]
      BY <2>2, <2>3, <3>1, CorrectedIsInt DEF ScrollWFall
    <3>3. wfall' \in Plot /\ wfall'.marker = wfall.marker
      BY <3>1, <3>2, PlotsMove
    <3> QED BY <2>3, <3>3 DEF ScrollWFall, DisplayInv
  <2>4. CASE ScrollSpect(d)
    <3>1. spect \in Plot
      BY DEF DisplayInv
    <3>2. spect' = [spect EXCEPT !.center = spect.center + d * (spect.freq_span \div 4)]
      BY <2>4 DEF ScrollSpect
    <3>3. spect' \in Plot
      BY <2>2, <3>1, <3>2, PlotsMove
    <3> QED BY <2>4, <3>3 DEF ScrollSpect, DisplayInv
  <2> QED BY <2>1, <2>3, <2>4
<1>7. CASE ReportDims
  <2>1. Head(dims) \in Int /\ Tail(dims) \in Seq(Int)
    BY <1>7, HeadTailProperties DEF ReportDims, DisplayInv
  <2> QED BY <1>7, <2>1, PlotsMove DEF ReportDims, DisplayInv
<1>8. CASE DisplayRow
  BY <1>8, PlotsMove DEF DisplayRow, DisplayInv
<1>9. CASE \E s \in Shapes : ReportShape(s)
  BY <1>9, ShapesMove DEF ReportShape, DisplayInv
<1> QED BY <1>1, <1>2, <1>3, <1>4, <1>5, <1>6, <1>7, <1>8, <1>9 DEF DisplayNext

\* The plots' part of the invariant: windows are windows, and the waterfall's marker
\* is where the receiver is.
THEOREM DisplayInvariant == DisplaySpec => []DisplayInv
<1>1. DisplayInit => DisplayInv
  <2> SUFFICES ASSUME DisplayInit PROVE DisplayInv
    OBVIOUS
  <2>1. PICK garbage \in Unset :
          /\ wfall = NewPlot(PlotAt, SpectrumSpan, 0, garbage)
          /\ spect = NewPlot(PlotAt, NarrowSpan, garbage, garbage)
    BY DEF DisplayInit
  <2>2. garbage \in Int /\ PlotAt \in Int /\ StartAt \in Int
    BY DisplayAssumption DEF DisplayAssumption
  <2>3. wfall \in Plot /\ spect \in Plot
    BY <2>1, <2>2 DEF NewPlot, Plot, Widths
  <2>4. rx_freq = NotTuned /\ rx_freq \in Int /\ data_at \in Int /\ dims \in Seq(Int)
    BY <2>2 DEF DisplayInit, NotTuned
  <2> QED BY <2>3, <2>4 DEF DisplayInv
<1>2. DisplayInv /\ [DisplayNext]_displayVars => DisplayInv'
  <2> SUFFICES ASSUME DisplayInv, [DisplayNext]_displayVars PROVE DisplayInv'
    OBVIOUS
  <2>1. CASE DisplayNext
    BY <2>1, DisplayKeeps
  <2>2. CASE UNCHANGED displayVars
    BY <2>2 DEF displayVars, DisplayInv
  <2> QED BY <2>1, <2>2
<1> QED BY <1>1, <1>2, PTL DEF DisplaySpec

\* Scrolling and changes of span leave the plots on their data, and a change of span
\* leaves the receiver in the waterfall's view, for any frequencies and spans.
THEOREM ViewIsKept == DisplaySpec => ViewKept
<1> DEFINE Kept ==
      /\ Placed(wfall) /\ (\E s \in Spans : SpanWFall(s)) =>
           Inside(wfall') /\ (HasData(rx_freq) => Shows(wfall', rx_freq))
      /\ Placed(wfall) /\ (\E d \in {-1, 1} : ScrollWFall(d)) => Inside(wfall')
      /\ Placed(spect) /\ (\E s \in Spans : SpanSpect(s)) => Inside(spect')
<1>1. DisplayInv => Kept
  <2> SUFFICES ASSUME DisplayInv PROVE Kept
    OBVIOUS
  <2>1. ASSUME Placed(wfall), NEW s \in Spans, SpanWFall(s)
        PROVE  Inside(wfall') /\ (HasData(rx_freq) => Shows(wfall', rx_freq))
    <3>1. wfall' = SetFreqSpan(wfall, s) /\ wfall \in Plot /\ UNCHANGED data_at
      BY <2>1 DEF SpanWFall, DisplayInv
    <3>2. Within(wfall', data_at) /\ (HasData(rx_freq) => Shows(wfall', rx_freq))
      BY <2>1, <3>1, SpanIsOnData DEF Placed, HasData, DisplayInv
    <3> QED BY <3>1, <3>2 DEF Within, Inside
  <2>2. ASSUME Placed(wfall), NEW d \in {-1, 1}, ScrollWFall(d)
        PROVE  Inside(wfall')
    <3>1. wfall \in Plot /\ UNCHANGED data_at
      BY <2>2 DEF ScrollWFall, DisplayInv
    <3>2. wfall.center \in Int /\ wfall.freq_span \in Int
      BY <3>1, Halves DEF Plot
    <3>3. wfall.center + d * (wfall.freq_span \div 4) \in Int
      BY <3>2
    <3>4. Within(wfall', data_at)
      BY <2>2, <3>1, <3>3, CorrectedIsOnData DEF ScrollWFall, Placed
    <3> QED BY <3>1, <3>4 DEF Within, Inside
  <2>3. ASSUME Placed(spect), NEW s \in Spans, SpanSpect(s)
        PROVE  Inside(spect')
    <3>1. spect' = SetFreqSpan(spect, s) /\ spect \in Plot /\ UNCHANGED data_at
      BY <2>3 DEF SpanSpect, DisplayInv
    <3>2. Within(spect', data_at)
      BY <2>3, <3>1, SpanIsOnData DEF Placed
    <3> QED BY <3>1, <3>2 DEF Within, Inside
  <2> QED BY <2>1, <2>2, <2>3
<1>2. DisplayInv => [Kept]_displayVars
  BY <1>1
<1> HIDE DEF Kept
<1>3. DisplaySpec => [][Kept]_displayVars
  BY <1>2, DisplayInvariant, PTL
<1> QED BY <1>3 DEF ViewKept, Kept

-----------------------------------------------------------------------------
(* The log, for any number of columns, texts, names and operations: the    *)
(* open file and the table on the screen say the same of every cell that   *)
(* no step of writeLogReport has still to write; and the row for the next  *)
(* contact lies, or will lie when the slot is through, behind all rows     *)
(* that are filled or about to be.                                         *)

Cells == Nat \X (0 .. LastCol)
Lines == [row : Nat, col : 0 .. LastCol, text : Texts]
Steps == [op : {"set", "load"}, line : Lines] \cup [op : {"need", "next"}, row : Nat]
           \cup [op : {"dump"}, at : Cells]

CellOf(l) == <<l.row, l.col>>
LastFor(lines, i, at) ==
  /\ i \in 1 .. Len(lines) /\ CellOf(lines[i]) = at
  /\ \A j \in i + 1 .. Len(lines) : CellOf(lines[j]) # at

TableOK(table) ==
  /\ table = [at \in DOMAIN table |-> table[at]] /\ DOMAIN table \subseteq Cells
  /\ \A at \in DOMAIN table : table[at] \in Texts
FilesOK(fs) ==
  fs = [f \in DOMAIN fs |-> fs[f]] /\ \A f \in DOMAIN fs : fs[f] \in Seq(Lines)

LogTypeOK ==
  /\ TableOK(items) /\ FilesOK(files)
  /\ rowCount \in Nat /\ next_used_row \in Nat /\ logged \subseteq Nat
  /\ log_file_out \in DOMAIN files \cup {"none"}
  /\ todo \in Seq(Steps) /\ running \in BOOLEAN /\ blank_read \in BOOLEAN

\* The last line for each cell has its text, or the cell has yet to be written.
Recorded(lines, table, at) ==
  \E i \in 1 .. Len(lines) : LastFor(lines, i, at) /\ lines[i].text = table[at]
ToBeDumped(steps, at) == \E j \in 1 .. Len(steps) : steps[j].op = "dump" /\ steps[j].at = at

Tells(lines, table, steps) ==
  /\ \A i \in 1 .. Len(lines) : CellOf(lines[i]) \in DOMAIN table
  /\ \A at \in DOMAIN table : Recorded(lines, table, at) \/ ToBeDumped(steps, at)

Fills(step) == step.op \in {"set", "load"}

\* The one step that moves next_used_row on, behind all steps that fill a row.
Awaited(steps, k, rows) ==
  /\ k \in 1 .. Len(steps) /\ steps[k].op = "next"
  /\ \A row \in rows : row < steps[k].row
  /\ \A j \in 1 .. Len(steps) :
       /\ steps[j].op = "next" => j = k
       /\ Fills(steps[j]) => j < k /\ steps[j].line.row < steps[k].row

Ahead(steps, rows, next) ==
  \/ /\ \A row \in rows : row < next
     /\ \A j \in 1 .. Len(steps) : steps[j].op # "next" /\ ~ Fills(steps[j])
  \/ \E k \in 1 .. Len(steps) : Awaited(steps, k, rows)

\* Cells are in rows that there are; the steps of writeLogReport are by themselves.
RowsSuffice(table, rows) == \A at \in DOMAIN table : at[1] < rows
Alike(steps) == \A j \in 1 .. Len(steps) : steps[j].op = "dump" <=> steps[1].op = "dump"

LbInv ==
  /\ LogTypeOK
  /\ ~running => todo = <<>>
  /\ RowsSuffice(items, rowCount)
  /\ Alike(todo)
  /\ running /\ log_file_out # "none" => Tells(files[log_file_out], items, todo)
  /\ running /\ ~blank_read => Ahead(todo, logged, next_used_row)

-----------------------------------------------------------------------------
(* The greatest of some numbers.                                           *)

LEMMA NatMinimum == ASSUME NEW T \in SUBSET Nat, T # {}
                    PROVE  \E x \in T : \A y \in T : x <= y
<1> DEFINE R == OpToRel(<, Nat)
<1>1. IsWellFoundedOn(R, Nat)
  BY NatLessThanWellFounded
<1>2. \A x, y \in Nat : <<y, x>> \in R <=> y < x
  BY DEF OpToRel
<1> HIDE DEF R
<1>3. \E x \in T : \A y \in T : ~ (<<y, x>> \in R)
  BY <1>1, WFMin
<1>4. PICK x \in T : \A y \in T : ~ (<<y, x>> \in R)
  BY <1>3
<1>5. ASSUME NEW y \in T PROVE x <= y
  <2>1. x \in Nat /\ y \in Nat /\ ~ (y < x)
    BY <1>2, <1>4
  <2> QED BY <2>1
<1> QED BY <1>5

\* The values of a finite sequence have a greatest; with -1, so have no values.
LEMMA GreatestOfSome ==
  ASSUME NEW n \in Nat, NEW f, \A i \in 1 .. n : f[i] \in Nat
  PROVE  LET S == {-1} \cup {f[i] : i \in 1 .. n}
         IN  Max(S) \in S /\ \A x \in S : x <= Max(S)
<1> DEFINE S(k) == {-1} \cup {f[i] : i \in 1 .. k}
           Has(k) == \E m \in S(k) : \A x \in S(k) : m >= x
           T == {k \in 0 .. n : ~ Has(k)}
<1>1. T = {}
  <2> SUFFICES ASSUME T # {} PROVE FALSE
    OBVIOUS
  <2>1. PICK k \in T : \A y \in T : k <= y
    <3>1. T \in SUBSET Nat
      OBVIOUS
    <3> HIDE DEF T
    <3> QED BY <3>1, NatMinimum
  <2>2. CASE k = 0
    <3>1. S(0) = {-1}
      OBVIOUS
    <3> QED BY <2>2, <3>1
  <2>3. CASE k # 0
    <3>0. k \in 1 .. n /\ k - 1 \in 0 .. n /\ ~ (k <= k - 1)
      BY <2>3
    <3>1. k - 1 \in 0 .. n /\ k - 1 \notin T /\ k \in 1 .. n
      <4> HIDE DEF T
      <4> QED BY <2>1, <3>0
    <3>2. PICK m \in S(k - 1) : \A x \in S(k - 1) : m >= x
      BY <3>1
    <3>i. \A i \in 1 .. k : (i \in 1 .. k - 1 \/ i = k) /\ i \in 1 .. n
      BY <3>0
    <3>j. \A i \in 1 .. k - 1 : i \in 1 .. k
      BY <3>0
    <3> DEFINE V(h) == {f[i] : i \in 1 .. h}
    <3>u. V(k) = V(k - 1) \cup {f[k]} /\ V(k) \subseteq Int
      <4>1. ASSUME NEW x \in V(k) PROVE x \in V(k - 1) \cup {f[k]} /\ x \in Int
        <5>1. PICK i \in 1 .. k : x = f[i]
          BY <4>1
        <5>2. i \in 1 .. n /\ (i \in 1 .. k - 1 \/ i = k)
          BY <3>i
        <5> QED BY <5>1, <5>2
      <4>2. ASSUME NEW x \in V(k - 1) \cup {f[k]} PROVE x \in V(k)
        <5>1. CASE x = f[k]
          <6>1. k \in 1 .. k
            BY <3>0
          <6> QED BY <5>1, <6>1
        <5>2. CASE x \in V(k - 1)
          BY <3>j, <5>2
        <5> QED BY <4>2, <5>1, <5>2
      <4> HIDE DEF V
      <4> QED BY <4>1, <4>2
    <3>v. S(k) = {-1} \cup V(k) /\ S(k - 1) = {-1} \cup V(k - 1) /\ -1 \in Int
      OBVIOUS
    <3>3. S(k) = S(k - 1) \cup {f[k]} /\ S(k) \subseteq Int
      <4> HIDE DEF V, S
      <4> QED BY <3>u, <3>v
    <3>4. Has(k)
      <4>1. CASE m >= f[k]
        BY <3>2, <3>3, <4>1
      <4>2. CASE ~(m >= f[k])
        <5>1. f[k] \in S(k) /\ m \in Int /\ f[k] \in Int /\ f[k] > m
          BY <3>1, <3>2, <3>3, <4>2
        <5>2. ASSUME NEW x \in S(k) PROVE f[k] >= x
          <6>1. x \in Int /\ (x = f[k] \/ m >= x)
            BY <3>2, <3>3
          <6> QED BY <5>1, <6>1
        <5> QED BY <5>1, <5>2
      <4> QED BY <4>1, <4>2
    <3> QED BY <2>1, <3>4
  <2> QED BY <2>2, <2>3
<1>2. Has(n)
  <2>1. n \in 0 .. n
    OBVIOUS
  <2> HIDE DEF Has
  <2>2. \A k \in 0 .. n : Has(k)
    BY <1>1
  <2> QED BY <2>1, <2>2
<1>3. Max(S(n)) \in S(n) /\ \A x \in S(n) : Max(S(n)) >= x
  <2> DEFINE U == S(n)
  <2>1. \E m \in U : \A x \in U : m >= x
    BY <1>2
  <2> HIDE DEF U
  <2>2. Max(U) \in U /\ \A x \in U : Max(U) >= x
    BY <2>1 DEF Max
  <2> QED BY <2>2 DEF U
<1>4. S(n) \subseteq Int
  OBVIOUS
<1>5. \A x \in S(n) : x <= Max(S(n))
  BY <1>3, <1>4
<1> QED BY <1>3, <1>5

-----------------------------------------------------------------------------
(* Files and tables.                                                       *)

LEMMA WithIs ==
  ASSUME NEW f, NEW x, NEW v
  PROVE  /\ DOMAIN With(f, x, v) = DOMAIN f \cup {x} /\ With(f, x, v)[x] = v
         /\ \A y \in DOMAIN f : y # x => With(f, x, v)[y] = f[y]
         /\ With(f, x, v) = [y \in DOMAIN With(f, x, v) |-> With(f, x, v)[y]]
  BY DEF With

\* One line more.
LEMMA LineBehind ==
  ASSUME NEW lines \in Seq(Lines), NEW l \in Lines
  PROVE  LET more == lines \o <<l>>
         IN  /\ more \in Seq(Lines) /\ Len(more) = Len(lines) + 1 /\ Len(lines) \in Nat
             /\ \A i \in 1 .. Len(lines) : more[i] = lines[i]
             /\ more[Len(lines) + 1] = l
             /\ \A i \in 1 .. Len(more) : i \in 1 .. Len(lines) \/ i = Len(lines) + 1
<1> DEFINE q == <<l>>
           more == lines \o q
<1>1. q \in Seq(Lines) /\ Len(q) = 1 /\ q[1] = l
  OBVIOUS
<1> HIDE DEF q
<1>2. more \in Seq(Lines) /\ Len(more) = Len(lines) + 1 /\ Len(lines) \in Nat
  <2>1. more \in Seq(Lines) /\ Len(more) = Len(lines) + Len(q)
    BY <1>1, ConcatProperties
  <2> QED BY <1>1, <2>1, LenProperties
<1>3. \A i \in 1 .. Len(lines) + Len(q) :
        more[i] = IF i <= Len(lines) THEN lines[i] ELSE q[i - Len(lines)]
  BY <1>1, ConcatProperties
<1> HIDE DEF more
<1>4. ASSUME NEW i \in 1 .. Len(lines) PROVE more[i] = lines[i]
  BY <1>1, <1>2, <1>3
<1>5. more[Len(lines) + 1] = l
  <2>1. Len(lines) + 1 \in 1 .. Len(lines) + Len(q) /\ ~(Len(lines) + 1 <= Len(lines))
    BY <1>1, <1>2
  <2>2. (Len(lines) + 1) - Len(lines) = 1
    BY <1>2
  <2> QED BY <1>1, <1>3, <2>1, <2>2
<1>6. \A i \in 1 .. Len(more) : i \in 1 .. Len(lines) \/ i = Len(lines) + 1
  BY <1>2
<1> QED BY <1>2, <1>4, <1>5, <1>6 DEF more, q

\* The cell of the new line is recorded with its text, the others as before.
LEMMA RecordedBehind ==
  ASSUME NEW lines \in Seq(Lines), NEW l \in Lines, NEW table, NEW at
  PROVE  /\ at = CellOf(l) /\ table[at] = l.text => Recorded(lines \o <<l>>, table, at)
         /\ \A old : at # CellOf(l) /\ Recorded(lines, old, at) /\ table[at] = old[at]
                       => Recorded(lines \o <<l>>, table, at)
<1> DEFINE more == lines \o <<l>>
<1>1. /\ Len(more) = Len(lines) + 1 /\ Len(lines) \in Nat
      /\ \A i \in 1 .. Len(lines) : more[i] = lines[i]
      /\ more[Len(lines) + 1] = l
      /\ \A i \in 1 .. Len(more) : i \in 1 .. Len(lines) \/ i = Len(lines) + 1
  BY LineBehind
<1> HIDE DEF more
<1>2. ASSUME at = CellOf(l), table[at] = l.text PROVE Recorded(more, table, at)
  <2>1. LastFor(more, Len(lines) + 1, at)
    BY <1>1, <1>2 DEF LastFor
  <2>2. Len(lines) + 1 \in 1 .. Len(more)
    BY <1>1
  <2> QED BY <1>1, <1>2, <2>1, <2>2 DEF Recorded
<1>3. ASSUME NEW old, at # CellOf(l), Recorded(lines, old, at), table[at] = old[at]
      PROVE  Recorded(more, table, at)
  <2>1. PICK i \in 1 .. Len(lines) : LastFor(lines, i, at) /\ lines[i].text = old[at]
    BY <1>3 DEF Recorded
  <2>2. i \in 1 .. Len(more) /\ more[i] = lines[i]
    BY <1>1
  <2>3. ASSUME NEW j \in i + 1 .. Len(more) PROVE CellOf(more[j]) # at
    <3>1. j \in i + 1 .. Len(lines) \/ j = Len(lines) + 1
      BY <1>1
    <3>2. CASE j \in i + 1 .. Len(lines)
      <4>1. j \in 1 .. Len(lines) /\ CellOf(lines[j]) # at
        BY <2>1, <3>2 DEF LastFor
      <4> QED BY <1>1, <4>1
    <3> QED BY <1>1, <1>3, <3>1, <3>2
  <2>4. LastFor(more, i, at)
    BY <2>1, <2>2, <2>3 DEF LastFor
  <2> QED BY <1>3, <2>1, <2>2, <2>4 DEF Recorded
<1> QED BY <1>2, <1>3 DEF more

\* No step of writeLogReport is due: one cell is put, and one line written.
LEMMA TellsPut ==
  ASSUME NEW lines \in Seq(Lines), NEW l \in Lines, NEW table, NEW steps, NEW later,
         Tells(lines, table, steps), \A at : ~ ToBeDumped(steps, at)
  PROVE  Tells(lines \o <<l>>, With(table, CellOf(l), l.text), later)
<1> DEFINE more == lines \o <<l>>
           new == With(table, CellOf(l), l.text)
<1>1. /\ Len(lines) \in Nat
      /\ \A i \in 1 .. Len(lines) : more[i] = lines[i]
      /\ more[Len(lines) + 1] = l
      /\ \A i \in 1 .. Len(more) : i \in 1 .. Len(lines) \/ i = Len(lines) + 1
  BY LineBehind
<1>2. /\ DOMAIN new = DOMAIN table \cup {CellOf(l)} /\ new[CellOf(l)] = l.text
      /\ \A at \in DOMAIN table : at # CellOf(l) => new[at] = table[at]
  BY DEF With
<1>3. ASSUME NEW at \in DOMAIN new PROVE Recorded(more, new, at)
  <2>1. CASE at = CellOf(l)
    BY <1>2, <2>1, RecordedBehind
  <2>2. CASE at # CellOf(l)
    <3>1. at \in DOMAIN table /\ new[at] = table[at]
      BY <1>2, <1>3, <2>2
    <3>2. Recorded(lines, table, at)
      BY <3>1 DEF Tells
    <3> QED BY <2>2, <3>1, <3>2, RecordedBehind
  <2> QED BY <2>1, <2>2
<1> HIDE DEF more, new
<1>4. ASSUME NEW i \in 1 .. Len(more) PROVE CellOf(more[i]) \in DOMAIN new
  BY <1>1, <1>2 DEF Tells
<1> QED BY <1>3, <1>4 DEF Tells, more, new

\* The first of some steps, and the steps behind it.
LEMMA StepsTail ==
  ASSUME NEW s \in Seq(Steps), s # <<>>
  PROVE  /\ Tail(s) \in Seq(Steps) /\ Head(s) = s[1] /\ s[1] \in Steps
         /\ Len(s) \in Nat /\ 1 \in 1 .. Len(s) /\ Len(Tail(s)) = Len(s) - 1
         /\ \A j \in 1 .. Len(Tail(s)) : Tail(s)[j] = s[j + 1] /\ j + 1 \in 1 .. Len(s)
         /\ \A j \in 1 .. Len(s) : j = 1 \/ (j - 1 \in 1 .. Len(Tail(s)) /\ Tail(s)[j - 1] = s[j])
<1> DEFINE S == Steps
<1> HIDE DEF S
<1>0. s \in Seq(S)
  BY DEF S
<1>1. Tail(s) \in Seq(S) /\ Head(s) = s[1] /\ Len(s) \in Nat /\ Len(s) # 0
  BY <1>0
<1>2. Len(Tail(s)) = Len(s) - 1
  BY <1>0
<1>3. \A j \in 1 .. Len(s) - 1 : Tail(s)[j] = s[j + 1]
  BY <1>0
<1>4. 1 \in 1 .. Len(s)
  BY <1>1
<1>5. s[1] \in S
  BY <1>0, <1>4
<1>6. ASSUME NEW j \in 1 .. Len(s), j # 1
      PROVE  j - 1 \in 1 .. Len(s) - 1 /\ (j - 1) + 1 = j
  BY <1>1, <1>6
<1>7. \A j \in 1 .. Len(s) - 1 : j + 1 \in 1 .. Len(s)
  BY <1>1
<1> QED BY <1>1, <1>2, <1>3, <1>4, <1>5, <1>6, <1>7 DEF S

\* writeLogReport has come to a cell.
LEMMA TellsDump ==
  ASSUME NEW lines \in Seq(Lines), NEW table, NEW steps \in Seq(Steps), steps # <<>>,
         DOMAIN table \subseteq Cells, \A at \in DOMAIN table : table[at] \in Texts,
         Head(steps).op = "dump", Tells(lines, table, steps)
  PROVE  LET at == Head(steps).at
             l  == Line(at[1], at[2], table[at])
         IN  IF at \in DOMAIN table
             THEN l \in Lines /\ Tells(lines \o <<l>>, table, Tail(steps))
             ELSE Tells(lines, table, Tail(steps))
<1> DEFINE at == Head(steps).at
           l  == Line(at[1], at[2], table[at])
           more == lines \o <<l>>
<1>1. ASSUME NEW o, o # at, ToBeDumped(steps, o) PROVE ToBeDumped(Tail(steps), o)
  BY <1>1, StepsTail, SMTT(30) DEF ToBeDumped
<1>2. CASE at \notin DOMAIN table
  BY <1>1, <1>2 DEF Tells
<1>3. CASE at \in DOMAIN table
  <2>1. l \in Lines /\ CellOf(l) = at /\ l.text = table[at]
    BY <1>3 DEF Line, Lines, CellOf, Cells
  <2> HIDE DEF l, at
  <2>2. /\ Len(lines) \in Nat
        /\ \A i \in 1 .. Len(lines) : more[i] = lines[i]
        /\ more[Len(lines) + 1] = l
        /\ \A i \in 1 .. Len(more) : i \in 1 .. Len(lines) \/ i = Len(lines) + 1
    BY <2>1, LineBehind
  <2>3. ASSUME NEW o \in DOMAIN table
        PROVE  Recorded(more, table, o) \/ ToBeDumped(Tail(steps), o)
    <3>1. CASE o = at
      BY <2>1, <3>1, RecordedBehind
    <3>2. CASE o # at
      <4>1. Recorded(lines, table, o) \/ ToBeDumped(Tail(steps), o)
        BY <1>1, <3>2 DEF Tells
      <4>2. Recorded(lines, table, o) => Recorded(more, table, o)
        BY <2>1, <3>2, RecordedBehind
      <4> QED BY <4>1, <4>2
    <3> QED BY <3>1, <3>2
  <2> HIDE DEF more
  <2>4. ASSUME NEW i \in 1 .. Len(more) PROVE CellOf(more[i]) \in DOMAIN table
    BY <1>3, <2>1, <2>2 DEF Tells
  <2>5. Tells(more, table, Tail(steps))
    BY <2>3, <2>4 DEF Tells
  <2> QED BY <1>3, <2>1, <2>5 DEF l, at, more
<1> QED BY <1>2, <1>3

-----------------------------------------------------------------------------
(* The rows behind.                                                        *)

\* A step that fills a row at most, or none.
LEMMA AheadOn ==
  ASSUME NEW s \in Seq(Steps), s # <<>>, NEW rows, NEW more, NEW next,
         Ahead(s, rows, next), Head(s).op # "next",
         \A row \in more : row \in rows \/ (Fills(Head(s)) /\ row = Head(s).line.row)
  PROVE  Ahead(Tail(s), more, next)
<1> DEFINE t == Tail(s)
<1>1. /\ Head(s) = s[1] /\ 1 \in 1 .. Len(s)
      /\ \A j \in 1 .. Len(t) : t[j] = s[j + 1] /\ j + 1 \in 1 .. Len(s)
      /\ \A j \in 1 .. Len(s) : j = 1 \/ (j - 1 \in 1 .. Len(t) /\ t[j - 1] = s[j])
  BY StepsTail
<1> HIDE DEF t
<1>2. CASE \E k \in 1 .. Len(s) : Awaited(s, k, rows)
  <2>1. PICK k \in 1 .. Len(s) : Awaited(s, k, rows)
    BY <1>2
  <2>2. k # 1
    BY <1>1, <2>1 DEF Awaited
  <2>3. k - 1 \in 1 .. Len(t) /\ t[k - 1] = s[k] /\ t[k - 1].op = "next"
    BY <1>1, <2>1, <2>2 DEF Awaited
  <2>4. ASSUME NEW row \in more PROVE row < t[k - 1].row
    BY <1>1, <2>1, <2>3 DEF Awaited
  <2>5. ASSUME NEW j \in 1 .. Len(t)
        PROVE  /\ t[j].op = "next" => j = k - 1
               /\ Fills(t[j]) => j < k - 1 /\ t[j].line.row < t[k - 1].row
    <3>1. t[j] = s[j + 1] /\ j + 1 \in 1 .. Len(s)
      BY <1>1
    <3>2. /\ t[j].op = "next" => j + 1 = k
          /\ Fills(t[j]) => j + 1 < k /\ t[j].line.row < t[k - 1].row
      BY <2>1, <2>3, <3>1 DEF Awaited
    <3> QED BY <3>1, <3>2
  <2>6. Awaited(t, k - 1, more)
    BY <2>3, <2>4, <2>5 DEF Awaited
  <2> QED BY <2>3, <2>6 DEF Ahead, t
<1>3. CASE ~ \E k \in 1 .. Len(s) : Awaited(s, k, rows)
  <2>1. /\ \A row \in rows : row < next
        /\ \A j \in 1 .. Len(s) : s[j].op # "next" /\ ~ Fills(s[j])
    BY <1>3 DEF Ahead
  <2>2. \A row \in more : row < next
    BY <1>1, <2>1
  <2>3. \A j \in 1 .. Len(t) : t[j].op # "next" /\ ~ Fills(t[j])
    BY <1>1, <2>1
  <2> QED BY <2>2, <2>3 DEF Ahead, t
<1> QED BY <1>2, <1>3

\* The step that moves next_used_row on.
LEMMA AheadThen ==
  ASSUME NEW s \in Seq(Steps), s # <<>>, NEW rows, NEW next,
         Ahead(s, rows, next), Head(s).op = "next"
  PROVE  Ahead(Tail(s), rows, Head(s).row)
<1> DEFINE t == Tail(s)
<1>1. /\ Head(s) = s[1] /\ 1 \in 1 .. Len(s)
      /\ \A j \in 1 .. Len(t) : t[j] = s[j + 1] /\ j + 1 \in 1 .. Len(s)
  BY StepsTail
<1> HIDE DEF t
<1>2. PICK k \in 1 .. Len(s) : Awaited(s, k, rows)
  BY <1>1 DEF Ahead
<1>3. k = 1 /\ \A row \in rows : row < Head(s).row
  BY <1>1, <1>2 DEF Awaited
<1>4. ASSUME NEW j \in 1 .. Len(t) PROVE t[j].op # "next" /\ ~ Fills(t[j])
  <2>1. t[j] = s[j + 1] /\ j + 1 \in 1 .. Len(s) /\ j + 1 # 1 /\ ~(j + 1 < 1)
    BY <1>1
  <2> QED BY <1>2, <1>3, <2>1 DEF Awaited
<1> QED BY <1>3, <1>4 DEF Ahead, t

LEMMA AlikeTail ==
  ASSUME NEW s \in Seq(Steps), s # <<>>, Alike(s)
  PROVE  Alike(Tail(s)) /\ (Head(s).op # "dump" => \A at : ~ ToBeDumped(s, at))
<1> DEFINE t == Tail(s)
<1>1. /\ Head(s) = s[1] /\ 1 \in 1 .. Len(s) /\ Len(t) = Len(s) - 1 /\ Len(s) \in Nat
      /\ \A j \in 1 .. Len(t) : t[j] = s[j + 1] /\ j + 1 \in 1 .. Len(s)
  BY StepsTail
<1> HIDE DEF t
<1>2. ASSUME NEW j \in 1 .. Len(t) PROVE t[j].op = "dump" <=> t[1].op = "dump"
  <2>1. 1 \in 1 .. Len(t)
    BY <1>1
  <2>2. t[j] = s[j + 1] /\ j + 1 \in 1 .. Len(s) /\ t[1] = s[1 + 1] /\ 1 + 1 \in 1 .. Len(s)
    BY <1>1, <2>1
  <2>3. (t[j].op = "dump" <=> s[1].op = "dump") /\ (t[1].op = "dump" <=> s[1].op = "dump")
    BY <2>2 DEF Alike
  <2> QED BY <2>3
<1>3. Head(s).op # "dump" => \A at : ~ ToBeDumped(s, at)
  BY <1>1 DEF Alike, ToBeDumped
<1>4. Alike(t)
  BY <1>2 DEF Alike
<1> QED BY <1>3, <1>4 DEF t

-----------------------------------------------------------------------------
(* The invariant: what the slots do.                                       *)

LEMMA WrittenIs ==
  ASSUME LogTypeOK, NEW l \in Lines, files' = Written(log_file_out, <<l>>)
  PROVE  /\ FilesOK(files') /\ DOMAIN files' = DOMAIN files
         /\ log_file_out # "none" => files'[log_file_out] = files[log_file_out] \o <<l>>
<1>1. CASE log_file_out = "none"
  BY <1>1 DEF Written, LogTypeOK
<1>2. CASE log_file_out # "none"
  <2>1. log_file_out \in DOMAIN files /\ files[log_file_out] \in Seq(Lines)
    BY <1>2 DEF LogTypeOK, FilesOK
  <2>2. files' = [files EXCEPT ![log_file_out] = files[log_file_out] \o <<l>>]
    BY <1>2 DEF Written
  <2>3. files[log_file_out] \o <<l>> \in Seq(Lines)
    BY <2>1, LineBehind
  <2> HIDE DEF Lines
  <2> DEFINE more == files[log_file_out] \o <<l>>
  <2>4. /\ DOMAIN files' = DOMAIN files /\ files'[log_file_out] = more
        /\ \A f \in DOMAIN files : f # log_file_out => files'[f] = files[f]
        /\ files' = [f \in DOMAIN files' |-> files'[f]]
    BY <2>1, <2>2
  <2> HIDE DEF more
  <2>5. FilesOK(files')
    BY <2>3, <2>4 DEF FilesOK, LogTypeOK, more
  <2> QED BY <2>4, <2>5 DEF more
<1> QED BY <1>1, <1>2

\* setItem and recordChange.
LEMMA PutKeeps ==
  ASSUME LbInv, running, NEW l \in Lines, NEW rows \in Nat, PutItem(l, rows),
         rowCount <= rows, \A at : ~ ToBeDumped(todo, at), NEW later
  PROVE  /\ TableOK(items') /\ FilesOK(files') /\ DOMAIN files' = DOMAIN files
         /\ logged' \subseteq Nat /\ RowsSuffice(items', rows)
         /\ \A row \in logged' : row \in logged \/ row = l.row
         /\ log_file_out # "none" => Tells(files'[log_file_out], items', later)
<1>0. /\ LogTypeOK /\ RowsSuffice(items, rowCount)
      /\ l.row \in Nat /\ CellOf(l) \in Cells /\ l.text \in Texts
  BY DEF LbInv, Lines, CellOf, Cells
<1>i. ASSUME NEW at \in DOMAIN items PROVE at[1] < rows
  <2>1. at[1] \in Nat /\ rowCount \in Nat /\ at[1] < rowCount
    BY <1>0 DEF LogTypeOK, TableOK, Cells, RowsSuffice
  <2> QED BY <2>1
<1>1. CASE l.row >= rows
  <2>1. items' = items /\ files' = files /\ logged' = logged
    BY <1>1 DEF PutItem
  <2>2. log_file_out # "none" => Tells(files[log_file_out], items, later)
    BY DEF LbInv, Tells
  <2> QED BY <1>0, <1>i, <2>1, <2>2 DEF LogTypeOK, RowsSuffice
<1>2. CASE ~(l.row >= rows)
  <2>1. /\ items' = With(items, CellOf(l), l.text) /\ files' = Written(log_file_out, <<l>>)
        /\ logged' = logged \cup {l.row} /\ l.row < rows
    BY <1>0, <1>2 DEF PutItem, CellOf
  <2>2. /\ FilesOK(files') /\ DOMAIN files' = DOMAIN files
        /\ log_file_out # "none" => files'[log_file_out] = files[log_file_out] \o <<l>>
    BY <1>0, <2>1, WrittenIs
  <2>3. TableOK(items')
    <3>1. /\ DOMAIN items' = DOMAIN items \cup {CellOf(l)} /\ items'[CellOf(l)] = l.text
          /\ \A at \in DOMAIN items : at # CellOf(l) => items'[at] = items[at]
          /\ items' = [at \in DOMAIN items' |-> items'[at]]
      BY <2>1 DEF With
    <3> QED BY <1>0, <3>1 DEF TableOK, LogTypeOK
  <2>4. RowsSuffice(items', rows)
    <3>1. DOMAIN items' = DOMAIN items \cup {CellOf(l)}
      BY <2>1 DEF With
    <3>2. CellOf(l)[1] = l.row
      BY DEF CellOf
    <3> QED BY <1>i, <2>1, <3>1, <3>2 DEF RowsSuffice
  <2>5. ASSUME log_file_out # "none" PROVE Tells(files'[log_file_out], items', later)
    <3>1. files[log_file_out] \in Seq(Lines) /\ Tells(files[log_file_out], items, todo)
      BY <1>0, <2>5 DEF LbInv, LogTypeOK, FilesOK
    <3>2. Tells(files[log_file_out] \o <<l>>, With(items, CellOf(l), l.text), later)
      BY <3>1, TellsPut
    <3> QED BY <2>1, <2>2, <2>5, <3>2
  <2>6. logged' \subseteq Nat /\ \A row \in logged' : row \in logged \/ row = l.row
    BY <1>0, <2>1 DEF LogTypeOK
  <2> QED BY <2>2, <2>3, <2>4, <2>5, <2>6
<1> QED BY <1>1, <1>2

LEMMA StepIs ==
  ASSUME LbInv, NEW op, Step(op)
  PROVE  /\ LogTypeOK /\ running /\ todo \in Seq(Steps) /\ todo # <<>> /\ todo' = Tail(todo)
         /\ todo' \in Seq(Steps) /\ Alike(todo') /\ Head(todo) \in Steps /\ Head(todo).op = op
         /\ op # "dump" => \A at : ~ ToBeDumped(todo, at)
<1>1. LogTypeOK /\ todo \in Seq(Steps) /\ Alike(todo)
  BY DEF LbInv, LogTypeOK
<1>2. running /\ todo # <<>> /\ todo' = Tail(todo) /\ Head(todo).op = op
  BY DEF Step
<1> QED BY <1>1, <1>2, StepsTail, AlikeTail

LEMMA SetItemKeeps == ASSUME LbInv, SetItem PROVE LbInv'
<1> DEFINE l == Head(todo).line
<1>1. /\ LogTypeOK /\ running /\ todo \in Seq(Steps) /\ todo # <<>> /\ todo' = Tail(todo)
      /\ todo' \in Seq(Steps) /\ Alike(todo') /\ Head(todo) \in Steps /\ Head(todo).op = "set"
      /\ \A at : ~ ToBeDumped(todo, at)
  BY StepIs DEF SetItem
<1>2. l \in Lines /\ rowCount \in Nat /\ rowCount <= rowCount
  BY <1>1 DEF Steps, LogTypeOK
<1>3. /\ PutItem(l, rowCount)
      /\ rowCount' = rowCount /\ next_used_row' = next_used_row /\ blank_read' = blank_read
      /\ log_file_out' = log_file_out /\ running' = running
  BY DEF SetItem
<1>4. /\ TableOK(items') /\ FilesOK(files') /\ DOMAIN files' = DOMAIN files
      /\ logged' \subseteq Nat /\ RowsSuffice(items', rowCount)
      /\ \A row \in logged' : row \in logged \/ row = l.row
      /\ log_file_out # "none" => Tells(files'[log_file_out], items', todo')
  BY <1>1, <1>2, <1>3, PutKeeps
<1>5. ASSUME ~blank_read PROVE Ahead(todo', logged', next_used_row)
  <2>1. Ahead(todo, logged, next_used_row)
    BY <1>1, <1>5 DEF LbInv
  <2>2. Fills(Head(todo)) /\ Head(todo).op # "next"
    BY <1>1 DEF Fills
  <2>3. \A row \in logged' : row \in logged \/ (Fills(Head(todo)) /\ row = Head(todo).line.row)
    BY <1>4, <2>2
  <2>4. Ahead(Tail(todo), logged', next_used_row)
    BY <1>1, <2>1, <2>2, <2>3, AheadOn
  <2> QED BY <1>1, <2>4
<1>6. LogTypeOK'
  BY <1>1, <1>2, <1>3, <1>4 DEF LogTypeOK
<1> QED BY <1>1, <1>3, <1>4, <1>5, <1>6 DEF LbInv

LEMMA LoadItemKeeps == ASSUME LbInv, LoadItem PROVE LbInv'
<1> DEFINE l == Head(todo).line
<1>1. /\ LogTypeOK /\ running /\ todo \in Seq(Steps) /\ todo # <<>> /\ todo' = Tail(todo)
      /\ todo' \in Seq(Steps) /\ Alike(todo') /\ Head(todo) \in Steps /\ Head(todo).op = "load"
      /\ \A at : ~ ToBeDumped(todo, at)
  BY StepIs DEF LoadItem
<1>2. /\ PutItem(l, rowCount') /\ rowCount' = Enough(l.row)
      /\ next_used_row' = next_used_row /\ blank_read' = blank_read
      /\ log_file_out' = log_file_out /\ running' = running
  BY DEF LoadItem
<1>3. l \in Lines /\ rowCount' \in Nat /\ rowCount <= rowCount'
  BY <1>1, <1>2, LogAssumption DEF Steps, LogTypeOK, Enough
<1>4. /\ TableOK(items') /\ FilesOK(files') /\ DOMAIN files' = DOMAIN files
      /\ logged' \subseteq Nat /\ RowsSuffice(items', rowCount')
      /\ \A row \in logged' : row \in logged \/ row = l.row
      /\ log_file_out # "none" => Tells(files'[log_file_out], items', todo')
  BY <1>1, <1>2, <1>3, PutKeeps
<1>5. ASSUME ~blank_read PROVE Ahead(todo', logged', next_used_row)
  <2>1. Ahead(todo, logged, next_used_row)
    BY <1>1, <1>5 DEF LbInv
  <2>2. Fills(Head(todo)) /\ Head(todo).op # "next"
    BY <1>1 DEF Fills
  <2>3. \A row \in logged' : row \in logged \/ (Fills(Head(todo)) /\ row = Head(todo).line.row)
    BY <1>4, <2>2
  <2>4. Ahead(Tail(todo), logged', next_used_row)
    BY <1>1, <2>1, <2>2, <2>3, AheadOn
  <2> QED BY <1>1, <2>4
<1>6. LogTypeOK'
  BY <1>1, <1>2, <1>3, <1>4 DEF LogTypeOK
<1> QED BY <1>1, <1>2, <1>4, <1>5, <1>6 DEF LbInv

LEMMA AddRowsKeeps == ASSUME LbInv, AddRows PROVE LbInv'
<1>1. /\ LogTypeOK /\ running /\ todo \in Seq(Steps) /\ todo # <<>> /\ todo' = Tail(todo)
      /\ todo' \in Seq(Steps) /\ Alike(todo') /\ Head(todo) \in Steps /\ Head(todo).op = "need"
      /\ \A at : ~ ToBeDumped(todo, at)
  BY StepIs DEF AddRows
<1>2. /\ rowCount' = Enough(Head(todo).row)
      /\ UNCHANGED <<items, next_used_row, logged, blank_read, files, log_file_out, running>>
  BY DEF AddRows
<1>3. rowCount' \in Nat /\ rowCount <= rowCount'
  BY <1>1, <1>2, LogAssumption DEF LogTypeOK, Enough
<1>4. RowsSuffice(items', rowCount')
  <2>1. \A at \in DOMAIN items : at[1] \in Nat /\ at[1] < rowCount /\ rowCount \in Nat
    BY <1>1 DEF LbInv, RowsSuffice, LogTypeOK, TableOK, Cells
  <2>2. \A at \in DOMAIN items : at[1] < rowCount'
    BY <1>3, <2>1
  <2> QED BY <1>2, <2>2 DEF RowsSuffice
<1>5. log_file_out # "none" => Tells(files[log_file_out], items, todo')
  BY <1>1 DEF LbInv, Tells
<1>6. ~blank_read => Ahead(todo', logged, next_used_row)
  <2>1. ~blank_read => Ahead(todo, logged, next_used_row)
    BY <1>1 DEF LbInv
  <2> QED BY <1>1, <2>1, AheadOn
<1>7. LogTypeOK'
  BY <1>1, <1>2, <1>3 DEF LogTypeOK
<1> QED BY <1>1, <1>2, <1>4, <1>5, <1>6, <1>7 DEF LbInv

LEMMA MoveOnKeeps == ASSUME LbInv, MoveOn PROVE LbInv'
<1>1. /\ LogTypeOK /\ running /\ todo \in Seq(Steps) /\ todo # <<>> /\ todo' = Tail(todo)
      /\ todo' \in Seq(Steps) /\ Alike(todo') /\ Head(todo) \in Steps /\ Head(todo).op = "next"
      /\ \A at : ~ ToBeDumped(todo, at)
  BY StepIs DEF MoveOn
<1>2. /\ next_used_row' = Head(todo).row
      /\ UNCHANGED <<items, rowCount, logged, blank_read, files, log_file_out, running>>
  BY DEF MoveOn
<1>3. next_used_row' \in Nat
  BY <1>1, <1>2 DEF Steps
<1>4. log_file_out # "none" => Tells(files[log_file_out], items, todo')
  BY <1>1 DEF LbInv, Tells
<1>5. ~blank_read => Ahead(todo', logged, next_used_row')
  <2>1. ~blank_read => Ahead(todo, logged, next_used_row)
    BY <1>1 DEF LbInv
  <2> QED BY <1>1, <1>2, <2>1, AheadThen
<1>6. LogTypeOK'
  BY <1>1, <1>2, <1>3 DEF LogTypeOK
<1> QED BY <1>1, <1>2, <1>4, <1>5, <1>6 DEF LbInv

LEMMA DumpKeeps == ASSUME LbInv, Dump PROVE LbInv'
<1> DEFINE at == Head(todo).at
           l  == Line(at[1], at[2], items[at])
<1>1. /\ LogTypeOK /\ running /\ todo \in Seq(Steps) /\ todo # <<>> /\ todo' = Tail(todo)
      /\ todo' \in Seq(Steps) /\ Alike(todo') /\ Head(todo) \in Steps /\ Head(todo).op = "dump"
  BY StepIs DEF Dump
<1>2. /\ files' = IF at \in DOMAIN items THEN Written(log_file_out, <<l>>) ELSE files
      /\ UNCHANGED <<lbTable, log_file_out, running>>
  BY DEF Dump, Filled
<1>3. /\ at \in DOMAIN items => l \in Lines
      /\ log_file_out # "none" =>
           IF at \in DOMAIN items THEN Tells(files[log_file_out] \o <<l>>, items, todo')
           ELSE Tells(files[log_file_out], items, todo')
  <2>1. DOMAIN items \subseteq Cells /\ \A o \in DOMAIN items : items[o] \in Texts
    BY <1>1 DEF LogTypeOK, TableOK
  <2>2. at \in DOMAIN items => l \in Lines
    BY <2>1 DEF Line, Lines, Cells
  <2>3. ASSUME log_file_out # "none"
        PROVE  IF at \in DOMAIN items THEN Tells(files[log_file_out] \o <<l>>, items, todo')
               ELSE Tells(files[log_file_out], items, todo')
    <3>1. files[log_file_out] \in Seq(Lines) /\ Tells(files[log_file_out], items, todo)
      BY <1>1, <2>3 DEF LbInv, LogTypeOK, FilesOK
    <3> QED BY <1>1, <2>1, <3>1, TellsDump
  <2> QED BY <2>2, <2>3
<1> HIDE DEF l, at
<1>4. /\ FilesOK(files') /\ DOMAIN files' = DOMAIN files
      /\ log_file_out # "none" => Tells(files'[log_file_out], items, todo')
  <2>1. CASE at \in DOMAIN items
    BY <1>1, <1>2, <1>3, <2>1, WrittenIs
  <2>2. CASE at \notin DOMAIN items
    BY <1>1, <1>2, <1>3, <2>2 DEF LogTypeOK
  <2> QED BY <2>1, <2>2
<1>5. ~blank_read => Ahead(todo', logged, next_used_row)
  <2>1. ~blank_read => Ahead(todo, logged, next_used_row)
    BY <1>1 DEF LbInv
  <2> QED BY <1>1, <2>1, AheadOn
<1>6. LogTypeOK'
  BY <1>1, <1>2, <1>4 DEF LogTypeOK, lbTable
<1> QED BY <1>1, <1>2, <1>4, <1>5, <1>6 DEF LbInv, lbTable

-----------------------------------------------------------------------------
(* The invariant: what the operator does.                                  *)

\* Between the slots nothing has still to be written or filled.
LEMMA Between ==
  ASSUME LbInv, todo = <<>>
  PROVE  /\ LogTypeOK /\ RowsSuffice(items, rowCount) /\ \A at : ~ ToBeDumped(todo, at)
         /\ running /\ ~blank_read => \A row \in logged : row < next_used_row
         /\ \A later : running /\ log_file_out # "none" => Tells(files[log_file_out], items, later)
<1>1. LogTypeOK /\ RowsSuffice(items, rowCount)
  BY DEF LbInv
<1>2. \A j \in 1 .. Len(todo) : FALSE
  OBVIOUS
<1>3. \A at : ~ ToBeDumped(todo, at)
  BY <1>2 DEF ToBeDumped
<1>4. running /\ ~blank_read => \A row \in logged : row < next_used_row
  BY <1>2 DEF LbInv, Ahead
<1>5. \A later : running /\ log_file_out # "none" => Tells(files[log_file_out], items, later)
  BY <1>3 DEF LbInv, Tells
<1> QED BY <1>1, <1>3, <1>4, <1>5

LEMMA NoDumpAlike ==
  ASSUME NEW steps, \A j \in 1 .. Len(steps) : steps[j].op # "dump", Len(steps) \in Nat
  PROVE  Alike(steps)
<1>1. ASSUME NEW j \in 1 .. Len(steps) PROVE steps[j].op = "dump" <=> steps[1].op = "dump"
  <2>1. 1 \in 1 .. Len(steps)
    OBVIOUS
  <2> QED BY <2>1
<1> QED BY <1>1 DEF Alike

LEMMA LogContactKeeps == ASSUME LbInv, NEW text \in Texts, LogContact(text) PROVE LbInv'
<1> DEFINE n == LastCol + 1
           new == next_used_row
           f == [i \in 1 .. n |-> Set(new, i - 1, text)]
           q == <<NextRow(new + 1), NeedRow(new + 1)>>
           steps == f \o q
<1>1. /\ running /\ todo = <<>> /\ running' = running /\ todo' = steps
      /\ UNCHANGED <<lbTable, files, log_file_out>>
  BY DEF LogContact, Operates
<1>2. /\ LogTypeOK /\ RowsSuffice(items, rowCount) /\ new \in Nat /\ n \in Nat
      /\ ~blank_read => \A row \in logged : row < new
      /\ log_file_out # "none" => Tells(files[log_file_out], items, steps)
  BY <1>1, Between, LogAssumption DEF LogTypeOK
<1>3. f \in Seq(Steps) /\ Len(f) = n
  <2>1. \A i \in 1 .. n : Set(new, i - 1, text) \in Steps
    BY <1>2, LogAssumption DEF Set, Line, Lines, Steps
  <2> HIDE DEF Steps
  <2> QED BY <1>2, <2>1
<1>4. q \in Seq(Steps) /\ Len(q) = 2 /\ q[1] = NextRow(new + 1) /\ q[2] = NeedRow(new + 1)
  <2>1. NextRow(new + 1) \in Steps /\ NeedRow(new + 1) \in Steps
    BY <1>2 DEF NextRow, NeedRow, Steps
  <2> HIDE DEF Steps
  <2> QED BY <2>1
<1>5. \A i \in 1 .. n : f[i].op = "set" /\ f[i].line.row = new
  BY DEF Set, Line
<1>6. /\ q[1].op = "next" /\ q[1].row = new + 1 /\ q[2].op = "need"
  BY <1>4 DEF NextRow, NeedRow
<1> HIDE DEF f, q
<1>7. /\ steps \in Seq(Steps) /\ Len(steps) = n + 2
      /\ \A i \in 1 .. n + 2 : steps[i] = IF i <= n THEN f[i] ELSE q[i - n]
  <2>1. /\ steps \in Seq(Steps) /\ Len(steps) = Len(f) + Len(q)
        /\ \A i \in 1 .. Len(f) + Len(q) :
             steps[i] = IF i <= Len(f) THEN f[i] ELSE q[i - Len(f)]
    BY <1>3, <1>4, ConcatProperties
  <2> QED BY <1>3, <1>4, <2>1
<1> HIDE DEF steps
<1>8. \A i \in 1 .. n + 2 :
         \/ i \in 1 .. n /\ steps[i].op = "set" /\ steps[i].line.row = new
         \/ i = n + 1 /\ steps[i].op = "next" /\ steps[i].row = new + 1
         \/ i = n + 2 /\ steps[i].op = "need"
  <2>1. \A i \in 1 .. n : steps[i] = f[i]
    BY <1>2, <1>7
  <2>2. n + 1 \in 1 .. n + 2 /\ n + 2 \in 1 .. n + 2 /\ ~(n + 1 <= n) /\ ~(n + 2 <= n)
        /\ (n + 1) - n = 1 /\ (n + 2) - n = 2
    BY <1>2
  <2>3. steps[n + 1] = q[1] /\ steps[n + 2] = q[2]
    BY <1>7, <2>2
  <2>4. \A i \in 1 .. n + 2 : i \in 1 .. n \/ i = n + 1 \/ i = n + 2
    BY <1>2
  <2> QED BY <1>5, <1>6, <2>1, <2>3, <2>4
<1>9. Alike(steps)
  <2>1. \A j \in 1 .. Len(steps) : steps[j].op # "dump"
    BY <1>7, <1>8
  <2> QED BY <1>2, <1>7, <2>1, NoDumpAlike
<1>10. ASSUME ~blank_read PROVE Ahead(steps, logged, new)
  <2>1. n + 1 \in 1 .. Len(steps) /\ steps[n + 1].op = "next" /\ steps[n + 1].row = new + 1
    <3>1. n + 1 \in 1 .. n + 2 /\ n + 1 # n + 2 /\ n + 1 \notin 1 .. n
      BY <1>2
    <3> QED BY <1>7, <1>8, <3>1
  <2>2. \A row \in logged : row < new + 1
    BY <1>2, <1>10 DEF LogTypeOK
  <2>3. ASSUME NEW j \in 1 .. Len(steps)
        PROVE  /\ steps[j].op = "next" => j = n + 1
               /\ Fills(steps[j]) => j < n + 1 /\ steps[j].line.row < new + 1
    <3>1. j \in 1 .. n => j < n + 1
      BY <1>2
    <3>2. new < new + 1
      BY <1>2
    <3> QED BY <1>7, <1>8, <3>1, <3>2 DEF Fills
  <2>4. Awaited(steps, n + 1, logged)
    BY <2>1, <2>2, <2>3 DEF Awaited
  <2> QED BY <2>1, <2>4 DEF Ahead
<1>11. LogTypeOK'
  BY <1>1, <1>2, <1>7 DEF LogTypeOK, lbTable
<1> QED BY <1>1, <1>2, <1>9, <1>10, <1>11 DEF LbInv, lbTable

LEMMA EditKeeps ==
  ASSUME LbInv, NEW row \in Nat, NEW col \in 0 .. LastCol, NEW text \in Texts,
         Edit(row, col, text)
  PROVE  LbInv'
<1> DEFINE l == Line(row, col, text)
<1>1. /\ running /\ todo = <<>> /\ running' = running /\ row < rowCount
      /\ items' = With(items, <<row, col>>, text) /\ files' = Written(log_file_out, <<l>>)
      /\ UNCHANGED <<rowCount, next_used_row, logged, blank_read, log_file_out, todo>>
  BY DEF Edit, Operates
<1>2. /\ l \in Lines /\ CellOf(l) = <<row, col>> /\ CellOf(l) \in Cells /\ l.text = text
  BY DEF Line, Lines, CellOf, Cells
<1> HIDE DEF l
<1>3. /\ LogTypeOK /\ RowsSuffice(items, rowCount) /\ \A at : ~ ToBeDumped(todo, at)
      /\ log_file_out # "none" => Tells(files[log_file_out], items, todo)
  BY <1>1, Between
<1>4. /\ FilesOK(files') /\ DOMAIN files' = DOMAIN files
      /\ log_file_out # "none" => files'[log_file_out] = files[log_file_out] \o <<l>>
  BY <1>1, <1>2, <1>3, WrittenIs
<1>5. /\ DOMAIN items' = DOMAIN items \cup {CellOf(l)} /\ items'[CellOf(l)] = text
      /\ \A at \in DOMAIN items : at # CellOf(l) => items'[at] = items[at]
      /\ items' = [at \in DOMAIN items' |-> items'[at]]
  BY <1>1, <1>2 DEF With
<1>6. TableOK(items')
  BY <1>2, <1>3, <1>5 DEF TableOK, LogTypeOK
<1>7. RowsSuffice(items', rowCount)
  <2>1. CellOf(l)[1] = row
    BY <1>2
  <2> QED BY <1>1, <1>3, <1>5, <2>1 DEF RowsSuffice
<1>8. ASSUME log_file_out # "none" PROVE Tells(files'[log_file_out], items', todo)
  <2>1. files[log_file_out] \in Seq(Lines) /\ Tells(files[log_file_out], items, todo)
    BY <1>3, <1>8 DEF LogTypeOK, FilesOK
  <2>2. Tells(files[log_file_out] \o <<l>>, With(items, CellOf(l), l.text), todo)
    BY <1>2, <1>3, <2>1, TellsPut
  <2> QED BY <1>1, <1>2, <1>4, <1>8, <2>2
<1>9. LogTypeOK'
  BY <1>1, <1>3, <1>4, <1>6 DEF LogTypeOK
<1>10. Alike(todo) /\ (running /\ ~blank_read => Ahead(todo, logged, next_used_row))
  BY DEF LbInv
<1> QED BY <1>1, <1>7, <1>8, <1>9, <1>10 DEF LbInv

LEMMA LoadIs ==
  ASSUME NEW l \in Lines, NEW r \in Nat
  PROVE  Load(l, r) \in Steps /\ Load(l, r).op = "load" /\ Load(l, r).line.row = r
  BY DEF Load, Line, Lines, Steps

LEMMA ReadKeeps == ASSUME LbInv, NEW name, ReadLogReport(name) PROVE LbInv'
<1> DEFINE lines == files[name]
           row(l) == l.row + next_used_row
           n == Len(lines)
           S == {-1} \cup {row(l) : l \in ToSet(lines)}
           last == Max(S)
           f == [i \in DOMAIN lines |-> Load(lines[i], row(lines[i]))]
           end == NextRow(last + 1)
           steps == Append(f, end)
<1>1. /\ running /\ todo = <<>> /\ running' = running /\ name \in DOMAIN files /\ todo' = steps
      /\ blank_read' = (blank_read \/ lines = <<>>)
      /\ UNCHANGED <<items, rowCount, next_used_row, logged, files, log_file_out>>
  BY DEF ReadLogReport, Operates
<1>2. /\ LogTypeOK /\ RowsSuffice(items, rowCount) /\ next_used_row \in Nat
      /\ ~blank_read => \A r \in logged : r < next_used_row
      /\ log_file_out # "none" => Tells(files[log_file_out], items, steps)
  BY <1>1, Between DEF LogTypeOK
<1>3. /\ lines \in Seq(Lines) /\ n \in Nat /\ DOMAIN lines = 1 .. n
      /\ \A i \in 1 .. n : lines[i] \in Lines
  <2>1. lines \in Seq(Lines)
    BY <1>1, <1>2 DEF LogTypeOK, FilesOK
  <2> HIDE DEF Lines, lines
  <2> QED BY <2>1
<1> HIDE DEF lines
<1>4. /\ last \in Int /\ last + 1 \in Nat
      /\ \A i \in 1 .. n : row(lines[i]) \in Nat /\ row(lines[i]) < last + 1
  <2> DEFINE g == [i \in 1 .. n |-> row(lines[i])]
             R == {-1} \cup {g[i] : i \in 1 .. n}
  <2>1. \A i \in 1 .. n : g[i] \in Nat /\ g[i] = row(lines[i])
    BY <1>2, <1>3 DEF Lines
  <2>2. {g[i] : i \in 1 .. n} = {row(l) : l \in ToSet(lines)}
    <3>1. ToSet(lines) = {lines[i] : i \in 1 .. n}
      BY <1>3 DEF ToSet
    <3> QED BY <2>1, <3>1
  <2> HIDE DEF g
  <2>3. Max(R) \in R /\ \A x \in R : x <= Max(R)
    BY <1>3, <2>1, GreatestOfSome
  <2>4. R = S
    BY <2>2
  <2>5. \A i \in 1 .. n : row(lines[i]) \in R
    BY <2>1
  <2> HIDE DEF S
  <2>6. last \in R /\ \A x \in R : x <= last
    BY <2>3, <2>4
  <2> HIDE DEF last
  <2>7. last \in Int /\ last + 1 \in Nat
    BY <2>1, <2>6
  <2>8. ASSUME NEW i \in 1 .. n PROVE row(lines[i]) \in Nat /\ row(lines[i]) < last + 1
    <3>1. row(lines[i]) \in Nat /\ row(lines[i]) <= last
      BY <2>1, <2>5, <2>6
    <3> QED BY <2>7, <3>1
  <2> QED BY <2>7, <2>8
<1> HIDE DEF S, last
<1>5. \A i \in 1 .. n : /\ f[i] \in Steps /\ f[i].op = "load"
                        /\ f[i].line.row < last + 1
  <2>1. ASSUME NEW i \in 1 .. n
        PROVE  f[i] \in Steps /\ f[i].op = "load" /\ f[i].line.row < last + 1
    <3>1. f[i] = Load(lines[i], row(lines[i])) /\ lines[i] \in Lines
      BY <1>3
    <3>2. row(lines[i]) \in Nat /\ row(lines[i]) < last + 1
      BY <1>4
    <3> HIDE DEF f, row
    <3>3. \A r \in Nat : /\ Load(lines[i], r) \in Steps /\ Load(lines[i], r).op = "load"
                         /\ Load(lines[i], r).line.row = r
      BY <3>1, LoadIs
    <3> QED BY <3>1, <3>2, <3>3
  <2> QED BY <2>1
<1>6. f \in Seq(Steps) /\ Len(f) = n
  <2>1. f = [i \in 1 .. n |-> f[i]]
    BY <1>3
  <2> HIDE DEF f, Steps
  <2> QED BY <1>3, <1>5, <2>1
<1>7. end \in Steps /\ end.op = "next" /\ end.row = last + 1
  BY <1>4 DEF NextRow, Steps
<1> HIDE DEF f, end
<1>8. /\ steps \in Seq(Steps) /\ Len(steps) = n + 1
      /\ \A i \in 1 .. n : steps[i] = f[i]
      /\ steps[n + 1] = end
  <2> DEFINE T == Steps
  <2>1. f \in Seq(T) /\ end \in T /\ Len(f) = n
    BY <1>6, <1>7
  <2> HIDE DEF T
  <2>2. /\ steps \in Seq(T) /\ Len(steps) = Len(f) + 1
        /\ \A i \in 1 .. Len(f) : steps[i] = f[i]
        /\ steps[Len(f) + 1] = end
    BY <2>1, AppendProperties
  <2> QED BY <2>1, <2>2 DEF T
<1> HIDE DEF steps
<1>9. \A j \in 1 .. n + 1 : \/ j \in 1 .. n /\ j < n + 1
                            \/ j = n + 1
  BY <1>3
<1>10. Alike(steps)
  <2>1. \A j \in 1 .. Len(steps) : steps[j].op # "dump"
    BY <1>5, <1>7, <1>8, <1>9
  <2> QED BY <1>3, <1>8, <2>1, NoDumpAlike
<1>11. ASSUME ~blank_read' PROVE Ahead(steps, logged, next_used_row)
  <2>1. n + 1 \in 1 .. Len(steps) /\ steps[n + 1].op = "next" /\ steps[n + 1].row = last + 1
    BY <1>3, <1>7, <1>8
  <2>2. ASSUME NEW r \in logged PROVE r < last + 1
    <3>1. n # 0
      <4> HIDE DEF Lines
      <4>1. lines # <<>> /\ lines \in Seq(Lines)
        BY <1>1, <1>3, <1>11
      <4> QED BY <4>1
    <3>2. 1 \in 1 .. n /\ row(lines[1]) < last + 1 /\ lines[1].row \in Nat
      BY <1>3, <1>4, <3>1 DEF Lines
    <3>3. r < next_used_row /\ r \in Nat
      BY <1>1, <1>2, <1>11 DEF LogTypeOK
    <3> QED BY <1>2, <1>4, <3>2, <3>3
  <2>3. ASSUME NEW j \in 1 .. Len(steps)
        PROVE  /\ steps[j].op = "next" => j = n + 1
               /\ Fills(steps[j]) => j < n + 1 /\ steps[j].line.row < last + 1
    BY <1>5, <1>7, <1>8, <1>9 DEF Fills
  <2>4. Awaited(steps, n + 1, logged)
    BY <2>1, <2>2, <2>3 DEF Awaited
  <2> QED BY <2>1, <2>4 DEF Ahead
<1>12. LogTypeOK'
  BY <1>1, <1>2, <1>8 DEF LogTypeOK
<1> QED BY <1>1, <1>2, <1>10, <1>11, <1>12 DEF LbInv

LEMMA Division ==
  ASSUME NEW d \in Nat \ {0}, NEW r \in Nat, NEW c \in 0 .. d - 1
  PROVE  (r * d + c) \div d = r /\ (r * d + c) % d = c
  OBVIOUS

LEMMA Quotient ==
  ASSUME NEW d \in Nat \ {0}, NEW n \in Nat
  PROVE  n \div d \in Nat /\ n % d \in 0 .. d - 1
  OBVIOUS

LEMMA CellNumber ==
  ASSUME NEW d \in Nat \ {0}, NEW r \in Nat, NEW c \in 0 .. d - 1, NEW n \in Nat, r < n
  PROVE  r * d + c + 1 \in 1 .. n * d
<1>1. r + 1 <= n
  OBVIOUS
<1>2. (r + 1) * d <= n * d
  BY <1>1
<1>3. (r + 1) * d = r * d + d
  OBVIOUS
<1>4. r * d \in Nat /\ n * d \in Nat
  OBVIOUS
<1> QED BY <1>2, <1>3, <1>4

LEMMA SetFileIs ==
  ASSUME LogTypeOK, NEW name, NEW opens \in BOOLEAN, SetLogFile(name, opens)
  PROVE  /\ FilesOK(files') /\ log_file_out' \in DOMAIN files' \cup {"none"}
         /\ log_file_out' # "none" => files'[log_file_out'] = <<>>
<1>1. CASE opens
  <2>1. files' = With(files, name, <<>>) /\ log_file_out' = name
    BY <1>1 DEF SetLogFile
  <2>2. /\ DOMAIN files' = DOMAIN files \cup {name} /\ files'[name] = <<>>
        /\ \A f \in DOMAIN files : f # name => files'[f] = files[f]
        /\ files' = [f \in DOMAIN files' |-> files'[f]]
    BY <2>1 DEF With
  <2>3. <<>> \in Seq(Lines)
    <3> HIDE DEF Lines
    <3> QED OBVIOUS
  <2>4. \A f \in DOMAIN files : files[f] \in Seq(Lines)
    BY DEF LogTypeOK, FilesOK
  <2> HIDE DEF Lines
  <2> DEFINE L == Seq(Lines)
  <2>5. <<>> \in L /\ \A f \in DOMAIN files : files[f] \in L
    BY <2>3, <2>4
  <2> HIDE DEF L
  <2>6. \A f \in DOMAIN files' : files'[f] \in L
    BY <2>2, <2>5
  <2> QED BY <2>1, <2>2, <2>6 DEF FilesOK, L
<1>2. CASE ~opens
  BY <1>2 DEF SetLogFile, LogTypeOK
<1> QED BY <1>1, <1>2

\* A step of writeLogReport for every cell of every row that there is.
LEMMA WriteKeeps ==
  ASSUME LbInv, NEW name, NEW opens \in BOOLEAN, WriteLogReport(name, opens)
  PROVE  LbInv'
<1> DEFINE cols == LastCol + 1
           N == rowCount * cols
           steps == [k \in 1 .. N |-> DumpCell((k - 1) \div cols, (k - 1) % cols)]
<1>1. /\ running /\ todo = <<>> /\ running' = running /\ SetLogFile(name, opens)
      /\ todo' = steps /\ UNCHANGED lbTable
  BY DEF WriteLogReport, Operates
<1>2. /\ LogTypeOK /\ RowsSuffice(items, rowCount) /\ rowCount \in Nat
      /\ ~blank_read => \A row \in logged : row < next_used_row
  BY <1>1, Between DEF LogTypeOK
<1>3. cols \in Nat \ {0} /\ N \in Nat /\ cols - 1 = LastCol
  <2>1. cols \in Nat \ {0} /\ cols - 1 = LastCol
    BY LogAssumption
  <2> HIDE DEF cols
  <2> QED BY <1>2, <2>1
<1>4. /\ FilesOK(files') /\ log_file_out' \in DOMAIN files' \cup {"none"}
      /\ log_file_out' # "none" => files'[log_file_out'] = <<>>
  BY <1>1, <1>2, SetFileIs
<1> HIDE DEF cols, N
<1>5. ASSUME NEW k \in 1 .. N
      PROVE  steps[k] \in Steps /\ steps[k].op = "dump"
             /\ steps[k].at = <<(k - 1) \div cols, (k - 1) % cols>>
  <2>1. k - 1 \in Nat
    BY <1>3
  <2>2. (k - 1) \div cols \in Nat /\ (k - 1) % cols \in 0 .. LastCol
    BY <1>3, <2>1, Quotient
  <2>3. \A r \in Nat, c \in 0 .. LastCol :
          DumpCell(r, c) \in Steps /\ DumpCell(r, c).op = "dump" /\ DumpCell(r, c).at = <<r, c>>
    BY DEF DumpCell, Steps, Cells
  <2>4. steps[k] = DumpCell((k - 1) \div cols, (k - 1) % cols)
    OBVIOUS
  <2> HIDE DEF steps
  <2> QED BY <2>2, <2>3, <2>4
<1>6. steps \in Seq(Steps) /\ Len(steps) = N
  <2>1. steps = [k \in 1 .. N |-> steps[k]]
    OBVIOUS
  <2> HIDE DEF steps, Steps
  <2> QED BY <1>3, <1>5, <2>1
<1>7. ASSUME NEW at \in DOMAIN items PROVE ToBeDumped(steps, at)
  <2>1. PICK r \in Nat, c \in 0 .. LastCol : at = <<r, c>>
    BY <1>2 DEF LogTypeOK, TableOK, Cells
  <2>2. r < rowCount
    BY <1>2, <2>1 DEF RowsSuffice
  <2> DEFINE k == r * cols + c + 1
  <2>3. c \in 0 .. cols - 1
    BY <1>3, <2>1
  <2>4. k \in 1 .. N
    BY <1>2, <1>3, <2>2, <2>3, CellNumber DEF N
  <2>5. k - 1 = r * cols + c
    BY <1>3, <2>1
  <2>6. (k - 1) \div cols = r /\ (k - 1) % cols = c
    BY <1>3, <2>3, <2>5, Division
  <2> HIDE DEF k, steps
  <2> QED BY <1>5, <1>6, <2>1, <2>4, <2>6 DEF ToBeDumped
<1> HIDE DEF steps
<1>8. Tells(<<>>, items, steps)
  BY <1>7 DEF Tells
<1>9. Alike(steps)
  <2>1. ASSUME NEW j \in 1 .. Len(steps) PROVE steps[j].op = "dump" /\ steps[1].op = "dump"
    <3>1. 1 \in 1 .. N /\ j \in 1 .. N
      BY <1>3, <1>6
    <3> QED BY <1>5, <3>1
  <2> QED BY <2>1 DEF Alike
<1>10. ~blank_read => Ahead(steps, logged, next_used_row)
  BY <1>2, <1>5, <1>6 DEF Ahead, Fills
<1>11. LogTypeOK'
  BY <1>1, <1>2, <1>4, <1>6 DEF LogTypeOK, lbTable
<1> QED BY <1>1, <1>2, <1>4, <1>8, <1>9, <1>10, <1>11 DEF LbInv, lbTable

LEMMA StartKeeps == ASSUME LbInv, Start PROVE LbInv'
<1>1. /\ ~running /\ running' = TRUE /\ items' = NoItems /\ rowCount' = StartRows
      /\ next_used_row' = 0 /\ logged' = {} /\ blank_read' = FALSE /\ todo' = todo
  BY DEF Start
<1>2. todo = <<>> /\ LogTypeOK
  BY <1>1 DEF LbInv
<1>3. \E opens \in BOOLEAN : SetLogFile(StartNames[starts'], opens)
  BY DEF Start
<1>4. /\ FilesOK(files') /\ log_file_out' \in DOMAIN files' \cup {"none"}
      /\ log_file_out' # "none" => files'[log_file_out'] = <<>>
  BY <1>2, <1>3, SetFileIs
<1>5. DOMAIN NoItems = {} /\ TableOK(NoItems) /\ RowsSuffice(NoItems, StartRows)
      /\ Tells(<<>>, NoItems, todo)
  BY DEF NoItems, TableOK, RowsSuffice, Tells
<1>6. LogTypeOK'
  BY <1>1, <1>2, <1>4, <1>5, LogAssumption DEF LogTypeOK
<1>7. \A j \in 1 .. Len(todo) : FALSE
  BY <1>2
<1>8. Alike(todo) /\ Ahead(todo, {}, 0)
  BY <1>7 DEF Alike, Ahead
<1> QED BY <1>1, <1>4, <1>5, <1>6, <1>8 DEF LbInv

LEMMA StopKeeps == ASSUME LbInv, Killed \/ Quit PROVE LbInv'
<1>1. /\ running' = FALSE /\ todo' = <<>> /\ log_file_out' = "none" /\ UNCHANGED lbTable
  BY DEF Killed, Quit
<1>2. LogTypeOK /\ RowsSuffice(items, rowCount)
  BY DEF LbInv
<1>3. FilesOK(files')
  <2>1. CASE Killed
    BY <1>2, <2>1 DEF Killed, LogTypeOK
  <2>2. CASE Quit
    <3>1. \A f \in DOMAIN files' : f \in DOMAIN files /\ files'[f] = files[f]
      BY <2>2 DEF Quit
    <3>2. files' = [f \in DOMAIN files' |-> files'[f]]
      BY <2>2 DEF Quit
    <3> QED BY <1>2, <3>1, <3>2 DEF FilesOK, LogTypeOK
  <2> QED BY <2>1, <2>2
<1>4. <<>> \in Seq(Steps)
  <2> HIDE DEF Steps
  <2> QED OBVIOUS
<1>5. LogTypeOK'
  BY <1>1, <1>2, <1>3, <1>4 DEF LogTypeOK, lbTable
<1>6. Alike(<<>>)
  BY DEF Alike
<1> QED BY <1>1, <1>2, <1>5, <1>6 DEF LbInv, lbTable

-----------------------------------------------------------------------------
\* In every behaviour the open file and the table say the same of every cell that
\* has not still to be written, and the row of the next contact is, or will be when
\* the slot is through, behind all rows that are filled or about to be.
THEOREM LogInvariant == LbSpec => []LbInv
<1>1. LbInit => LbInv
  <2> SUFFICES ASSUME LbInit PROVE LbInv
    OBVIOUS
  <2>1. /\ items = NoItems /\ rowCount = StartRows /\ next_used_row = 0 /\ logged = {}
        /\ blank_read = FALSE /\ log_file_out = "none" /\ todo = <<>> /\ running = FALSE
        /\ files = [f \in {} |-> <<>>]
    BY DEF LbInit
  <2>2. TableOK(items) /\ FilesOK(files) /\ RowsSuffice(items, rowCount)
    BY <2>1 DEF NoItems, TableOK, FilesOK, RowsSuffice
  <2>3. <<>> \in Seq(Steps) /\ Alike(<<>>)
    <3> HIDE DEF Steps
    <3> QED BY DEF Alike
  <2>4. LogTypeOK
    BY <2>1, <2>2, <2>3, LogAssumption DEF LogTypeOK
  <2> QED BY <2>1, <2>2, <2>3, <2>4 DEF LbInv
<1>2. LbInv /\ [LbNext]_lbVars => LbInv'
  <2> SUFFICES ASSUME LbInv, [LbNext]_lbVars PROVE LbInv'
    OBVIOUS
  <2>1. CASE SetItem \/ LoadItem \/ AddRows \/ MoveOn \/ Dump
    BY <2>1, SetItemKeeps, LoadItemKeeps, AddRowsKeeps, MoveOnKeeps, DumpKeeps
  <2>2. CASE \E text \in Texts : LogContact(text)
    BY <2>2, LogContactKeeps
  <2>3. ASSUME NEW row \in 0 .. rowCount - 1, NEW col \in 0 .. LastCol, NEW text \in Texts,
               Edit(row, col, text)
        PROVE  LbInv'
    <3>1. row \in Nat
      BY DEF LbInv, LogTypeOK
    <3> QED BY <2>3, <3>1, EditKeeps
  <2>4. CASE \E name \in DOMAIN files : ReadLogReport(name)
    BY <2>4, ReadKeeps
  <2>5. CASE \E name \in SaveNames, opens \in BOOLEAN : WriteLogReport(name, opens)
    BY <2>5, WriteKeeps
  <2>6. CASE Start
    BY <2>6, StartKeeps
  <2>7. CASE Killed \/ Quit
    BY <2>7, StopKeeps
  <2>8. CASE UNCHANGED lbVars
    BY <2>8 DEF lbVars, lbTable, LbInv, LogTypeOK
  <2> QED BY <2>1, <2>2, <2>3, <2>4, <2>5, <2>6, <2>7, <2>8 DEF LbNext
<1> QED BY <1>1, <1>2, PTL DEF LbSpec

\* Lines that tell of every cell bring the table back.
LEMMA ReplayIs ==
  ASSUME NEW lines \in Seq(Lines), NEW table, TableOK(table), NEW steps,
         Tells(lines, table, steps), \A at : ~ ToBeDumped(steps, at)
  PROVE  Replay(lines) = table
<1> DEFINE D == {<<l.row, l.col>> : l \in ToSet(lines)}
           J(at) == {i \in DOMAIN lines : <<lines[i].row, lines[i].col>> = at}
<1>1. /\ Len(lines) \in Nat /\ DOMAIN lines = 1 .. Len(lines)
      /\ ToSet(lines) = {lines[i] : i \in 1 .. Len(lines)}
  <2> HIDE DEF Lines
  <2> QED BY DEF ToSet
<1>2. ASSUME NEW at \in DOMAIN table PROVE at \in D /\ lines[Max(J(at))].text = table[at]
  <2>1. PICK i \in 1 .. Len(lines) : LastFor(lines, i, at) /\ lines[i].text = table[at]
    BY DEF Tells, Recorded
  <2>2. i \in J(at) /\ J(at) \subseteq Int
    BY <1>1, <2>1 DEF LastFor, CellOf
  <2>3. ASSUME NEW j \in J(at) PROVE i >= j
    <3>1. j \in 1 .. Len(lines) /\ CellOf(lines[j]) = at
      BY <1>1 DEF CellOf
    <3>2. j \notin i + 1 .. Len(lines)
      BY <2>1, <3>1 DEF LastFor
    <3> QED BY <1>1, <3>1, <3>2
  <2>4. lines[i] \in ToSet(lines) /\ at = <<lines[i].row, lines[i].col>>
    BY <1>1, <2>1 DEF LastFor, CellOf
  <2> DEFINE K == J(at)
  <2>5. i \in K /\ K \subseteq Int /\ \A j \in K : i >= j
    BY <2>2, <2>3
  <2> HIDE DEF K
  <2>6. Max(K) \in K /\ \A y \in K : Max(K) >= y
    BY <2>5 DEF Max
  <2>7. Max(K) = i
    <3>1. Max(K) \in Int /\ i \in Int /\ Max(K) >= i /\ i >= Max(K)
      BY <2>5, <2>6
    <3> QED BY <3>1
  <2> QED BY <2>1, <2>4, <2>7 DEF K
<1>3. ASSUME NEW at \in D PROVE at \in DOMAIN table
  <2>1. PICK i \in 1 .. Len(lines) : at = CellOf(lines[i])
    BY <1>1 DEF CellOf
  <2> QED BY <2>1 DEF Tells
<1>4. D = DOMAIN table
  BY <1>2, <1>3
<1>5. Replay(lines) = [at \in D |-> lines[Max(J(at))].text]
  BY DEF Replay
<1> HIDE DEF D, J
<1> QED BY <1>2, <1>4, <1>5 DEF TableOK

\* The log survives a crash, and no contact overwrites an older one.
THEOREM LogIsKept == LbSpec => []LogKept
<1>1. LbInv => LogKept
  <2> SUFFICES ASSUME LbInv PROVE LogKept
    OBVIOUS
  <2>1. LogTypeOK /\ todo \in Seq(Steps) /\ Alike(todo) /\ TableOK(items)
    BY DEF LbInv, LogTypeOK
  <2>2. ASSUME running, log_file_out # "none", todo = <<>> \/ Head(todo).op # "dump"
        PROVE  Replay(files[log_file_out]) = items
    <3>1. \A at : ~ ToBeDumped(todo, at)
      BY <2>1, <2>2, AlikeTail, Between
    <3>2. files[log_file_out] \in Seq(Lines) /\ Tells(files[log_file_out], items, todo)
      BY <2>1, <2>2 DEF LbInv, LogTypeOK, FilesOK
    <3> QED BY <2>1, <3>1, <3>2, ReplayIs
  <2>3. running /\ todo = <<>> /\ ~blank_read => \A row \in logged : row < next_used_row
    BY Between
  <2> QED BY <2>2, <2>3 DEF LogKept
<1> QED BY <1>1, LogInvariant, PTL

-----------------------------------------------------------------------------
(* The restart.  A fresh window fills its selector from the file, in the   *)
(* order of the keys, and then shows what the file has the index of.  The  *)
(* iterator is a recursive function: that there is one, and what it lists, *)
(* follows from the least number for which it were not so.                 *)

\* The names that the iterator has met up to each place.
Meets(names, i, before) == IF Order[i] \in names THEN Append(before, Order[i]) ELSE before
UpTo(names, f, n) == f = [i \in 0 .. n |-> IF i = 0 THEN <<>> ELSE Meets(names, i, f[i - 1])]
Met(names) == CHOOSE f : UpTo(names, f, Len(Order))

LEMMA MetExists == ASSUME NEW names, NEW n \in Nat PROVE \E f : UpTo(names, f, n)
<1> DEFINE Has(k) == \E f : UpTo(names, f, k)
           T == {k \in Nat : ~ Has(k)}
<1>1. T = {}
  <2> SUFFICES ASSUME T # {} PROVE FALSE
    OBVIOUS
  <2>1. PICK k \in T : \A y \in T : k <= y
    <3>1. T \in SUBSET Nat
      OBVIOUS
    <3> HIDE DEF T
    <3> QED BY <3>1, NatMinimum
  <2>2. CASE k = 0
    <3>1. UpTo(names, [i \in 0 .. 0 |-> <<>>], 0)
      BY DEF UpTo
    <3> QED BY <2>1, <2>2, <3>1
  <2>3. CASE k # 0
    <3>0. k \in Nat /\ k - 1 \in Nat /\ ~ (k <= k - 1)
      BY <2>3
    <3>1. k - 1 \notin T
      <4> HIDE DEF T
      <4> QED BY <2>1, <3>0
    <3>2. PICK f : UpTo(names, f, k - 1)
      BY <3>0, <3>1
    <3> DEFINE g == [i \in 0 .. k |-> IF i < k THEN f[i] ELSE Meets(names, i, f[i - 1])]
    <3>3. ASSUME NEW i \in 0 .. k
          PROVE  g[i] = IF i = 0 THEN <<>> ELSE Meets(names, i, g[i - 1])
      <4>1. CASE i < k
        <5>1. i \in 0 .. k - 1
          BY <3>0, <4>1
        <5>2. f[i] = IF i = 0 THEN <<>> ELSE Meets(names, i, f[i - 1])
          BY <3>2, <5>1 DEF UpTo
        <5>3. i # 0 => i - 1 \in 0 .. k /\ i - 1 < k
          BY <3>0, <4>1
        <5> QED BY <4>1, <5>2, <5>3
      <4>2. CASE ~(i < k)
        <5>1. i = k /\ i # 0 /\ i - 1 \in 0 .. k /\ i - 1 < k
          BY <3>0, <4>2
        <5> QED BY <4>2, <5>1
      <4> QED BY <4>1, <4>2
    <3>4. g = [i \in 0 .. k |-> g[i]]
      OBVIOUS
    <3> HIDE DEF g
    <3>5. UpTo(names, g, k)
      BY <3>3, <3>4 DEF UpTo
    <3> QED BY <2>1, <3>5
  <2> QED BY <2>2, <2>3
<1> QED BY <1>1

LEMMA OrderIs == /\ Order \in Seq(STRING) /\ Len(Order) \in Nat
                 /\ \A i \in 1 .. Len(Order) : Order[i] \in STRING
                 /\ Range(Order) = {Order[i] : i \in 1 .. Len(Order)}
<1>1. Order \in Seq(STRING)
  BY PanelAssumption
<1>2. /\ DOMAIN Order = 1 .. Len(Order) /\ Len(Order) \in Nat
      /\ \A i \in 1 .. Len(Order) : Order[i] \in STRING
  BY <1>1
<1> QED BY <1>1, <1>2 DEF Range

LEMMA ListedIs ==
  ASSUME NEW names
  PROVE  /\ Listed(names) = Met(names)[Len(Order)]
         /\ Met(names)[0] = <<>>
         /\ \A i \in 1 .. Len(Order) : Met(names)[i] = Meets(names, i, Met(names)[i - 1])
<1>1. UpTo(names, Met(names), Len(Order))
  BY OrderIs, MetExists DEF Met
<1>2. Listed(names) = Met(names)[Len(Order)]
  BY DEF Listed, Met, UpTo, Meets
<1> HIDE DEF Met
<1>3. /\ 0 \in 0 .. Len(Order)
      /\ \A i \in 1 .. Len(Order) : i \in 0 .. Len(Order) /\ i # 0
  BY OrderIs
<1> QED BY <1>1, <1>2, <1>3 DEF UpTo

\* Induction: a set of numbers in which none is the first is empty.
LEMMA NoneFirst ==
  ASSUME NEW B \in SUBSET Nat, \A k \in B : k # 0 /\ k - 1 \in B PROVE B = {}
<1> SUFFICES ASSUME B # {} PROVE FALSE
  OBVIOUS
<1>1. PICK k \in B : \A y \in B : k <= y
  BY NatMinimum
<1>2. k \in Nat /\ k - 1 \in B /\ ~(k <= k - 1)
  OBVIOUS
<1> QED BY <1>1, <1>2

LEMMA RangeAppend ==
  ASSUME NEW S, NEW s \in Seq(S), NEW x \in S
  PROVE  /\ Append(s, x) \in Seq(S) /\ Len(Append(s, x)) = Len(s) + 1
         /\ Range(Append(s, x)) = Range(s) \cup {x}
<1> DEFINE t == Append(s, x)
<1>1. /\ Len(s) \in Nat /\ t \in Seq(S) /\ Len(t) = Len(s) + 1
      /\ \A i \in 1 .. Len(s) : t[i] = s[i]
      /\ t[Len(s) + 1] = x
  BY AppendProperties
<1> HIDE DEF t
<1>2. DOMAIN s = 1 .. Len(s) /\ DOMAIN t = 1 .. Len(s) \cup {Len(s) + 1}
  BY <1>1
<1>3. Range(t) = Range(s) \cup {x}
  BY <1>1, <1>2 DEF Range
<1> QED BY <1>1, <1>3 DEF t

\* The iterator's names: those of the set that are keys, and no others.
LEMMA ListedNames ==
  ASSUME NEW names
  PROVE  /\ Listed(names) \in Seq(STRING)
         /\ \A i \in 0 .. Len(Order) : Met(names)[i] \in Seq(STRING)
         /\ Range(Listed(names)) = names \cap Range(Order)
<1> DEFINE m == Met(names)
           past(i) == {n \in names : \E h \in 1 .. i : Order[h] = n}
           Good(i) == m[i] \in Seq(STRING) /\ Range(m[i]) = past(i)
           B == {i \in 0 .. Len(Order) : ~ Good(i)}
<1>1. /\ m[0] = <<>>
      /\ \A i \in 1 .. Len(Order) : m[i] = Meets(names, i, m[i - 1])
  BY ListedIs
<1> HIDE DEF m
<1>2. Good(0)
  BY <1>1 DEF Range
<1>3. ASSUME NEW i \in 1 .. Len(Order), Good(i - 1) PROVE Good(i)
  <2>1. i \in Nat /\ 1 .. i = (1 .. i - 1) \cup {i} /\ Order[i] \in STRING
    BY OrderIs
  <2>2. CASE Order[i] \in names
    <3>1. m[i] = Append(m[i - 1], Order[i])
      BY <1>1, <2>2 DEF Meets
    <3>2. past(i) = past(i - 1) \cup {Order[i]}
      BY <2>1, <2>2
    <3> HIDE DEF past
    <3> QED BY <1>3, <2>1, <3>1, <3>2, RangeAppend
  <2>3. CASE Order[i] \notin names
    <3>1. m[i] = m[i - 1]
      BY <1>1, <2>3 DEF Meets
    <3>2. past(i) = past(i - 1)
      BY <2>1, <2>3
    <3> HIDE DEF past
    <3> QED BY <1>3, <3>1, <3>2
  <2> QED BY <2>2, <2>3
<1> HIDE DEF Good
<1>4. B = {}
  <2>1. ASSUME NEW i \in B PROVE i # 0 /\ i - 1 \in B
    <3>1. i \in 0 .. Len(Order) /\ ~ Good(i) /\ i # 0
      BY <1>2
    <3>2. i \in 1 .. Len(Order) /\ i - 1 \in 0 .. Len(Order)
      BY <3>1, OrderIs
    <3> QED BY <1>3, <3>1, <3>2
  <2>2. B \in SUBSET Nat
    OBVIOUS
  <2> HIDE DEF B
  <2> QED BY <2>1, <2>2, NoneFirst
<1>5. \A i \in 0 .. Len(Order) : Good(i)
  BY <1>4
<1>6. \A i \in 0 .. Len(Order) : m[i] \in Seq(STRING)
  BY <1>5 DEF Good
<1>7. Len(Order) \in 0 .. Len(Order) /\ past(Len(Order)) = names \cap Range(Order)
  <2>1. Len(Order) \in 0 .. Len(Order) /\ Range(Order) = {Order[i] : i \in 1 .. Len(Order)}
    BY OrderIs
  <2>2. past(Len(Order)) = names \cap {Order[i] : i \in 1 .. Len(Order)}
    OBVIOUS
  <2> QED BY <2>1, <2>2
<1>8. Listed(names) = m[Len(Order)]
  BY ListedIs DEF m
<1>9. Listed(names) \in Seq(STRING) /\ Range(Listed(names)) = names \cap Range(Order)
  BY <1>5, <1>7, <1>8 DEF Good
<1> QED BY <1>6, <1>9 DEF m

\* More names make a longer list.
LEMMA ListedMore ==
  ASSUME NEW S, NEW T, S \subseteq T
  PROVE  /\ Len(Listed(S)) \in Nat /\ Len(Listed(T)) \in Nat
         /\ Len(Listed(S)) <= Len(Listed(T))
         /\ \A n \in (T \cap Range(Order)) \ S : Len(Listed(S)) < Len(Listed(T))
<1> DEFINE f == Met(S)
           g == Met(T)
           New(i) == \E h \in 1 .. i : Order[h] \in T \ S
           Good(i) == /\ Len(f[i]) <= Len(g[i])
                      /\ New(i) => Len(f[i]) < Len(g[i])
           B == {i \in 0 .. Len(Order) : ~ Good(i)}
<1>1. /\ f[0] = <<>> /\ g[0] = <<>>
      /\ \A i \in 1 .. Len(Order) : f[i] = Meets(S, i, f[i - 1]) /\ g[i] = Meets(T, i, g[i - 1])
      /\ \A i \in 0 .. Len(Order) : f[i] \in Seq(STRING) /\ g[i] \in Seq(STRING)
      /\ Listed(S) = f[Len(Order)] /\ Listed(T) = g[Len(Order)]
  BY ListedIs, ListedNames
<1> HIDE DEF f, g
<1>2. Good(0)
  BY <1>1
<1>3. ASSUME NEW i \in 1 .. Len(Order), Good(i - 1) PROVE Good(i)
  <2>1. /\ 1 .. i = (1 .. i - 1) \cup {i} /\ Order[i] \in STRING
        /\ i - 1 \in 0 .. Len(Order)
    BY OrderIs
  <2>2. f[i - 1] \in Seq(STRING) /\ g[i - 1] \in Seq(STRING)
    BY <1>1, <2>1
  <2> DEFINE a == Len(f[i - 1])
             b == Len(g[i - 1])
  <2>3. /\ a \in Nat /\ b \in Nat /\ a <= b /\ (New(i - 1) => a < b)
    BY <1>3, <2>2
  <2>4. /\ Len(Append(f[i - 1], Order[i])) = a + 1
        /\ Len(Append(g[i - 1], Order[i])) = b + 1
    BY <2>1, <2>2, RangeAppend
  <2>5. /\ Len(f[i]) = IF Order[i] \in S THEN a + 1 ELSE a
        /\ Len(g[i]) = IF Order[i] \in T THEN b + 1 ELSE b
    BY <1>1, <2>4 DEF Meets
  <2>6. New(i) <=> New(i - 1) \/ Order[i] \in T \ S
    BY <2>1
  <2> HIDE DEF a, b, New
  <2> QED BY <2>3, <2>5, <2>6
<1> HIDE DEF Good
<1>4. B = {}
  <2>1. ASSUME NEW i \in B PROVE i # 0 /\ i - 1 \in B
    <3>1. i \in 0 .. Len(Order) /\ ~ Good(i) /\ i # 0
      BY <1>2
    <3>2. i \in 1 .. Len(Order) /\ i - 1 \in 0 .. Len(Order)
      BY <3>1, OrderIs
    <3> QED BY <1>3, <3>1, <3>2
  <2>2. B \in SUBSET Nat
    OBVIOUS
  <2> HIDE DEF B
  <2> QED BY <2>1, <2>2, NoneFirst
<1>5. Len(Order) \in 0 .. Len(Order)
  BY OrderIs
<1>6. Good(Len(Order))
  BY <1>4, <1>5
<1>7. ASSUME NEW n \in (T \cap Range(Order)) \ S PROVE New(Len(Order))
  <2>1. n \in {Order[i] : i \in 1 .. Len(Order)} /\ n \in T \ S
    BY OrderIs
  <2>2. PICK h \in 1 .. Len(Order) : Order[h] = n
    BY <2>1
  <2> QED BY <2>1, <2>2
<1>8. Len(Listed(S)) \in Nat /\ Len(Listed(T)) \in Nat
  BY <1>1, <1>5
<1> QED BY <1>1, <1>6, <1>7, <1>8 DEF Good

-----------------------------------------------------------------------------
(* What each slot leaves alone.                                            *)

\* Slots that tune change what they tune and nothing else.
Tunes(p, q) == /\ DOMAIN q = PanelFields
               /\ \A x \in PanelFields \ {"rx", "tx", "radio", "told"} : q[x] = p[x]

LEMMA TunesOn == \A p, q, r : Tunes(p, q) /\ Tunes(q, r) => Tunes(p, r)
BY DEF Tunes

LEMMA TunesFields ==
  ASSUME NEW p, NEW q, Tunes(p, q)
  PROVE  /\ q.items = p.items /\ q.bandSel = p.bandSel /\ q.current = p.current
         /\ q.auto = p.auto /\ q.lock = p.lock /\ q.mode = p.mode /\ q.band_map = p.band_map
         /\ q.offset = p.offset
BY DEF Tunes, PanelFields

LEMMA NocrossTunes ==
  ASSUME NEW p, Sound(p), NEW f
  PROVE  /\ Tunes(p, SetRXFreq_nocross(p, f)) /\ SetRXFreq_nocross(p, f).tx = p.tx
         /\ Tunes(p, SetTXFreq_nocross(p, f)) /\ SetTXFreq_nocross(p, f).tx = f
<1>1. Tunes(p, SetRXFreq_nocross(p, f)) /\ SetRXFreq_nocross(p, f).tx = p.tx
  BY DEF Sound, Tunes, SetRXFreq_nocross, PanelFields
<1>2. Tunes(p, SetTXFreq_nocross(p, f)) /\ SetTXFreq_nocross(p, f).tx = f
  BY DEF Sound, Tunes, SetTXFreq_nocross, PanelFields
<1> QED BY <1>1, <1>2

LEMMA SetFreqTunes ==
  ASSUME NEW p, Sound(p), NEW f
  PROVE  /\ Tunes(p, SetRXFreq(p, f)) /\ (~p.lock => SetRXFreq(p, f).tx = p.tx)
         /\ Tunes(p, SetTXFreq(p, f)) /\ (~p.lock => SetTXFreq(p, f).tx = f)
<1>1. Tunes(p, SetRXFreq(p, f)) /\ (~p.lock => SetRXFreq(p, f).tx = p.tx)
  <2> DEFINE q == SetRXFreq_nocross(p, f)
  <2>1. Sound(q) /\ Tunes(p, q) /\ q.tx = p.tx
    BY SetRXFreqNocrossSets, NocrossTunes
  <2> HIDE DEF q
  <2>2. Tunes(q, SetTXFreq_nocross(q, f + p.offset))
    BY <2>1, NocrossTunes
  <2>3. SetRXFreq(p, f) = IF p.lock THEN SetTXFreq_nocross(q, f + p.offset) ELSE q
    BY DEF SetRXFreq, q
  <2> QED BY <2>1, <2>2, <2>3, TunesOn
<1>2. Tunes(p, SetTXFreq(p, f)) /\ (~p.lock => SetTXFreq(p, f).tx = f)
  <2> DEFINE q == SetTXFreq_nocross(p, f)
  <2>1. Sound(q) /\ Tunes(p, q) /\ q.tx = f
    BY SetTXFreqNocrossStays, NocrossTunes
  <2> HIDE DEF q
  <2>2. Tunes(q, SetRXFreq_nocross(q, f - p.offset))
    BY <2>1, NocrossTunes
  <2>3. SetTXFreq(p, f) = IF p.lock THEN SetRXFreq_nocross(q, f - p.offset) ELSE q
    BY DEF SetTXFreq, q
  <2> QED BY <2>1, <2>2, <2>3, TunesOn
<1> QED BY <1>1, <1>2

LEMMA NewFreqTunes ==
  ASSUME NEW p, Sound(p), NEW f
  PROVE  /\ Tunes(p, NewRXFreq(p, f)) /\ (~p.lock => NewRXFreq(p, f).tx = p.tx)
         /\ Tunes(p, NewTXFreq(p, f)) /\ (~p.lock => NewTXFreq(p, f).tx = f)
<1>1. Tunes(p, NewRXFreq(p, f)) /\ (~p.lock => NewRXFreq(p, f).tx = p.tx)
  <2> DEFINE q == [p EXCEPT !.rx = f]
             r == SetRXFreq(q, f)
             s == [r EXCEPT !.told["rx"] = f]
  <2>1. Sound(q) /\ Tunes(p, q) /\ q.tx = p.tx /\ q.lock = p.lock
    BY DEF Sound, Tunes, PanelFields, Sides
  <2> HIDE DEF q
  <2>2. Tunes(q, r) /\ (~q.lock => r.tx = q.tx)
    BY <2>1, SetFreqTunes
  <2> HIDE DEF r
  <2>3. Tunes(r, s) /\ s.tx = r.tx
    BY <2>2 DEF Tunes, PanelFields
  <2>4. NewRXFreq(p, f) = s
    BY DEF NewRXFreq, q, r
  <2> HIDE DEF s
  <2> QED BY <2>1, <2>2, <2>3, <2>4, TunesOn
<1>2. Tunes(p, NewTXFreq(p, f)) /\ (~p.lock => NewTXFreq(p, f).tx = f)
  <2> DEFINE q == [p EXCEPT !.tx = f]
             r == SetTXFreq(q, f)
             s == [r EXCEPT !.told["tx"] = f]
  <2>1. Sound(q) /\ Tunes(p, q) /\ q.lock = p.lock
    BY DEF Sound, Tunes, PanelFields, Sides
  <2> HIDE DEF q
  <2>2. Tunes(q, r) /\ (~q.lock => r.tx = f)
    BY <2>1, SetFreqTunes
  <2> HIDE DEF r
  <2>3. Tunes(r, s) /\ s.tx = r.tx
    BY <2>2 DEF Tunes, PanelFields
  <2>4. NewTXFreq(p, f) = s
    BY DEF NewTXFreq, q, r
  <2> HIDE DEF s
  <2> QED BY <2>1, <2>2, <2>3, <2>4, TunesOn
<1> QED BY <1>1, <1>2

\* The band left remembers the labels, all others what they did.
LEMMA SaveCurrentFreqsOnly ==
  ASSUME NEW p, Sound(p)
  PROVE  LET q == SaveCurrentFreqs(p) IN
         /\ DOMAIN q = PanelFields
         /\ \A x \in PanelFields \ {"band_map"} : q[x] = p[x]
         /\ DOMAIN q.band_map = DOMAIN p.band_map
         /\ \A n \in DOMAIN p.band_map : n # p.current => q.band_map[n] = p.band_map[n]
         /\ p.current \in DOMAIN p.band_map =>
              LET b == p.band_map[p.current]
                  c == q.band_map[p.current]
              IN  /\ InBand(b, p.rx) => c.rx = p.rx
                  /\ InBand(b, p.tx) => c.tx = p.tx
<1>1. CASE p.current \notin DOMAIN p.band_map
  BY <1>1 DEF SaveCurrentFreqs, Sound
<1>2. CASE p.current \in DOMAIN p.band_map
  <2> DEFINE b == p.band_map[p.current]
             rx == IF InBand(b, p.rx) THEN p.rx ELSE b.rx
             tx == IF InBand(b, p.tx) THEN p.tx ELSE b.tx
             entry == [b EXCEPT !.rx = rx, !.tx = tx]
             map == [p.band_map EXCEPT ![p.current] = entry]
  <2>1. DOMAIN b = EntryFields
    BY <1>2 DEF Sound, MapInRange, EntryInRange
  <2>2. entry.rx = rx /\ entry.tx = tx
    BY <2>1 DEF EntryFields
  <2>3. SaveCurrentFreqs(p) = [p EXCEPT !.band_map = map]
    BY <1>2 DEF SaveCurrentFreqs
  <2> HIDE DEF entry
  <2>4. /\ DOMAIN map = DOMAIN p.band_map /\ map[p.current] = entry
        /\ \A n \in DOMAIN p.band_map : n # p.current => map[n] = p.band_map[n]
    BY <1>2
  <2> HIDE DEF map
  <2> QED BY <1>2, <2>2, <2>3, <2>4 DEF Sound, PanelFields
<1> QED BY <1>1, <1>2

LEMMA SavedFields ==
  ASSUME NEW p, Sound(p)
  PROVE  LET q == SaveCurrentFreqs(p) IN
         /\ q.items = p.items /\ q.bandSel = p.bandSel /\ q.current = p.current
         /\ q.auto = p.auto /\ q.lock = p.lock /\ q.mode = p.mode
         /\ q.rx = p.rx /\ q.tx = p.tx /\ q.radio = p.radio
BY SaveCurrentFreqsOnly DEF PanelFields

\* What a change of band leaves alone, and what the new band brings if the
\* operator chose it.
Brings(p, q, band) ==
  LET b == p.band_map[band]
  IN  q.rx = b.rx /\ q.radio.rx = b.rx /\ (~p.lock => q.tx = b.tx)

LEMMA ChangeBandOnly ==
  ASSUME NEW p, Sound(p), NEW band
  PROVE  LET q == ChangeBand(p, band) IN
         /\ Sound(q)
         /\ q.items = p.items /\ q.bandSel = p.bandSel /\ q.lock = p.lock
         /\ DOMAIN q.band_map = DOMAIN p.band_map
         /\ q.current = IF band \in DOMAIN p.band_map THEN band ELSE p.current
         /\ p.auto = None => q.auto = None /\ q.mode = p.mode
         /\ \A n \in DOMAIN p.band_map : n # p.current => q.band_map[n] = p.band_map[n]
         /\ (band \in DOMAIN p.band_map /\ band # p.auto /\ band # p.current)
              => Brings(p, q, band)
<1> DEFINE q == IF band # p.current THEN SaveCurrentFreqs(p) ELSE p
           b == q.band_map[band]
           q1 == [q EXCEPT !["offset"] = IF b.ena THEN b.off ELSE 0]
           q2 == [q1 EXCEPT !["mode"] = IF p.auto # None THEN b.mode ELSE q.mode]
           r == SetRXFreq(q2, b.rx)
           f == IF p.lock THEN b.rx + b.off ELSE b.tx
           byUser == SetTXFreq_nocross(r, f)
           automatic == [q EXCEPT !["auto"] = None]
           s == IF band # p.auto THEN byUser ELSE automatic
           t == [s EXCEPT !["current"] = band]
           ThatsAll(x) == /\ Sound(x) /\ x.items = p.items /\ x.bandSel = p.bandSel
                          /\ x.lock = p.lock /\ x.band_map = q.band_map
                          /\ x.current = p.current
                          /\ p.auto = None => x.auto = None /\ x.mode = p.mode
<1>0. Sound(ChangeBand(p, band))
  BY ChangeBandKeeps
<1>1. /\ ThatsAll(q) /\ DOMAIN q.band_map = DOMAIN p.band_map /\ q.auto = p.auto
      /\ \A n \in DOMAIN p.band_map : n # p.current => q.band_map[n] = p.band_map[n]
  BY SaveCurrentFreqsKeeps, SaveCurrentFreqsOnly, SavedFields
<1>2. CASE band \notin DOMAIN q.band_map
  <2>1. ChangeBand(p, band) = q
    BY <1>2 DEF ChangeBand
  <2> HIDE DEF q
  <2> QED BY <1>0, <1>1, <1>2, <2>1
<1>3. CASE band \in DOMAIN q.band_map
  <2>1. ChangeBand(p, band) = t
    <3>1. [q EXCEPT !.offset = IF b.ena THEN b.off ELSE 0,
                    !.mode = IF p.auto # None THEN b.mode ELSE @] = q2
      BY <1>1 DEF Sound, PanelFields
    <3> QED BY <1>3, <3>1 DEF ChangeBand
  <2>0. band # p.current => b = p.band_map[band]
    BY <1>1, <1>3
  <2> HIDE DEF q
  <2>2. Sound(q1)
    BY <1>1, FieldChanges
  <2>3. Sound(q2)
    <3> HIDE DEF q1
    <3> QED BY <2>2, FieldChanges
  <2>4. ThatsAll(q2)
    BY <1>1, <2>3 DEF Sound, PanelFields
  <2> HIDE DEF q2, f, b
  <2>5. Sound(r) /\ On(r, b.rx) /\ Tunes(q2, r)
    BY <2>3, SetRXFreqSets, SetFreqTunes
  <2> HIDE DEF r
  <2>6. /\ Sound(byUser) /\ Stays(r, byUser) /\ Tunes(r, byUser) /\ byUser.tx = f
    BY <2>5, SetTXFreqNocrossStays, NocrossTunes
  <2> HIDE DEF byUser
  <2>7. ThatsAll(byUser)
    <3>1. Tunes(q2, byUser)
      BY <2>5, <2>6, TunesOn
    <3> QED BY <2>4, <2>6, <3>1, TunesFields
  <2>8. ThatsAll(automatic)
    <3>1. Sound(automatic)
      BY <1>1, FieldChanges
    <3> QED BY <1>1, <3>1 DEF Sound, PanelFields
  <2> HIDE DEF automatic
  <2>9. ThatsAll(s)
    BY <2>7, <2>8
  <2>a. Sound(t) /\ Stays(s, t)
    BY <2>9, FieldChanges
  <2>b. /\ t.items = p.items /\ t.bandSel = p.bandSel /\ t.lock = p.lock
        /\ t.band_map = q.band_map /\ t.current = band /\ t.tx = s.tx
        /\ p.auto = None => t.auto = None /\ t.mode = p.mode
    <3> HIDE DEF s
    <3> QED BY <2>9 DEF Sound, PanelFields
  <2>c. band # p.auto /\ band # p.current => Brings(p, t, band)
    <3> SUFFICES ASSUME band # p.auto, band # p.current PROVE Brings(p, t, band)
      OBVIOUS
    <3>1. s = byUser
      OBVIOUS
    <3>2. t.rx = b.rx /\ t.radio.rx = b.rx /\ t.tx = f
      BY <2>5, <2>6, <2>a, <2>b, <3>1 DEF On, Stays
    <3> HIDE DEF t
    <3> QED BY <2>0, <3>2 DEF Brings, f
  <2> HIDE DEF t
  <2> QED BY <1>1, <1>3, <2>1, <2>a, <2>b, <2>c
<1> QED BY <1>2, <1>3

LEMMA ShowOnly ==
  ASSUME NEW p, Sound(p), NEW band
  PROVE  LET q == Show(p, band) IN
         /\ Sound(q)
         /\ q.items = p.items /\ q.bandSel = band /\ q.lock = p.lock
         /\ DOMAIN q.band_map = DOMAIN p.band_map
         /\ p.bandSel = band => q = p
         /\ p.bandSel # band =>
              /\ q.current = IF band \in DOMAIN p.band_map THEN band ELSE p.current
              /\ (band \in DOMAIN p.band_map /\ band # p.auto /\ band # p.current)
                   => Brings(p, q, band)
         /\ p.auto = None => q.auto = None /\ q.mode = p.mode
         /\ \A n \in DOMAIN p.band_map : n # p.current => q.band_map[n] = p.band_map[n]
<1> DEFINE q == [p EXCEPT !["bandSel"] = band]
           r == ChangeBand(q, band)
<1>1. /\ Sound(q) /\ q.items = p.items /\ q.bandSel = band /\ q.lock = p.lock
      /\ q.band_map = p.band_map /\ q.current = p.current /\ q.auto = p.auto
      /\ q.mode = p.mode
  BY DEF Sound, PanelFields
<1> HIDE DEF q
<1>2. /\ Sound(r)
      /\ r.items = q.items /\ r.bandSel = q.bandSel /\ r.lock = q.lock
      /\ DOMAIN r.band_map = DOMAIN q.band_map
      /\ r.current = IF band \in DOMAIN q.band_map THEN band ELSE q.current
      /\ q.auto = None => r.auto = None /\ r.mode = q.mode
      /\ \A n \in DOMAIN q.band_map : n # q.current => r.band_map[n] = q.band_map[n]
      /\ (band \in DOMAIN q.band_map /\ band # q.auto /\ band # q.current)
           => Brings(q, r, band)
  BY <1>1, ChangeBandOnly
<1> HIDE DEF r
<1>3. Show(p, band) = IF p.bandSel = band THEN p ELSE r
  BY DEF Show, q, r
<1>4. Brings(q, r, band) => Brings(p, r, band)
  BY <1>1 DEF Brings
<1>5. CASE p.bandSel = band
  BY <1>3, <1>5
<1>6. CASE p.bandSel # band
  BY <1>1, <1>2, <1>3, <1>4, <1>6
<1> QED BY <1>5, <1>6

-----------------------------------------------------------------------------
(* The band selector and the settings file are in order.                   *)

InOrder(p) ==
  /\ p.items \in Seq(STRING)
  /\ Range(p.items) = DOMAIN p.band_map /\ DOMAIN p.band_map \subseteq Range(Order)
  /\ Len(p.items) <= Len(Listed(DOMAIN p.band_map))
  /\ p.bandSel # None => p.bandSel \in DOMAIN p.band_map /\ p.current = p.bandSel

FileInOrder(file) == /\ DOMAIN file.band_map \subseteq Range(Order)
                     /\ file.index \in 0 .. Len(Listed(DOMAIN file.band_map))

LEMMA ShowInOrder ==
  ASSUME NEW p, Sound(p), InOrder(p), NEW band, band \in DOMAIN p.band_map \cup {None}
  PROVE  Sound(Show(p, band)) /\ InOrder(Show(p, band))
<1> DEFINE q == Show(p, band)
<1>1. /\ Sound(q) /\ q.items = p.items /\ q.bandSel = band
      /\ DOMAIN q.band_map = DOMAIN p.band_map
      /\ p.bandSel = band => q = p
      /\ p.bandSel # band => q.current = IF band \in DOMAIN p.band_map THEN band ELSE p.current
  BY ShowOnly
<1> HIDE DEF q
<1>2. InOrder(q)
  BY <1>1 DEF InOrder
<1> QED BY <1>1, <1>2 DEF q

LEMMA TunesInOrder == ASSUME NEW p, NEW q, Tunes(p, q), InOrder(p) PROVE InOrder(q)
BY TunesFields DEF InOrder

LEMMA OtherInOrder ==
  ASSUME NEW p, Sound(p), InOrder(p), NEW x, NEW field \in {"auto", "lock", "mode"}
  PROVE  LET q == [p EXCEPT ![field] = x] IN Sound(q) /\ InOrder(q) /\ q.band_map = p.band_map
<1> DEFINE q == [p EXCEPT ![field] = x]
<1>1. Sound(q)
  BY FieldChanges
<1>2. /\ q.items = p.items /\ q.band_map = p.band_map /\ q.bandSel = p.bandSel
      /\ q.current = p.current
  BY DEF Sound, PanelFields
<1> HIDE DEF q
<1>3. InOrder(q)
  BY <1>2 DEF InOrder
<1> QED BY <1>1, <1>2, <1>3 DEF q

LEMMA FirstListed ==
  ASSUME NEW names, Listed(names) # <<>>
  PROVE  Listed(names)[1] \in names \cap Range(Order)
<1> DEFINE s == Listed(names)
<1>1. s \in Seq(STRING) /\ Range(s) = names \cap Range(Order)
  BY ListedNames
<1> HIDE DEF s
<1>2. s # <<>> => 1 \in DOMAIN s
  BY <1>1
<1> QED BY <1>1, <1>2 DEF Range, s

LEMMA NoneListed ==
  ASSUME NEW names, names \subseteq Range(Order), Listed(names) = <<>> PROVE names = {}
<1>1. Range(<<>>) = {}
  BY DEF Range
<1> QED BY <1>1, ListedNames

LEMMA FindBandFinds ==
  ASSUME NEW map, NEW f PROVE FindBand(map, f) \in DOMAIN map \cup {None}
<1> DEFINE names == {n \in DOMAIN map : InBand(map[n], f)}
           in == Listed(names)
<1>1. in # <<>> => in[1] \in names
  BY FirstListed
<1>2. FindBand(map, f) = IF in = <<>> THEN None ELSE in[1]
  BY DEF FindBand
<1> HIDE DEF in
<1> QED BY <1>1, <1>2

LEMMA UpdateBandDisplayInOrder ==
  ASSUME NEW p, Sound(p), InOrder(p), NEW f
  PROVE  InOrder(UpdateBandDisplay(p, f))
<1> DEFINE band == FindBand(p.band_map, f)
           q == [p EXCEPT !["auto"] = band]
           r == Show(q, band)
           s == [r EXCEPT !["mode"] = p.mode]
<1>0. band \in DOMAIN p.band_map \cup {None}
  BY FindBandFinds
<1> HIDE DEF band
<1>1. Sound(q) /\ InOrder(q) /\ q.band_map = p.band_map
  BY OtherInOrder
<1> HIDE DEF q
<1>2. Sound(r) /\ InOrder(r)
  BY <1>0, <1>1, ShowInOrder
<1> HIDE DEF r
<1>3. InOrder(s)
  BY <1>2, OtherInOrder
<1>4. UpdateBandDisplay(p, f) = IF band = None THEN p ELSE s
  BY DEF UpdateBandDisplay, band, q, r
<1> HIDE DEF s
<1> QED BY <1>3, <1>4

\* A new band is last in the selector.
LEMMA WriteBandMapEntryInOrder ==
  ASSUME NEW p, Sound(p), InOrder(p), NEW name \in DOMAIN NewLimits
  PROVE  InOrder(WriteBandMapEntry(p, name))
<1> DEFINE lo == NewLimits[name][1]
           hi == NewLimits[name][2]
           mid == (lo + hi) \div 2
           b == [lo |-> lo, hi |-> hi, rx |-> mid, tx |-> mid,
                 mode |-> p.mode, off |-> 0, ena |-> FALSE]
           map == [n \in DOMAIN p.band_map \cup {name} |->
                     IF n = name THEN b ELSE p.band_map[n]]
           q == [p EXCEPT !.band_map = map]
           r == [q EXCEPT !["items"] = Append(q.items, name)]
<1>0. lo \in Int /\ hi \in Int /\ lo <= hi
  <2>1. NewLimits[name] \in Int \X Int /\ lo <= hi
    BY PanelAssumption
  <2> QED BY <2>1
<1>a. name \in Range(Order) /\ name \in STRING
  <2>1. name \in Range(Order)
    BY PanelAssumption
  <2> QED BY <2>1, OrderIs
<1> HIDE DEF lo, hi
<1>1. mid \in lo .. hi
  BY <1>0
<1> HIDE DEF mid
<1>2. EntryInRange(b)
  BY <1>1 DEF EntryInRange, EntryFields, InBand
<1>3. WriteBandMapEntry(p, name) =
        IF name \in Range(p.items) THEN q
        ELSE IF p.items = <<>> THEN Show(r, name) ELSE r
  BY DEF WriteBandMapEntry, mid, lo, hi
<1> HIDE DEF b
<1>4. MapInRange(map) /\ DOMAIN map = DOMAIN p.band_map \cup {name}
  BY <1>2 DEF Sound, MapInRange
<1> HIDE DEF map
<1>5. /\ Sound(q) /\ q.band_map = map /\ q.items = p.items /\ q.bandSel = p.bandSel
      /\ q.current = p.current
  BY <1>4 DEF Sound, PanelFields
<1> HIDE DEF q
<1>6. CASE name \in Range(p.items)
  <2>1. DOMAIN q.band_map = DOMAIN p.band_map
    BY <1>4, <1>5, <1>6 DEF InOrder
  <2> QED BY <1>3, <1>5, <1>6, <2>1 DEF InOrder
<1>7. CASE name \notin Range(p.items)
  <2>1. /\ Sound(r) /\ r.band_map = map /\ r.items = Append(p.items, name)
        /\ r.bandSel = p.bandSel /\ r.current = p.current
    BY <1>5 DEF Sound, PanelFields
  <2> HIDE DEF r
  <2>2. /\ r.items \in Seq(STRING) /\ Len(r.items) = Len(p.items) + 1
        /\ Range(r.items) = Range(p.items) \cup {name}
    BY <1>a, <2>1, RangeAppend DEF InOrder
  <2>3. Len(p.items) + 1 <= Len(Listed(DOMAIN map))
    <3> DEFINE S == DOMAIN p.band_map
               T == DOMAIN map
    <3>1. S \subseteq T /\ name \in (T \cap Range(Order)) \ S
      BY <1>a, <1>4, <1>7 DEF InOrder
    <3>2. Len(p.items) \in Nat /\ Len(p.items) <= Len(Listed(S))
      BY DEF InOrder
    <3> HIDE DEF S, T
    <3>3. Len(Listed(S)) \in Nat /\ Len(Listed(T)) \in Nat /\ Len(Listed(S)) < Len(Listed(T))
      BY <3>1, ListedMore
    <3>4. Len(p.items) + 1 <= Len(Listed(T))
      BY <3>2, <3>3
    <3> QED BY <3>4 DEF T
  <2>4. InOrder(r)
    BY <1>a, <1>4, <2>1, <2>2, <2>3 DEF InOrder
  <2>5. InOrder(Show(r, name))
    BY <1>4, <2>1, <2>4, ShowInOrder
  <2> QED BY <1>3, <1>7, <2>4, <2>5
<1> QED BY <1>6, <1>7

LEMMA SavedInOrder ==
  ASSUME NEW p, Sound(p), InOrder(p)
  PROVE  FileInOrder(Saved(p)) /\ InOrder(SaveCurrentFreqs(p))
<1> DEFINE q == SaveCurrentFreqs(p)
           found == CHOOSE i \in DOMAIN p.items : p.items[i] = p.bandSel
<1>1. /\ DOMAIN q.band_map = DOMAIN p.band_map
      /\ q.items = p.items /\ q.bandSel = p.bandSel /\ q.current = p.current
  BY SaveCurrentFreqsOnly, SavedFields
<1> HIDE DEF q
<1>2. InOrder(q)
  BY <1>1 DEF InOrder
<1>3. /\ Saved(p).band_map = q.band_map
      /\ Saved(p).index = IF p.bandSel \in Range(p.items) THEN found ELSE 0
  BY DEF Saved, q
<1>4. p.bandSel \in Range(p.items) => found \in DOMAIN p.items
  BY DEF Range
<1> HIDE DEF found
<1>5. DOMAIN p.items = 1 .. Len(p.items) /\ Len(p.items) \in Nat
  BY DEF InOrder
<1>6. Len(Listed(DOMAIN q.band_map)) \in Nat /\ Len(p.items) <= Len(Listed(DOMAIN q.band_map))
  BY <1>1, ListedMore DEF InOrder
<1>7. Saved(p).index \in 0 .. Len(Listed(DOMAIN q.band_map))
  BY <1>3, <1>4, <1>5, <1>6
<1>8. FileInOrder(Saved(p))
  BY <1>1, <1>3, <1>7 DEF FileInOrder, InOrder
<1> QED BY <1>2, <1>8 DEF q

\* Restoring sorts the selector and shows the first band.
LEMMA BandMapRestoreInOrder ==
  ASSUME NEW p, Sound(p), InOrder(p),
         NEW file, MapInRange(file.band_map), FileInOrder(file)
  PROVE  LET q == BandMapRestore(p, file)
         IN  /\ Sound(q) /\ InOrder(q) /\ (p.lock = q.lock)
             /\ file.index # 0 => file.index \in DOMAIN q.items
<1> DEFINE map == [n \in DOMAIN p.band_map \cup DOMAIN file.band_map |->
                     IF n \in DOMAIN file.band_map THEN file.band_map[n]
                     ELSE p.band_map[n]]
           T == DOMAIN map
           names == Listed(T)
           q == [p EXCEPT !.band_map = map]
           cleared == Show(q, None)
           filled == [cleared EXCEPT !["items"] = names]
<1>1. BandMapRestore(p, file) = IF names = <<>> THEN cleared ELSE Show(filled, names[1])
  BY DEF BandMapRestore
<1>2. MapInRange(map) /\ DOMAIN map = DOMAIN p.band_map \cup DOMAIN file.band_map
  BY DEF Sound, MapInRange
<1> HIDE DEF map
<1>3. Sound(q) /\ q.band_map = map /\ q.items = p.items /\ q.lock = p.lock
  BY <1>2 DEF Sound, PanelFields
<1> HIDE DEF q
<1>4. /\ Sound(cleared) /\ cleared.items = p.items /\ cleared.bandSel = None
      /\ DOMAIN cleared.band_map = T /\ cleared.lock = p.lock
  BY <1>3, ShowOnly
<1> HIDE DEF cleared
<1>5. /\ Sound(filled) /\ filled.items = names /\ filled.bandSel = None
      /\ DOMAIN filled.band_map = T /\ filled.lock = p.lock
  BY <1>4 DEF Sound, PanelFields
<1> HIDE DEF filled
<1>6. T \subseteq Range(Order) /\ DOMAIN file.band_map \subseteq T
  BY <1>2 DEF InOrder, FileInOrder
<1>a. T = DOMAIN p.band_map \cup DOMAIN file.band_map
  BY <1>2
<1> HIDE DEF T
<1>7. /\ names \in Seq(STRING) /\ Range(names) = T
      /\ DOMAIN names = 1 .. Len(names) /\ Len(names) \in Nat
  <2>1. names \in Seq(STRING) /\ Range(names) = T \cap Range(Order)
    BY ListedNames
  <2> HIDE DEF names
  <2> QED BY <1>6, <2>1
<1>8. file.index # 0 => file.index \in 1 .. Len(names)
  <2> DEFINE S == DOMAIN file.band_map
  <2>1. Len(Listed(S)) \in Nat /\ Len(names) \in Nat /\ Len(Listed(S)) <= Len(names)
    BY <1>6, ListedMore
  <2>2. file.index \in 0 .. Len(Listed(S))
    BY DEF FileInOrder
  <2> HIDE DEF S, names
  <2> QED BY <2>1, <2>2
<1>9. CASE names = <<>>
  <2>1. T = {}
    BY <1>6, <1>9, NoneListed
  <2>2. DOMAIN p.band_map = T
    BY <1>a, <2>1
  <2>3. InOrder(cleared)
    BY <1>4, <2>2 DEF InOrder
  <2>4. file.index = 0
    BY <1>8, <1>9
  <2> QED BY <1>1, <1>4, <1>9, <2>3, <2>4
<1>b. CASE names # <<>>
  <2>1. names[1] \in T
    BY <1>b, FirstListed
  <2>2. InOrder(filled)
    BY <1>5, <1>6, <1>7 DEF InOrder
  <2> DEFINE r == Show(filled, names[1])
  <2>3. Sound(r) /\ InOrder(r) /\ r.items = names /\ r.lock = p.lock
    BY <1>5, <2>1, <2>2, ShowInOrder, ShowOnly
  <2> HIDE DEF r
  <2>4. BandMapRestore(p, file) = r
    BY <1>1, <1>b DEF r
  <2> HIDE DEF names
  <2> QED BY <1>7, <1>8, <2>3, <2>4
<1> QED BY <1>9, <1>b

LEMMA RestoreSettingsInOrder ==
  ASSUME NEW p, Sound(p), InOrder(p),
         NEW file, MapInRange(file.band_map), FileInOrder(file)
  PROVE  InOrder(RestoreSettings(p, file))
<1> DEFINE q == BandMapRestore(p, file)
           mode == [q EXCEPT !["mode"] = file.mode]
           rx == NewRXFreq(mode, file.rx)
           freqs == NewTXFreq(rx, file.tx)
           lock == [freqs EXCEPT !["lock"] = file.lock]
           band == IF file.index = 0 THEN None ELSE q.items[file.index]
<1>1. /\ Sound(q) /\ InOrder(q)
      /\ file.index # 0 => file.index \in DOMAIN q.items
  BY BandMapRestoreInOrder
<1> HIDE DEF q
<1>2. Sound(mode) /\ InOrder(mode) /\ mode.band_map = q.band_map
  BY <1>1, OtherInOrder
<1>a. mode.items = q.items
  BY <1>1 DEF Sound, PanelFields
<1> HIDE DEF mode
<1>3. Sound(rx) /\ Tunes(mode, rx)
  BY <1>2, NewRXFreqSets, NewFreqTunes
<1> HIDE DEF rx
<1>4. Sound(freqs) /\ Tunes(rx, freqs)
  BY <1>3, NewTXFreqStays, NewFreqTunes
<1> HIDE DEF freqs
<1>5. InOrder(freqs) /\ freqs.band_map = q.band_map
  BY <1>2, <1>3, <1>4, TunesInOrder, TunesFields
<1>6. Sound(lock) /\ InOrder(lock) /\ lock.band_map = q.band_map
  BY <1>4, <1>5, OtherInOrder
<1>b. lock.items = q.items
  <2>1. freqs.items = q.items
    BY <1>a, <1>3, <1>4, TunesFields
  <2> QED BY <1>4, <2>1 DEF Sound, PanelFields
<1> HIDE DEF lock
<1>7. band \in DOMAIN q.band_map \cup {None}
  BY <1>1 DEF InOrder, Range
<1> HIDE DEF band
<1>8. RestoreSettings(p, file) = Show(lock, band)
  BY <1>b DEF RestoreSettings, WidgetRestore, q, mode, rx, freqs, lock, band
<1> QED BY <1>6, <1>7, <1>8, ShowInOrder

-----------------------------------------------------------------------------
(* Restarting: a fresh window, and the settings that the old one left.     *)

Brought(old, p) ==
  /\ p.rx = old.rx /\ p.radio.rx = old.rx
  /\ ~old.lock => p.tx = old.tx
  /\ p.bandSel = old.bandSel /\ p.mode = old.mode

BringsBack(old, p) ==
  LET b == old.band_map[old.bandSel]
  IN  /\ old.bandSel # None
      /\ old.items = Listed(Range(old.items))
      /\ InBand(b, old.rx) /\ InBand(b, old.tx)
      => Brought(old, p)

LEMMA FreshIs ==
  ASSUME NEW offset
  PROVE  LET p == FreshPanel(offset) IN
         /\ Sound(p) /\ InOrder(p) /\ p.band_map = <<>> /\ p.items = <<>>
         /\ p.bandSel = None /\ p.current = None /\ p.auto = None /\ p.lock = FALSE
<1> DEFINE p == FreshPanel(offset)
<1>1. Sound(p)
  BY FreshPanelIsSound
<1>2. /\ p.band_map = <<>> /\ p.items = <<>>
      /\ p.bandSel = None /\ p.current = None /\ p.auto = None /\ p.lock = FALSE
  BY DEF FreshPanel
<1> HIDE DEF p
<1>3. InOrder(p)
  <2>1. <<>> \in Seq(STRING) /\ Len(<<>>) = 0 /\ DOMAIN <<>> = {}
    OBVIOUS
  <2>2. Range(<<>>) = {}
    BY DEF Range
  <2>3. Len(Listed({})) \in Nat
    BY ListedMore
  <2>4. 0 <= Len(Listed({}))
    BY <2>3
  <2> QED BY <1>2, <2>1, <2>2, <2>4 DEF InOrder
<1> QED BY <1>1, <1>2, <1>3 DEF p

\* What the file says of the band that was shown.
LEMMA SavedBand ==
  ASSUME NEW old, Sound(old), InOrder(old), old.bandSel # None,
         LET b == old.band_map[old.bandSel] IN InBand(b, old.rx) /\ InBand(b, old.tx)
  PROVE  LET file == Saved(old)
             B == old.bandSel
         IN  /\ file.rx = old.rx /\ file.tx = old.tx /\ file.mode = old.mode
             /\ file.lock = old.lock /\ DOMAIN file.band_map = DOMAIN old.band_map
             /\ MapInRange(file.band_map) /\ FileInOrder(file)
             /\ B \in DOMAIN old.band_map
             /\ file.band_map[B].rx = old.rx /\ file.band_map[B].tx = old.tx
             /\ file.index \in 1 .. Len(old.items) /\ old.items[file.index] = B
<1> DEFINE file == Saved(old)
           B == old.bandSel
           q == SaveCurrentFreqs(old)
           found == CHOOSE i \in DOMAIN old.items : old.items[i] = B
<1>1. B \in DOMAIN old.band_map /\ old.current = B /\ B \in Range(old.items)
  BY DEF InOrder
<1>2. /\ DOMAIN q.band_map = DOMAIN old.band_map
      /\ q.band_map[B].rx = old.rx /\ q.band_map[B].tx = old.tx
  BY <1>1, SaveCurrentFreqsOnly
<1> HIDE DEF q
<1>3. /\ file.rx = old.rx /\ file.tx = old.tx /\ file.mode = old.mode
      /\ file.lock = old.lock /\ file.band_map = q.band_map
      /\ file.index = IF B \in Range(old.items) THEN found ELSE 0
  BY DEF Saved, q
<1>4. MapInRange(file.band_map) /\ FileInOrder(file)
  BY SavedInRange, SavedInOrder
<1> HIDE DEF file
<1>5. found \in DOMAIN old.items /\ old.items[found] = B
  BY <1>1 DEF Range
<1>6. DOMAIN old.items = 1 .. Len(old.items)
  BY DEF InOrder
<1> QED BY <1>1, <1>2, <1>3, <1>4, <1>5, <1>6 DEF file

BandsAgain(old, file, B, p) ==
  /\ Sound(p) /\ InOrder(p) /\ p.lock = FALSE /\ p.auto = None
  /\ p.items = old.items /\ p.bandSel = p.current
  /\ B \in DOMAIN p.band_map /\ p.band_map[B] = file.band_map[B]

LEMMA RestoredBands ==
  ASSUME NEW offset, NEW old, Sound(old), InOrder(old),
         NEW file, MapInRange(file.band_map), DOMAIN file.band_map = DOMAIN old.band_map,
         FileInOrder(file),
         old.items = Listed(Range(old.items)), NEW B \in DOMAIN old.band_map, B # None
  PROVE  BandsAgain(old, file, B, BandMapRestore(FreshPanel(offset), file))
<1> DEFINE F == FreshPanel(offset)
           map == [n \in DOMAIN F.band_map \cup DOMAIN file.band_map |->
                     IF n \in DOMAIN file.band_map THEN file.band_map[n]
                     ELSE F.band_map[n]]
           names == Listed(DOMAIN map)
           q == [F EXCEPT !.band_map = map]
           cleared == Show(q, None)
           filled == [cleared EXCEPT !["items"] = names]
           r == Show(filled, names[1])
           p == BandMapRestore(F, file)
<1>1. /\ Sound(F) /\ InOrder(F) /\ F.band_map = <<>> /\ F.items = <<>>
      /\ F.bandSel = None /\ F.current = None /\ F.auto = None /\ F.lock = FALSE
  BY FreshIs
<1> HIDE DEF F
<1>2. p = IF names = <<>> THEN cleared ELSE r
  BY DEF BandMapRestore
<1>3. Sound(p) /\ InOrder(p) /\ p.lock = FALSE
  BY <1>1, BandMapRestoreInOrder
<1> HIDE DEF p
<1>4. /\ DOMAIN map = DOMAIN old.band_map
      /\ \A n \in DOMAIN old.band_map : map[n] = file.band_map[n]
  <2>1. DOMAIN F.band_map = {}
    BY <1>1
  <2> QED BY <2>1
<1>5. MapInRange(map)
  BY <1>4 DEF MapInRange
<1> HIDE DEF map
<1>6. names = old.items /\ names # <<>>
  <2>1. Range(old.items) = DOMAIN map /\ Range(old.items) # {}
    BY <1>4 DEF InOrder
  <2>2. Range(<<>>) = {}
    BY DEF Range
  <2> QED BY <2>1, <2>2
<1> HIDE DEF names
<1>7. /\ Sound(q) /\ q.band_map = map /\ q.bandSel = None /\ q.current = None
      /\ q.auto = None
  BY <1>1, <1>5 DEF Sound, PanelFields
<1> HIDE DEF q
<1>8. cleared = q
  BY <1>7 DEF Show
<1>9. /\ Sound(filled) /\ filled.items = names /\ filled.bandSel = None
      /\ filled.current = None /\ filled.auto = None /\ filled.band_map = map
  BY <1>7, <1>8 DEF Sound, PanelFields
<1> HIDE DEF cleared, filled
<1>a. /\ r.items = names /\ r.bandSel = names[1] /\ r.auto = None
      /\ DOMAIN r.band_map = DOMAIN map
      /\ \A n \in DOMAIN map : n # None => r.band_map[n] = map[n]
      /\ names[1] = None => r = filled
      /\ names[1] # None => r.current = IF names[1] \in DOMAIN map THEN names[1] ELSE None
  BY <1>9, ShowOnly
<1> HIDE DEF r
<1>b. names[1] \in DOMAIN map
  BY <1>6, FirstListed DEF names
<1>c. r.bandSel = r.current
  BY <1>9, <1>a, <1>b
<1>d. p = r
  BY <1>2, <1>6
<1>e. B \in DOMAIN r.band_map /\ r.band_map[B] = file.band_map[B]
  BY <1>4, <1>a
<1> QED BY <1>3, <1>6, <1>a, <1>c, <1>d, <1>e DEF p, F, BandsAgain

LEMMA RestartBringsBack ==
  ASSUME NEW offset, NEW old, Sound(old), InOrder(old)
  PROVE  BringsBack(old, RestoreSettings(FreshPanel(offset), Saved(old)))
<1> DEFINE file == Saved(old)
           B == old.bandSel
           q == BandMapRestore(FreshPanel(offset), file)
           mode == [q EXCEPT !["mode"] = file.mode]
           rx == NewRXFreq(mode, file.rx)
           freqs == NewTXFreq(rx, file.tx)
           lock == [freqs EXCEPT !["lock"] = file.lock]
           r == Show(lock, B)
           b == old.band_map[B]
<1> SUFFICES ASSUME B # None, old.items = Listed(Range(old.items)),
                    InBand(b, old.rx), InBand(b, old.tx)
             PROVE  Brought(old, RestoreSettings(FreshPanel(offset), file))
  BY DEF BringsBack
<1>1. /\ file.rx = old.rx /\ file.tx = old.tx /\ file.mode = old.mode
      /\ file.lock = old.lock /\ DOMAIN file.band_map = DOMAIN old.band_map
      /\ MapInRange(file.band_map) /\ FileInOrder(file)
      /\ B \in DOMAIN old.band_map
      /\ file.band_map[B].rx = old.rx /\ file.band_map[B].tx = old.tx
      /\ file.index \in 1 .. Len(old.items) /\ old.items[file.index] = B
  BY SavedBand
<1> HIDE DEF file, B
<1>2. /\ Sound(q) /\ InOrder(q) /\ q.lock = FALSE /\ q.auto = None
      /\ q.items = old.items /\ q.bandSel = q.current
      /\ B \in DOMAIN q.band_map /\ q.band_map[B] = file.band_map[B]
  <2> HIDE DEF q, b, mode, rx, freqs, lock, r
  <2>1. /\ MapInRange(file.band_map) /\ DOMAIN file.band_map = DOMAIN old.band_map
        /\ FileInOrder(file) /\ B \in DOMAIN old.band_map /\ B # None
        /\ old.items = Listed(Range(old.items))
    BY <1>1
  <2>2. BandsAgain(old, file, B, q)
    BY <2>1, RestoredBands DEF q
  <2> QED BY <2>2 DEF BandsAgain
<1> HIDE DEF q
<1>3. Sound(mode)
  BY <1>2, FieldChanges
<1>4. /\ mode.mode = old.mode /\ mode.lock = FALSE /\ mode.auto = None
      /\ mode.items = old.items /\ mode.bandSel = q.bandSel /\ mode.current = q.bandSel
      /\ mode.band_map = q.band_map
  BY <1>1, <1>2 DEF Sound, PanelFields
<1> HIDE DEF mode
<1>5. Sound(rx) /\ On(rx, old.rx) /\ Tunes(mode, rx)
  BY <1>1, <1>3, NewRXFreqSets, NewFreqTunes
<1> HIDE DEF rx
<1>6. rx.lock = FALSE
  BY <1>4, <1>5, TunesFields
<1>7. Sound(freqs) /\ Stays(rx, freqs) /\ Tunes(rx, freqs) /\ freqs.tx = old.tx
  BY <1>1, <1>5, <1>6, NewTXFreqStays, NewFreqTunes
<1> HIDE DEF freqs
<1>8. Tunes(mode, freqs)
  BY <1>5, <1>7, TunesOn
<1>9. /\ freqs.mode = old.mode /\ freqs.auto = None /\ freqs.items = old.items
      /\ freqs.bandSel = q.bandSel /\ freqs.current = q.bandSel
      /\ freqs.band_map = q.band_map
  BY <1>4, <1>8, TunesFields
<1>a. Sound(lock) /\ Stays(freqs, lock)
  BY <1>7, FieldChanges
<1>b. /\ lock.mode = old.mode /\ lock.auto = None /\ lock.items = old.items
      /\ lock.bandSel = q.bandSel /\ lock.current = q.bandSel /\ lock.tx = old.tx
      /\ lock.band_map = q.band_map /\ lock.lock = old.lock
  BY <1>1, <1>7, <1>9 DEF Sound, PanelFields
<1>c. RestoreSettings(FreshPanel(offset), file) = r
  <2>1. freqs.items = old.items
    BY <1>9
  <2>2. file.index # 0
    BY <1>1
  <2>3. lock.items[file.index] = B
    BY <1>1, <1>b
  <2>4. RestoreSettings(FreshPanel(offset), file) =
          IF file.index = 0 THEN Show(lock, None) ELSE Show(lock, lock.items[file.index])
    BY <1>b, <1>2 DEF RestoreSettings, WidgetRestore, q, mode, rx, freqs, lock
  <2> QED BY <2>2, <2>3, <2>4
<1> HIDE DEF lock
<1>d. lock.rx = old.rx /\ lock.radio.rx = old.rx
  BY <1>5, <1>7, <1>a DEF On, Stays
<1>e. /\ r.bandSel = B /\ r.mode = old.mode
      /\ lock.bandSel = B => r = lock
      /\ lock.bandSel # B => Brings(lock, r, B)
  <2>1. lock.bandSel # B => B \in DOMAIN lock.band_map /\ B # lock.auto /\ B # lock.current
    BY <1>2, <1>b
  <2> QED BY <1>a, <1>b, <2>1, ShowOnly
<1> HIDE DEF r
<1>f. r.rx = old.rx /\ r.radio.rx = old.rx /\ (~old.lock => r.tx = old.tx)
  <2>1. CASE lock.bandSel = B
    BY <1>b, <1>d, <1>e, <2>1
  <2>2. CASE lock.bandSel # B
    <3>1. Brings(lock, r, B) /\ lock.band_map[B] = file.band_map[B]
      BY <1>2, <1>b, <1>e, <2>2
    <3> QED BY <1>1, <1>b, <3>1 DEF Brings
  <2> QED BY <2>1, <2>2
<1> QED BY <1>c, <1>e, <1>f DEF Brought, B

\* The selector and the file are in order, and until the settings are back the
\* window is fresh and the file as the old window left it.
BackInv ==
  /\ InOrder(panel) /\ FileInOrder(settings)
  /\ \A old \in closed :
       IF restored THEN BringsBack(old, panel)
       ELSE /\ Sound(old) /\ InOrder(old) /\ settings = Saved(old)
            /\ \E offset \in Garbage : panel = FreshPanel(offset)

RestartInv == PanelInv /\ BackInv

LEMMA OperatorInOrder ==
  ASSUME RestartInv, NEW p, NEW wish, Operator(p, wish), InOrder(p) PROVE BackInv'
<1>1. panel' = p /\ closed' = {} /\ settings' = settings
  BY DEF Operator
<1> QED BY <1>1 DEF RestartInv, BackInv

LEMMA PanelStaysInOrder ==
  ASSUME RestartInv,
         \/ \E f \in Freqs : TuneRX(f) \/ TuneTX(f)
         \/ RXfreq2TXfreq \/ TXfreq2RXfreq \/ LockClicked
         \/ \E m \in Modes : SelectMode(m)
         \/ \E b \in Range(Order) : SelectBand(b)
         \/ \E b \in DOMAIN NewLimits : BandSetupOK(b)
         \/ OpenConfig
  PROVE  BackInv'
<1>0. /\ Sound(panel) /\ InOrder(panel)
      /\ MapInRange(settings.band_map) /\ FileInOrder(settings)
  BY DEF RestartInv, PanelInv, BackInv
<1>1. ASSUME NEW q, Tunes(panel, q) PROVE InOrder(q)
  BY <1>0, <1>1, TunesInOrder
<1>2. ASSUME NEW f \in Freqs, TuneRX(f) \/ TuneTX(f) PROVE BackInv'
  BY <1>0, <1>1, <1>2, NewFreqTunes, OperatorInOrder DEF TuneRX, TuneTX
<1>3. CASE RXfreq2TXfreq
  BY <1>0, <1>1, <1>3, SetFreqTunes, OperatorInOrder DEF RXfreq2TXfreq
<1>4. CASE TXfreq2RXfreq
  BY <1>0, <1>1, <1>4, SetFreqTunes, OperatorInOrder DEF TXfreq2RXfreq
<1>5. CASE LockClicked
  <2> DEFINE q == [panel EXCEPT !["lock"] = ~panel.lock]
             r == SetRXFreq(q, panel.rx)
  <2>1. Sound(q) /\ InOrder(q)
    BY <1>0, OtherInOrder
  <2>2. Operator(r, asked)
    BY <1>5 DEF LockClicked
  <2> HIDE DEF q
  <2>3. InOrder(r)
    BY <2>1, SetFreqTunes, TunesInOrder
  <2> HIDE DEF r
  <2> QED BY <2>2, <2>3, OperatorInOrder
<1>6. ASSUME NEW m \in Modes, SelectMode(m) PROVE BackInv'
  <2> DEFINE q == [panel EXCEPT !["mode"] = m]
  <2>1. InOrder(q)
    BY <1>0, OtherInOrder
  <2>2. Operator(q, asked)
    BY <1>6 DEF SelectMode
  <2> HIDE DEF q
  <2> QED BY <2>1, <2>2, OperatorInOrder
<1>7. ASSUME NEW b \in Range(Order), SelectBand(b) PROVE BackInv'
  <2>1. b \in DOMAIN panel.band_map /\ Operator(Show(panel, b), {})
    BY <1>0, <1>7 DEF SelectBand, InOrder
  <2>2. InOrder(Show(panel, b))
    BY <1>0, <2>1, ShowInOrder
  <2> QED BY <2>1, <2>2, OperatorInOrder
<1>8. ASSUME NEW b \in DOMAIN NewLimits, BandSetupOK(b) PROVE BackInv'
  <2> DEFINE q == WriteBandMapEntry(panel, b)
  <2>1. InOrder(q)
    BY <1>0, WriteBandMapEntryInOrder
  <2>2. Operator(q, IF panel.items = <<>> THEN {} ELSE asked)
    BY <1>8 DEF BandSetupOK
  <2> HIDE DEF q
  <2> QED BY <2>1, <2>2, OperatorInOrder
<1>9. CASE OpenConfig
  <2>1. InOrder(RestoreSettings(panel, settings))
    BY <1>0, RestoreSettingsInOrder
  <2> QED BY <1>9, <2>1, OperatorInOrder DEF OpenConfig
<1> QED BY <1>2, <1>3, <1>4, <1>5, <1>6, <1>7, <1>8, <1>9

LEMMA SettingsStayInOrder ==
  ASSUME RestartInv, SaveConfig \/ InitSetupComplete \/ Restart PROVE BackInv'
<1>0. /\ Sound(panel) /\ InOrder(panel) /\ FileInOrder(Saved(panel))
      /\ InOrder(SaveCurrentFreqs(panel))
      /\ MapInRange(settings.band_map) /\ FileInOrder(settings)
  BY SavedInOrder DEF RestartInv, PanelInv, BackInv
<1>1. CASE SaveConfig
  <2>1. /\ settings' = Saved(panel) /\ panel' = SaveCurrentFreqs(panel)
        /\ restored' = restored /\ closed' = IF restored THEN closed ELSE {}
    BY <1>1 DEF SaveConfig
  <2>2. /\ panel'.bandSel = panel.bandSel /\ panel'.mode = panel.mode
        /\ panel'.rx = panel.rx /\ panel'.tx = panel.tx /\ panel'.radio = panel.radio
    BY <1>0, <2>1, SavedFields
  <2>3. \A old : BringsBack(old, panel) => BringsBack(old, panel')
    BY <2>2 DEF BringsBack, Brought
  <2>4. \A old \in closed' : restored' /\ BringsBack(old, panel')
    BY <2>1, <2>3 DEF RestartInv, BackInv
  <2>5. InOrder(panel') /\ FileInOrder(settings')
    BY <1>0, <2>1
  <2> QED BY <2>4, <2>5 DEF BackInv
<1>2. CASE InitSetupComplete
  <2>1. /\ panel' = RestoreSettings(panel, settings) /\ restored' = TRUE /\ ~restored
        /\ UNCHANGED <<settings, closed>>
    BY <1>2 DEF InitSetupComplete
  <2>2. InOrder(panel')
    BY <1>0, <2>1, RestoreSettingsInOrder
  <2>3. ASSUME NEW old \in closed PROVE BringsBack(old, panel')
    <3>1. /\ Sound(old) /\ InOrder(old) /\ settings = Saved(old)
          /\ \E offset \in Garbage : panel = FreshPanel(offset)
      BY <2>1 DEF RestartInv, BackInv
    <3>2. PICK offset : panel = FreshPanel(offset)
      BY <3>1
    <3>3. BringsBack(old, RestoreSettings(FreshPanel(offset), Saved(old)))
      BY <3>1, RestartBringsBack
    <3> QED BY <2>1, <3>1, <3>2, <3>3
  <2>4. FileInOrder(settings') /\ closed' = closed
    BY <1>0, <2>1
  <2> QED BY <2>1, <2>2, <2>3, <2>4 DEF BackInv
<1>3. CASE Restart
  <2>1. /\ settings' = Saved(panel) /\ restored' = FALSE /\ closed' = {panel}
        /\ \E offset \in Garbage : panel' = FreshPanel(offset)
    BY <1>3 DEF Restart
  <2>2. InOrder(panel') /\ FileInOrder(settings')
    BY <1>0, <2>1, FreshIs
  <2> QED BY <1>0, <2>1, <2>2 DEF BackInv
<1> QED BY <1>1, <1>2, <1>3

LEMMA HamlibLeavesOrder ==
  ASSUME RestartInv, GuiTakes \/ \E c \in Clients : Hamlib(c) PROVE BackInv'
<1>0. /\ Sound(panel) /\ InOrder(panel) /\ FileInOrder(settings)
  BY DEF RestartInv, PanelInv, BackInv
<1>1. ASSUME InOrder(panel'), closed' = {}, settings' = settings PROVE BackInv'
  BY <1>0, <1>1 DEF BackInv
<1>2. CASE GuiTakes
  <2> DEFINE f == Head(events).f
  <2>1. /\ closed' = {} /\ settings' = settings
        /\ \/ panel' = SetRXFreq(panel, f) \/ panel' = SetTXFreq(panel, f)
           \/ panel' = UpdateBandDisplay(panel, f)
    <3>1. /\ closed' = {} /\ settings' = settings /\ events # <<>> /\ events \in Seq(Slots)
      BY <1>2 DEF GuiTakes, RestartInv, PanelInv
    <3>2. Head(events) \in Slots
      BY <3>1
    <3>3. Head(events).slot \in {"setRXFreq", "setTXFreq", "updateBandDisplay"}
      BY <3>2 DEF Slots
    <3> QED BY <1>2, <3>1, <3>3 DEF GuiTakes
  <2> HIDE DEF f
  <2>2. InOrder(panel')
    BY <1>0, <2>1, SetFreqTunes, TunesInOrder, UpdateBandDisplayInOrder
  <2> QED BY <1>1, <2>1, <2>2
<1>3. ASSUME NEW c \in Clients, NEW which, NEW f, HlSet(c, which, f) PROVE BackInv'
  <2>1. panel' = [panel EXCEPT !.told[which] = f] /\ closed' = {} /\ settings' = settings
    BY <1>3 DEF HlSet
  <2>2. Tunes(panel, panel')
    BY <1>0, <2>1 DEF Sound, Tunes, PanelFields
  <2> QED BY <1>0, <1>1, <2>1, <2>2, TunesInOrder
<1>4. ASSUME NEW c \in Clients, NEW f, CmdFreq(c, f) \/ CmdSplitFreq(c, f) PROVE BackInv'
  BY <1>3, <1>4 DEF CmdFreq, CmdSplitFreq
<1>5. ASSUME NEW c \in Clients, NEW s, Emit(c) \/ CmdSplit(c, s) PROVE BackInv'
  <2>1. UNCHANGED <<panel, settings, restored, closed>>
    BY <1>5 DEF Emit, CmdSplit
  <2> QED BY <2>1 DEF RestartInv, BackInv
<1> QED BY <1>2, <1>4, <1>5 DEF Hamlib

LEMMA StartsInOrder == Init => BackInv
<1> SUFFICES ASSUME Init PROVE BackInv
  OBVIOUS
<1> DEFINE F == FreshPanel(0)
           p == [F EXCEPT !.band_map = FileBands]
           s == Saved(p)
           S == DOMAIN FileBands
<1>1. InOrder(panel) /\ closed = {}
  BY FreshIs DEF Init
<1>2. Sound(F) /\ F.current = None
  BY FreshIs
<1>3. DOMAIN SaveCurrentFreqs(p).band_map = S
  <2>1. p.band_map = FileBands
    BY <1>2 DEF Sound, PanelFields
  <2>2. p.current \notin DOMAIN p.band_map => SaveCurrentFreqs(p) = p
    BY DEF SaveCurrentFreqs
  <2>3. p.current \in DOMAIN p.band_map => DOMAIN SaveCurrentFreqs(p).band_map = DOMAIN p.band_map
    <3> DEFINE b == p.band_map[p.current]
               map == [p.band_map EXCEPT ![p.current] =
                         [b EXCEPT !.rx = IF InBand(b, p.rx) THEN p.rx ELSE @,
                                   !.tx = IF InBand(b, p.tx) THEN p.tx ELSE @]]
    <3>1. DOMAIN map = DOMAIN p.band_map
      OBVIOUS
    <3>2. p.current \in DOMAIN p.band_map => SaveCurrentFreqs(p) = [p EXCEPT !.band_map = map]
      BY DEF SaveCurrentFreqs
    <3>3. [p EXCEPT !.band_map = map].band_map = map
      BY <1>2 DEF Sound, PanelFields
    <3> HIDE DEF map, p
    <3> QED BY <3>1, <3>2, <3>3
  <2> HIDE DEF p
  <2> QED BY <2>1, <2>2, <2>3
<1>4. settings.index = 1 /\ DOMAIN settings.band_map = S
  <2>1. settings = [s EXCEPT !.index = 1]
    BY DEF Init
  <2>2. s.band_map = SaveCurrentFreqs(p).band_map /\ {"band_map", "index"} \subseteq DOMAIN s
    BY DEF Saved
  <2> HIDE DEF s, p
  <2> QED BY <1>3, <2>1, <2>2
<1>5. 1 \in 0 .. Len(Listed(S))
  <2>1. S \subseteq Range(Order) /\ S # {}
    BY PanelAssumption
  <2> HIDE DEF S
  <2>2. Listed(S) # <<>> /\ Listed(S) \in Seq(STRING)
    BY <2>1, NoneListed, ListedNames
  <2> QED BY <2>2
<1>6. S \subseteq Range(Order)
  BY PanelAssumption
<1>7. FileInOrder(settings)
  BY <1>4, <1>5, <1>6 DEF FileInOrder
<1> QED BY <1>1, <1>7 DEF BackInv

\* Until the settings are back, a window that was started again is fresh and its
\* file as the old one left it (MainWindow::saveConfig, MainWindow::restoreSettings).
THEOREM RestartInvariant == Spec => []RestartInv
<1>1. Init => RestartInv
  BY PanelStartsRight, StartsInOrder DEF RestartInv
<1>2. RestartInv /\ [Next]_vars => BackInv'
  <2> SUFFICES ASSUME RestartInv, [Next]_vars PROVE BackInv'
    OBVIOUS
  <2>1. CASE UNCHANGED vars
    BY <2>1 DEF vars, RestartInv, BackInv
  <2> QED BY <2>1, PanelStaysInOrder, SettingsStayInOrder, HamlibLeavesOrder DEF Next
<1>3. RestartInv /\ BackInv' /\ PanelInv' => RestartInv'
  BY DEF RestartInv
<1> QED BY <1>1, <1>2, <1>3, PanelInvariant, PTL DEF Spec

\* A restart brings back band, mode and frequencies, and bands keep to their
\* own frequencies (MainWindow::bandMapSaveRestore, MainWindow::changeBand).
THEOREM BandsAreKept == Spec => []BandsKept
<1>1. BackInv => RestartKeeps
  BY DEF BackInv, RestartKeeps, BringsBack, Brought
<1>2. RestartInv => BandsKept
  BY <1>1, PanelInvCovers DEF RestartInv, BandsKept
<1> QED BY <1>2, RestartInvariant, PTL

-----------------------------------------------------------------------------
(* The text protocol: any text, cut anywhere.  The sequences that readyRead*)
(* and the promise build up, and one step more of each.                    *)

\* What has come of a piece, and of the requests, after each of them.
FedUpTo(s, text, f, n) ==
  f = [i \in 0 .. n |-> IF i = 0 THEN s ELSE Feed(f[i - 1], text[i])]

FedAll(s, text) == CHOOSE f : FedUpTo(s, text, f, Len(text))

AtFirst == [rig |-> NewRig, replies |-> [c \in Users |-> <<>>]]
TurnsUpTo(asks, f, n) ==
  f = [i \in 0 .. n |-> IF i = 0 THEN AtFirst ELSE InTurn(f[i - 1], asks[i])]
Turns(asks) == CHOOSE f : TurnsUpTo(asks, f, Len(asks))

LEMMA FedExists == ASSUME NEW s, NEW text, NEW n \in Nat PROVE \E f : FedUpTo(s, text, f, n)
<1> DEFINE B == {k \in Nat : ~ \E f : FedUpTo(s, text, f, k)}
<1>1. ASSUME NEW k \in B PROVE k # 0 /\ k - 1 \in B
  <2>1. FedUpTo(s, text, [i \in 0 .. 0 |-> s], 0)
    BY DEF FedUpTo
  <2>2. k \in Nat /\ k # 0 /\ k - 1 \in Nat
    BY <2>1
  <2>3. ASSUME NEW f, FedUpTo(s, text, f, k - 1) PROVE FALSE
    <3> DEFINE g == [i \in 0 .. k |-> IF i < k THEN f[i] ELSE Feed(f[i - 1], text[i])]
    <3>1. ASSUME NEW i \in 0 .. k
          PROVE  g[i] = IF i = 0 THEN s ELSE Feed(g[i - 1], text[i])
      <4>1. i # 0 => i - 1 \in 0 .. k /\ i - 1 < k
        BY <2>2
      <4>2. CASE i < k
        <5>1. f[i] = IF i = 0 THEN s ELSE Feed(f[i - 1], text[i])
          BY <2>2, <2>3, <4>2 DEF FedUpTo
        <5> QED BY <4>1, <4>2, <5>1
      <4>3. CASE ~(i < k)
        BY <2>2, <4>1, <4>3
      <4> QED BY <4>2, <4>3
    <3>2. g = [i \in 0 .. k |-> g[i]]
      OBVIOUS
    <3> HIDE DEF g
    <3>3. FedUpTo(s, text, g, k)
      BY <3>1, <3>2 DEF FedUpTo
    <3> QED BY <3>3
  <2> QED BY <2>2, <2>3
<1>2. B \in SUBSET Nat
  OBVIOUS
<1> HIDE DEF B
<1>3. B = {}
  BY <1>1, <1>2, NoneFirst
<1> QED BY <1>3 DEF B

LEMMA FedIs ==
  ASSUME NEW s, NEW text, Len(text) \in Nat
  PROVE  /\ Fed(s, text)[0] = s
         /\ \A i \in 1 .. Len(text) : Fed(s, text)[i] = Feed(Fed(s, text)[i - 1], text[i])
<1> DEFINE f == Fed(s, text)
<1>1. FedUpTo(s, text, FedAll(s, text), Len(text))
  BY FedExists DEF FedAll
<1>4. f = FedAll(s, text)
  BY DEF Fed, FedAll, FedUpTo
<1> HIDE DEF f, FedAll
<1>2. 0 \in 0 .. Len(text) /\ \A i \in 1 .. Len(text) : i \in 0 .. Len(text) /\ i # 0
  OBVIOUS
<1>3. /\ f[0] = s
      /\ \A i \in 1 .. Len(text) : f[i] = Feed(f[i - 1], text[i])
  BY <1>1, <1>2, <1>4 DEF FedUpTo
<1> QED BY <1>3 DEF f

LEMMA TurnsExist == ASSUME NEW asks, NEW n \in Nat PROVE \E f : TurnsUpTo(asks, f, n)
<1> DEFINE B == {k \in Nat : ~ \E f : TurnsUpTo(asks, f, k)}
<1>1. ASSUME NEW k \in B PROVE k # 0 /\ k - 1 \in B
  <2>1. TurnsUpTo(asks, [i \in 0 .. 0 |-> AtFirst], 0)
    BY DEF TurnsUpTo
  <2>2. k \in Nat /\ k # 0 /\ k - 1 \in Nat
    BY <2>1
  <2>3. ASSUME NEW f, TurnsUpTo(asks, f, k - 1) PROVE FALSE
    <3> DEFINE g == [i \in 0 .. k |-> IF i < k THEN f[i] ELSE InTurn(f[i - 1], asks[i])]
    <3>1. ASSUME NEW i \in 0 .. k
          PROVE  g[i] = IF i = 0 THEN AtFirst ELSE InTurn(g[i - 1], asks[i])
      <4>1. i # 0 => i - 1 \in 0 .. k /\ i - 1 < k
        BY <2>2
      <4>2. CASE i < k
        <5>1. f[i] = IF i = 0 THEN AtFirst ELSE InTurn(f[i - 1], asks[i])
          BY <2>2, <2>3, <4>2 DEF TurnsUpTo
        <5> QED BY <4>1, <4>2, <5>1
      <4>3. CASE ~(i < k)
        BY <2>2, <4>1, <4>3
      <4> QED BY <4>2, <4>3
    <3>2. g = [i \in 0 .. k |-> g[i]]
      OBVIOUS
    <3> HIDE DEF g
    <3>3. TurnsUpTo(asks, g, k)
      BY <3>1, <3>2 DEF TurnsUpTo
    <3> QED BY <3>3
  <2> QED BY <2>2, <2>3
<1>2. B \in SUBSET Nat
  OBVIOUS
<1> HIDE DEF B
<1>3. B = {}
  BY <1>1, <1>2, NoneFirst
<1> QED BY <1>3 DEF B

LEMMA TurnsAre ==
  ASSUME NEW asks, Len(asks) \in Nat
  PROVE  /\ AllInTurn(asks) = Turns(asks)[Len(asks)]
         /\ Turns(asks)[0] = AtFirst
         /\ \A i \in 1 .. Len(asks) : Turns(asks)[i] = InTurn(Turns(asks)[i - 1], asks[i])
<1>1. TurnsUpTo(asks, Turns(asks), Len(asks))
  BY TurnsExist DEF Turns
<1>2. AllInTurn(asks) = Turns(asks)[Len(asks)]
  BY DEF AllInTurn, Turns, TurnsUpTo, AtFirst
<1> HIDE DEF Turns
<1>3. 0 \in 0 .. Len(asks) /\ \A i \in 1 .. Len(asks) : i \in 0 .. Len(asks) /\ i # 0
  OBVIOUS
<1> QED BY <1>1, <1>2, <1>3 DEF TurnsUpTo

\* One request more.
LEMMA OneMoreTurn ==
  ASSUME NEW S, NEW asks \in Seq(S), NEW d \in S
  PROVE  AllInTurn(Append(asks, d)) = InTurn(AllInTurn(asks), d)
<1> DEFINE more == Append(asks, d)
           n == Len(asks)
           f == Turns(asks)
           g == Turns(more)
           B == {i \in 0 .. n : f[i] # g[i]}
<1>1. /\ n \in Nat /\ Len(more) = n + 1 /\ more[n + 1] = d
      /\ \A i \in 1 .. n : more[i] = asks[i]
  BY AppendProperties
<1> HIDE DEF more
<1>2. /\ f[0] = AtFirst /\ AllInTurn(asks) = f[n]
      /\ \A i \in 1 .. n : f[i] = InTurn(f[i - 1], asks[i])
  BY <1>1, TurnsAre
<1>3. /\ g[0] = AtFirst /\ AllInTurn(more) = g[n + 1]
      /\ \A i \in 1 .. n + 1 : g[i] = InTurn(g[i - 1], more[i])
  BY <1>1, TurnsAre
<1> HIDE DEF n, f, g
<1>4. B = {}
  <2>1. ASSUME NEW i \in B PROVE i # 0 /\ i - 1 \in B
    <3>1. i \in 0 .. n /\ f[i] # g[i] /\ i # 0
      BY <1>2, <1>3
    <3>2. i \in 1 .. n /\ i \in 1 .. n + 1 /\ i - 1 \in 0 .. n
      BY <1>1, <3>1
    <3> QED BY <1>1, <1>2, <1>3, <3>1, <3>2
  <2>2. B \in SUBSET Nat
    BY <1>1
  <2> HIDE DEF B
  <2> QED BY <2>1, <2>2, NoneFirst
<1>5. n \in 0 .. n /\ n + 1 \in 1 .. n + 1 /\ (n + 1) - 1 = n
  BY <1>1
<1>6. f[n] = g[n]
  BY <1>4, <1>5
<1>7. g[n + 1] = InTurn(g[n], d)
  BY <1>1, <1>3, <1>5
<1> QED BY <1>2, <1>3, <1>6, <1>7 DEF more

-----------------------------------------------------------------------------
(* A piece, character by character.                                        *)

Chars == STRING \cup {Newline}
TextLine == Seq(STRING \ {Newline})
Asks == [by : Users, means : {req.means : req \in Requests}] \cup [by : {"gui"}, means : Told]
Readings == [line : TextLine, rig : Rigs, out : Seq(STRING)]

\* The p-th character of w; up to 0, of the line w goes on.
CharAt(line, w, p) == IF p <= 0 THEN line[p + Len(line)] ELSE w[p]

\* Where in the wire w, behind the line so far, each of the requests ws ends.
Cuts(cut, line, w, ws) ==
  /\ cut \in [0 .. Len(ws) -> Int]
  /\ cut[0] = 0 - Len(line)
  /\ cut[Len(ws)] = Len(w)
  /\ \A h, k \in 0 .. Len(ws) : h <= k => cut[h] <= cut[k]
  /\ \A k \in 1 .. Len(ws) :
       /\ cut[k] = cut[k - 1] + Len(ws[k].text) + 1
       /\ \A j \in 1 .. Len(ws[k].text) : CharAt(line, w, cut[k - 1] + j) = ws[k].text[j]
       /\ CharAt(line, w, cut[k]) = Newline

Unread(line, w, ws) == \E cut : Cuts(cut, line, w, ws)

RcTypes ==
  /\ wire \in [Users -> Seq(Chars)]
  /\ current_command \in [Users -> TextLine]
  /\ replies \in [Users -> Seq(STRING)]
  /\ written \in [Users -> Seq(Requests)]
  /\ done \in Seq(Asks)
  /\ rig \in Rigs

RcInv ==
  /\ RcTypes
  /\ \A c \in Users : Unread(current_command[c], wire[c], written[c])
  /\ AllInTurn(done) = [rig |-> rig, replies |-> replies]

LEMMA RequestIs ==
  ASSUME NEW req \in Requests
  PROVE  /\ req.text \in TextLine
         /\ \A r \in Rigs :
              /\ ProcessCommand(r, req.text).rig = Obeyed(r, req.means).rig
              /\ ProcessCommand(r, req.text).out = Obeyed(r, req.means).out
              /\ Obeyed(r, req.means).rig \in Rigs
              /\ Obeyed(r, req.means).out \in Seq(STRING)
BY RigctlAssumption DEF RigctlAssumption, TextLine

\* What has come of the first i characters, with the requests that end in them.
Come(c) == Fed([line |-> FirstOfPiece(current_command[c]), rig |-> rig, out |-> <<>>], wire[c])
Ends(w, n) == Cardinality({i \in 1 .. n : w[i] = Newline})
Read(c, n) == [k \in 1 .. n |-> [by |-> c, means |-> written[c][k].means]]

ReadSoFar(s, c, cut, i) ==
  LET e == Ends(wire[c], i)
  IN  /\ s \in Readings
      /\ e \in 0 .. Len(written[c])
      /\ cut[e] = i - Len(s.line)
      /\ \A j \in 1 .. Len(s.line) :
           s.line[j] = CharAt(current_command[c], wire[c], cut[e] + j)
      /\ AllInTurn(done \o Read(c, e)) =
           [rig |-> s.rig, replies |-> [replies EXCEPT ![c] = @ \o s.out]]

LEMMA EndsCount ==
  ASSUME NEW w, NEW i \in Nat
  PROVE  /\ Ends(w, 0) = 0
         /\ Ends(w, i + 1) = IF w[i + 1] = Newline THEN Ends(w, i) + 1 ELSE Ends(w, i)
         /\ Ends(w, i) \in Nat
<1> DEFINE S(n) == {k \in 1 .. n : w[k] = Newline}
<1>1. S(0) = {}
  OBVIOUS
<1>2. IsFiniteSet(S(i))
  <2>1. IsFiniteSet(1 .. i)
    BY FS_Interval
  <2> QED BY <2>1, FS_Subset
<1>3. i + 1 \notin S(i)
  OBVIOUS
<1>4. S(i + 1) = IF w[i + 1] = Newline THEN S(i) \cup {i + 1} ELSE S(i)
  OBVIOUS
<1>5. Cardinality(S(i) \cup {i + 1}) = Cardinality(S(i)) + 1
  BY <1>2, <1>3, FS_AddElement
<1>6. Cardinality({}) = 0 /\ Cardinality(S(i)) \in Nat
  BY <1>2, FS_EmptySet, FS_CardinalityType
<1> HIDE DEF S
<1>7. /\ Ends(w, 0) = Cardinality(S(0)) /\ Ends(w, i) = Cardinality(S(i))
      /\ Ends(w, i + 1) = Cardinality(S(i + 1))
  BY DEF Ends, S
<1> QED BY <1>1, <1>4, <1>5, <1>6, <1>7

LEMMA ReadNothing ==
  ASSUME RcInv, NEW c \in Users, NEW cut,
         Cuts(cut, current_command[c], wire[c], written[c])
  PROVE  ReadSoFar(Come(c)[0], c, cut, 0)
<1> DEFINE s == [line |-> current_command[c], rig |-> rig, out |-> <<>>]
<1>1. RcTypes /\ AllInTurn(done) = [rig |-> rig, replies |-> replies]
  BY DEF RcInv
<1>2. current_command[c] \in TextLine /\ wire[c] \in Seq(Chars) /\ replies[c] \in Seq(STRING)
  BY <1>1 DEF RcTypes
<1>3. Come(c)[0] = s
  <2>1. Len(wire[c]) \in Nat
    BY <1>2
  <2> QED BY <2>1, FedIs DEF Come, FirstOfPiece
<1>4. s \in Readings
  BY <1>1, <1>2 DEF RcTypes, Readings
<1>5. Ends(wire[c], 0) = 0 /\ 0 \in 0 .. Len(written[c])
  BY <1>1, EndsCount DEF RcTypes
<1>6. Len(current_command[c]) \in Nat
  BY <1>2 DEF TextLine
<1>7. cut[0] = 0 - Len(s.line)
  BY <1>6 DEF Cuts
<1>8. \A j \in 1 .. Len(s.line) : s.line[j] = CharAt(current_command[c], wire[c], cut[0] + j)
  BY <1>6, <1>7 DEF CharAt
<1>9. done \o Read(c, 0) = done
  <2>1. done \in Seq(Asks)
    BY <1>1 DEF RcTypes
  <2>2. Read(c, 0) = <<>>
    BY DEF Read
  <2> HIDE DEF Read
  <2> QED BY <2>1, <2>2
<1>10. [replies EXCEPT ![c] = @ \o s.out] = replies
  <2>1. replies[c] \o s.out = replies[c]
    BY <1>2
  <2>2. replies = [u \in Users |-> replies[u]]
    BY <1>1 DEF RcTypes
  <2> QED BY <2>1, <2>2
<1>11. AllInTurn(done \o Read(c, 0)) =
         [rig |-> s.rig, replies |-> [replies EXCEPT ![c] = @ \o s.out]]
  <2>1. s.rig = rig
    OBVIOUS
  <2> HIDE DEF s
  <2> QED BY <1>1, <1>9, <1>10, <2>1
<1> HIDE DEF s
<1>12. ReadSoFar(s, c, cut, 0)
  BY <1>4, <1>5, <1>7, <1>8, <1>11 DEF ReadSoFar
<1> QED BY <1>3, <1>12

\* One character more: of a line, and at its end.
LEMMA ReadLetter ==
  ASSUME RcInv, NEW c \in Users, NEW cut, NEW i \in 0 .. Len(wire[c]), i < Len(wire[c]),
         NEW s, ReadSoFar(s, c, cut, i), wire[c][i + 1] # Newline
  PROVE  ReadSoFar(Feed(s, wire[c][i + 1]), c, cut, i + 1)
<1> DEFINE x == wire[c][i + 1]
           t == [s EXCEPT !.line = Append(@, x)]
           e == Ends(wire[c], i)
           n == Len(s.line)
<1>1. wire[c] \in Seq(Chars) /\ written[c] \in Seq(Requests)
  BY DEF RcInv, RcTypes
<1>2. i \in Nat /\ x \in STRING /\ x # Newline
  BY <1>1 DEF Chars
<1>3. Ends(wire[c], i + 1) = e
  BY <1>2, EndsCount
<1>4. /\ s \in Readings
      /\ e \in 0 .. Len(written[c])
      /\ cut[e] = i - n
      /\ \A j \in 1 .. n : s.line[j] = CharAt(current_command[c], wire[c], cut[e] + j)
      /\ AllInTurn(done \o Read(c, e)) =
           [rig |-> s.rig, replies |-> [replies EXCEPT ![c] = @ \o s.out]]
  BY DEF ReadSoFar
<1>5. /\ s.line \in TextLine /\ n \in Nat /\ Append(s.line, x) \in TextLine
      /\ Len(Append(s.line, x)) = n + 1 /\ Append(s.line, x)[n + 1] = x
      /\ \A j \in 1 .. n : Append(s.line, x)[j] = s.line[j]
  BY <1>2, <1>4 DEF Readings, TextLine
<1>6. t \in Readings /\ t.line = Append(s.line, x) /\ t.rig = s.rig /\ t.out = s.out
  BY <1>4, <1>5 DEF Readings
<1>7. Feed(s, x) = t
  BY <1>2 DEF Feed
<1>14. cut[e] = i - n /\ n \in Nat
  BY <1>4, <1>5
<1>8. cut[e] + (n + 1) = i + 1 /\ i + 1 > 0 /\ cut[e] = (i + 1) - (n + 1)
  <2> HIDE DEF n, e
  <2> QED BY <1>2, <1>14
<1>9. CharAt(current_command[c], wire[c], i + 1) = x
  BY <1>2 DEF CharAt
<1> HIDE DEF t, x, e
<1>10. ASSUME NEW j \in 1 .. Len(t.line)
       PROVE  t.line[j] = CharAt(current_command[c], wire[c], cut[e] + j)
  <2>1. j \in 1 .. n \/ j = n + 1
    BY <1>5, <1>6
  <2> HIDE DEF n
  <2>2. CASE j \in 1 .. n
    BY <1>4, <1>5, <1>6, <2>2
  <2>3. CASE j = n + 1
    BY <1>5, <1>6, <1>8, <1>9, <2>3
  <2> QED BY <2>1, <2>2, <2>3
<1>11. cut[e] = (i + 1) - Len(t.line)
  BY <1>5, <1>6, <1>8
<1>12. AllInTurn(done \o Read(c, e)) =
         [rig |-> t.rig, replies |-> [replies EXCEPT ![c] = @ \o t.out]]
  BY <1>4, <1>6
<1>13. ReadSoFar(t, c, cut, i + 1)
  BY <1>3, <1>4, <1>6, <1>10, <1>11, <1>12 DEF ReadSoFar
<1> QED BY <1>7, <1>13 DEF x

\* The line that ends is the first of the requests that have not been read.
LEMMA LineIsRequest ==
  ASSUME RcInv, NEW c \in Users, NEW cut,
         Cuts(cut, current_command[c], wire[c], written[c]),
         NEW i \in 0 .. Len(wire[c]), i < Len(wire[c]),
         NEW s, ReadSoFar(s, c, cut, i), wire[c][i + 1] = Newline
  PROVE  LET e == Ends(wire[c], i)
         IN  /\ e + 1 \in 1 .. Len(written[c])
             /\ s.line = written[c][e + 1].text
             /\ cut[e + 1] = i + 1
<1> DEFINE e == Ends(wire[c], i)
           n == Len(s.line)
           w == wire[c]
           line == current_command[c]
           text == written[c][e + 1].text
           m == Len(text)
           K == Len(written[c])
<1>1. w \in Seq(Chars) /\ written[c] \in Seq(Requests) /\ K \in Nat
  BY DEF RcInv, RcTypes
<1>2. /\ s \in Readings
      /\ e \in 0 .. K
      /\ cut[e] = i - n
      /\ \A j \in 1 .. n : s.line[j] = CharAt(line, w, cut[e] + j)
  BY DEF ReadSoFar
<1>3. s.line \in TextLine /\ n \in Nat /\ \A j \in 1 .. n : s.line[j] # Newline
  BY <1>2 DEF Readings, TextLine
<1>4. e # K
  <2>1. cut[K] = Len(w)
    BY DEF Cuts
  <2> QED BY <1>1, <1>2, <1>3, <2>1
<1>5. e \in Nat /\ e + 1 \in 1 .. K /\ (e + 1) - 1 = e
  BY <1>1, <1>2, <1>4
<1>6. written[c][e + 1] \in Requests
  BY <1>1, <1>5
<1>7. text \in TextLine /\ m \in Nat /\ \A j \in 1 .. m : text[j] # Newline
  BY <1>6, RequestIs DEF TextLine
<1> HIDE DEF e, K
<1>8. /\ cut[e + 1] = cut[e] + m + 1
      /\ \A j \in 1 .. m : CharAt(line, w, cut[e] + j) = text[j]
      /\ CharAt(line, w, cut[e + 1]) = Newline
  BY <1>5 DEF Cuts, K
<1>9. CharAt(line, w, i + 1) = Newline
  BY <1>1 DEF CharAt
<1> HIDE DEF text, w, line
<1>10. ~(m < n)
  <2>1. SUFFICES ASSUME m < n PROVE FALSE
    OBVIOUS
  <2>2. m + 1 \in 1 .. n
    BY <1>3, <1>7, <2>1
  <2>3. cut[e] + (m + 1) = cut[e + 1]
    BY <1>2, <1>3, <1>7, <1>8
  <2>4. s.line[m + 1] = CharAt(line, w, cut[e + 1])
    BY <1>2, <2>2, <2>3
  <2> QED BY <1>3, <1>8, <2>2, <2>4
<1>11. ~(n < m)
  <2>1. SUFFICES ASSUME n < m PROVE FALSE
    OBVIOUS
  <2>2. n + 1 \in 1 .. m
    BY <1>3, <1>7, <2>1
  <2>3. cut[e] + (n + 1) = i + 1
    <3>1. cut[e] = i - n /\ n \in Nat /\ i \in Nat
      BY <1>2, <1>3
    <3> HIDE DEF n
    <3> QED BY <3>1
  <2>4. text[n + 1] = CharAt(line, w, i + 1)
    BY <1>8, <2>2, <2>3
  <2> QED BY <1>7, <1>9, <2>2, <2>4
<1>12. m = n
  BY <1>3, <1>7, <1>10, <1>11
<1>13. cut[e + 1] = i + 1
  BY <1>2, <1>3, <1>8, <1>12
<1>14. \A j \in 1 .. n : s.line[j] = text[j]
  BY <1>2, <1>8, <1>12
<1>15. s.line = text
  <2>1. s.line \in Seq(STRING \ {Newline}) /\ text \in Seq(STRING \ {Newline})
    BY <1>3, <1>7 DEF TextLine
  <2> QED BY <1>12, <1>14, <2>1, SeqEqual
<1> QED BY <1>5, <1>13, <1>15 DEF e, text, K

LEMMA OneMoreRead ==
  ASSUME RcInv, NEW c \in Users, NEW e \in Nat, e + 1 \in 1 .. Len(written[c])
  PROVE  LET d == [by |-> c, means |-> written[c][e + 1].means]
         IN  /\ d \in Asks
             /\ done \o Read(c, e) \in Seq(Asks)
             /\ done \o Read(c, e + 1) = Append(done \o Read(c, e), d)
<1> DEFINE d == [by |-> c, means |-> written[c][e + 1].means]
<1>1. done \in Seq(Asks) /\ written[c] \in Seq(Requests) /\ Len(written[c]) \in Nat
  BY DEF RcInv, RcTypes
<1>2. ASSUME NEW k \in 1 .. e + 1
      PROVE  [by |-> c, means |-> written[c][k].means] \in Asks
  <2>1. k \in 1 .. Len(written[c])
    BY <1>1
  <2>2. written[c][k] \in Requests
    BY <1>1, <2>1
  <2> QED BY <2>2 DEF Asks
<1>3. d \in Asks
  BY <1>2
<1>4. Read(c, e) \in Seq(Asks)
  <2>1. Read(c, e) \in [1 .. e -> Asks]
    <3> HIDE DEF d
    <3>1. \A k \in 1 .. e : k \in 1 .. e + 1
      OBVIOUS
    <3> QED BY <1>2, <3>1 DEF Read
  <2> QED BY <2>1
<1>5. Len(Read(c, e)) = e /\ \A k \in 1 .. e : Read(c, e)[k] = [by |-> c, means |-> written[c][k].means]
  BY DEF Read
<1>6. Read(c, e + 1) = Append(Read(c, e), d)
  <2> DEFINE a == Append(Read(c, e), d)
  <2>1. a \in Seq(Asks) /\ Len(a) = e + 1 /\ a[e + 1] = d /\ \A k \in 1 .. e : a[k] = Read(c, e)[k]
    <3> HIDE DEF d, Read
    <3> QED BY <1>3, <1>4, <1>5, AppendProperties
  <2> HIDE DEF a
  <2>2. Read(c, e + 1) \in Seq(Asks) /\ Len(Read(c, e + 1)) = e + 1
    <3>1. Read(c, e + 1) \in [1 .. e + 1 -> Asks]
      BY <1>2 DEF Read
    <3>2. Len(Read(c, e + 1)) = e + 1
      BY DEF Read
    <3> HIDE DEF Read
    <3> QED BY <3>1, <3>2
  <2>3. ASSUME NEW k \in 1 .. e + 1 PROVE a[k] = Read(c, e + 1)[k]
    <3>1. Read(c, e + 1)[k] = [by |-> c, means |-> written[c][k].means]
      BY DEF Read
    <3>2. k \in 1 .. e \/ k = e + 1
      OBVIOUS
    <3> QED BY <1>5, <2>1, <3>1, <3>2
  <2>4. a = Read(c, e + 1)
    <3> HIDE DEF Read
    <3> QED BY <2>1, <2>2, <2>3, SeqEqual
  <2> QED BY <2>4 DEF a
<1> HIDE DEF d
<1>7. done \o Append(Read(c, e), d) = Append(done \o Read(c, e), d)
  BY <1>1, <1>3, <1>4
<1>8. done \o Read(c, e) \in Seq(Asks)
  BY <1>1, <1>4
<1> QED BY <1>3, <1>6, <1>7, <1>8 DEF d

LEMMA ReadEnd ==
  ASSUME RcInv, NEW c \in Users, NEW cut,
         Cuts(cut, current_command[c], wire[c], written[c]),
         NEW i \in 0 .. Len(wire[c]), i < Len(wire[c]),
         NEW s, ReadSoFar(s, c, cut, i), wire[c][i + 1] = Newline
  PROVE  ReadSoFar(Feed(s, wire[c][i + 1]), c, cut, i + 1)
<1> DEFINE e == Ends(wire[c], i)
           req == written[c][e + 1]
           p == ProcessCommand(s.rig, s.line)
           o == Obeyed(s.rig, req.means)
           t == [line |-> <<>>, rig |-> p.rig, out |-> s.out \o p.out]
           d == [by |-> c, means |-> req.means]
           was == [rig |-> s.rig, replies |-> [replies EXCEPT ![c] = @ \o s.out]]
<1>1. wire[c] \in Seq(Chars) /\ written[c] \in Seq(Requests) /\ i \in Nat
      /\ replies \in [Users -> Seq(STRING)]
  BY DEF RcInv, RcTypes
<1>2. e + 1 \in 1 .. Len(written[c]) /\ s.line = req.text /\ cut[e + 1] = i + 1
  BY LineIsRequest
<1>3. Ends(wire[c], i + 1) = e + 1 /\ e \in Nat
  BY <1>1, EndsCount
<1>4. s \in Readings /\ AllInTurn(done \o Read(c, e)) = was
  BY DEF ReadSoFar
<1>5. s.rig \in Rigs /\ s.out \in Seq(STRING)
  BY <1>4 DEF Readings
<1>6. Feed(s, wire[c][i + 1]) = t
  BY DEF Feed
<1> HIDE DEF e
<1>7. req \in Requests
  BY <1>1, <1>2
<1>8. p.rig = o.rig /\ p.out = o.out /\ o.rig \in Rigs /\ o.out \in Seq(STRING)
  <2> HIDE DEF req
  <2> QED BY <1>2, <1>5, <1>7, RequestIs
<1> HIDE DEF req, p, o
<1>9. t \in Readings /\ t.line = <<>> /\ Len(t.line) = 0 /\ t.rig = o.rig /\ t.out = s.out \o o.out
  <2>1. s.out \o p.out \in Seq(STRING) /\ <<>> \in TextLine
    BY <1>5, <1>8 DEF TextLine
  <2>2. t.line = <<>> /\ t.rig = p.rig /\ t.out = s.out \o p.out
    OBVIOUS
  <2>3. t \in Readings
    BY <1>8, <2>1 DEF Readings
  <2> HIDE DEF t
  <2> QED BY <1>8, <2>2, <2>3
<1>10. AllInTurn(done \o Read(c, e + 1)) = InTurn(was, d)
  <2>1. /\ d \in Asks
        /\ done \o Read(c, e) \in Seq(Asks)
        /\ done \o Read(c, e + 1) = Append(done \o Read(c, e), d)
    BY <1>2, <1>3, OneMoreRead DEF req
  <2> HIDE DEF d, was
  <2>2. AllInTurn(done \o Read(c, e + 1)) = InTurn(AllInTurn(done \o Read(c, e)), d)
    BY <2>1, OneMoreTurn
  <2> QED BY <1>4, <2>2
<1>11. InTurn(was, d) = [rig |-> o.rig, replies |-> [was.replies EXCEPT ![c] = @ \o o.out]]
  <2>1. d.by # "gui"
    BY RigctlAssumption DEF RigctlAssumption
  <2>2. was.rig = s.rig /\ d.means = req.means /\ d.by = c
    OBVIOUS
  <2> HIDE DEF d, was
  <2> QED BY <2>1, <2>2 DEF InTurn, o
<1>12. [was.replies EXCEPT ![c] = @ \o o.out] = [replies EXCEPT ![c] = @ \o t.out]
  <2>1. replies[c] \in Seq(STRING)
    BY <1>1
  <2>2. (replies[c] \o s.out) \o o.out = replies[c] \o (s.out \o o.out)
    <3> DEFINE a == s.out
               b == o.out
               z == replies[c]
    <3>1. a \in Seq(STRING) /\ b \in Seq(STRING) /\ z \in Seq(STRING)
      BY <1>5, <1>8, <2>1
    <3> HIDE DEF a, b, z
    <3>2. (z \o a) \o b = z \o (a \o b)
      BY <3>1, ConcatAssociative, SMTT(30)
    <3> QED BY <3>2 DEF a, b, z
  <2>3. was.replies = [replies EXCEPT ![c] = @ \o s.out]
    OBVIOUS
  <2> HIDE DEF was, t
  <2> QED BY <1>1, <1>9, <2>2, <2>3
<1> HIDE DEF t, was, d
<1>13. AllInTurn(done \o Read(c, e + 1)) =
         [rig |-> t.rig, replies |-> [replies EXCEPT ![c] = @ \o t.out]]
  BY <1>9, <1>10, <1>11, <1>12
<1>14. e + 1 \in 0 .. Len(written[c]) /\ cut[e + 1] = (i + 1) - Len(t.line)
  BY <1>1, <1>2, <1>3, <1>9
<1>15. \A j \in 1 .. Len(t.line) :
         t.line[j] = CharAt(current_command[c], wire[c], cut[e + 1] + j)
  BY <1>9
<1>16. ReadSoFar(t, c, cut, i + 1)
  BY <1>3, <1>9, <1>13, <1>14, <1>15 DEF ReadSoFar
<1> QED BY <1>6, <1>16

LEMMA ReadAll ==
  ASSUME RcInv, NEW c \in Users, NEW cut,
         Cuts(cut, current_command[c], wire[c], written[c]),
         NEW n \in 0 .. Len(wire[c])
  PROVE  ReadSoFar(Come(c)[n], c, cut, n)
<1> DEFINE B == {i \in 0 .. n : ~ ReadSoFar(Come(c)[i], c, cut, i)}
<1>1. Len(wire[c]) \in Nat
  BY DEF RcInv, RcTypes
<1>2. ASSUME NEW k \in B PROVE k # 0 /\ k - 1 \in B
  <2>1. k # 0
    BY ReadNothing
  <2> DEFINE i == k - 1
  <2>2. i \in 0 .. Len(wire[c]) /\ i < Len(wire[c]) /\ i \in 0 .. n /\ i + 1 = k /\ k \in 1 .. Len(wire[c])
    BY <1>1, <2>1
  <2>3. Come(c)[k] = Feed(Come(c)[i], wire[c][k])
    BY <1>1, <2>2, FedIs DEF Come
  <2>4. ~ ReadSoFar(Come(c)[k], c, cut, k)
    OBVIOUS
  <2> HIDE DEF i
  <2>5. ASSUME ReadSoFar(Come(c)[i], c, cut, i) PROVE FALSE
    <3>1. CASE wire[c][i + 1] = Newline
      BY <2>2, <2>3, <2>4, <2>5, <3>1, ReadEnd
    <3>2. CASE wire[c][i + 1] # Newline
      BY <2>2, <2>3, <2>4, <2>5, <3>2, ReadLetter
    <3> QED BY <3>1, <3>2
  <2> QED BY <2>1, <2>2, <2>5 DEF i
<1>3. B \in SUBSET Nat /\ n \in 0 .. n
  BY <1>1
<1> HIDE DEF B
<1>4. B = {}
  BY <1>2, <1>3, NoneFirst
<1> QED BY <1>3, <1>4 DEF B

LEMMA RestIs ==
  ASSUME NEW S, NEW s \in Seq(S), NEW e \in 0 .. Len(s)
  PROVE  LET t == SubSeq(s, e + 1, Len(s))
         IN  t \in Seq(S) /\ Len(t) = Len(s) - e /\ \A i \in 1 .. Len(s) - e : t[i] = s[e + i]
<1> DEFINE t == SubSeq(s, e + 1, Len(s))
           m == e + 1
           n == Len(s)
<1>1. m \in Int /\ n \in Int /\ m <= n + 1 /\ m > 0 /\ e \in Nat /\ \A i \in m .. n : s[i] \in S
  OBVIOUS
<1>2. t = SubSeq(s, m, n)
  OBVIOUS
<1>3. m = e + 1 /\ n = Len(s)
  OBVIOUS
<1> HIDE DEF t, m, n
<1>4. /\ t \in Seq(S)
      /\ Len(t) = IF m <= n THEN n - m + 1 ELSE 0
      /\ \A i \in 1 .. n - m + 1 : t[i] = s[m + i - 1]
  BY <1>1, <1>2, SubSeqProperties
<1>5. Len(t) = Len(s) - e /\ \A i \in 1 .. Len(s) - e : t[i] = s[e + i]
  <2>1. n - m + 1 = Len(s) - e
    BY <1>1, <1>3
  <2>2. \A i \in 1 .. Len(s) - e : m + i - 1 = e + i
    BY <1>1, <1>3
  <2> QED BY <1>1, <1>3, <1>4, <2>1, <2>2
<1> QED BY <1>4, <1>5 DEF t

\* When a piece has been read, the requests not read to their end are still what
\* the line and the wire hold.
LEMMA CutsOn ==
  ASSUME NEW line \in TextLine, NEW w \in Seq(Chars), NEW ws \in Seq(Requests), NEW cut,
         Cuts(cut, line, w, ws), NEW n \in 0 .. Len(w), NEW e \in 0 .. Len(ws),
         NEW rest \in TextLine, cut[e] = n - Len(rest),
         \A j \in 1 .. Len(rest) : rest[j] = CharAt(line, w, cut[e] + j)
  PROVE  Unread(rest, SubSeq(w, n + 1, Len(w)), SubSeq(ws, e + 1, Len(ws)))
<1> DEFINE v == SubSeq(w, n + 1, Len(w))
           vs == SubSeq(ws, e + 1, Len(ws))
           K == Len(ws) - e
           to == [k \in 0 .. K |-> cut[k + e] - n]
<1>1. /\ Len(w) \in Nat /\ Len(ws) \in Nat /\ n \in Nat /\ e \in Nat /\ K \in Nat
      /\ Len(rest) \in Nat /\ e + K = Len(ws)
  BY DEF TextLine
<1>2. v \in Seq(Chars) /\ Len(v) = Len(w) - n /\ \A p \in 1 .. Len(w) - n : v[p] = w[n + p]
  BY RestIs
<1>3. Len(vs) = K /\ \A p \in 1 .. K : vs[p] = ws[e + p]
  BY RestIs
<1>4. /\ \A k \in 0 .. Len(ws) : cut[k] \in Int
      /\ cut[Len(ws)] = Len(w)
      /\ \A h, k \in 0 .. Len(ws) : h <= k => cut[h] <= cut[k]
  BY DEF Cuts
<1>5. \A k \in 0 .. K : k + e \in 0 .. Len(ws)
  BY <1>1
<1>6. \A k \in 0 .. K : to[k] \in Int /\ to[k] = cut[k + e] - n
  BY <1>1, <1>4, <1>5
<1>7. to[0] = 0 - Len(rest) /\ to[K] = Len(v)
  BY <1>1, <1>2, <1>4, <1>6
<1>8. \A h, k \in 0 .. K : h <= k => to[h] <= to[k]
  BY <1>1, <1>4, <1>5, <1>6
<1>9. to \in [0 .. K -> Int]
  BY <1>6
<1> HIDE DEF v, vs, to, K
<1>10. ASSUME NEW p \in Int, 0 - Len(rest) < p, p <= Len(w) - n
       PROVE  CharAt(rest, v, p) = CharAt(line, w, p + n)
  <2>1. CASE p <= 0
    <3>1. p + Len(rest) \in 1 .. Len(rest) /\ cut[e] + (p + Len(rest)) = p + n
      BY <1>1, <1>10, <2>1
    <3>2. rest[p + Len(rest)] = CharAt(line, w, p + n)
      BY <3>1
    <3> QED BY <2>1, <3>2 DEF CharAt
  <2>2. CASE ~(p <= 0)
    <3>1. p \in 1 .. Len(w) - n /\ ~(p + n <= 0) /\ n + p = p + n
      BY <1>1, <1>10, <2>2
    <3> QED BY <1>2, <2>2, <3>1 DEF CharAt
  <2> QED BY <2>1, <2>2
<1>11. ASSUME NEW k \in 1 .. K
       PROVE  /\ to[k] = to[k - 1] + Len(vs[k].text) + 1
              /\ \A j \in 1 .. Len(vs[k].text) :
                   CharAt(rest, v, to[k - 1] + j) = vs[k].text[j]
              /\ CharAt(rest, v, to[k]) = Newline
  <2> DEFINE text == ws[e + k].text
             m == Len(text)
  <2>1. /\ e + k \in 1 .. Len(ws) /\ (e + k) - 1 = (k - 1) + e /\ k - 1 \in 0 .. K
        /\ k \in 0 .. K /\ 0 \in 0 .. K /\ K \in 0 .. K /\ e + k = k + e
        /\ 0 <= k - 1 /\ k <= K
    BY <1>1
  <2>2. vs[k].text = text /\ m \in Nat
    <3>1. ws[e + k] \in Requests
      BY <2>1
    <3>2. text \in TextLine
      BY <3>1, RequestIs
    <3>3. m \in Nat
      <4> HIDE DEF text
      <4> QED BY <3>2 DEF TextLine
    <3>4. vs[k] = ws[e + k]
      BY <1>3
    <3> QED BY <3>3, <3>4
  <2> HIDE DEF text, m
  <2>3. /\ cut[e + k] = cut[(e + k) - 1] + m + 1
        /\ \A j \in 1 .. m : CharAt(line, w, cut[(e + k) - 1] + j) = text[j]
        /\ CharAt(line, w, cut[e + k]) = Newline
    BY <2>1 DEF Cuts, text, m
  <2>4. /\ to[k] = cut[e + k] - n /\ to[k - 1] = cut[(e + k) - 1] - n
        /\ to[k] \in Int /\ to[k - 1] \in Int
        /\ cut[e + k] \in Int /\ cut[(e + k) - 1] \in Int
    BY <1>4, <1>5, <1>6, <2>1
  <2>5. 0 - Len(rest) <= to[k - 1] /\ to[k] <= Len(w) - n
    BY <1>2, <1>7, <1>8, <2>1
  <2>6. to[k] = to[k - 1] + m + 1
    BY <1>1, <2>2, <2>3, <2>4, SMTT(30)
  <2> DEFINE a == to[k - 1]
             b == to[k]
             r == Len(rest)
             z == Len(w)
             y == cut[e + k]
             u == cut[(e + k) - 1]
  <2>9. /\ a \in Int /\ b \in Int /\ r \in Nat /\ z \in Nat /\ n \in Nat
        /\ b = a + m + 1 /\ m \in Nat /\ 0 - r <= a /\ b <= z - n
        /\ b = y - n /\ a = u - n /\ y \in Int /\ u \in Int
    BY <1>1, <2>2, <2>4, <2>5, <2>6
  <2> HIDE DEF a, b, r, z, y, u
  <2>10. 0 - r < b /\ b + n = y
    BY <2>9
  <2>11. \A j \in 1 .. m : a + j \in Int /\ 0 - r < a + j /\ a + j <= z - n
                        /\ (a + j) + n = u + j
    BY <2>9
  <2>7. ASSUME NEW j \in 1 .. m PROVE CharAt(rest, v, to[k - 1] + j) = text[j]
    <3>1. /\ to[k - 1] + j \in Int /\ 0 - Len(rest) < to[k - 1] + j
          /\ to[k - 1] + j <= Len(w) - n
          /\ (to[k - 1] + j) + n = cut[(e + k) - 1] + j
      BY <2>11 DEF a, r, z, u
    <3> QED BY <1>10, <2>3, <3>1
  <2>8. CharAt(rest, v, to[k]) = Newline
    <3>1. 0 - Len(rest) < to[k] /\ to[k] + n = cut[e + k]
      BY <2>10 DEF b, r, y
    <3> QED BY <1>10, <2>3, <2>4, <2>5, <3>1
  <2> QED BY <2>2, <2>6, <2>7, <2>8 DEF m
<1>12. Cuts(to, rest, v, vs)
  BY <1>3, <1>7, <1>8, <1>9, <1>11 DEF Cuts
<1> QED BY <1>12 DEF Unread, v, vs

LEMMA ReadyReadKeeps == ASSUME RcInv, NEW c \in Users, ReadyRead(c) PROVE RcInv'
<1>1. RcTypes
  BY DEF RcInv
<1>2. /\ wire[c] \in Seq(Chars) /\ current_command[c] \in TextLine /\ replies[c] \in Seq(STRING)
      /\ written[c] \in Seq(Requests)
  BY <1>1 DEF RcTypes
<1> DEFINE w == wire[c]
           ws == written[c]
<1>3. PICK n \in 1 .. Len(w) :
        LET e == Ends(w, n)
            s == Come(c)[n]
        IN  /\ wire' = [wire EXCEPT ![c] = SubSeq(@, n + 1, Len(@))]
            /\ current_command' = [current_command EXCEPT ![c] = s.line]
            /\ rig' = s.rig
            /\ replies' = [replies EXCEPT ![c] = @ \o s.out]
            /\ written' = [written EXCEPT ![c] = SubSeq(@, e + 1, Len(@))]
            /\ done' = done \o Read(c, e)
  BY Zenon DEF ReadyRead, Ends, Come, Read
<1>4. PICK cut : Cuts(cut, current_command[c], w, ws)
  BY DEF RcInv, Unread
<1> DEFINE e == Ends(w, n)
           s == Come(c)[n]
<1>5. n \in 0 .. Len(w)
  BY <1>2
<1>6. ReadSoFar(s, c, cut, n)
  BY <1>4, <1>5, ReadAll
<1>7. /\ s \in Readings
      /\ e \in 0 .. Len(ws)
      /\ cut[e] = n - Len(s.line)
      /\ \A j \in 1 .. Len(s.line) : s.line[j] = CharAt(current_command[c], w, cut[e] + j)
      /\ AllInTurn(done \o Read(c, e)) =
           [rig |-> s.rig, replies |-> [replies EXCEPT ![c] = @ \o s.out]]
  BY <1>6 DEF ReadSoFar
<1>8. s.line \in TextLine /\ s.rig \in Rigs /\ s.out \in Seq(STRING)
  BY <1>7 DEF Readings
<1>9. /\ wire' = [wire EXCEPT ![c] = SubSeq(w, n + 1, Len(w))]
      /\ current_command' = [current_command EXCEPT ![c] = s.line]
      /\ rig' = s.rig
      /\ replies' = [replies EXCEPT ![c] = @ \o s.out]
      /\ written' = [written EXCEPT ![c] = SubSeq(ws, e + 1, Len(ws))]
      /\ done' = done \o Read(c, e)
  BY <1>3
<1> HIDE DEF e, s
<1>10. Unread(s.line, SubSeq(w, n + 1, Len(w)), SubSeq(ws, e + 1, Len(ws)))
  <2> HIDE DEF w, ws
  <2>1. w \in Seq(Chars) /\ ws \in Seq(Requests)
    BY <1>2 DEF w, ws
  <2> QED BY <1>2, <1>4, <1>5, <1>7, <1>8, <2>1, CutsOn
<1>11. SubSeq(w, n + 1, Len(w)) \in Seq(Chars) /\ SubSeq(ws, e + 1, Len(ws)) \in Seq(Requests)
  BY <1>2, <1>5, <1>7, RestIs
<1> DEFINE v == SubSeq(w, n + 1, Len(w))
           vs == SubSeq(ws, e + 1, Len(ws))
<1> HIDE DEF v, vs, w, ws
<1>12. RcTypes'
  <2>1. wire' \in [Users -> Seq(Chars)] /\ written' \in [Users -> Seq(Requests)]
    BY <1>1, <1>9, <1>11 DEF RcTypes, v, vs
  <2>2. current_command' \in [Users -> TextLine] /\ rig' \in Rigs
    BY <1>1, <1>8, <1>9 DEF RcTypes
  <2>3. replies' \in [Users -> Seq(STRING)]
    <3>1. replies[c] \o s.out \in Seq(STRING)
      BY <1>2, <1>8
    <3> QED BY <1>1, <1>9, <3>1 DEF RcTypes
  <2>4. done' \in Seq(Asks)
    <3>1. CASE e = 0
      <4>1. Read(c, 0) = <<>>
        BY DEF Read
      <4>2. done \in Seq(Asks)
        BY <1>1 DEF RcTypes
      <4> HIDE DEF Read
      <4>3. done \o <<>> = done
        BY <4>2
      <4> QED BY <1>9, <3>1, <4>1, <4>2, <4>3
    <3>2. CASE e # 0
      <4>1. Len(ws) \in Nat /\ e - 1 \in Nat /\ (e - 1) + 1 = e /\ e \in 1 .. Len(ws)
        BY <1>2, <1>7, <3>2 DEF ws
      <4>2. /\ [by |-> c, means |-> ws[e].means] \in Asks
            /\ done \o Read(c, e - 1) \in Seq(Asks)
            /\ done \o Read(c, e) =
                 Append(done \o Read(c, e - 1), [by |-> c, means |-> ws[e].means])
        BY <4>1, OneMoreRead DEF ws
      <4> QED BY <1>9, <4>2, AppendProperties
    <3> QED BY <3>1, <3>2
  <2> QED BY <2>1, <2>2, <2>3, <2>4 DEF RcTypes
<1>13. ASSUME NEW u \in Users PROVE Unread(current_command'[u], wire'[u], written'[u])
  <2>1. CASE u = c
    <3>1. current_command'[u] = s.line /\ wire'[u] = v /\ written'[u] = vs
      BY <1>1, <1>9, <2>1 DEF RcTypes, v, vs
    <3> QED BY <1>10, <3>1 DEF v, vs
  <2>2. CASE u # c
    <3>1. /\ current_command'[u] = current_command[u] /\ wire'[u] = wire[u]
          /\ written'[u] = written[u]
      BY <1>1, <1>9, <2>2 DEF RcTypes
    <3> QED BY <3>1 DEF RcInv
  <2> QED BY <2>1, <2>2
<1>14. AllInTurn(done') = [rig |-> rig', replies |-> replies']
  BY <1>7, <1>9
<1>15. (AllInTurn(done))' = AllInTurn(done')
  BY DEF AllInTurn
<1> QED BY <1>12, <1>13, <1>14, <1>15 DEF RcInv

LEMMA WritesKeeps == ASSUME RcInv, NEW c \in Users, NEW req \in Requests, Writes(c, req)
                     PROVE  RcInv'
<1> DEFINE w == wire[c]
           ws == written[c]
           line == current_command[c]
           text == req.text
           tail == Append(text, Newline)
           v == w \o tail
           vs == Append(ws, req)
           L == Len(w)
           K == Len(ws)
           m == Len(text)
<1>1. RcTypes
  BY DEF RcInv
<1>2. /\ w \in Seq(Chars) /\ line \in TextLine /\ ws \in Seq(Requests) /\ text \in TextLine
      /\ L \in Nat /\ K \in Nat
  BY <1>1, RequestIs DEF RcTypes
<1>3. /\ wire' = [wire EXCEPT ![c] = v]
      /\ written' = [written EXCEPT ![c] = vs]
      /\ current_command' = current_command /\ rig' = rig /\ replies' = replies /\ done' = done
  BY DEF Writes
<1>4. PICK cut : Cuts(cut, line, w, ws)
  BY DEF RcInv, Unread
<1> HIDE DEF text
<1>5. /\ tail \in Seq(Chars) /\ Len(tail) = m + 1 /\ m \in Nat
      /\ tail[m + 1] = Newline /\ \A j \in 1 .. m : tail[j] = text[j]
  <2>1. text \in Seq(Chars)
    BY <1>2 DEF TextLine, Chars
  <2>2. Newline \in Chars
    BY DEF Chars
  <2> QED BY <2>1, <2>2, AppendProperties
<1> HIDE DEF tail
<1>6. /\ v \in Seq(Chars) /\ Len(v) = L + m + 1
      /\ \A p \in 1 .. L : v[p] = w[p]
      /\ \A j \in 1 .. m + 1 : v[L + j] = tail[j]
  <2> HIDE DEF w, m
  <2>1. w \in Seq(Chars) /\ L = Len(w)
    BY <1>2 DEF w
  <2> HIDE DEF L
  <2>2. v \in Seq(Chars) /\ Len(v) = L + (m + 1)
    BY <1>5, <2>1
  <2>3. \A p \in 1 .. L : v[p] = w[p]
    BY <1>5, <2>1
  <2>4. \A j \in 1 .. m + 1 : v[L + j] = tail[j]
    <3>1. \A j \in 1 .. m + 1 : L + j \in 1 .. L + (m + 1) /\ ~(L + j <= L) /\ (L + j) - L = j
      BY <1>2, <1>5
    <3> QED BY <1>2, <1>5, <2>1, <3>1
  <2> HIDE DEF v
  <2>5. L + (m + 1) = L + m + 1
    BY <1>2, <1>5
  <2> QED BY <2>2, <2>3, <2>4, <2>5
<1>7. /\ vs \in Seq(Requests) /\ Len(vs) = K + 1 /\ vs[K + 1] = req
      /\ \A k \in 1 .. K : vs[k] = ws[k]
  BY <1>2, AppendProperties
<1> DEFINE to == [k \in 0 .. K + 1 |-> IF k <= K THEN cut[k] ELSE L + m + 1]
<1>8. /\ \A k \in 0 .. K : cut[k] \in Int
      /\ cut[0] = 0 - Len(line) /\ cut[K] = L
      /\ \A h, k \in 0 .. K : h <= k => cut[h] <= cut[k]
      /\ \A k \in 1 .. K :
           /\ cut[k] = cut[k - 1] + Len(ws[k].text) + 1
           /\ \A j \in 1 .. Len(ws[k].text) : CharAt(line, w, cut[k - 1] + j) = ws[k].text[j]
           /\ CharAt(line, w, cut[k]) = Newline
  BY <1>4 DEF Cuts
<1> HIDE DEF L, K, w, ws, v, vs, line, m
<1>9. \A k \in 0 .. K : k \in 0 .. K + 1 /\ to[k] = cut[k]
  BY <1>2
<1>10. K + 1 \in 0 .. K + 1 /\ to[K + 1] = L + m + 1 /\ 0 \in 0 .. K /\ K \in 0 .. K
  BY <1>2
<1>11. to \in [0 .. K + 1 -> Int]
  BY <1>2, <1>5, <1>8
<1> HIDE DEF to
<1>12. to[0] = 0 - Len(line) /\ to[K + 1] = Len(v)
  BY <1>6, <1>8, <1>9, <1>10
<1>13. ASSUME NEW h \in 0 .. K + 1, NEW k \in 0 .. K + 1, h <= k PROVE to[h] <= to[k]
  <2>1. CASE k \in 0 .. K
    <3>1. h \in 0 .. K
      BY <1>2, <1>13, <2>1
    <3> QED BY <1>8, <1>9, <1>13, <2>1, <3>1
  <2>2. CASE k \notin 0 .. K
    <3>1. k = K + 1
      BY <1>2, <2>2
    <3>2. CASE h \in 0 .. K
      <4>1. h <= K /\ cut[h] <= L /\ cut[h] \in Int
        BY <1>2, <1>8, <1>10, <3>2
      <4>2. L <= L + m + 1
        BY <1>2, <1>5
      <4>3. \A x \in Int : x <= L => x <= L + m + 1
        BY <1>2, <1>5
      <4> QED BY <1>9, <1>10, <3>1, <3>2, <4>1, <4>3
    <3>3. CASE h \notin 0 .. K
      <4>1. h = K + 1
        BY <1>2, <3>3
      <4> QED BY <1>2, <1>5, <1>10, <3>1, <4>1
    <3> QED BY <3>2, <3>3
  <2> QED BY <2>1, <2>2
<1>14. \A p \in Int : p <= L => CharAt(line, v, p) = CharAt(line, w, p)
  <2>1. ASSUME NEW p \in Int, p <= L, ~(p <= 0) PROVE v[p] = w[p]
    <3>1. p \in 1 .. L
      BY <1>2, <2>1
    <3> QED BY <1>6, <3>1
  <2> QED BY <2>1 DEF CharAt
<1>15. ASSUME NEW k \in 1 .. K + 1
       PROVE  /\ to[k] = to[k - 1] + Len(vs[k].text) + 1
              /\ \A j \in 1 .. Len(vs[k].text) :
                   CharAt(line, v, to[k - 1] + j) = vs[k].text[j]
              /\ CharAt(line, v, to[k]) = Newline
  <2>1. CASE k \in 1 .. K
    <3>1. /\ k \in 0 .. K /\ k - 1 \in 0 .. K /\ k <= K
      BY <1>2, <2>1
    <3>2. to[k] = cut[k] /\ to[k - 1] = cut[k - 1] /\ vs[k] = ws[k]
      BY <1>7, <1>9, <2>1, <3>1
    <3>3. /\ cut[k] = cut[k - 1] + Len(ws[k].text) + 1
          /\ \A j \in 1 .. Len(ws[k].text) : CharAt(line, w, cut[k - 1] + j) = ws[k].text[j]
          /\ CharAt(line, w, cut[k]) = Newline
      BY <1>8, <2>1
    <3>4. cut[k] \in Int /\ cut[k - 1] \in Int /\ cut[k] <= L
      BY <1>8, <1>10, <3>1
    <3>5. Len(ws[k].text) \in Nat
      <4>1. ws[k] \in Requests
        BY <1>2, <2>1 DEF K
      <4>2. ws[k].text \in TextLine
        BY <4>1, RequestIs
      <4> DEFINE z == ws[k].text
      <4> HIDE DEF z
      <4>3. Len(z) \in Nat
        BY <4>2 DEF TextLine, z
      <4> QED BY <4>3 DEF z
    <3>6. ASSUME NEW j \in 1 .. Len(ws[k].text)
          PROVE  CharAt(line, v, cut[k - 1] + j) = CharAt(line, w, cut[k - 1] + j)
      <4> DEFINE a == cut[k - 1]
                 b == cut[k]
                 z == Len(ws[k].text)
      <4>1. a \in Int /\ b \in Int /\ z \in Nat /\ b = a + z + 1 /\ b <= L /\ j \in 1 .. z
        BY <3>3, <3>4, <3>5
      <4> HIDE DEF a, b, z
      <4>2. a + j \in Int /\ a + j <= L
        BY <1>2, <4>1
      <4> QED BY <1>14, <4>2 DEF a
    <3>7. CharAt(line, v, cut[k]) = CharAt(line, w, cut[k])
      BY <1>14, <3>4
    <3> QED BY <3>2, <3>3, <3>6, <3>7
  <2>2. CASE k = K + 1
    <3>1. k - 1 = K /\ to[k] = L + m + 1 /\ to[k - 1] = L /\ vs[k].text = text
      BY <1>2, <1>7, <1>8, <1>9, <1>10, <2>2 DEF text
    <3>2. ASSUME NEW j \in 1 .. m PROVE CharAt(line, v, L + j) = text[j]
      <4>1. ~(L + j <= 0) /\ j \in 1 .. m + 1
        BY <1>2, <1>5
      <4> QED BY <1>5, <1>6, <4>1 DEF CharAt
    <3>3. CharAt(line, v, L + m + 1) = Newline
      <4>1. ~(L + m + 1 <= 0) /\ m + 1 \in 1 .. m + 1 /\ L + (m + 1) = L + m + 1
        BY <1>2, <1>5
      <4>2. v[L + (m + 1)] = Newline
        BY <1>5, <1>6, <4>1
      <4> QED BY <4>1, <4>2 DEF CharAt
    <3>4. Len(vs[k].text) = m
      BY <3>1 DEF m
    <3> QED BY <3>1, <3>2, <3>3, <3>4
  <2>3. k \in 1 .. K \/ k = K + 1
    BY <1>2
  <2> QED BY <2>1, <2>2, <2>3
<1>16. Cuts(to, line, v, vs)
  BY <1>7, <1>11, <1>12, <1>13, <1>15 DEF Cuts
<1>17. RcTypes'
  <2>1. wire' \in [Users -> Seq(Chars)]
    BY <1>1, <1>3, <1>6 DEF RcTypes
  <2>2. written' \in [Users -> Seq(Requests)]
    BY <1>1, <1>3, <1>7 DEF RcTypes
  <2> QED BY <1>1, <1>3, <2>1, <2>2 DEF RcTypes
<1>18. ASSUME NEW u \in Users PROVE Unread(current_command'[u], wire'[u], written'[u])
  <2>1. CASE u = c
    <3>1. current_command'[u] = line /\ wire'[u] = v /\ written'[u] = vs
      BY <1>1, <1>3, <2>1 DEF RcTypes, line
    <3> QED BY <1>16, <3>1 DEF Unread
  <2>2. CASE u # c
    <3>1. /\ current_command'[u] = current_command[u] /\ wire'[u] = wire[u]
          /\ written'[u] = written[u]
      BY <1>1, <1>3, <2>2 DEF RcTypes
    <3> QED BY <3>1 DEF RcInv
  <2> QED BY <2>1, <2>2
<1>19. (AllInTurn(done) = [rig |-> rig, replies |-> replies])'
  BY <1>3 DEF RcInv
<1> QED BY <1>17, <1>18, <1>19 DEF RcInv

LEMMA ReportRXFreqKeeps == ASSUME RcInv, NEW f \in Told, ReportRXFreq(f) PROVE RcInv'
<1> DEFINE d == [by |-> "gui", means |-> f]
<1>1. RcTypes /\ AllInTurn(done) = [rig |-> rig, replies |-> replies]
  BY DEF RcInv
<1>2. /\ rig' = [rig EXCEPT !.rx_freq = f] /\ done' = Append(done, d)
      /\ wire' = wire /\ current_command' = current_command /\ replies' = replies
      /\ written' = written
  BY DEF ReportRXFreq
<1>3. d \in Asks /\ f \in Numbers /\ d.by = "gui" /\ d.means = f
  BY RigctlAssumption DEF Asks, RigctlAssumption
<1> HIDE DEF d
<1>4. done \in Seq(Asks) /\ rig \in Rigs
  BY <1>1 DEF RcTypes
<1>5. done' \in Seq(Asks) /\ rig' \in Rigs
  <2>1. done' \in Seq(Asks)
    BY <1>2, <1>3, <1>4, AppendProperties
  <2>2. rig' \in Rigs
    BY <1>2, <1>3, <1>4 DEF Rigs
  <2> QED BY <2>1, <2>2
<1>6. RcTypes'
  BY <1>1, <1>2, <1>5 DEF RcTypes
<1>7. AllInTurn(done') = InTurn([rig |-> rig, replies |-> replies], d)
  BY <1>1, <1>2, <1>3, <1>4, OneMoreTurn
<1>8. InTurn([rig |-> rig, replies |-> replies], d) = [rig |-> rig', replies |-> replies']
  BY <1>2, <1>3 DEF InTurn
<1>9. (AllInTurn(done))' = AllInTurn(done')
  BY DEF AllInTurn
<1>10. \A u \in Users : Unread(current_command'[u], wire'[u], written'[u])
  BY <1>2 DEF RcInv
<1> QED BY <1>6, <1>7, <1>8, <1>9, <1>10 DEF RcInv

LEMMA TextStartsRight == RcInit => RcInv
<1> SUFFICES ASSUME RcInit PROVE RcInv
  OBVIOUS
<1>1. RcTypes
  BY RigctlAssumption DEF RcInit, RcTypes, RigctlAssumption, TextLine
<1>2. ASSUME NEW c \in Users PROVE Unread(current_command[c], wire[c], written[c])
  <2>1. current_command[c] = <<>> /\ wire[c] = <<>> /\ written[c] = <<>>
    BY DEF RcInit
  <2> DEFINE cut == [k \in 0 .. 0 |-> 0]
             nil == <<>>
  <2>2. Len(nil) = 0 /\ cut \in [0 .. 0 -> Int] /\ cut[0] = 0
    OBVIOUS
  <2>3. \A h, k \in 0 .. 0 : cut[h] <= cut[k]
    OBVIOUS
  <2> HIDE DEF cut, nil
  <2>4. 1 .. Len(nil) = {} /\ 0 - Len(nil) = 0
    BY <2>2
  <2>5. Cuts(cut, nil, nil, nil)
    BY <2>2, <2>3, <2>4 DEF Cuts
  <2> QED BY <2>1, <2>5 DEF Unread, nil
<1>3. AllInTurn(done) = [rig |-> rig, replies |-> replies]
  <2>1. done = <<>> /\ rig = NewRig /\ replies = [c \in Users |-> <<>>]
    BY DEF RcInit
  <2>2. Len(<<>>) = 0
    OBVIOUS
  <2>3. AllInTurn(<<>>) = AtFirst
    BY <2>2, TurnsAre
  <2> QED BY <2>1, <2>3 DEF AtFirst
<1> QED BY <1>1, <1>2, <1>3 DEF RcInv

\* What the wire holds is the rest of requests, and what has been read to its end is
\* in the handler and the answers: of ReadyRead, wherever TCP cuts the text.
THEOREM TextInvariant == RcSpec => []RcInv
<1>1. RcInit => RcInv
  BY TextStartsRight
<1>2. RcInv /\ [RcNext]_rcVars => RcInv'
  <2> SUFFICES ASSUME RcInv, [RcNext]_rcVars PROVE RcInv'
    OBVIOUS
  <2>1. ASSUME NEW c \in Users, ReadyRead(c) PROVE RcInv'
    BY <2>1, ReadyReadKeeps
  <2>2. ASSUME NEW c \in Users, NEW req \in Requests, Writes(c, req) PROVE RcInv'
    BY <2>2, WritesKeeps
  <2>3. ASSUME NEW f \in Told, ReportRXFreq(f) PROVE RcInv'
    BY <2>3, ReportRXFreqKeeps
  <2>4. CASE UNCHANGED rcVars
    BY <2>4 DEF rcVars, RcInv, RcTypes, AllInTurn
  <2> QED BY <2>1, <2>2, <2>3, <2>4 DEF RcNext
<1> QED BY <1>1, <1>2, PTL DEF RcSpec

\* The handler and every client's answers are those of the commands that were
\* written, in the order in which their lines ended: of processCommand and readyRead.
THEOREM TextIsObeyed == RcSpec => []TextObeyed
<1>1. RcInv => TextObeyed
  BY DEF RcInv, TextObeyed
<1> QED BY <1>1, TextInvariant, PTL
=============================================================================
