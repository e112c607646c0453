----------------------------- MODULE AudioPlayer -----------------------------
(***************************************************************************)
(* Received audio on its way to the operator's ears: BaseBandRX sends each *)
(* buffer over a socket (AudioQtRX); the GUI's AudioRXListener puts what   *)
(* it reads in a ring, from which the sound device pulls, and hands it to  *)
(* the AudioRecorder, whose own ring keeps the last seconds so that a      *)
(* recording starts with what has just been heard.                         *)
(*                                                                         *)
(* Radio and sound card have clocks of their own: the device finds the     *)
(* ring short (and gets silence) or the ring fills up (and is cleared at   *)
(* the next of the measurements made every CheckEvery reads).              *)
(*                                                                         *)
(* Samples are numbered in the order the GUI reads them.  The handlers run *)
(* in the GUI's event loop, one at a time.                                 *)
(***************************************************************************)
EXTENDS AudioRing

CONSTANTS FrameLen,     \* audio_buffer_size
          ReadLen,      \* rx_in_buf_len, the most one read() returns
          PlayLen,      \* size of audio_cbuffer_p
          RecordLen,    \* size of rec_buffer
          MaxSlack,     \* max_slack_time, in samples
          CheckEvery,   \* reads between two measurements (32)
          DeviceReads,  \* what the sound device asks for at a time
          SocketLen,    \* what the socket can hold
          MaxSent       \* bound: samples sent in all

ASSUME AudioAssumption ==
  /\ {FrameLen, ReadLen, PlayLen, RecordLen, CheckEvery} \subseteq Nat \ {0}
  /\ {MaxSlack, SocketLen, MaxSent} \subseteq Nat
  /\ DeviceReads \subseteq Nat \ {0}
  /\ MaxSlack + CheckEvery * ReadLen <= PlayLen

VARIABLES
  link,          \* the audio socket: "away", "calling" (not accepted), "open"
  sent,          \* samples BaseBandRX has sent since the link is open
  arrived,       \* samples the GUI has read
  audio_cbuffer, \* AudioRXListener: the ring it plays from
  update_count,  \* AudioRXListener: status_update_count
  rec_buffer,    \* AudioRecorder: the ring it starts a recording from
  snd_file,      \* AudioRecorder: "null" or "open"
  recording,     \* the samples in the file
  unfiled        \* auxiliary: samples since the last that went to a file

listener == <<audio_cbuffer, update_count>>
recorder == <<rec_buffer, snd_file, recording, unfiled>>
vars == <<link, sent, arrived, listener, recorder>>

Init ==
  /\ link = "away" /\ sent = 0 /\ arrived = 0
  /\ audio_cbuffer = NewRing(PlayLen, 0) /\ update_count = 0
  /\ rec_buffer = NewRing(RecordLen, 0)
  /\ snd_file = "null" /\ recording = <<>> /\ unfiled = 0

Run(from, to) == [i \in 1 .. to - from |-> from + i]

-----------------------------------------------------------------------------
\* init(): the listener calls; the server answers when it next sends.
Connect ==
  /\ link = "away"
  /\ link' = "calling"
  /\ UNCHANGED <<sent, arrived, listener, recorder>>

\* pendAudioBuffer(): with nobody there the buffer is dropped, which changes
\* nothing; a full socket is tried again until it takes all of it.
PendAudioBuffer ==
  /\ link # "away"
  /\ sent + FrameLen <= MaxSent
  /\ sent - arrived + FrameLen <= SocketLen
  /\ link' = "open"
  /\ sent' = sent + FrameLen
  /\ UNCHANGED <<arrived, listener, recorder>>

\* Negative control: the backlog is measured and left as it is.
CleanBufferNever(r) == r

CleanBuffer(r) == Cleared(r)

\* Every so often, and before it puts, the listener looks how far the device
\* is behind and gives up what has accumulated.
Measured(r) ==
  IF update_count # 0 THEN r
  ELSE IF NumElements(r) > MaxSlack THEN CleanBuffer(Counted(r)) ELSE Counted(r)

\* Negative control: the file starts with what comes next.
LeadInNone(r) == <<>>

\* saveData(): the first buffer of a recording finds the ring filled.
LeadIn(r) == Readable(r)

SaveData(buf) ==
  IF snd_file = "open"
  THEN /\ recording' = recording \o LeadIn(rec_buffer) \o buf
       /\ rec_buffer' = Got(rec_buffer, NumElements(rec_buffer))
       /\ unfiled' = 0
       /\ UNCHANGED snd_file
  ELSE /\ rec_buffer' = Put(rec_buffer, buf)
       /\ unfiled' = unfiled + Len(buf)
       /\ UNCHANGED <<snd_file, recording>>

\* A turn of the loop in processRXAudio(): n samples are read.
ProcessRXAudio(n) ==
  LET buf == Run(arrived, arrived + n) IN
  /\ n <= sent - arrived
  /\ arrived' = arrived + n
  /\ audio_cbuffer' = Put(Measured(audio_cbuffer), buf)
  /\ update_count' = (update_count + 1) % CheckEvery
  /\ SaveData(buf)
  /\ UNCHANGED <<link, sent>>

\* readData(), where there is not enough: silence, and the ring is left.
GiveSilence(max_len) ==
  /\ NumElements(audio_cbuffer) < max_len
  /\ audio_cbuffer' = Counted(audio_cbuffer)
  /\ UNCHANGED <<link, sent, arrived, update_count, recorder>>

\* readData(), where there is.
GiveSamples(max_len) ==
  /\ NumElements(audio_cbuffer) >= max_len
  /\ audio_cbuffer' = Got(audio_cbuffer, max_len)
  /\ UNCHANGED <<link, sent, arrived, update_count, recorder>>

\* record(): an open file is closed in any case; opening may fail, silently.
Record(on) ==
  /\ snd_file = "open" \/ on
  /\ snd_file' \in IF on THEN {"open", "null"} ELSE {"null"}
  /\ recording' = <<>>
  /\ UNCHANGED <<link, sent, arrived, listener, rec_buffer, unfiled>>

Next == \/ Connect
        \/ PendAudioBuffer
        \/ \E n \in 1 .. ReadLen : ProcessRXAudio(n)
        \/ \E m \in DeviceReads : GiveSilence(m) \/ GiveSamples(m)
        \/ \E on \in BOOLEAN : Record(on)

Spec == Init /\ [][Next]_vars

-----------------------------------------------------------------------------
\* How much may have come in since the backlog was last measured.
Since == MaxSlack + ReadLen * (IF update_count = 0 THEN CheckEvery
                               ELSE update_count)

\* The operator never hears the radio later than the slack plus what one
\* interval between measurements brings, so that the ring, which is larger,
\* is never overrun: clear(), in the handler of what arrives, and the device,
\* in its own time, are enough.
LatencyBounded ==
  /\ Backlog(audio_cbuffer) <= Since
  /\ Backlog(audio_cbuffer) <= PlayLen

\* A recording is an unbroken piece of what arrived, to the latest sample,
\* and begins as long before the button as the recorder remembers, whatever
\* was recorded before and however the buffers fall.
RecordingSeamless ==
  LET kept == IF unfiled < RecordLen THEN unfiled ELSE RecordLen IN
  /\ Readable(rec_buffer) = Run(arrived - kept, arrived)
  /\ recording # <<>> =>
       recording = Run(arrived - Len(recording), arrived)

\* To the sound device the listener's ring is the drop-oldest queue of the
\* samples that arrive: pulls, measurements and puts, short or across the end
\* of the ring, never repeat, reorder or lose any that it still has room for.
PlayFifo == INSTANCE SampleFifo
              WITH Cap <- PlayLen, MaxOffer <- ReadLen,
                   q <- Readable(audio_cbuffer), last <- arrived
PlayIsFifo == PlayFifo!Spec
=============================================================================
