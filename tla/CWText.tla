------------------------------- MODULE CWText -------------------------------
(***************************************************************************)
(* Text to Morse: how CWTX, its CWGenerator and USRPTX turn the text a     *)
(* client types into keyed carrier, and how a marker in that text comes    *)
(* back.                                                                   *)
(*                                                                         *)
(* CWTX queues text and encodes it only while less than a second of        *)
(* envelope is waiting in the CW_ENV mailbox.  A marker is a control       *)
(* character (ETX) in the text and a tag in a queue beside it.  CWTX, on   *)
(* reaching the ETX, asks USRPTX (SET TX_CW_EMPTY) to say when the         *)
(* envelope has run dry; USRPTX says so (REP TX_CW_EMPTY), and CWTX reports*)
(* the oldest tag to the client.                                           *)
(*                                                                         *)
(* TRSwitch shows how TX_STATE gets here: CTRL's 3 and 2, the messages that*)
(* switch USRPTX, are the ones kept.  put() serves USRPTX before CWTX,     *)
(* which subscribed later, so that CWTX never asks for a report before     *)
(* USRPTX has the 3 of the over; and the messages of different producers   *)
(* touch different members.  Hence both are given theirs in one step.      *)
(***************************************************************************)
EXTENDS Integers, Sequences, FiniteSets

CONSTANTS MaxAhead,   \* bufs_per_sec: envelope buffers in a second
          MaxPost,    \* most buffers that one character completes
          MaxText,    \* bound: characters and markers the client sends
          MaxSwitch,  \* bound: other commands the client sends
          MaxQueue    \* bound: commands in a queue when the client adds one

ASSUME CWAssumption ==
  /\ {MaxAhead, MaxPost} \subseteq Nat \ {0}
  /\ {MaxText, MaxSwitch, MaxQueue} \subseteq Nat

VARIABLES
  cwq, txq,                     \* CMD mailbox: what CWTX and USRPTX have to take
  text_queue,                   \* CWTX: serials of characters, ETX for a marker
  break_notification_id_queue,  \* CWTX: tags of the markers in the text
  tx_on, txmode_is_cw, old_txmode_is_cw, sent_char_count,  \* CWTX
  sending, coming,  \* CWTX is in sendAvailChar; buffers sendChar has yet to post
  env,              \* CW_ENV: per buffer, the character that completed it
  tx_enabled, tx_cw, beacon_mode, waiting_to_run_dry,      \* USRPTX
  found_dry,        \* USRPTX has found no envelope and is sending silence
  over, cw, carrier,            \* client: its last PTT, mode and TX_BEACON
  n_text, n_switch, asked, answered,  \* client: commands sent; markers out, back
  careful, asks     \* client: keeps to a discipline, uses TX_CW_EMPTY itself

mail    == <<cwq, txq>>
cwtx    == <<text_queue, break_notification_id_queue, tx_on, txmode_is_cw,
             old_txmode_is_cw, sent_char_count>>
cwgen   == <<sending, coming>>
usrptx  == <<tx_enabled, tx_cw, beacon_mode, waiting_to_run_dry, found_dry>>
client  == <<over, cw, carrier, n_text, n_switch, asked, careful, asks>>
vars == <<mail, cwtx, cwgen, env, usrptx, client, answered>>

ETX == 0   \* '\003' in the text

\* A command: what it does, and its number or flag.
Cmd(t, v) == [t |-> t, v |-> v]
Flag(b) == IF b THEN 1 ELSE 0

Init ==
  /\ cwq = <<>> /\ txq = <<>>
  /\ text_queue = <<>> /\ break_notification_id_queue = <<>>
  /\ tx_on = FALSE /\ sent_char_count = 0
  /\ sending = FALSE /\ coming = <<>>
  /\ env = <<>>
  /\ tx_enabled = FALSE /\ beacon_mode = FALSE
  /\ waiting_to_run_dry = FALSE /\ found_dry = FALSE
  /\ cw \in BOOLEAN
  /\ careful \in BOOLEAN /\ asks \in BOOLEAN /\ ~(careful /\ asks)
  /\ tx_cw = cw /\ txmode_is_cw = cw /\ old_txmode_is_cw = cw
  /\ over = FALSE /\ carrier = FALSE
  /\ n_text = 0 /\ n_switch = 0 /\ asked = {} /\ answered = {}

-----------------------------------------------------------------------------
(* The client: text, markers, and the commands that switch.  A careful one *)
(* has no marker out when it sends another, flushes the text or ends an    *)
(* over, turns the carrier on only when it is off, and leaves TX_CW_EMPTY   *)
(* to CWTX.                                                                *)

Idle == asked = answered
ToCwtx(c) == /\ Len(cwq) < MaxQueue
             /\ cwq' = Append(cwq, c)
             /\ UNCHANGED txq
ToBoth(c) == /\ {Len(cwq), Len(txq)} \subseteq 0 .. MaxQueue - 1
             /\ cwq' = Append(cwq, c)
             /\ txq' = Append(txq, c)
Radio == <<cwtx, cwgen, env, usrptx, answered>>

\* Characters and markers are numbered in one series; a TX_CW_TEXT of several
\* characters acts as that many commands, for CWTX takes all that is there.
Type ==
  /\ n_text < MaxText
  /\ n_text' = n_text + 1
  /\ ToCwtx(Cmd("TX_CW_TEXT", n_text'))
  /\ UNCHANGED <<Radio, over, cw, carrier, n_switch, asked, careful, asks>>

Mark ==
  /\ n_text < MaxText
  /\ careful => Idle
  /\ n_text' = n_text + 1
  /\ asked' = asked \cup {n_text'}
  /\ ToCwtx(Cmd("TX_CW_MARKER", n_text'))
  /\ UNCHANGED <<Radio, over, cw, carrier, n_switch, careful, asks>>

Switch == n_switch < MaxSwitch /\ n_switch' = n_switch + 1

Flush ==
  /\ Switch
  /\ careful => Idle
  /\ ToCwtx(Cmd("TX_CW_FLUSHTEXT", 0))
  /\ UNCHANGED <<Radio, over, cw, carrier, n_text, asked, careful, asks>>

\* USRPCtrl turns the client's 1 and 0 into 3 and 2.
Key(on) ==
  /\ Switch
  /\ careful /\ ~on => Idle
  /\ over' = on
  /\ ToBoth(Cmd("TX_STATE", Flag(on) + 2))
  /\ UNCHANGED <<Radio, cw, carrier, n_text, asked, careful, asks>>

Carrier(on) ==
  /\ Switch
  /\ careful => on # carrier
  /\ carrier' = on
  /\ ToBoth(Cmd("TX_BEACON", Flag(on)))
  /\ UNCHANGED <<Radio, over, cw, n_text, asked, careful, asks>>

Mode(c) ==
  /\ Switch
  /\ cw' = c
  /\ ToBoth(Cmd("TX_MODE", Flag(c)))
  /\ UNCHANGED <<Radio, over, carrier, n_text, asked, careful, asks>>

\* "cmd enables report": USRPTX is to say when it runs dry, marker or not.
Ask ==
  /\ Switch
  /\ asks
  /\ Len(txq) < MaxQueue
  /\ txq' = Append(txq, Cmd("TX_CW_EMPTY", 0))
  /\ UNCHANGED <<cwq, Radio, over, cw, carrier, n_text, asked, careful, asks>>

-----------------------------------------------------------------------------
(* CWTX.  Its loop takes every command there is, then sends characters     *)
(* until there are none or enough envelope waits.                          *)

\* Slip: one buffer more than a second's worth.
ReadyForMoreLax == Len(env) <= MaxAhead
ReadyForMore == Len(env) < MaxAhead

\* Slip: the carrier's end takes up the mode without its having been kept.
BeaconForgets(on) == txmode_is_cw' = ~on /\ UNCHANGED old_txmode_is_cw
Beacon(on) ==
  IF on THEN old_txmode_is_cw' = txmode_is_cw /\ txmode_is_cw' = FALSE
        ELSE txmode_is_cw' = old_txmode_is_cw /\ UNCHANGED old_txmode_is_cw

ClearTextQueueUncounted == text_queue' = <<>> /\ UNCHANGED sent_char_count

\* What is dropped counts as sent, markers included.
ClearTextQueue == /\ text_queue' = <<>>
                  /\ sent_char_count' = sent_char_count + Len(text_queue)

\* The tag comes off its queue and goes to the client, if there is one.
ReportMarker ==
  LET ids == break_notification_id_queue
  IN  IF ids = <<>>
        THEN UNCHANGED <<break_notification_id_queue, answered>>
        ELSE /\ break_notification_id_queue' = Tail(ids)
             /\ answered' = answered \cup {Head(ids)}

modes == <<txmode_is_cw, old_txmode_is_cw>>
texts == <<text_queue, sent_char_count>>
tags  == <<break_notification_id_queue, answered>>

CwtxTakes ==
  /\ ~sending /\ cwq # <<>>
  /\ cwq' = Tail(cwq)
  /\ LET c == Head(cwq)
     IN  \/ /\ c.t = "TX_STATE"
            /\ tx_on' = (c.v = 3)
            /\ UNCHANGED <<modes, texts, tags>>
         \/ /\ c.t = "TX_BEACON"
            /\ Beacon(c.v = 1)
            /\ UNCHANGED <<tx_on, texts, tags>>
         \/ /\ c.t = "TX_MODE"
            /\ txmode_is_cw' = (c.v = 1) /\ old_txmode_is_cw' = (c.v = 1)
            /\ UNCHANGED <<tx_on, texts, tags>>
         \/ /\ c.t = "TX_CW_TEXT"
            /\ text_queue' = Append(text_queue, c.v)
            /\ UNCHANGED <<sent_char_count, tx_on, modes, tags>>
         \/ /\ c.t = "TX_CW_MARKER"
            /\ text_queue' = Append(text_queue, ETX)
            /\ break_notification_id_queue' = Append(break_notification_id_queue, c.v)
            /\ UNCHANGED <<sent_char_count, answered, tx_on, modes>>
         \/ /\ c.t = "TX_CW_FLUSHTEXT"
            /\ ClearTextQueue
            /\ UNCHANGED <<tx_on, modes, tags>>
         \/ /\ c.t = "TX_CW_EMPTY"
            /\ ReportMarker
            /\ UNCHANGED <<tx_on, modes, texts>>
  /\ UNCHANGED <<txq, cwgen, env, usrptx, client>>

\* The commands are done, and sendAvailChar goes to work.
CwtxStarts ==
  /\ ~sending /\ cwq = <<>>
  /\ ReadyForMore /\ txmode_is_cw /\ tx_on
  /\ sending' = TRUE
  /\ UNCHANGED <<mail, cwtx, coming, env, usrptx, client, answered>>

\* A character goes to sendChar, which will post the buffers it completes; for
\* an ETX, USRPTX is asked to report when it runs dry.
CwtxSends ==
  /\ sending /\ coming = <<>>
  /\ ReadyForMore /\ text_queue # <<>>
  /\ text_queue' = Tail(text_queue)
  /\ LET c == Head(text_queue)
     IN  IF c = ETX
           THEN /\ txq' = Append(txq, Cmd("TX_CW_EMPTY", 0))
                /\ UNCHANGED <<coming, sent_char_count>>
           ELSE /\ \E k \in 0 .. MaxPost : coming' = [i \in 1 .. k |-> c]
                /\ sent_char_count' = sent_char_count + 1
                /\ UNCHANGED txq
  /\ UNCHANGED <<cwq, break_notification_id_queue, tx_on, modes, sending, env,
                 usrptx, client, answered>>

\* appendToOut has filled a buffer.
CwtxPosts ==
  /\ coming # <<>>
  /\ env' = Append(env, Head(coming))
  /\ coming' = Tail(coming)
  /\ UNCHANGED <<mail, cwtx, sending, usrptx, client, answered>>

CwtxStops ==
  /\ sending /\ coming = <<>>
  /\ ~ReadyForMore \/ text_queue = <<>>
  /\ sending' = FALSE
  /\ UNCHANGED <<mail, cwtx, coming, env, usrptx, client, answered>>

-----------------------------------------------------------------------------
(* USRPTX.                                                                 *)

\* Slip: a carrier clears what USRPTX has been asked to report.
TxBeaconClears(on) == beacon_mode' = on /\ waiting_to_run_dry' = (waiting_to_run_dry /\ ~on)
TxBeacon(on) == beacon_mode' = on /\ UNCHANGED waiting_to_run_dry

\* A new over forgets the report asked for in the one before.
TransmitSwitch(on) ==
  /\ tx_enabled' = on
  /\ waiting_to_run_dry' = (waiting_to_run_dry /\ (tx_enabled \/ ~on))

TxTakes ==
  /\ ~found_dry /\ txq # <<>>
  /\ txq' = Tail(txq)
  /\ LET c == Head(txq)
     IN  \/ /\ c.t = "TX_STATE"
            /\ TransmitSwitch(c.v = 3)
            /\ UNCHANGED <<tx_cw, beacon_mode>>
         \/ /\ c.t = "TX_BEACON"
            /\ TxBeacon(c.v # 0)
            /\ UNCHANGED <<tx_enabled, tx_cw>>
         \/ /\ c.t = "TX_MODE"
            /\ tx_cw' = (c.v = 1)
            /\ UNCHANGED <<tx_enabled, beacon_mode, waiting_to_run_dry>>
         \/ /\ c.t = "TX_CW_EMPTY"
            /\ waiting_to_run_dry' = TRUE
            /\ UNCHANGED <<tx_enabled, tx_cw, beacon_mode>>
  /\ UNCHANGED <<cwq, cwtx, cwgen, env, found_dry, client, answered>>

\* It sends keyed carrier: an over in CW, without the steady carrier.
Keying == txq = <<>> /\ ~found_dry /\ tx_enabled /\ tx_cw /\ ~beacon_mode

TxSends ==
  /\ Keying /\ env # <<>>
  /\ env' = Tail(env)
  /\ UNCHANGED <<mail, cwtx, cwgen, usrptx, client, answered>>

\* Slip: it answers as soon as it is asked.
RunDryAtOnce == TRUE
RunDry == env = <<>>

\* There is no envelope: it sends a buffer of silence ...
TxFindsDry ==
  /\ Keying /\ RunDry /\ waiting_to_run_dry
  /\ found_dry' = TRUE
  /\ UNCHANGED <<mail, cwtx, cwgen, env, tx_enabled, tx_cw, beacon_mode,
                 waiting_to_run_dry, client, answered>>

\* ... and then reports, if it has been asked to.
TxReports ==
  /\ found_dry
  /\ found_dry' = FALSE
  /\ waiting_to_run_dry' = FALSE
  /\ cwq' = Append(cwq, Cmd("TX_CW_EMPTY", 0))
  /\ UNCHANGED <<txq, cwtx, cwgen, env, tx_enabled, tx_cw, beacon_mode, client,
                 answered>>

-----------------------------------------------------------------------------
Client == \/ Type \/ Mark \/ Flush \/ Ask
          \/ \E on \in BOOLEAN : Key(on) \/ Carrier(on) \/ Mode(on)
Cwtx == CwtxTakes \/ CwtxStarts \/ CwtxSends \/ CwtxPosts \/ CwtxStops
Usrptx == TxTakes \/ TxSends \/ TxFindsDry \/ TxReports

Next == Client \/ Cwtx \/ Usrptx

Spec == Init /\ [][Next]_vars

\* The two run loops go on for ever, and the radio takes what it is sent; the
\* client owes nothing.
FairSpec == Spec /\ WF_vars(Cwtx) /\ WF_vars(Usrptx)

-----------------------------------------------------------------------------
\* Never more than a second of envelope, and what one character adds to it,
\* waits for USRPTX, however much is typed and whenever the transmitter stops.
AheadBounded == Len(env) + Len(coming) < MaxAhead + MaxPost

\* The characters that precede marker k, and are not on the air in full.
StillAhead(k) == \/ \E i \in DOMAIN text_queue : text_queue[i] \in 1 .. k - 1
                 \/ \E i \in DOMAIN env : env[i] < k
                 \/ \E i \in DOMAIN coming : coming[i] < k

\* No marker is reported while text sent before it still waits, in CWTX or in
\* the buffers posted to USRPTX, whatever the client does meanwhile: marks again,
\* flushes, ends the over, changes the mode.  (The report a client asks for with
\* TX_CW_EMPTY is taken for a marker's, and may be early.)
MarkerNeverEarly ==
  [][~asks => \A k \in answered' \ answered : ~StillAhead(k)]_vars

\* A careful client that leaves the radio transmitting CW has all its text sent
\* and all its markers reported, however the carrier and the mode were switched.
TextAndMarkersFinish ==
  (<>[](careful /\ over /\ cw /\ ~carrier))
    => <>[](text_queue = <<>> /\ env = <<>> /\ Idle)

\* Once the commands are taken, CWTX and USRPTX agree on whether text is sent,
\* after any series of mode changes and carriers.
ModesAgree ==
  careful /\ cwq = <<>> /\ txq = <<>> =>
    /\ tx_cw = cw /\ beacon_mode = carrier
    /\ ~carrier => txmode_is_cw = cw
    /\ tx_on = tx_enabled

\* "character count from start-of-time" (Command.hxx): the count CWTX reports
\* with each character and each flush is the client's own, if no marker is
\* flushed.
Count(q, S) == Cardinality({i \in DOMAIN q : q[i] \in S})
Chars(q) == Count(q, Nat \ {ETX})
Typed(q) == Count(q, [t : {"TX_CW_TEXT"}, v : Nat])
CountsAgree ==
  careful => sent_char_count + Chars(text_queue) + Typed(cwq)
               = n_text - Cardinality(asked)

\* The two together: CWTX and USRPTX hear of modes, carriers, flushes and overs on
\* queues of their own, and after any series of them keep to the same mode, and
\* lose count of nothing.
ThreadsAgree == ModesAgree /\ CountsAgree
=============================================================================
