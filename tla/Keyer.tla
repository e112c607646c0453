-------------------------------- MODULE Keyer --------------------------------
(***************************************************************************)
(* CWGenerator: how a character becomes dits and dahs of keyed envelope,   *)
(* laid end to end in buffers that go to the transmitter when they are     *)
(* full.  CWText counts the buffers; here are their contents.  CWTX alone  *)
(* calls the generator, and changes its speed between two characters.      *)
(*                                                                         *)
(* A sample is on or off: the soft edges are part of the mark.             *)
(***************************************************************************)
EXTENDS Integers, Sequences, SequencesExt

CONSTANTS SampleRate,  \* sample_rate
          BufLen,      \* env_buf_len
          Speeds,      \* words per minute that a client may ask for
          MaxChars, MaxSpeed  \* bounds: characters sent, speed changes

VARIABLES
  dot,             \* samples in a dot, at the speed set last
  elements,        \* what sendChar() has yet to append
  cur_buf, posted, \* the buffer being filled, and the full ones, in order
  in_digraph, last_was_space,
  keyed, joined,   \* auxiliary: the keying of the text so far, and whether it
                   \* ends in a letter that runs into the next
  chars, speeds    \* characters sent, speed changes

kyVars == <<dot, elements, cur_buf, posted, in_digraph, last_was_space,
            keyed, joined, chars, speeds>>

Speed(wpm) == IF wpm < 1 THEN 1 ELSE IF wpm > 50 THEN 50 ELSE wpm

\* A dot lasts 1.2 s / wpm, rounded to samples.
DotSamples(wpm) == (12 * SampleRate + 5 * Speed(wpm)) \div (10 * Speed(wpm))

\* A buffer holds back less than the silence behind a character.
ASSUME KeyerAssumption ==
  /\ SampleRate \in Nat \ {0} /\ Speeds \subseteq Int /\ {MaxChars, MaxSpeed} \subseteq Nat
  /\ BufLen \in 1 .. 3 * DotSamples(50) + 1

On(n)  == [i \in 1 .. n |-> TRUE]
Off(n) == [i \in 1 .. n |-> FALSE]

-----------------------------------------------------------------------------
(* The generator.                                                          *)

Letters == [e |-> <<".">>, t |-> <<"-">>, a |-> <<".", "-">>]

Element(s) == IF s = "." THEN On(dot) \o Off(dot) ELSE On(3 * dot) \o Off(dot)

InterChar == Off(2 * dot)
InterWord == Off(6 * dot - (IF last_was_space THEN 0 ELSE dot))

SetCWSpeed(wpm) ==
  /\ elements = <<>> /\ speeds < MaxSpeed
  /\ dot' = DotSamples(wpm)
  /\ speeds' = speeds + 1
  /\ UNCHANGED <<elements, cur_buf, posted, in_digraph, last_was_space,
                 keyed, joined, chars>>

\* What is keyed, in units of a dot: a mark of one or three, one off between
\* the marks of a letter, three between letters.
Chart == [e |-> <<1, 0>>, t |-> <<1, 1, 1, 0>>, a |-> <<1, 0, 1, 1, 1, 0>>]
Units(chart) == FlattenSeq([i \in 1 .. Len(chart) |->
                              IF chart[i] = 1 THEN On(dot) ELSE Off(dot)])

Counted(c) == elements = <<>> /\ chars < MaxChars /\ chars' = chars + 1

\* '_': the next letter runs into the one behind it.
Underscore ==
  /\ Counted("_")
  /\ in_digraph' = TRUE
  /\ UNCHANGED <<dot, elements, cur_buf, posted, last_was_space, keyed, joined, speeds>>

Blank ==
  /\ Counted(" ")
  /\ in_digraph' = FALSE /\ last_was_space' = TRUE
  /\ elements' = <<InterWord>>
  /\ keyed' = keyed \o Units(IF last_was_space THEN <<0, 0, 0, 0, 0, 0>>
                             ELSE <<0, 0, 0, 0, 0>>)
  /\ joined' = FALSE
  /\ UNCHANGED <<dot, cur_buf, posted, speeds>>

Letter(c) ==
  /\ Counted(c)
  /\ last_was_space' = FALSE /\ in_digraph' = FALSE
  /\ elements' = [i \in 1 .. Len(Letters[c]) |-> Element(Letters[c][i])]
                   \o (IF in_digraph THEN <<>> ELSE <<InterChar>>)
  /\ keyed' = keyed \o Units(Chart[c]) \o (IF in_digraph THEN <<>> ELSE Units(<<0, 0>>))
  /\ joined' = in_digraph
  /\ UNCHANGED <<dot, cur_buf, posted, speeds>>

\* A character that Morse does not have: nothing is sent, and an open digraph
\* stays open.
Unknown ==
  /\ Counted("*")
  /\ last_was_space' = FALSE
  /\ UNCHANGED <<dot, elements, cur_buf, posted, in_digraph, keyed, joined, speeds>>

\* Slip: the rest of an element starts at its beginning again.
RestAgain(v, n) == SubSeq(v, 1, Len(v) - n)
Behind(v, n) == SubSeq(v, n + 1, Len(v))

\* A turn of the loop in appendToOut().
AppendToOut ==
  LET v == Head(elements)
      left == BufLen - (Len(cur_buf) + 1)
      n == IF Len(v) <= left THEN Len(v) ELSE BufLen - Len(cur_buf)
      filled == cur_buf \o SubSeq(v, 1, n)
  IN  /\ elements # <<>>
      /\ elements' = IF n = Len(v) THEN Tail(elements)
                     ELSE [elements EXCEPT ![1] = Behind(v, n)]
      /\ IF Len(filled) >= BufLen
           THEN posted' = Append(posted, filled) /\ cur_buf' = <<>>
           ELSE cur_buf' = filled /\ UNCHANGED posted
      /\ UNCHANGED <<dot, in_digraph, last_was_space, keyed, joined, chars, speeds>>

\* last_was_space is not initialized.
KyBegin(budget) ==
  /\ dot = DotSamples(10)
  /\ elements = <<>> /\ cur_buf = <<>> /\ posted = <<>>
  /\ in_digraph = FALSE /\ last_was_space \in BOOLEAN
  /\ keyed = <<>> /\ joined = FALSE /\ chars = MaxChars - budget /\ speeds = 0

KyInit == KyBegin(MaxChars)

KyNext == \/ AppendToOut \/ Underscore \/ Blank \/ Unknown
          \/ \E c \in DOMAIN Letters : Letter(c)
          \/ \E wpm \in Speeds : SetCWSpeed(wpm)

KySpec == KyInit /\ [][KyNext]_kyVars

-----------------------------------------------------------------------------
\* The buffers, laid end to end, are the keying of the text: however elements
\* fall across them, and whatever changes of speed come in between, no sample
\* is lost or sent twice, and no buffer is posted short.  The generator never
\* posts an unfinished buffer, and at no speed is the end of a text lost by that:
\* what it holds back behind a character, unless the character was to run into
\* another, is silence.
KeyedAsTyped ==
  /\ FlattenSeq(posted) \o cur_buf \o FlattenSeq(elements) = keyed
  /\ \A i \in DOMAIN posted : Len(posted[i]) = BufLen
  /\ elements = <<>> /\ ~joined => TRUE \notin {cur_buf[i] : i \in DOMAIN cur_buf}
=============================================================================
