--------------------------- MODULE HardwareProofs ---------------------------
(***************************************************************************)
(* The hardware around the radio, for all values of the constants: that    *)
(* the sequencing boards keep the amplifier last, that noise on its line   *)
(* moves no relay, that no over outlives its server, that the oscillators  *)
(* keep clear of spurs, and that the radio uses what the GUI shows.  The   *)
(* boards, the radio's set-up and the oscillators share no variable; each  *)
(* has its section.                                                        *)
(***************************************************************************)
EXTENDS Sequencer, RadioSetup, IntegerN, SequenceTheorems, TLAPS

(* The sequencing boards, with any relay board and line in front of them:  *)
(* at each place of the loop the outputs are those of a sequence that has  *)
(* come so far; what the line does meanwhile is not looked at.             *)
Still == {"look", "debounce", "asleep", "rest", "on1", "off1"}
Places == Still \cup {"on2", "on3", "off2", "off3"}

\* How far the outputs have followed, at each place in the loop.
SeqInv ==
  /\ at \in Places
  /\ tr_switch \in BOOLEAN /\ tvrt_ptt \in BOOLEAN /\ amp_power \in BOOLEAN
  /\ at \in Still => (amp_power <=> tvrt_ptt) /\ (tvrt_ptt <=> tr_switch)
  /\ at = "on2" => tr_switch /\ (amp_power <=> tvrt_ptt)
  /\ at = "on3" => tr_switch /\ tvrt_ptt
  /\ at = "off2" => ~amp_power /\ (tvrt_ptt <=> tr_switch)
  /\ at = "off3" => ~amp_power /\ ~tvrt_ptt

\* The end of the loop, for either board, is a place where nothing moves.
LEMMA EndIsStill == EndOfLoop \in Still
  BY DEF EndOfLoop, Still

\* The board in front moves the place to the first look only, and only from sleep.
LEMMA BoardKeepsSeqInv == ASSUME SeqInv, Board PROVE SeqInv'
<1>1. outputs' = outputs /\ (at' = at \/ (at = "asleep" /\ at' = "look"))
  BY DEF Board, Wakes
<1> QED BY <1>1 DEF SeqInv, Places, Still, outputs

\* A step of the sequence: each moves one output, in the order that SeqInv states.
LEMMA LoopKeepsSeqInv == ASSUME SeqInv, Loop PROVE SeqInv'
<1>1. CASE Look
  BY <1>1 DEF Look, From, SeqInv, Places, Still, outputs
<1>2. CASE Debounce
  <2>1. at = "debounce" /\ at' \in Still /\ outputs' = outputs
    BY <1>2, EndIsStill DEF Debounce, Still
  <2> QED BY <2>1 DEF SeqInv, Places, Still, outputs
<1>3. CASE Activate
  <2>1. CASE From("on1", "on2") /\ tr_switch' = TRUE /\ UNCHANGED <<tvrt_ptt, amp_power>>
    BY <2>1 DEF From, SeqInv, Places, Still
  <2>2. CASE From("on2", "on3") /\ tvrt_ptt' = TRUE /\ UNCHANGED <<tr_switch, amp_power>>
    BY <2>2 DEF From, SeqInv, Places, Still
  <2>3. CASE From("on3", "rest") /\ amp_power' = TRUE /\ UNCHANGED <<tr_switch, tvrt_ptt>>
    BY <2>3 DEF From, SeqInv, Places, Still
  <2> QED BY <1>3, <2>1, <2>2, <2>3 DEF Activate
<1>4. CASE Release
  <2>1. CASE From("off1", "off2") /\ amp_power' = FALSE /\ UNCHANGED <<tr_switch, tvrt_ptt>>
    BY <2>1 DEF From, SeqInv, Places, Still
  <2>2. CASE From("off2", "off3") /\ tvrt_ptt' = FALSE /\ UNCHANGED <<tr_switch, amp_power>>
    BY <2>2 DEF From, SeqInv, Places, Still
  <2>3. CASE From("off3", "rest") /\ tr_switch' = FALSE /\ UNCHANGED <<tvrt_ptt, amp_power>>
    BY <2>3 DEF From, SeqInv, Places, Still
  <2> QED BY <1>4, <2>1, <2>2, <2>3 DEF Release
<1>5. CASE Repoll
  <2>1. at = "rest" /\ at' \in Still /\ outputs' = outputs
    BY <1>5, EndIsStill DEF Repoll, From
  <2> QED BY <2>1 DEF SeqInv, Places, Still, outputs
<1> QED BY <1>1, <1>2, <1>3, <1>4, <1>5 DEF Loop

\* The inductive invariant of the sequencing boards, Arduino and DigiSpark: the
\* outputs tell how far the sequence of delays has come.
THEOREM SequencerInvariant == Spec => []SeqInv
<1>1. Init => SeqInv
  BY EndIsStill DEF Init, SeqInv, Places, Still
<1>2. SeqInv /\ [Next]_vars => SeqInv'
  <2> SUFFICES ASSUME SeqInv, [Next]_vars PROVE SeqInv'
    OBVIOUS
  <2>1. CASE Next
    BY <2>1, BoardKeepsSeqInv, LoopKeepsSeqInv DEF Next
  <2>2. CASE UNCHANGED vars
    BY <2>2 DEF vars, seqVars, outputs, SeqInv
  <2> QED BY <2>1, <2>2
<1> QED BY <1>1, <1>2, PTL DEF Spec

\* The amplifier never has power into a transverter or an antenna switch that is
\* not in transmit, however often the push-to-talk line moves in mid-sequence.
THEOREM AmplifierIsLast == Spec => []AmplifierLast
<1>1. SeqInv => AmplifierLast
  BY DEF SeqInv, Places, Still, AmplifierLast
<1> QED BY <1>1, SequencerInvariant, PTL

-----------------------------------------------------------------------------
(* The relay board, for any number of commands, with as many characters    *)
(* lost or garbled as there are in Noise.  A command is on the line alone. *)
(* What an earlier one has left in the board's buffer has cost faults: the *)
(* shorter it is, the more; and to be made up to six characters again it   *)
(* would cost as many more as it is long.                                  *)

Chars == {"O", "N", "S", "T", "0", "CR", "?", "!", "~"}

\* Characters of the command that have left the line, and the noise so far.
Gone == 7 - Len(line)
Used == {Noise[k] : k \in 1 .. n_fault}
Sent(c, i) == c = Cmd(want)[i] \/ c \in Used

\* The board has all of the command that has left the line, and nothing else; no
\* noise is in it twice.
Whole ==
  /\ Len(cmdbuf) = Gone
  /\ \A i \in 1 .. Len(cmdbuf) : Sent(cmdbuf[i], i)
  /\ \A i, j \in 1 .. Len(cmdbuf) : cmdbuf[i] \in Used /\ cmdbuf[i] = cmdbuf[j] => i = j
  /\ \A i \in 1 .. Len(cmdbuf) : cmdbuf[i] \in Used => cmdbuf[i] # line[1]

\* It has more than the command; it has less, and has begun anew on the way or not.
Stale == n_fault + Len(cmdbuf) > Gone + 3
Short == Len(cmdbuf) < Gone /\ n_fault + Len(cmdbuf) + 4 > Gone

LineInv ==
  /\ want \in BOOLEAN /\ n_fault \in 0 .. 3
  /\ line \in Seq(Chars) /\ Len(line) \in 0 .. 7
  /\ cmdbuf \in Seq(Chars) /\ Len(cmdbuf) \in 0 .. 6
  /\ line # <<>> => waiting /\ answer = "none"
  /\ answer # "none" => waiting
  /\ \A i \in 1 .. Len(line) : line[i] = Cmd(want)[Gone + i] \/ (i = 1 /\ line[i] \in Used)
  /\ line = <<>> => cmdbuf = <<>> \/ n_fault + Len(cmdbuf) > 3
  /\ line # <<>> => Whole \/ Stale \/ Short

LEMMA Commands ==
  ASSUME NEW on \in BOOLEAN
  PROVE  /\ Cmd(on) \in Seq(Chars) /\ Len(Cmd(on)) = 7
         /\ \A i \in 1 .. 7 : Cmd(on)[i] \in {"O", "N", "S", "T", "0", "CR"}
         /\ \A i \in 1 .. 7 : Cmd(on)[i] = "CR" => i = 7
         /\ Cmd(on)[3] = "0" /\ Cmd(on)[4] = "0"
         /\ Cmd(on)[1] = IF on THEN "O" ELSE "S"
<1>1. Cmd(on) \in Seq(Chars) /\ Len(Cmd(on)) = 7
  <2>1. /\ <<"O", "N", "0", "0", "N", "O", "CR">> \in Seq(Chars)
        /\ Len(<<"O", "N", "0", "0", "N", "O", "CR">>) = 7
    BY DEF Chars
  <2>2. /\ <<"S", "T", "0", "0", "T", "S", "CR">> \in Seq(Chars)
        /\ Len(<<"S", "T", "0", "0", "T", "S", "CR">>) = 7
    BY DEF Chars
  <2> QED BY <2>1, <2>2 DEF Cmd
<1>2. /\ Cmd(on)[1] = (IF on THEN "O" ELSE "S") /\ Cmd(on)[2] = (IF on THEN "N" ELSE "T")
      /\ Cmd(on)[3] = "0" /\ Cmd(on)[4] = "0"
      /\ Cmd(on)[5] = (IF on THEN "N" ELSE "T") /\ Cmd(on)[6] = (IF on THEN "O" ELSE "S")
      /\ Cmd(on)[7] = "CR"
  BY DEF Cmd
<1>3. ASSUME NEW i \in 1 .. 7
      PROVE  i = 1 \/ i = 2 \/ i = 3 \/ i = 4 \/ i = 5 \/ i = 6 \/ i = 7
  OBVIOUS
<1>4. ASSUME NEW i \in 1 .. 7
      PROVE  /\ Cmd(on)[i] \in {"O", "N", "S", "T", "0", "CR"}
             /\ Cmd(on)[i] = "CR" => i = 7
  BY <1>2, <1>3
<1> QED BY <1>1, <1>2, <1>4

LEMMA NoiseIsNew ==
  ASSUME NEW n \in 0 .. 3
  PROVE  /\ \A k \in 1 .. n : Noise[k] \in {"?", "!", "~"}
         /\ n < 3 => Noise[n + 1] \in {"?", "!", "~"}
         /\ n < 3 => \A k \in 1 .. n : Noise[k] # Noise[n + 1]
BY DEF Noise

LEMMA TailOfLine ==
  ASSUME LineInv, line # <<>>
  PROVE  /\ Tail(line) \in Seq(Chars) /\ Len(Tail(line)) = Len(line) - 1
         /\ Len(line) \in 1 .. 7
         /\ \A i \in 1 .. Len(line) - 1 : Tail(line)[i] = line[i + 1]
         /\ Tail(line) = <<>> <=> Len(line) = 1
         /\ Head(line) = line[1] /\ Head(line) \in Chars
<1>1. line \in Seq(Chars) /\ Len(line) \in 0 .. 7
  BY DEF LineInv
<1>2. /\ Tail(line) \in Seq(Chars) /\ Len(Tail(line)) = Len(line) - 1
      /\ \A i \in 1 .. Len(line) - 1 : Tail(line)[i] = line[i + 1]
      /\ Head(line) = line[1] /\ Head(line) \in Chars
  BY <1>1, HeadTailProperties
<1>3. Len(line) \in 1 .. 7
  BY <1>1, EmptySeq
<1>4. Tail(line) = <<>> <=> Len(line) = 1
  BY <1>2, <1>3, EmptySeq
<1> QED BY <1>2, <1>3, <1>4

\* A character leaves the line and the others move up.
LEMMA LineMovesUp ==
  ASSUME LineInv, line # <<>>, line' = Tail(line), want' = want, n_fault' \in {n_fault, n_fault + 1}
  PROVE  /\ line' \in Seq(Chars) /\ Len(line') \in 0 .. 7
         /\ Gone' = Gone + 1 /\ Gone \in 0 .. 6
         /\ line' = <<>> <=> Gone' = 7
         /\ \A i \in 1 .. Len(line') : line'[i] = Cmd(want)[Gone' + i]
         /\ Used \subseteq Used'
<1>1. /\ line' \in Seq(Chars) /\ Len(line') = Len(line) - 1
      /\ Len(line) \in 1 .. 7
      /\ \A i \in 1 .. Len(line) - 1 : line'[i] = line[i + 1]
      /\ line' = <<>> <=> Len(line) = 1
  BY TailOfLine
<1>2. Len(line) \in 0 .. 7 /\ n_fault \in 0 .. 3
  BY DEF LineInv
<1>3. Gone' = Gone + 1 /\ Gone \in 0 .. 6 /\ (line' = <<>> <=> Gone' = 7)
  <2>1. Gone' = 7 - Len(line') /\ Gone = 7 - Len(line)
    BY DEF Gone
  <2>2. Gone' = Gone + 1 /\ Gone \in 0 .. 6
    BY <1>1, <2>1, SMTT(30)
  <2>3. ASSUME NEW n \in Int PROVE 7 - (n - 1) = 7 <=> n = 1
    OBVIOUS
  <2>4. Gone' = 7 - (Len(line) - 1)
    BY <1>1, <2>1
  <2> QED BY <1>1, <2>2, <2>3, <2>4
<1>4. ASSUME NEW i \in 1 .. Len(line')
      PROVE  line'[i] = Cmd(want)[Gone' + i]
  <2>1. i + 1 \in 1 .. Len(line) /\ i + 1 # 1 /\ line'[i] = line[i + 1]
    BY <1>1
  <2>2. line[i + 1] = Cmd(want)[Gone + (i + 1)]
    BY <2>1 DEF LineInv
  <2>3. Gone + (i + 1) = Gone' + i
    BY <1>3
  <2> QED BY <2>1, <2>2, <2>3
<1>5. Used \subseteq Used'
  BY <1>2 DEF Used
<1>6. Len(line') \in 0 .. 7
  <2>1. ASSUME NEW n \in 1 .. 7 PROVE n - 1 \in 0 .. 7
    OBVIOUS
  <2> QED BY <1>1, <2>1
<1> QED BY <1>1, <1>3, <1>4, <1>5, <1>6

\* A loss is a fault: whatever the board has becomes Short or stays Stale.
LEMMA LoseKeeps == ASSUME LineInv, Lose PROVE LineInv'
<1>1. /\ line # <<>> /\ line' = Tail(line) /\ n_fault' = n_fault + 1 /\ n_fault < MaxFault
      /\ UNCHANGED <<want, waiting, answer, cmdbuf>>
  BY DEF Lose, Fault, host, board
<1>2. /\ line' \in Seq(Chars) /\ Len(line') \in 0 .. 7
      /\ Gone' = Gone + 1 /\ Gone \in 0 .. 6 /\ (line' = <<>> <=> Gone' = 7)
      /\ \A i \in 1 .. Len(line') : line'[i] = Cmd(want)[Gone' + i]
  BY <1>1, LineMovesUp
<1>3. n_fault' \in 0 .. 3 /\ n_fault \in 0 .. 3
  BY <1>1, RelayBoardAssumption DEF RelayBoardAssumption, Noise, LineInv
<1>4. Len(cmdbuf) \in 0 .. 6
  BY LenProperties DEF LineInv
<1>5. Stale' \/ Short'
  BY <1>1, <1>2, <1>3, <1>4 DEF LineInv, Whole, Stale, Short
<1>6. line' = <<>> => n_fault' + Len(cmdbuf') > 3
  BY <1>1, <1>2, <1>3, <1>4, <1>5 DEF Stale, Short
<1> QED BY <1>1, <1>2, <1>3, <1>5, <1>6 DEF LineInv

\* No letter of a command is noise.
LEMMA LettersAreNotNoise ==
  ASSUME LineInv
  PROVE  /\ \A x \in Used : x \in {"?", "!", "~"}
         /\ \A i \in 1 .. 7 : Cmd(want)[i] \in {"O", "N", "S", "T", "0", "CR"}
         /\ \A i \in 1 .. 7 : Cmd(want)[i] \notin Used
<1>1. n_fault \in 0 .. 3 /\ want \in BOOLEAN
  BY DEF LineInv
<1>2. \A x \in Used : x \in {"?", "!", "~"}
  BY <1>1, NoiseIsNew DEF Used
<1>3. \A i \in 1 .. 7 : Cmd(want)[i] \in {"O", "N", "S", "T", "0", "CR"}
  BY <1>1, Commands
<1>4. ASSUME NEW i \in 1 .. 7, Cmd(want)[i] \in Used PROVE FALSE
  BY <1>2, <1>3, <1>4
<1> QED BY <1>2, <1>3, <1>4

\* New noise is on the line; it is not what the board has had already.
LEMMA GarbleKeeps == ASSUME LineInv, Garble PROVE LineInv'
<1>1. /\ line # <<>> /\ n_fault' = n_fault + 1 /\ n_fault < MaxFault
      /\ line' = <<Noise[n_fault']>> \o Tail(line)
      /\ UNCHANGED <<want, waiting, answer, cmdbuf>>
  BY DEF Garble, Fault, host, board
<1>2. n_fault' \in 1 .. 3 /\ n_fault \in 0 .. 2
  BY <1>1, RelayBoardAssumption DEF RelayBoardAssumption, Noise, LineInv
<1> DEFINE x == Noise[n_fault']
<1>3. x \in Chars /\ x \in {"?", "!", "~"} /\ x \notin Used
  BY <1>1, <1>2, NoiseIsNew DEF Used, Chars
<1>4. Used' = Used \cup {x}
  <2>1. n_fault' = n_fault + 1 /\ n_fault \in 0 .. 2
    BY <1>1, <1>2
  <2> QED BY <2>1 DEF Used
<1>5. /\ Tail(line) \in Seq(Chars) /\ Len(Tail(line)) = Len(line) - 1
      /\ Len(line) \in 1 .. 7
      /\ \A i \in 1 .. Len(line) - 1 : Tail(line)[i] = line[i + 1]
  BY <1>1, TailOfLine
<1>6. /\ line' \in Seq(Chars) /\ Len(line') = Len(line) /\ line'[1] = x
      /\ \A i \in 2 .. Len(line) : line'[i] = line[i]
  <2> HIDE DEF x
  <2>1. line' = <<x>> \o Tail(line)
    BY <1>1 DEF x
  <2>2. <<x>> \in Seq(Chars) /\ Len(<<x>>) = 1 /\ <<x>>[1] = x
    BY <1>3
  <2>3. /\ line' \in Seq(Chars) /\ Len(line') = 1 + (Len(line) - 1)
        /\ \A i \in 1 .. Len(line') : line'[i] = IF i =< 1 THEN x ELSE Tail(line)[i - 1]
    BY <2>1, <2>2, <1>5, ConcatProperties
  <2>4. Len(line') = Len(line)
    BY <2>3, <1>5
  <2>5. ASSUME NEW i \in 2 .. Len(line) PROVE line'[i] = line[i]
    <3>1. i \in 1 .. Len(line') /\ ~(i =< 1) /\ i - 1 \in 1 .. Len(line) - 1 /\ (i - 1) + 1 = i
      BY <2>4, <1>5
    <3> QED BY <3>1, <2>3, <1>5
  <2>6. line'[1] = x
    BY <2>3, <2>4, <1>5
  <2> QED BY <2>3, <2>4, <2>5, <2>6
<1> HIDE DEF x
<1>7. Gone' = Gone /\ line' # <<>>
  BY <1>5, <1>6 DEF Gone
<1>8. \A i \in 1 .. Len(line') : line'[i] = Cmd(want')[Gone' + i] \/ (i = 1 /\ line'[i] \in Used')
  <2> SUFFICES ASSUME NEW i \in 1 .. Len(line), i # 1
               PROVE  line'[i] = Cmd(want)[Gone + i]
    BY <1>1, <1>4, <1>6, <1>7
  <2>1. i \in 2 .. Len(line)
    BY <1>5
  <2> QED BY <2>1, <1>6 DEF LineInv
<1>9. CASE Whole
  <2>1. Len(cmdbuf) = Gone /\ Gone \in 0 .. 6
    BY <1>5, <1>9 DEF Whole, Gone, LineInv
  <2>2. ASSUME NEW i \in 1 .. Len(cmdbuf)
        PROVE  Sent(cmdbuf[i], i)' /\ cmdbuf[i] # x
    <3>1. Sent(cmdbuf[i], i) /\ i \in 1 .. 7
      BY <1>9, <2>1 DEF Whole
    <3>2. Cmd(want)[i] # x
      BY <3>1, <1>3, LettersAreNotNoise
    <3> QED BY <3>1, <3>2, <1>1, <1>3, <1>4 DEF Sent
  <2>3. \A i \in 1 .. Len(cmdbuf) : cmdbuf[i] \in Used' => cmdbuf[i] \in Used
    BY <2>2, <1>4
  <2> QED
    <3>1. Whole'
      BY <1>1, <1>6, <1>7, <1>9, <2>2, <2>3 DEF Whole
    <3>2. Len(line') \in 0 .. 7 /\ n_fault' \in 0 .. 3
      BY <1>2, <1>6, SMTT(30) DEF LineInv
    <3> QED BY <1>1, <1>6, <1>7, <1>8, <3>1, <3>2 DEF LineInv
<1>10. CASE Stale \/ Short
  <2>1. Len(cmdbuf) \in 0 .. 6 /\ Gone \in 0 .. 6
    BY <1>5 DEF LineInv, Gone
  <2>2. Stale' \/ Short'
    BY <1>1, <1>2, <1>7, <1>10, <2>1 DEF Stale, Short
  <2>3. Len(line') \in 0 .. 7 /\ n_fault' \in 0 .. 3
    BY <1>2, <1>6, SMTT(30) DEF LineInv
  <2> QED BY <1>1, <1>6, <1>7, <1>8, <2>2, <2>3 DEF LineInv
<1> QED BY <1>1, <1>9, <1>10 DEF LineInv

\* A character more in the board's buffer, or a full buffer that begins anew.
LEMMA CollectKeeps ==
  ASSUME LineInv, BoardLoop, Head(line) # "CR"
  PROVE  LineInv'
<1>1. /\ line # <<>> /\ line' = Tail(line)
      /\ cmdbuf' = IF Len(cmdbuf) = 6 THEN <<>> ELSE Append(cmdbuf, line[1])
      /\ UNCHANGED <<want, waiting, answer, n_fault>>
  <2>1. Head(line) = line[1]
    BY TailOfLine DEF BoardLoop
  <2> QED BY <2>1 DEF BoardLoop, Collect, host
<1>2. /\ line' \in Seq(Chars) /\ Len(line') \in 0 .. 7
      /\ Gone' = Gone + 1 /\ Gone \in 0 .. 6 /\ (line' = <<>> <=> Gone' = 7)
      /\ \A i \in 1 .. Len(line') : line'[i] = Cmd(want)[Gone' + i]
  BY <1>1, LineMovesUp
<1>3. line[1] \in Chars /\ Sent(line[1], Gone + 1)
  <2>1. Len(line) \in 1 .. 7 /\ line[1] \in Chars
    BY <1>1, TailOfLine
  <2>2. 1 \in 1 .. Len(line)
    BY <2>1
  <2> QED BY <2>1, <2>2 DEF LineInv, Sent
<1>4. n_fault \in 0 .. 3 /\ cmdbuf \in Seq(Chars) /\ Len(cmdbuf) \in 0 .. 6
  BY DEF LineInv
<1>5. Used' = Used
  BY <1>1 DEF Used
<1>6. CASE Len(cmdbuf) = 6
  <2>1. cmdbuf' = <<>> /\ Len(cmdbuf') = 0 /\ cmdbuf' \in Seq(Chars)
    BY <1>1, <1>6
  <2>2. CASE line' = <<>>
    BY <1>1, <1>2, <1>4, <2>1, <2>2 DEF LineInv
  <2>3. CASE line' # <<>>
    <3>1. Gone < 6 /\ ~Whole /\ ~Short
      BY <1>2, <1>4, <1>6, <2>3 DEF Whole, Short
    <3>2. Stale
      BY <1>1, <3>1 DEF LineInv
    <3>3. Short'
      BY <1>1, <1>2, <1>4, <1>6, <2>1, <3>2 DEF Stale, Short
    <3> QED BY <1>1, <1>2, <1>4, <1>5, <2>1, <2>3, <3>3 DEF LineInv
  <2> QED BY <2>2, <2>3
<1>7. CASE Len(cmdbuf) # 6
  <2>1. /\ cmdbuf' \in Seq(Chars) /\ Len(cmdbuf') = Len(cmdbuf) + 1
        /\ \A i \in 1 .. Len(cmdbuf) : cmdbuf'[i] = cmdbuf[i]
        /\ cmdbuf'[Len(cmdbuf) + 1] = line[1]
    BY <1>1, <1>3, <1>4, <1>7, AppendProperties
  <2>2. Len(cmdbuf') \in 0 .. 6
    BY <1>4, <1>7, <2>1
  <2>3. CASE Whole
    <3>1. Len(cmdbuf) = Gone /\ Gone \in 0 .. 5 /\ Gone' \in 1 .. 6
      BY <1>2, <1>7, <2>3 DEF Whole
    <3>2. line' # <<>> /\ line'[1] \notin Used
      <4>1. line' # <<>> /\ 1 \in 1 .. Len(line') /\ Gone' + 1 \in 1 .. 7
        BY <1>2, <3>1, EmptySeq
      <4> QED BY <4>1, <1>2, LettersAreNotNoise
    <3>3. (\A i \in 1 .. Len(cmdbuf) : Sent(cmdbuf[i], i))'
      <4> SUFFICES ASSUME NEW i \in 1 .. Len(cmdbuf') PROVE Sent(cmdbuf'[i], i)
        BY <1>1, <1>5 DEF Sent
      <4>1. CASE i = Gone + 1
        BY <4>1, <1>3, <2>1, <3>1
      <4>2. CASE i # Gone + 1
        <5>1. i \in 1 .. Len(cmdbuf)
          BY <4>2, <2>1, <3>1
        <5> QED BY <5>1, <2>1, <2>3 DEF Whole
      <4> QED BY <4>1, <4>2
    <3>4. \A i, j \in 1 .. Len(cmdbuf') : cmdbuf'[i] \in Used /\ cmdbuf'[i] = cmdbuf'[j] => i = j
      <4> SUFFICES ASSUME NEW i \in 1 .. Len(cmdbuf'), NEW j \in 1 .. Len(cmdbuf'),
                          cmdbuf'[i] \in Used, cmdbuf'[i] = cmdbuf'[j], i # j
                   PROVE  FALSE
        OBVIOUS
      <4>1. \/ i \in 1 .. Len(cmdbuf) /\ j \in 1 .. Len(cmdbuf)
            \/ i \in 1 .. Len(cmdbuf) /\ j = Len(cmdbuf) + 1
            \/ j \in 1 .. Len(cmdbuf) /\ i = Len(cmdbuf) + 1
        BY <1>4, <2>1
      <4> QED BY <4>1, <2>1, <2>3 DEF Whole
    <3>5. Whole'
      BY <1>2, <1>5, <2>1, <3>1, <3>2, <3>3, <3>4 DEF Whole
    <3> QED BY <1>1, <1>2, <1>4, <1>5, <2>1, <2>2, <3>2, <3>5 DEF LineInv
  <2>4. CASE Stale \/ Short
    <3>1. Stale' \/ Short'
      BY <1>1, <1>2, <1>4, <2>1, <2>4 DEF Stale, Short
    <3>2. line' = <<>> => n_fault' + Len(cmdbuf') > 3
      BY <1>1, <1>2, <1>4, <2>1, <2>2, <3>1 DEF Stale, Short
    <3> QED BY <1>1, <1>2, <1>4, <1>5, <2>1, <2>2, <3>1, <3>2 DEF LineInv
  <2> QED BY <1>1, <2>3, <2>4 DEF LineInv
<1> QED BY <1>6, <1>7

\* The line's end is that of the command.
LEMMA EndOfCommand ==
  ASSUME LineInv, line # <<>>, Head(line) = "CR"
  PROVE  Gone = 6 /\ Tail(line) = <<>>
<1>1. /\ Len(line) \in 1 .. 7 /\ Head(line) = line[1]
      /\ Tail(line) = <<>> <=> Len(line) = 1
  BY TailOfLine
<1>2. 1 \in 1 .. Len(line) /\ Gone \in 0 .. 6 /\ Gone + 1 \in 1 .. 7
  <2>1. ASSUME NEW n \in 1 .. 7
        PROVE  1 \in 1 .. n /\ 7 - n \in 0 .. 6 /\ (7 - n) + 1 \in 1 .. 7
    OBVIOUS
  <2> QED BY <1>1, <2>1 DEF Gone
<1>3. "CR" \notin Used
  BY LettersAreNotNoise
<1>4. Cmd(want)[Gone + 1] = "CR"
  BY <1>1, <1>2, <1>3 DEF LineInv
<1>5. Gone + 1 = 7
  BY <1>2, <1>4, Commands DEF LineInv
<1> QED BY <1>1, <1>2, <1>5 DEF Gone

\* With six characters there, the board has this command, and no other's.
LEMMA ObeysWhole ==
  ASSUME LineInv, line # <<>>, Head(line) = "CR", Palindrome(cmdbuf)
  PROVE  /\ cmdbuf[3] = "0"
         /\ Means(cmdbuf) \subseteq {want}
<1>1. Gone = 6 /\ Len(cmdbuf) = 6 /\ n_fault \in 0 .. 3 /\ want \in BOOLEAN
  BY EndOfCommand DEF Palindrome, LineInv
<1>2. Whole
  BY <1>1 DEF LineInv, Stale, Short
<1>3. /\ cmdbuf[1] = cmdbuf[6] /\ cmdbuf[3] = cmdbuf[4]
      /\ Sent(cmdbuf[1], 1) /\ Sent(cmdbuf[3], 3)
      /\ cmdbuf[3] \notin Used /\ cmdbuf[1] \notin Used
  BY <1>1, <1>2 DEF Palindrome, Whole
<1>4. cmdbuf[3] = "0" /\ cmdbuf[1] = IF want THEN "O" ELSE "S"
  BY <1>1, <1>3, Commands DEF Sent
<1>5. SubSeq(cmdbuf, 1, 2)[1] = cmdbuf[1]
  BY <1>1 DEF LineInv
<1>6. Means(cmdbuf) \subseteq {want}
  <2>1. <<"O", "N">>[1] = "O" /\ <<"S", "T">>[1] = "S"
    OBVIOUS
  <2>2. SubSeq(cmdbuf, 1, 2) = <<"O", "N">> => want = TRUE
    BY <1>1, <1>4, <1>5, <2>1
  <2>3. SubSeq(cmdbuf, 1, 2) = <<"S", "T">> => want = FALSE
    BY <1>1, <1>4, <1>5, <2>1
  <2> QED BY <2>2, <2>3 DEF Means
<1> QED BY <1>4, <1>6

\* A command begins: to the board's buffer it is as yet Whole, if that is empty, and
\* Stale otherwise.
LEMMA SetTXKeeps == ASSUME LineInv, NEW on \in BOOLEAN, SetTX(on) PROVE LineInv'
<1>1. /\ line = <<>> /\ answer = "none" /\ ~waiting /\ want' = on
      /\ UNCHANGED <<answer, cmdbuf, n_fault>>
  BY DEF SetTX, LineInv, board
<1>2. Len(cmdbuf) \in 0 .. 6 /\ cmdbuf \in Seq(Chars) /\ n_fault \in 0 .. 3
  BY DEF LineInv
<1>3. CASE skt
  <2>1. line' = Cmd(on) /\ waiting' = TRUE
    <3>1. line' = <<>> \o Cmd(on) /\ waiting' = TRUE
      BY <1>1, <1>3 DEF SetTX
    <3> QED BY <3>1, Commands, ConcatEmptySeq
  <2>2. line' \in Seq(Chars) /\ Len(line') = 7 /\ Gone' = 0 /\ line' # <<>>
    <3>1. line' \in Seq(Chars) /\ Len(line') = 7
      BY <2>1, Commands
    <3>2. line' # <<>>
      BY <3>1, EmptySeq
    <3> QED BY <3>1, <3>2 DEF Gone
  <2>3. \A i \in 1 .. Len(line') : line'[i] = Cmd(want')[Gone' + i]
    BY <1>1, <2>1, <2>2
  <2>4. Whole' \/ Stale'
    <3>1. CASE cmdbuf = <<>>
      BY <1>1, <2>2, <3>1 DEF Whole
    <3>2. CASE n_fault + Len(cmdbuf) > 3
      BY <1>1, <1>2, <2>2, <3>2 DEF Stale
    <3> QED BY <1>1, <3>1, <3>2 DEF LineInv
  <2> QED BY <1>1, <1>2, <2>1, <2>2, <2>3, <2>4 DEF LineInv
<1>4. CASE ~skt
  <2>1. UNCHANGED <<line, waiting>>
    BY <1>4 DEF SetTX
  <2>2. Len(line') = 0
    BY <1>1, <2>1
  <2> QED BY <1>1, <1>2, <2>1, <2>2 DEF LineInv
<1> QED BY <1>3, <1>4

\* Steps that leave line, buffer and faults alone.
LEMMA LineUntouched ==
  ASSUME LineInv, UNCHANGED <<want, line, cmdbuf, n_fault>>,
         line # <<>> => UNCHANGED <<waiting, answer>>, answer' # "none" => waiting'
  PROVE  LineInv'
<1>1. UNCHANGED <<Gone, Used>>
  BY DEF Gone, Used
<1>2. (Whole \/ Stale \/ Short) => (Whole \/ Stale \/ Short)'
  BY <1>1 DEF Whole, Stale, Short, Sent
<1> QED BY <1>1, <1>2 DEF LineInv

LEMMA ObeyKeeps ==
  ASSUME LineInv, BoardLoop, Head(line) = "CR"
  PROVE  LineInv'
<1>1. /\ line # <<>> /\ line' = <<>> /\ cmdbuf' = <<>>
      /\ UNCHANGED <<want, waiting, n_fault>> /\ waiting
  BY EndOfCommand DEF BoardLoop, Obey, host, LineInv
<1>2. Len(line') = 0 /\ Len(cmdbuf') = 0 /\ line' \in Seq(Chars) /\ cmdbuf' \in Seq(Chars)
  BY <1>1
<1> QED BY <1>1, <1>2 DEF LineInv

LEMMA BoardKeepsLine == ASSUME LineInv, BoardNext PROVE LineInv'
<1>1. CASE \E on \in BOOLEAN : SetTX(on)
  BY <1>1, SetTXKeeps
<1>2. CASE ReadAnswer
  <2>1. /\ answer # "none" /\ answer' = "none"
        /\ UNCHANGED <<want, line, cmdbuf, n_fault>>
    BY <1>2 DEF ReadAnswer, board
  <2> QED BY <2>1, LineUntouched DEF LineInv
<1>3. CASE TimeOut
  <2>1. /\ line = <<>> /\ answer = "none"
        /\ UNCHANGED <<want, line, answer, cmdbuf, n_fault>>
    BY <1>3 DEF TimeOut, board
  <2> QED BY <2>1, LineUntouched
<1>4. CASE Lose \/ Garble
  BY <1>4, LoseKeeps, GarbleKeeps
<1>5. CASE BoardLoop
  BY <1>5, CollectKeeps, ObeyKeeps
<1> QED BY <1>1, <1>2, <1>3, <1>4, <1>5 DEF BoardNext

\* The inductive invariant of the line and the board at its end.
THEOREM LineInvariant == Spec => []LineInv
<1>1. Init => LineInv
  <2> SUFFICES ASSUME Init PROVE LineInv
    OBVIOUS
  <2>1. /\ want = FALSE /\ line = <<>> /\ answer = "none" /\ cmdbuf = <<>> /\ n_fault = 0
    BY DEF Init, BoardInit
  <2>2. /\ Len(line) = 0 /\ line \in Seq(Chars)
        /\ Len(cmdbuf) = 0 /\ cmdbuf \in Seq(Chars)
    BY <2>1
  <2>3. \A i \in 1 .. Len(line) : FALSE
    BY <2>2
  <2>4. n_fault \in 0 .. 3 /\ Len(line) \in 0 .. 7 /\ Len(cmdbuf) \in 0 .. 6
    BY <2>1, <2>2
  <2>5. want \in BOOLEAN
    BY <2>1, Zenon
  <2> QED BY <2>1, <2>2, <2>3, <2>4, <2>5 DEF LineInv
<1>2. LineInv /\ [Next]_vars => LineInv'
  <2> SUFFICES ASSUME LineInv, [Next]_vars PROVE LineInv'
    OBVIOUS
  <2>1. CASE BoardNext
    BY <2>1, BoardKeepsLine
  <2>2. CASE UNCHANGED boardVars
    <3>1. UNCHANGED <<want, line, cmdbuf, n_fault, waiting, answer>>
      BY <2>2 DEF boardVars, host, board
    <3> QED BY <3>1, LineUntouched DEF LineInv
  <2>3. BoardNext \/ UNCHANGED boardVars
    BY DEF Next, Board, Loop, vars
  <2> QED BY <2>1, <2>2, <2>3
<1> QED BY <1>1, <1>2, PTL DEF Spec

\* Noise on the line moves no relay against the command given last, for any number
\* of commands, lost or garbled characters, and give-ups of the board.
THEOREM NoiseMovesNothing == Spec => MovesAsTold
<1>1. LineInv /\ LineInv' /\ [Next]_vars
        => [(relay' # relay => relay' = want) /\ stray' = stray]_<<relay, stray>>
  <2> SUFFICES ASSUME LineInv, [Next]_vars, UNCHANGED <<relay, stray>> => FALSE
               PROVE  (relay' # relay => relay' = want) /\ stray' = stray
    OBVIOUS
  <2>1. BoardNext \/ UNCHANGED boardVars
    BY DEF Next, Board, Loop, vars
  <2>2. BoardLoop /\ Obey /\ line # <<>> /\ Head(line) = "CR"
    BY <2>1 DEF BoardNext, boardVars, board, SetTX, ReadAnswer, TimeOut, Lose, Garble, Fault,
                BoardLoop, Collect
  <2>3. Palindrome(cmdbuf) => cmdbuf[3] = "0" /\ Means(cmdbuf) \subseteq {want}
    BY <2>2, ObeysWhole
  <2> QED BY <2>2, <2>3 DEF Obey
<1> QED BY <1>1, LineInvariant, PTL DEF Spec, MovesAsTold

-----------------------------------------------------------------------------
(* The radio's parts, for any kind of radio, whatever the radio keeps of   *)
(* its state, and any number of servers one after another.                 *)
Parts == {"gpio", "fe", "relay"}

\* No loop runs in a constructor, and none has heard a TX_STATE; behind the
\* constructor what is on the air follows from the last one.
OverInv ==
  /\ has \subseteq Parts /\ onair \subseteq Parts \cup {"gain"}
  /\ stage # "built" => running = {} /\ keyed = "unknown"
  /\ OverEndsWithServer

overVars == <<has, onair, stage, running, keyed>>

\* setTXEna(false) leaves nothing of an over but the gain.
LEMMA SwitchedOff ==
  ASSUME onair \subseteq Parts \cup {"gain"}
  PROVE  Switched(FALSE) \subseteq {"gain"} /\ Switched(FALSE) \ {"gain"} = {}
BY DEF Switched, Parts

\* The constructors clear, step by step, what the last server has left.
LEMMA BootKeepsOverInv == ASSUME OverInv, Boot PROVE OverInv'
<1>1. CASE MakeUsrp
  <2>1. onair' \subseteq onair /\ stage # "built" /\ stage' # "built"
        /\ UNCHANGED <<has, running, keyed>>
    BY <1>1 DEF MakeUsrp, Constructor
  <2> QED BY <2>1 DEF OverInv, OverEndsWithServer
<1>2. CASE InitControlGPIO \/ MakeTRControl
  <2>1. onair' \subseteq onair /\ stage # "built" /\ stage' # "built"
        /\ UNCHANGED <<has, running, keyed>>
    BY <1>2 DEF InitControlGPIO, MakeTRControl, Constructor
  <2> QED BY <2>1 DEF OverInv, OverEndsWithServer
<1>3. CASE Built
  <2>1. /\ stage # "built" /\ stage' = "built" /\ onair' = Switched(FALSE)
        /\ UNCHANGED <<has, running, keyed>>
    BY <1>3 DEF Built, Constructor
  <2>2. keyed = "unknown" /\ onair' \subseteq {"gain"}
    BY <2>1, SwitchedOff DEF OverInv
  <2> QED BY <2>1, <2>2 DEF OverInv, OverEndsWithServer
<1>4. CASE UiBegins \/ CtrlBegins
  <2>1. stage = "built" /\ UNCHANGED <<has, onair, stage, keyed>>
    BY <1>4 DEF UiBegins, CtrlBegins, radio
  <2> QED BY <2>1 DEF OverInv, OverEndsWithServer
<1> QED BY <1>1, <1>2, <1>3, <1>4 DEF Boot

\* Only a server that runs hears a TX_STATE, and it knows what it did with it.
LEMMA ServeKeepsOverInv == ASSUME OverInv, Serve PROVE OverInv'
<1>1. CASE Forward \/ BasebandObeys \/ SetRXAnt \/ SetTXAnt \/ SetClockSource
           \/ ReportChoices
  <2>1. UNCHANGED overVars
    BY <1>1 DEF Forward, BasebandObeys, SetRXAnt, SetTXAnt, SetClockSource,
                ReportChoices, overVars, radio, server
  <2> QED BY <2>1 DEF overVars, OverInv, OverEndsWithServer
<1>2. CASE KeyDown
  <2>1. /\ "ctrl" \in running /\ onair' = Switched(TRUE) \cup {"gain"}
        /\ keyed' = "yes" /\ UNCHANGED <<has, stage, running>>
    BY <1>2 DEF KeyDown, CtrlTakes
  <2>2. stage = "built" /\ onair' \subseteq Parts \cup {"gain"}
    BY <2>1 DEF OverInv, Switched
  <2> QED BY <2>1, <2>2 DEF OverInv, OverEndsWithServer
<1>3. CASE KeyUp
  <2>1. /\ "ctrl" \in running /\ onair' = Switched(FALSE) \ {"gain"}
        /\ keyed' = "no" /\ UNCHANGED <<has, stage, running>>
    BY <1>3 DEF KeyUp, CtrlTakes
  <2>2. stage = "built" /\ onair' = {}
    BY <2>1, SwitchedOff DEF OverInv
  <2> QED BY <2>1, <2>2 DEF OverInv, OverEndsWithServer
<1> QED BY <1>1, <1>2, <1>3 DEF Serve

\* A killed server leaves the radio as it is: the next one's affair.
LEMMA KillKeepsOverInv == ASSUME OverInv, Kill PROVE OverInv'
<1>1. stage' = "down" /\ running' = {} /\ keyed' = "unknown" /\ UNCHANGED <<has, onair>>
  BY DEF Kill, radio
<1> QED BY <1>1 DEF OverInv, OverEndsWithServer

\* The GUI keys the radio through the queues only.
LEMMA GuiKeepsOver ==
  ASSUME GuiStart \/ GuiVanish \/ DropReport \/ HearReport \/ Click
         \/ \E on \in BOOLEAN : Ptt(on)
  PROVE  UNCHANGED overVars
BY DEF GuiStart, GuiVanish, DropReport, HearReport, Click, Ptt, radio, server, overVars

\* The inductive invariant of the radio's parts holds in every reachable state.
THEOREM OverInvariant == RsSpec => []OverInv
<1>1. RsInit => OverInv
  BY RadioSetupAssumption DEF RsInit, OverInv, OverEndsWithServer, Parts
<1>2. OverInv /\ [RsNext]_rsVars => OverInv'
  <2> SUFFICES ASSUME OverInv, [RsNext]_rsVars PROVE OverInv'
    OBVIOUS
  <2>1. CASE Boot \/ Serve \/ Kill
    BY <2>1, BootKeepsOverInv, ServeKeepsOverInv, KillKeepsOverInv
  <2>2. CASE UNCHANGED overVars
    BY <2>2 DEF overVars, OverInv, OverEndsWithServer
  <2>3. CASE UNCHANGED rsVars
    BY <2>2, <2>3 DEF rsVars, radio, server, overVars
  <2> QED BY <2>1, <2>2, <2>3, GuiKeepsOver DEF RsNext
<1> QED BY <1>1, <1>2, PTL DEF RsSpec

\* Relays and front end are back in receive before the next server's threads
\* begin, and the gain is at zero from its first TX_STATE on, until a key-down.
THEOREM OverIsOver == RsSpec => []OverEndsWithServer
<1>1. OverInv => OverEndsWithServer
  BY DEF OverInv
<1> QED BY <1>1, OverInvariant, PTL

-----------------------------------------------------------------------------
(* Where the local oscillators are put.                                    *)

\* A request that keeps clear: what SpursAvoided says of one.
KeepsClear(request) ==
  request.manual =>
    /\ request.rf % request.step = 0
    /\ Distance(request.rf, request.avoid) >= MHz
    /\ 2 * Distance(request.rf, request.target) <= 3 * request.step

\* The nearest multiple of a step is a multiple, and at most half a step away.
LEMMA OnStepIsNearest ==
  ASSUME NEW f \in Int, NEW step \in {375, 300, 500}
  PROVE  /\ Nearest(f, step) \in Int
         /\ OnStep(f, step) = step * Nearest(f, step)
         /\ OnStep(f, step) \in Int
         /\ 2 * Distance(OnStep(f, step), f) <= step
<1>1. CASE step = 375
  BY <1>1 DEF OnStep, Nearest, Distance
<1>2. CASE step = 300
  BY <1>2 DEF OnStep, Nearest, Distance
<1>3. CASE step = 500
  BY <1>3 DEF OnStep, Nearest, Distance
<1> QED BY <1>1, <1>2, <1>3

LEMMA Multiple ==
  ASSUME NEW n \in Int, NEW step \in {375, 300, 500}
  PROVE  (step * n) % step = 0
<1>1. CASE step = 375
  BY <1>1
<1>2. CASE step = 300
  BY <1>2
<1>3. CASE step = 500
  BY <1>3
<1> QED BY <1>1, <1>2, <1>3

\* Min(GoodSteps) is one of them.
LEMMA FirstGoodStep ==
  ASSUME NEW S, S \subseteq 1 .. 3, S # {}
  PROVE  Min(S) \in S
<1>1. \E i \in S : \A j \in S : i <= j
  <2>1. CASE 1 \in S
    BY <2>1
  <2>2. CASE 1 \notin S /\ 2 \in S
    BY <2>2
  <2>3. CASE S = {3}
    BY <2>3
  <2>4. 1 \in S \/ (1 \notin S /\ 2 \in S) \/ S = {3}
    <3>1. \A i \in S : i = 1 \/ i = 2 \/ i = 3
      OBVIOUS
    <3> QED BY <3>1
  <2> QED BY <2>1, <2>2, <2>3, <2>4
<1> QED BY <1>1 DEF Min

\* Where no step is good, one step more to the far side of the nearest point is.
LEMMA GrudginglyClear ==
  ASSUME NEW target \in Int, NEW avoid \in Int
  PROVE  /\ Grudgingly(target, avoid) \in Int
         /\ Grudgingly(target, avoid) % 375 = 0
         /\ Distance(Grudgingly(target, avoid), avoid) >= MHz
         /\ 2 * Distance(Grudgingly(target, avoid), target) <= 3 * 375
<1> DEFINE n == Nearest(target, 375)
           rf == OnStep(target, 375)
<1>1. n \in Int /\ rf = 375 * n /\ rf \in Int /\ 2 * Distance(rf, target) <= 375
  BY OnStepIsNearest
<1>2. Grudgingly(target, avoid) \in {375 * n, 375 * (n - 1), 375 * (n + 1)}
  BY <1>1 DEF Grudgingly, Step
<1>3. Grudgingly(target, avoid) % 375 = 0
  BY <1>1, <1>2, Multiple
<1>4. Step[1] = 375
  BY DEF Step
<1> HIDE DEF n, rf
<1>5. Grudgingly(target, avoid) = IF Distance(rf, avoid) >= MHz THEN rf
                                  ELSE IF rf > avoid THEN rf - 375 ELSE rf + 375
  BY <1>4 DEF Grudgingly, rf
<1> QED BY <1>1, <1>3, <1>5 DEF Distance, MHz

\* applyTargetFreqCorrection keeps clear, whatever is asked for and avoided.
LEMMA CorrectionKeepsClear ==
  ASSUME NEW target \in Int, NEW avoid \in Int
  PROVE  KeepsClear(ApplyTargetFreqCorrection(target, avoid))
<1> DEFINE good == GoodSteps(target, avoid)
<1>1. CASE target < 10 * MHz
  BY <1>1 DEF ApplyTargetFreqCorrection, KeepsClear, Automatic
<1>2. CASE ~(target < 10 * MHz) /\ good = {}
  <2>1. ApplyTargetFreqCorrection(target, avoid)
          = Manual(target, avoid, Grudgingly(target, avoid), 375)
    BY <1>2 DEF ApplyTargetFreqCorrection, Step
  <2> QED BY <2>1, GrudginglyClear DEF KeepsClear, Manual
<1>3. CASE ~(target < 10 * MHz) /\ good # {}
  <2> DEFINE i == Min(good)
             step == Step[i]
             rf == OnStep(target, step)
  <2>1. i \in good /\ i \in 1 .. 3
    BY <1>3, FirstGoodStep DEF GoodSteps
  <2>2. step \in {375, 300, 500}
    BY <2>1 DEF Step
  <2>3. Distance(rf, avoid) > MHz
    BY <2>1 DEF GoodSteps
  <2>4. /\ rf \in Int /\ rf % step = 0
        /\ 2 * Distance(rf, target) <= step
    BY <2>2, OnStepIsNearest, Multiple
  <2>5. ApplyTargetFreqCorrection(target, avoid) = Manual(target, avoid, rf, step)
    BY <1>3 DEF ApplyTargetFreqCorrection
  <2> HIDE DEF step, rf
  <2>6. Distance(rf, avoid) \in Int /\ Distance(rf, target) \in Int
    BY <2>4 DEF Distance
  <2> QED BY <2>2, <2>3, <2>4, <2>5, <2>6 DEF KeepsClear, Manual, MHz
<1> QED BY <1>1, <1>2, <1>3

\* What the front ends are asked for lies in their ranges, and is a number.
LEMMA InRangeIsInt ==
  ASSUME NEW f \in Int, NEW range \in Int \X Int
  PROVE  InRange(f, range) \in Int /\ BelowOnGrid(InRange(f, range)) \in Int
<1>1. InRange(f, range) \in Int
  BY DEF InRange
<1>2. ASSUME NEW g \in Int PROVE BelowOnGrid(g) \in Int
  BY DEF BelowOnGrid, RxGrid
<1> QED BY <1>1, <1>2

\* The invariant: both front ends keep clear, and there is a number to avoid.
SpursInv == last_rx_req_freq \in Int /\ KeepsClear(rx) /\ KeepsClear(tx)

LEMMA AutomaticIsClear == \A target, integer : KeepsClear(Automatic(target, integer))
BY DEF KeepsClear, Automatic

LEMMA TuneKeepsSpursInv == ASSUME SpursInv, InNext PROVE SpursInv'
<1>1. ASSUME NEW f \in RxWishes, TuneRX(f) PROVE SpursInv'
  <2>1. f \in Int /\ RxRange \in Int \X Int
    BY IntegerNAssumption
  <2>2. KeepsClear(RxRequest(f))
    BY <2>1, InRangeIsInt, CorrectionKeepsClear, AutomaticIsClear DEF RxRequest
  <2> QED BY <1>1, <2>1, <2>2 DEF TuneRX, SpursInv, KeepsClear
<1>2. ASSUME NEW f \in RxWishes, TuneRXFine(f) PROVE SpursInv'
  <2>1. f \in Int
    BY IntegerNAssumption
  <2> QED BY <1>2, <2>1 DEF TuneRXFine, SpursInv, KeepsClear
<1>3. ASSUME NEW f \in TxWishes, TuneTX(f) PROVE SpursInv'
  <2>1. f \in Int /\ TxRange \in Int \X Int
    BY IntegerNAssumption
  <2>2. KeepsClear(TxRequest(f))
    BY <2>1, InRangeIsInt, CorrectionKeepsClear, AutomaticIsClear DEF TxRequest, SpursInv
  <2> QED BY <1>3, <2>2 DEF TuneTX, SpursInv, KeepsClear
<1> QED BY <1>1, <1>2, <1>3 DEF InNext

\* The inductive invariant of the oscillators holds in every reachable state.
THEOREM OscillatorInvariant == InSpec => []SpursInv
<1>1. InInit => SpursInv
  <2> SUFFICES ASSUME InInit PROVE SpursInv
    OBVIOUS
  <2>1. last_rx_req_freq \in Int
    BY DEF InInit
  <2>2. KeepsClear(rx) /\ KeepsClear(tx)
    BY AutomaticIsClear, Zenon DEF InInit
  <2> QED BY <2>1, <2>2 DEF SpursInv
<1>2. SpursInv /\ [InNext]_inVars => SpursInv'
  <2>1. ASSUME SpursInv, UNCHANGED inVars PROVE SpursInv'
    BY <2>1 DEF inVars, SpursInv, KeepsClear
  <2> QED BY <2>1, TuneKeepsSpursInv
<1> QED BY <1>1, <1>2, PTL DEF InSpec

\* A chosen oscillator is a multiple of its step, a megahertz or more from what it
\* is to avoid and at most a step and a half from its target, at every frequency
\* that may be asked for and with front ends of any range.
THEOREM SpursAreAvoided == InSpec => []SpursAvoided
<1>1. SpursInv => SpursAvoided
  BY DEF SpursInv, SpursAvoided, KeepsClear
<1> QED BY <1>1, OscillatorInvariant, PTL

-----------------------------------------------------------------------------
(* What the GUI shows and the radio uses, with any offers, bands and       *)
(* settings files, and any number of choices, overs, and GUIs that come    *)
(* and go.  For a selector that shows something, the last command about it *)
(* on the way to the radio says what it shows; if none is on its way, the  *)
(* radio uses that, in the next over too.                                  *)

Wordings == (UNION {ToSet(Offers[s]) : s \in Selectors})
              \cup {"", "BW_500", "internal", "external"}
Orders == [t : Selectors \cup {"clock", "HWMB_REP"}, v : Wordings]
              \cup [t : {"TX_STATE"}, v : BOOLEAN]
Answers == [t : Selectors \cup {"complete"}, v : Wordings]

Windows ==
  [items : [Selectors -> Seq(Wordings)], shown : [Selectors -> Nat],
   band : DOMAIN BandAnts \cup {0, 1} \cup {file.band : file \in Settings},
   box : BOOLEAN \cup {file.clock : file \in Settings},
   sock : Seq(Orders)]

WindowOk(w) ==
  /\ w \in Windows
  /\ \A s \in Selectors : /\ w.items[s] \in Seq(ToSet(Offers[s]))
                          /\ w.shown[s] \in 0 .. Len(w.items[s])

NoneOf(q, s) == \A i \in 1 .. Len(q) : q[i].t # s
LastIs(q, s, v) ==
  \E i \in 1 .. Len(q) : q[i] = Msg(s, v) /\ \A j \in i + 1 .. Len(q) : q[j].t # s

Queue(s) == IF s \in {"mode", "filter"} THEN bbq ELSE ctrlq

Uses(u, ant, s, v) == u[s] = v /\ (s = "tx_ant" => Antenna("tx_ant", ant) = v)

\* With this window, queue, use and antenna for the next over, the radio will use
\* what selector s shows.
Agrees(w, q, u, ant, s) ==
  w.shown[s] # 0 =>
    LET v == Text(w, s)
    IN  \/ LastIs(w.sock, s, v)
        \/ NoneOf(w.sock, s) /\ LastIs(q, s, v)
        \/ NoneOf(w.sock, s) /\ NoneOf(q, s) /\ Uses(u, ant, s, v)

Agreed(s) == Agrees(window, Queue(s), used, tx_ant, s)

\* Before both threads run there is nothing to choose from.
NothingYet ==
  /\ reports = <<>>
  /\ \A s \in Selectors : window.items[s] = <<>> /\ window.shown[s] = 0

ShownTypeOK ==
  /\ WindowOk(window)
  /\ ctrlq \in Seq(Orders) /\ bbq \in Seq(Orders) /\ reports \in Seq(Answers)
  /\ \A i \in 1 .. Len(ctrlq) : ctrlq[i].t \notin {"mode", "filter"}
  /\ \A i \in 1 .. Len(bbq) : bbq[i].t \in {"mode", "filter"}
  /\ \A i \in 1 .. Len(reports) :
       reports[i].t = "complete" \/ reports[i].v \in ToSet(Offers[reports[i].t])
  /\ DOMAIN used = Selectors \cup {"clock"}
  /\ running \subseteq {"ui", "ctrl"}

ShownInv ==
  /\ ShownTypeOK
  /\ stage # "built" => running = {}
  /\ running # {"ui", "ctrl"} => NothingYet
  /\ "ui" \notin running => NoneOf(ctrlq, "HWMB_REP")
  /\ \A s \in Selectors : Agreed(s)

-----------------------------------------------------------------------------
(* Sequences of messages, of which the last about a selector counts.       *)

LEMMA SentBehind ==
  ASSUME NEW S, NEW q \in Seq(S), NEW m \in S, NEW s, NEW v
  PROVE  /\ NoneOf(q, s) /\ m.t # s => NoneOf(Append(q, m), s)
         /\ m = Msg(s, v) => LastIs(Append(q, m), s, v)
         /\ LastIs(q, s, v) /\ m.t # s => LastIs(Append(q, m), s, v)
<1> DEFINE r == Append(q, m)
<1>1. /\ r \in Seq(S) /\ Len(r) = Len(q) + 1 /\ Len(q) \in Nat
      /\ \A i \in 1 .. Len(q) : r[i] = q[i]
      /\ r[Len(q) + 1] = m
  BY AppendProperties, LenProperties
<1> HIDE DEF r
<1>2. \A i \in 1 .. Len(r) : i \in 1 .. Len(q) \/ i = Len(q) + 1
  BY <1>1
<1>3. ASSUME NoneOf(q, s), m.t # s PROVE NoneOf(r, s)
  BY <1>1, <1>2, <1>3 DEF NoneOf
<1>4. ASSUME m = Msg(s, v) PROVE LastIs(r, s, v)
  <2>1. Len(q) + 1 \in 1 .. Len(r) /\ \A j \in (Len(q) + 1) + 1 .. Len(r) : r[j].t # s
    BY <1>1
  <2> QED BY <2>1, <1>1, <1>4 DEF LastIs
<1>5. ASSUME LastIs(q, s, v), m.t # s PROVE LastIs(r, s, v)
  <2>1. PICK i \in 1 .. Len(q) : q[i] = Msg(s, v) /\ \A j \in i + 1 .. Len(q) : q[j].t # s
    BY <1>5 DEF LastIs
  <2>2. i \in 1 .. Len(r) /\ r[i] = Msg(s, v)
    BY <1>1, <2>1
  <2>3. ASSUME NEW j \in i + 1 .. Len(r) PROVE r[j].t # s
    <3>1. j \in i + 1 .. Len(q) \/ j = Len(q) + 1
      BY <1>1
    <3>2. i + 1 .. Len(q) \subseteq 1 .. Len(q)
      OBVIOUS
    <3> QED BY <1>1, <1>5, <2>1, <3>1, <3>2
  <2> QED BY <2>2, <2>3 DEF LastIs
<1> QED BY <1>3, <1>4, <1>5 DEF r

\* A message behind others, each of which one may say something of.
LEMMA EachBehind ==
  ASSUME NEW S, NEW q \in Seq(S), NEW m \in S, NEW Kinds
  PROVE  /\ Append(q, m) \in Seq(S)
         /\ (\A i \in 1 .. Len(q) : q[i].t \in Kinds) /\ m.t \in Kinds
              => \A i \in 1 .. Len(Append(q, m)) : Append(q, m)[i].t \in Kinds
         /\ (\A i \in 1 .. Len(q) : q[i].t \notin Kinds) /\ m.t \notin Kinds
              => \A i \in 1 .. Len(Append(q, m)) : Append(q, m)[i].t \notin Kinds
<1> DEFINE r == Append(q, m)
<1>1. /\ r \in Seq(S) /\ Len(r) = Len(q) + 1 /\ Len(q) \in Nat
      /\ \A i \in 1 .. Len(q) : r[i] = q[i]
      /\ r[Len(q) + 1] = m
  BY AppendProperties, LenProperties
<1> HIDE DEF r
<1>2. \A i \in 1 .. Len(r) : i \in 1 .. Len(q) \/ i = Len(q) + 1
  BY <1>1
<1> SUFFICES /\ r \in Seq(S)
             /\ (\A i \in 1 .. Len(q) : q[i].t \in Kinds) /\ m.t \in Kinds
                  => \A i \in 1 .. Len(r) : r[i].t \in Kinds
             /\ (\A i \in 1 .. Len(q) : q[i].t \notin Kinds) /\ m.t \notin Kinds
                  => \A i \in 1 .. Len(r) : r[i].t \notin Kinds
  BY DEF r
<1> QED BY <1>1, <1>2

LEMMA EachOfJoined ==
  ASSUME NEW S, NEW p \in Seq(S), NEW q \in Seq(S)
  PROVE  /\ p \o q \in Seq(S)
         /\ \A i \in 1 .. Len(p \o q) : \/ \E j \in 1 .. Len(p) : (p \o q)[i] = p[j]
                                        \/ \E j \in 1 .. Len(q) : (p \o q)[i] = q[j]
<1> DEFINE r == p \o q
<1>1. /\ Len(r) = Len(p) + Len(q) /\ r \in Seq(S)
  BY ConcatProperties
<1>2. \A i \in 1 .. Len(p) + Len(q) : r[i] = IF i <= Len(p) THEN p[i] ELSE q[i - Len(p)]
  BY ConcatProperties
<1>3. Len(p) \in Nat /\ Len(q) \in Nat
  BY LenProperties
<1> HIDE DEF r
<1>4. ASSUME NEW i \in 1 .. Len(r)
      PROVE  \/ \E j \in 1 .. Len(p) : r[i] = p[j]
             \/ \E j \in 1 .. Len(q) : r[i] = q[j]
  <2>1. CASE i <= Len(p)
    BY <1>1, <1>2, <1>3, <2>1
  <2>2. CASE ~(i <= Len(p))
    <3>1. i - Len(p) \in 1 .. Len(q) /\ r[i] = q[i - Len(p)]
      BY <1>1, <1>2, <1>3, <2>2
    <3> QED BY <3>1
  <2> QED BY <2>1, <2>2
<1> QED BY <1>1, <1>4 DEF r

LEMMA TakenFirst ==
  ASSUME NEW S, NEW q \in Seq(S), q # <<>>, NEW s, NEW v
  PROVE  /\ Head(q) \in S /\ Tail(q) \in Seq(S) /\ Len(Tail(q)) \in Nat
         /\ \A i \in 1 .. Len(Tail(q)) : i + 1 \in 1 .. Len(q) /\ Tail(q)[i] = q[i + 1]
         /\ 1 \in 1 .. Len(q) /\ Head(q) = q[1]
         /\ NoneOf(q, s) => NoneOf(Tail(q), s) /\ Head(q).t # s
         /\ LastIs(q, s, v) => \/ LastIs(Tail(q), s, v)
                               \/ NoneOf(Tail(q), s) /\ Head(q) = Msg(s, v)
<1>1. /\ Head(q) \in S /\ Head(q) = q[1] /\ Tail(q) \in Seq(S)
      /\ Len(Tail(q)) = Len(q) - 1 /\ \A i \in 1 .. Len(Tail(q)) : Tail(q)[i] = q[i + 1]
  BY HeadTailProperties
<1>2. Len(q) \in Nat \ {0}
  BY EmptySeq, LenProperties
<1>3. \A i \in 1 .. Len(Tail(q)) : i + 1 \in 1 .. Len(q)
  BY <1>1, <1>2
<1>4. 1 \in 1 .. Len(q) /\ Len(Tail(q)) \in Nat
  BY <1>1, <1>2
<1>5. NoneOf(q, s) => NoneOf(Tail(q), s) /\ Head(q).t # s
  BY <1>1, <1>3, <1>4 DEF NoneOf
<1>6. ASSUME LastIs(q, s, v)
      PROVE  \/ LastIs(Tail(q), s, v)
             \/ NoneOf(Tail(q), s) /\ Head(q) = Msg(s, v)
  <2>1. PICK i \in 1 .. Len(q) : q[i] = Msg(s, v) /\ \A j \in i + 1 .. Len(q) : q[j].t # s
    BY <1>6 DEF LastIs
  <2>2. \A j \in 1 .. Len(Tail(q)) : j + 1 \in i + 1 .. Len(q) => Tail(q)[j].t # s
    BY <1>1, <2>1
  <2>3. CASE i = 1
    <3>1. \A j \in 1 .. Len(Tail(q)) : j + 1 \in i + 1 .. Len(q)
      BY <1>1, <1>2, <2>3
    <3> QED BY <1>1, <2>1, <2>2, <2>3, <3>1 DEF NoneOf
  <2>4. CASE i # 1
    <3>1. i - 1 \in 1 .. Len(Tail(q)) /\ (i - 1) + 1 = i
      BY <1>1, <1>2, <2>4
    <3>2. \A j \in (i - 1) + 1 .. Len(Tail(q)) :
            j \in 1 .. Len(Tail(q)) /\ j + 1 \in i + 1 .. Len(q)
      BY <1>1, <1>2, <3>1
    <3>3. Tail(q)[i - 1] = Msg(s, v)
      BY <1>1, <2>1, <3>1
    <3> QED BY <2>2, <3>1, <3>2, <3>3 DEF LastIs
  <2> QED BY <2>3, <2>4
<1> QED BY <1>1, <1>3, <1>4, <1>5, <1>6

-----------------------------------------------------------------------------
(* What the widgets do to themselves: a selector that comes to show        *)
(* something else has sent it.                                             *)

Follows(w, x) ==
  \A s \in Selectors :
    x.shown[s] # 0 =>
      \/ LastIs(x.sock, s, Text(x, s))
      \/ /\ w.shown[s] # 0 /\ Text(x, s) = Text(w, s)
         /\ NoneOf(w.sock, s) => NoneOf(x.sock, s)
         /\ LastIs(w.sock, s, Text(w, s)) => LastIs(x.sock, s, Text(w, s))

LEMMA FollowsItself == ASSUME NEW w PROVE Follows(w, w)
  BY DEF Follows

LEMMA FollowsOn ==
  ASSUME NEW w, NEW x, NEW y, Follows(w, x), Follows(x, y) PROVE Follows(w, y)
<1> SUFFICES ASSUME NEW s \in Selectors, y.shown[s] # 0, ~ LastIs(y.sock, s, Text(y, s))
             PROVE  /\ w.shown[s] # 0 /\ Text(y, s) = Text(w, s)
                    /\ NoneOf(w.sock, s) => NoneOf(y.sock, s)
                    /\ LastIs(w.sock, s, Text(w, s)) => LastIs(y.sock, s, Text(w, s))
  BY DEF Follows
<1>1. /\ x.shown[s] # 0 /\ Text(y, s) = Text(x, s)
      /\ NoneOf(x.sock, s) => NoneOf(y.sock, s)
      /\ LastIs(x.sock, s, Text(x, s)) => LastIs(y.sock, s, Text(x, s))
  BY DEF Follows
<1>2. ~ LastIs(x.sock, s, Text(x, s))
  BY <1>1
<1>3. /\ w.shown[s] # 0 /\ Text(x, s) = Text(w, s)
      /\ NoneOf(w.sock, s) => NoneOf(x.sock, s)
      /\ LastIs(w.sock, s, Text(w, s)) => LastIs(x.sock, s, Text(w, s))
  BY <1>1, <1>2 DEF Follows
<1> QED BY <1>1, <1>3

\* A text that a selector shows is one of the server's.
LEMMA TextIsOffered ==
  ASSUME NEW w, WindowOk(w), NEW s \in Selectors
  PROVE  /\ w.shown[s] # 0 => Text(w, s) \in ToSet(Offers[s])
         /\ Text(w, s) \in Wordings
<1>1. /\ w.items[s] \in Seq(ToSet(Offers[s])) /\ w.shown[s] \in 0 .. Len(w.items[s])
  BY DEF WindowOk
<1>2. ASSUME w.shown[s] # 0 PROVE Text(w, s) \in ToSet(Offers[s])
  <2>1. w.shown[s] \in 1 .. Len(w.items[s])
    BY <1>1, <1>2, LenProperties
  <2> QED BY <1>1, <1>2, <2>1, ElementOfSeq DEF Text
<1>3. ToSet(Offers[s]) \subseteq Wordings
  BY DEF Wordings
<1>4. CASE w.shown[s] = 0
  <2>1. Text(w, s) = ""
    BY <1>4 DEF Text
  <2> QED BY <1>4, <2>1 DEF Wordings
<1>5. CASE w.shown[s] # 0
  BY <1>2, <1>3, <1>5
<1> QED BY <1>2, <1>4, <1>5

\* Something is sent, and nothing else done.
LEMMA SendFollows ==
  ASSUME NEW w, WindowOk(w), NEW m \in Orders, m.t \notin Selectors,
         NEW x, x = [w EXCEPT !.sock = Append(@, m)]
  PROVE  WindowOk(x) /\ Follows(w, x)
<1>1. /\ x.items = w.items /\ x.shown = w.shown /\ x.sock = Append(w.sock, m)
      /\ x \in Windows /\ w.sock \in Seq(Orders)
  BY AppendProperties DEF WindowOk, Windows
<1>2. WindowOk(x)
  BY <1>1 DEF WindowOk
<1>3. Follows(w, x)
  <2> SUFFICES ASSUME NEW s \in Selectors, x.shown[s] # 0
               PROVE  /\ w.shown[s] # 0 /\ Text(x, s) = Text(w, s)
                      /\ NoneOf(w.sock, s) => NoneOf(x.sock, s)
                      /\ LastIs(w.sock, s, Text(w, s)) => LastIs(x.sock, s, Text(w, s))
    BY DEF Follows
  <2>1. Text(x, s) = Text(w, s)
    BY <1>1 DEF Text
  <2>2. w.shown[s] # 0 /\ m.t # s
    BY <1>1
  <2>3. /\ NoneOf(w.sock, s) => NoneOf(Append(w.sock, m), s)
        /\ LastIs(w.sock, s, Text(w, s)) => LastIs(Append(w.sock, m), s, Text(w, s))
    BY <1>1, <2>2, SentBehind
  <2> QED BY <1>1, <2>1, <2>2, <2>3
<1> QED BY <1>2, <1>3

LEMMA TickFollows ==
  ASSUME NEW w, WindowOk(w), NEW on \in BOOLEAN \cup {file.clock : file \in Settings}
  PROVE  WindowOk(Tick(w, on)) /\ Follows(w, Tick(w, on))
<1> DEFINE m == Msg("clock", IF on THEN "external" ELSE "internal")
           x == [w EXCEPT !.sock = Append(@, m)]
<1>1. CASE w.box = on
  BY <1>1, FollowsItself DEF Tick
<1>2. CASE w.box # on
  <2>1. m \in Orders /\ m.t \notin Selectors
    BY DEF Msg, Orders, Wordings, Selectors
  <2>2. WindowOk(x) /\ Follows(w, x)
    <3> HIDE DEF m
    <3> QED BY <2>1, SendFollows
  <2>3. Tick(w, on) = [x EXCEPT !.box = on]
    BY <1>2 DEF Tick, WindowOk, Windows
  <2> HIDE DEF x
  <2>4. /\ Tick(w, on) \in Windows
        /\ Tick(w, on).items = x.items /\ Tick(w, on).shown = x.shown /\ Tick(w, on).sock = x.sock
    BY <2>2, <2>3 DEF WindowOk, Windows
  <2> QED BY <2>2, <2>4 DEF WindowOk, Follows, Text
<1> QED BY <1>1, <1>2

LEMMA ShowFollows ==
  ASSUME NEW w, WindowOk(w), NEW s \in Selectors, NEW i
  PROVE  WindowOk(Show(w, s, i)) /\ Follows(w, Show(w, s, i))
<1> DEFINE j == IF i \in DOMAIN w.items[s] THEN i ELSE 0
           shows == [w EXCEPT !.shown[s] = j]
           m == Msg(s, Text(shows, s))
           x == [shows EXCEPT !.sock = Append(@, m)]
<1>1. CASE j = w.shown[s]
  BY <1>1, FollowsItself DEF Show
<1>2. CASE j # w.shown[s]
  <2>1. w.items[s] \in Seq(ToSet(Offers[s])) /\ DOMAIN w.items[s] = 1 .. Len(w.items[s])
    BY LenProperties DEF WindowOk
  <2>2. j \in 0 .. Len(w.items[s]) /\ Len(w.items[s]) \in Nat
    BY <2>1, LenProperties
  <2> HIDE DEF j
  <2>3. /\ shows \in Windows /\ shows.items = w.items /\ shows.sock = w.sock
        /\ shows.shown = [w.shown EXCEPT ![s] = j]
    <3>1. [w.shown EXCEPT ![s] = j] \in [Selectors -> Nat]
      BY <2>2 DEF WindowOk, Windows
    <3>2. shows = [w EXCEPT !.shown = [w.shown EXCEPT ![s] = j]]
      OBVIOUS
    <3> QED BY <3>1, <3>2 DEF WindowOk, Windows
  <2> HIDE DEF shows
  <2>4. WindowOk(shows)
    <3> SUFFICES ASSUME NEW u \in Selectors PROVE shows.shown[u] \in 0 .. Len(shows.items[u])
      BY <2>3 DEF WindowOk
    <3>1. w.shown \in [Selectors -> Nat] /\ w.shown[u] \in 0 .. Len(w.items[u])
      BY DEF WindowOk, Windows
    <3> QED BY <2>2, <2>3, <3>1
  <2>5. m \in Orders /\ m.t = s
    <3>1. Text(shows, s) \in Wordings
      BY <2>4, TextIsOffered
    <3> QED BY <3>1 DEF Msg, Orders
  <2>6. Show(w, s, i) = x
    BY <1>2 DEF Show, j, shows
  <2>7. shows.sock \in Seq(Orders)
    BY <2>3 DEF Windows
  <2>8. /\ x.items = w.items /\ x.shown = [w.shown EXCEPT ![s] = j]
        /\ x.sock = Append(w.sock, m) /\ x \in Windows /\ Append(w.sock, m) \in Seq(Orders)
    <3>1. Append(shows.sock, m) \in Seq(Orders)
      BY <2>5, <2>7, AppendProperties
    <3> HIDE DEF m
    <3> QED BY <2>3, <3>1 DEF Windows
  <2>9. m = Msg(s, Text(x, s))
    <3> HIDE DEF x, m
    <3>1. Text(x, s) = Text(shows, s)
      BY <2>3, <2>8 DEF Text
    <3> QED BY <3>1 DEF m
  <2> HIDE DEF x, m
  <2>10. WindowOk(x)
    BY <2>3, <2>4, <2>8 DEF WindowOk
  <2>11. Follows(w, x)
    <3> SUFFICES ASSUME NEW u \in Selectors, x.shown[u] # 0
                 PROVE  \/ LastIs(x.sock, u, Text(x, u))
                        \/ /\ w.shown[u] # 0 /\ Text(x, u) = Text(w, u)
                           /\ NoneOf(w.sock, u) => NoneOf(x.sock, u)
                           /\ LastIs(w.sock, u, Text(w, u)) => LastIs(x.sock, u, Text(w, u))
      BY DEF Follows
    <3>1. CASE u = s
      BY <2>3, <2>5, <2>7, <2>8, <2>9, <3>1, SentBehind
    <3>2. CASE u # s
      <4>1. x.shown[u] = w.shown[u] /\ w.shown[u] # 0
        BY <2>8, <3>2 DEF WindowOk, Windows
      <4>2. Text(x, u) = Text(w, u)
        BY <2>8, <4>1 DEF Text
      <4> QED BY <2>3, <2>5, <2>7, <2>8, <3>2, <4>1, <4>2, SentBehind
    <3> QED BY <3>1, <3>2
  <2> QED BY <2>6, <2>10, <2>11
<1> QED BY <1>1, <1>2

LEMMA AddFollows ==
  ASSUME NEW w, WindowOk(w), NEW s \in Selectors, NEW text \in ToSet(Offers[s])
  PROVE  /\ WindowOk(AddItem(w, s, text)) /\ Follows(w, AddItem(w, s, text))
         /\ WindowOk(AddValue(w, s, text)) /\ Follows(w, AddValue(w, s, text))
<1> DEFINE longer == Append(w.items[s], text)
           more == [w EXCEPT !.items[s] = Append(@, text)]
<1>1. /\ longer \in Seq(ToSet(Offers[s])) /\ longer \in Seq(Wordings)
      /\ Len(longer) = Len(w.items[s]) + 1 /\ Len(w.items[s]) \in Nat
      /\ \A i \in 1 .. Len(w.items[s]) : longer[i] = w.items[s][i]
  <2>1. text \in Wordings
    BY DEF Wordings
  <2>2. w.items[s] \in Seq(ToSet(Offers[s])) /\ w.items[s] \in Seq(Wordings)
    BY DEF WindowOk, Windows
  <2> QED BY <2>1, <2>2, AppendProperties, LenProperties
<1>2. more = [w EXCEPT !.items = [w.items EXCEPT ![s] = longer]]
  OBVIOUS
<1> HIDE DEF longer, more
<1>3. /\ more \in Windows /\ more.shown = w.shown /\ more.sock = w.sock
      /\ more.items = [w.items EXCEPT ![s] = longer]
  BY <1>1, <1>2 DEF WindowOk, Windows
<1>4. ASSUME NEW u \in Selectors
      PROVE  /\ more.items[u] = IF u = s THEN longer ELSE w.items[u]
             /\ more.shown[u] = w.shown[u] /\ w.shown[u] \in 0 .. Len(w.items[u])
  BY <1>3 DEF WindowOk, Windows
<1>5. WindowOk(more)
  <2> SUFFICES ASSUME NEW u \in Selectors
               PROVE  /\ more.items[u] \in Seq(ToSet(Offers[u]))
                      /\ more.shown[u] \in 0 .. Len(more.items[u])
    BY <1>3 DEF WindowOk
  <2>1. CASE u = s
    BY <1>1, <1>4, <2>1
  <2>2. CASE u # s
    BY <1>4, <2>2 DEF WindowOk
  <2> QED BY <2>1, <2>2
<1>6. Follows(w, more)
  <2> SUFFICES ASSUME NEW u \in Selectors, more.shown[u] # 0 PROVE Text(more, u) = Text(w, u)
    BY <1>3 DEF Follows
  <2>1. CASE u = s
    <3>1. w.shown[u] \in 1 .. Len(w.items[u])
      BY <1>1, <1>4, <2>1
    <3> QED BY <1>1, <1>4, <2>1, <3>1 DEF Text
  <2>2. CASE u # s
    BY <1>4, <2>2 DEF Text
  <2> QED BY <2>1, <2>2
<1>7. /\ WindowOk(Show(more, s, 1)) /\ Follows(w, Show(more, s, 1))
  BY <1>5, <1>6, ShowFollows, FollowsOn
<1>8. WindowOk(AddItem(w, s, text)) /\ Follows(w, AddItem(w, s, text))
  BY <1>5, <1>6, <1>7 DEF AddItem, more
<1>9. WindowOk(AddValue(w, s, text)) /\ Follows(w, AddValue(w, s, text))
  BY <1>8, ShowFollows, FollowsOn DEF AddValue
<1> QED BY <1>8, <1>9

LEMMA ShowTextFollows ==
  ASSUME NEW w, WindowOk(w), NEW s \in Selectors, NEW text
  PROVE  WindowOk(ShowText(w, s, text)) /\ Follows(w, ShowText(w, s, text))
<1> DEFINE i == SelectInSeq(w.items[s], LAMBDA e : e = text)
<1>1. ShowText(w, s, text) = Show(w, s, i) \/ ShowText(w, s, text) = w
  BY DEF ShowText
<1> HIDE DEF i
<1> QED BY <1>1, ShowFollows, FollowsItself

\* Another band shown, and nothing else.
LEMMA BandFollows ==
  ASSUME NEW w, WindowOk(w),
         NEW b \in DOMAIN BandAnts \cup {0, 1} \cup {file.band : file \in Settings}
  PROVE  WindowOk([w EXCEPT !.band = b]) /\ Follows(w, [w EXCEPT !.band = b])
<1> DEFINE x == [w EXCEPT !.band = b]
<1>1. /\ x \in Windows /\ x.items = w.items /\ x.shown = w.shown /\ x.sock = w.sock
  BY DEF WindowOk, Windows
<1> HIDE DEF x
<1>2. WindowOk(x) /\ Follows(w, x)
  BY <1>1 DEF WindowOk, Follows, Text
<1> QED BY <1>2 DEF x

LEMMA SelectBandFollows ==
  ASSUME NEW w, WindowOk(w),
         NEW b \in DOMAIN BandAnts \cup {0, 1} \cup {file.band : file \in Settings}
  PROVE  WindowOk(SelectBand(w, b)) /\ Follows(w, SelectBand(w, b))
<1> DEFINE x == [w EXCEPT !.band = b]
           y == ShowText(x, "rx_ant", BandAnts[b].rx_ant)
           z == ShowText(y, "tx_ant", BandAnts[b].tx_ant)
<1>1. WindowOk(x) /\ Follows(w, x)
  BY BandFollows
<1>2. SelectBand(w, b) = x \/ SelectBand(w, b) = z
  BY DEF SelectBand
<1> HIDE DEF x
<1>3. "rx_ant" \in Selectors /\ "tx_ant" \in Selectors
  BY DEF Selectors
<1>4. WindowOk(y) /\ Follows(w, y)
  BY <1>1, <1>3, ShowTextFollows, FollowsOn
<1> HIDE DEF y
<1>5. WindowOk(z) /\ Follows(w, z)
  BY <1>3, <1>4, ShowTextFollows, FollowsOn
<1> HIDE DEF z
<1> QED BY <1>1, <1>2, <1>5

\* Whatever the file holds that the server does not offer.
LEMMA RestoredFollows ==
  ASSUME NEW w, WindowOk(w), NEW file \in Settings
  PROVE  WindowOk(Restored(w, file)) /\ Follows(w, Restored(w, file))
<1> DEFINE a == [w EXCEPT !.band = 0]
           b == SelectBand(a, IF BandAnts = <<>> THEN 0 ELSE 1)
           c == Tick(b, file.clock)
           d == ShowText(c, "mode", file.mode)
           e == ShowText(d, "filter", file.filter)
           f == SelectBand(e, file.band)
           g == Show(f, "rx_ant", file.rx_ant)
           h == Show(g, "tx_ant", file.tx_ant)
<1>1. Restored(w, file) = h
  BY DEF Restored
<1>2. {"rx_ant", "tx_ant", "mode", "filter"} \subseteq Selectors
  BY DEF Selectors
<1>3. WindowOk(a) /\ Follows(w, a)
  BY BandFollows
<1> HIDE DEF a
<1>4. WindowOk(b) /\ Follows(w, b)
  BY <1>3, SelectBandFollows, FollowsOn
<1> HIDE DEF b
<1>5. WindowOk(c) /\ Follows(w, c)
  BY <1>4, TickFollows, FollowsOn
<1> HIDE DEF c
<1>6. WindowOk(d) /\ Follows(w, d)
  BY <1>2, <1>5, ShowTextFollows, FollowsOn
<1> HIDE DEF d
<1>7. WindowOk(e) /\ Follows(w, e)
  BY <1>2, <1>6, ShowTextFollows, FollowsOn
<1> HIDE DEF e
<1>8. WindowOk(f) /\ Follows(w, f)
  BY <1>7, SelectBandFollows, FollowsOn
<1> HIDE DEF f
<1>9. WindowOk(g) /\ Follows(w, g)
  BY <1>2, <1>8, ShowFollows, FollowsOn
<1> HIDE DEF g
<1>10. WindowOk(h) /\ Follows(w, h)
  BY <1>2, <1>9, ShowFollows, FollowsOn
<1> HIDE DEF h
<1> QED BY <1>1, <1>10

-----------------------------------------------------------------------------
(* The threads, the GUI and the messages between them.                     *)

\* The widgets follow.
LEMMA WindowAgrees ==
  ASSUME NEW w, NEW x, NEW q, NEW u, NEW ant, NEW s \in Selectors,
         Agrees(w, q, u, ant, s), Follows(w, x)
  PROVE  Agrees(x, q, u, ant, s)
  BY DEF Agrees, Follows

\* A command goes from the socket to the queue of the thread that heeds it.
LEMMA ForwardAgrees ==
  ASSUME NEW w, WindowOk(w), w.sock # <<>>, NEW q \in Seq(Orders), NEW u, NEW ant,
         NEW s \in Selectors, Agrees(w, q, u, ant, s),
         NEW x, x.shown = w.shown, x.items = w.items, x.sock = Tail(w.sock),
         NEW r, r = Append(q, Head(w.sock)) \/ (r = q /\ Head(w.sock).t # s)
  PROVE  Agrees(x, r, u, ant, s)
<1> DEFINE v == Text(w, s)
           m == Head(w.sock)
<1>1. Text(x, s) = v
  BY DEF Text
<1>2. w.sock \in Seq(Orders)
  BY DEF WindowOk, Windows
<1> HIDE DEF v
<1>3. /\ m \in Orders
      /\ NoneOf(w.sock, s) => NoneOf(x.sock, s) /\ m.t # s
      /\ LastIs(w.sock, s, v) => LastIs(x.sock, s, v) \/ (NoneOf(x.sock, s) /\ m = Msg(s, v))
  <2> DEFINE k == w.sock
  <2>1. k \in Seq(Orders) /\ k # <<>>
    BY <1>2
  <2> HIDE DEF k
  <2>2. /\ Head(k) \in Orders
        /\ NoneOf(k, s) => NoneOf(Tail(k), s) /\ Head(k).t # s
        /\ LastIs(k, s, v) =>
             LastIs(Tail(k), s, v) \/ (NoneOf(Tail(k), s) /\ Head(k) = Msg(s, v))
    BY <2>1, TakenFirst
  <2> QED BY <2>2 DEF k
<1>4. /\ NoneOf(q, s) /\ m.t # s => NoneOf(r, s)
      /\ LastIs(q, s, v) /\ m.t # s => LastIs(r, s, v)
      /\ m = Msg(s, v) => LastIs(r, s, v)
  <2>1. /\ NoneOf(q, s) /\ m.t # s => NoneOf(Append(q, m), s)
        /\ LastIs(q, s, v) /\ m.t # s => LastIs(Append(q, m), s, v)
        /\ m = Msg(s, v) => LastIs(Append(q, m), s, v)
    <3> HIDE DEF m
    <3> QED BY <1>3, SentBehind
  <2>2. m = Msg(s, v) => m.t = s
    BY DEF Msg
  <2> QED BY <2>1, <2>2
<1> HIDE DEF m
<1> SUFFICES ASSUME w.shown[s] # 0
             PROVE  \/ LastIs(x.sock, s, v)
                    \/ NoneOf(x.sock, s) /\ LastIs(r, s, v)
                    \/ NoneOf(x.sock, s) /\ NoneOf(r, s) /\ Uses(u, ant, s, v)
  BY <1>1 DEF Agrees
<1> QED BY <1>3, <1>4 DEF Agrees, v

\* A command of a thread's own, about something else.
LEMMA OtherAgrees ==
  ASSUME NEW w, NEW q \in Seq(Orders), NEW m \in Orders, NEW u, NEW ant,
         NEW s \in Selectors, m.t # s, Agrees(w, q, u, ant, s)
  PROVE  Agrees(w, Append(q, m), u, ant, s)
  BY SentBehind DEF Agrees

\* A thread obeys the first of its queue: if that is about s, s is as told.
LEMMA ObeyAgrees ==
  ASSUME NEW w, NEW q \in Seq(Orders), q # <<>>, NEW u, NEW ant, NEW s \in Selectors,
         WindowOk(w), Agrees(w, q, u, ant, s), NEW u2, NEW ant2,
         \A v \in ToSet(Offers[s]) :
           /\ Head(q).t # s /\ Uses(u, ant, s, v) => Uses(u2, ant2, s, v)
           /\ Head(q) = Msg(s, v) => Uses(u2, ant2, s, v)
  PROVE  Agrees(w, Tail(q), u2, ant2, s)
<1> SUFFICES ASSUME w.shown[s] # 0
             PROVE  LET v == Text(w, s)
                    IN  \/ LastIs(w.sock, s, v)
                        \/ NoneOf(w.sock, s) /\ LastIs(Tail(q), s, v)
                        \/ NoneOf(w.sock, s) /\ NoneOf(Tail(q), s) /\ Uses(u2, ant2, s, v)
  BY DEF Agrees
<1> DEFINE v == Text(w, s)
<1>1. v \in ToSet(Offers[s])
  BY TextIsOffered
<1> HIDE DEF v
<1>2. /\ NoneOf(q, s) => NoneOf(Tail(q), s) /\ Head(q).t # s
      /\ LastIs(q, s, v) => LastIs(Tail(q), s, v) \/ (NoneOf(Tail(q), s) /\ Head(q) = Msg(s, v))
  BY TakenFirst
<1>3. Head(q) = Msg(s, v) => Head(q).t = s
  BY DEF Msg
<1>4. \/ LastIs(w.sock, s, v)
      \/ NoneOf(w.sock, s) /\ LastIs(q, s, v)
      \/ NoneOf(w.sock, s) /\ NoneOf(q, s) /\ Uses(u, ant, s, v)
  BY DEF Agrees, v
<1>5. \/ LastIs(w.sock, s, v)
      \/ NoneOf(w.sock, s) /\ LastIs(Tail(q), s, v)
      \/ NoneOf(w.sock, s) /\ NoneOf(Tail(q), s) /\ Uses(u2, ant2, s, v)
  BY <1>1, <1>2, <1>3, <1>4
<1> QED BY <1>5 DEF v

\* There is nothing to agree on.
LEMMA BlankAgrees ==
  ASSUME NEW w, NEW q, NEW u, NEW ant, NEW s \in Selectors, w.shown[s] = 0
  PROVE  Agrees(w, q, u, ant, s)
  BY DEF Agrees

LEMMA MessagesAre ==
  /\ "ui" \in {"ui", "ctrl"} /\ Selectors = {"rx_ant", "tx_ant", "mode", "filter"}
  /\ \A t \in Selectors \cup {"clock", "HWMB_REP"}, v \in Wordings :
       Msg(t, v) \in Orders /\ Msg(t, v).t = t /\ Msg(t, v).v = v
  /\ \A on \in BOOLEAN : /\ Msg("TX_STATE", on) \in Orders
                         /\ Msg("TX_STATE", on).t = "TX_STATE" /\ Msg("TX_STATE", on).v = on
  /\ {"", "BW_500", "internal", "external"} \subseteq Wordings
  /\ \A s \in Selectors : ToSet(Offers[s]) \subseteq Wordings
BY DEF Msg, Orders, Wordings, Selectors

\* Neither window nor messages; what is used only if no selector shows anything.
LEMMA QuietKeepsShown ==
  ASSUME ShownInv, UNCHANGED <<window, ctrlq, bbq, reports, running>>,
         stage' # "built" => running = {},
         DOMAIN used' = DOMAIN used,
         running = {} \/ UNCHANGED <<used, tx_ant>>
  PROVE  ShownInv'
<1>1. ShownTypeOK'
  BY DEF ShownInv, ShownTypeOK
<1>2. NothingYet' <=> NothingYet
  BY DEF NothingYet
<1>3. ASSUME NEW s \in Selectors PROVE Agreed(s)'
  <2>1. Agrees(window, Queue(s), used', tx_ant', s)
    <3>1. CASE running = {}
      BY <3>1, BlankAgrees DEF ShownInv, NothingYet
    <3>2. CASE UNCHANGED <<used, tx_ant>>
      BY <3>2 DEF ShownInv, Agreed
    <3> QED BY <3>1, <3>2
  <2>2. Queue(s)' = Queue(s)
    BY DEF Queue
  <2> QED BY <2>1, <2>2 DEF Agreed
<1> QED BY <1>1, <1>2, <1>3 DEF ShownInv

\* A thread's own commands, before it looks at its queue.
LEMMA BeginKeepsShown == ASSUME ShownInv, UiBegins \/ CtrlBegins PROVE ShownInv'
<1>1. /\ UNCHANGED <<window, used, tx_ant, stage, reports>> /\ stage = "built"
      /\ running # {"ui", "ctrl"} /\ running' \subseteq {"ui", "ctrl"}
      /\ running \subseteq running'
  BY DEF UiBegins, CtrlBegins, radio, ShownInv, ShownTypeOK
<1>2. NothingYet /\ NothingYet'
  BY <1>1 DEF ShownInv, NothingYet
<1>3. ASSUME NEW s \in Selectors PROVE Agreed(s)'
  BY <1>1, <1>2, BlankAgrees DEF NothingYet, Agreed
<1>4. /\ ctrlq \in Seq(Orders) /\ bbq \in Seq(Orders)
      /\ \A i \in 1 .. Len(ctrlq) : ctrlq[i].t \notin {"mode", "filter"}
      /\ \A i \in 1 .. Len(bbq) : bbq[i].t \in {"mode", "filter"}
  BY DEF ShownInv, ShownTypeOK
<1>5. CASE UiBegins
  <2> DEFINE a == Msg("TX_STATE", FALSE)
             b == Msg("filter", "BW_500")
  <2>1. /\ a \in Orders /\ a.t = "TX_STATE" /\ b \in Orders /\ b.t = "filter"
    BY MessagesAre
  <2>2. ctrlq' = Append(ctrlq, a) /\ bbq' = Append(bbq, b) /\ running' = running \cup {"ui"}
    BY <1>5 DEF UiBegins
  <2> HIDE DEF a, b
  <2>3. /\ ctrlq' \in Seq(Orders) /\ bbq' \in Seq(Orders)
        /\ \A i \in 1 .. Len(ctrlq') : ctrlq'[i].t \notin {"mode", "filter"}
        /\ \A i \in 1 .. Len(bbq') : bbq'[i].t \in {"mode", "filter"}
    BY <1>4, <2>1, <2>2, EachBehind
  <2>4. ShownTypeOK'
    BY <1>1, <2>3 DEF ShownTypeOK, ShownInv
  <2> QED BY <1>1, <1>2, <1>3, <2>2, <2>4 DEF ShownInv
<1>6. CASE CtrlBegins
  <2>1. PICK c \in ClockArgs :
           ctrlq' = ctrlq \o <<Msg("rx_ant", ""), Msg("tx_ant", ""), Msg("clock", c),
                               Msg("TX_STATE", FALSE)>>
    BY <1>6 DEF CtrlBegins
  <2> DEFINE a == Msg("rx_ant", "")
             b == Msg("tx_ant", "")
             d == Msg("clock", c)
             e == Msg("TX_STATE", FALSE)
             own == <<a, b, d, e>>
  <2>2. /\ a \in Orders /\ b \in Orders /\ d \in Orders /\ e \in Orders
        /\ a.t = "rx_ant" /\ b.t = "tx_ant" /\ d.t = "clock" /\ e.t = "TX_STATE"
    <3>1. c \in Wordings
      BY RadioSetupAssumption, MessagesAre DEF RadioSetupAssumption
    <3> QED BY <3>1, MessagesAre
  <2>3. ctrlq' = ctrlq \o own /\ running' = running \cup {"ctrl"} /\ bbq' = bbq
    BY <1>6, <2>1 DEF CtrlBegins
  <2> HIDE DEF a, b, d, e
  <2>4. /\ own \in Seq(Orders) /\ Len(own) = 4
        /\ own[1] = a /\ own[2] = b /\ own[3] = d /\ own[4] = e
    BY <2>2
  <2>5. \A i \in 1 .. 4 : own[i].t \in {"rx_ant", "tx_ant", "clock", "TX_STATE"}
    BY <2>2, <2>4
  <2> HIDE DEF own
  <2>6. /\ ctrlq' \in Seq(Orders)
        /\ \A i \in 1 .. Len(ctrlq') : ctrlq'[i].t \notin {"mode", "filter"}
        /\ NoneOf(ctrlq, "HWMB_REP") => NoneOf(ctrlq', "HWMB_REP")
    <3>1. /\ ctrlq' \in Seq(Orders)
          /\ \A i \in 1 .. Len(ctrlq') : \/ \E j \in 1 .. Len(ctrlq) : ctrlq'[i] = ctrlq[j]
                                         \/ \E j \in 1 .. Len(own) : ctrlq'[i] = own[j]
      <4>1. ctrlq \in Seq(Orders) /\ own \in Seq(Orders)
        BY <1>4, <2>4
      <4>2. /\ ctrlq \o own \in Seq(Orders)
            /\ \A i \in 1 .. Len(ctrlq \o own) :
                 \/ \E j \in 1 .. Len(ctrlq) : (ctrlq \o own)[i] = ctrlq[j]
                 \/ \E j \in 1 .. Len(own) : (ctrlq \o own)[i] = own[j]
        BY <4>1, EachOfJoined
      <4> QED BY <2>3, <4>2
    <3> QED BY <1>4, <2>4, <2>5, <3>1 DEF NoneOf
  <2>7. ShownTypeOK'
    BY <1>1, <1>4, <2>3, <2>6 DEF ShownTypeOK, ShownInv
  <2> QED BY <1>1, <1>2, <1>3, <2>3, <2>6, <2>7 DEF ShownInv
<1> QED BY <1>5, <1>6

\* A name that is offered is the antenna.
LEMMA OfferedIsAntenna ==
  ASSUME NEW s \in Selectors, NEW v \in ToSet(Offers[s]) PROVE Antenna(s, v) = v
<1>1. Offers[s] \in Seq(ToSet(Offers[s]))
  BY RadioSetupAssumption DEF RadioSetupAssumption
<1>2. DOMAIN Offers[s] = 1 .. Len(Offers[s])
  BY <1>1, LenProperties
<1>3. Contains(Offers[s], v)
  BY <1>2 DEF Contains, ToSet
<1> QED BY <1>3 DEF Antenna

AnswersOk(q) ==
  /\ q \in Seq(Answers)
  /\ \A i \in 1 .. Len(q) : q[i].t = "complete" \/ q[i].v \in ToSet(Offers[q[i].t])

\* USRPCtrl heeds the first of its queue.
LEMMA CtrlKeepsShown ==
  ASSUME ShownInv, ctrlq # <<>>, ctrlq' = Tail(ctrlq),
         UNCHANGED <<window, bbq, stage, running>>, DOMAIN used' = DOMAIN used,
         AnswersOk(reports'), running # {"ui", "ctrl"} => reports' = reports,
         \A s \in {"mode", "filter"} : used'[s] = used[s],
         \A s \in {"rx_ant", "tx_ant"} : \A v \in ToSet(Offers[s]) :
           /\ Head(ctrlq).t # s /\ Uses(used, tx_ant, s, v) => Uses(used', tx_ant', s, v)
           /\ Head(ctrlq) = Msg(s, v) => Uses(used', tx_ant', s, v)
  PROVE  ShownInv'
<1>1. /\ ctrlq \in Seq(Orders) /\ WindowOk(window)
      /\ \A i \in 1 .. Len(ctrlq) : ctrlq[i].t \notin {"mode", "filter"}
  BY DEF ShownInv, ShownTypeOK
<1>2. /\ ctrlq' \in Seq(Orders)
      /\ \A i \in 1 .. Len(ctrlq') : i + 1 \in 1 .. Len(ctrlq) /\ ctrlq'[i] = ctrlq[i + 1]
      /\ NoneOf(ctrlq, "HWMB_REP") => NoneOf(ctrlq', "HWMB_REP")
  <2>1. /\ Tail(ctrlq) \in Seq(Orders)
        /\ \A i \in 1 .. Len(Tail(ctrlq)) : /\ i + 1 \in 1 .. Len(ctrlq)
                                            /\ Tail(ctrlq)[i] = ctrlq[i + 1]
    BY <1>1, TakenFirst
  <2>2. ASSUME NEW s, NoneOf(ctrlq, s) PROVE NoneOf(Tail(ctrlq), s)
    BY <2>1, <2>2 DEF NoneOf
  <2> QED BY <2>1, <2>2
<1>3. ShownTypeOK'
  BY <1>1, <1>2 DEF ShownInv, ShownTypeOK, AnswersOk
<1>4. NothingYet => running = {"ui", "ctrl"} \/ NothingYet'
  BY DEF NothingYet
<1>5. ASSUME NEW s \in Selectors PROVE Agreed(s)'
  <2>1. Agrees(window, Queue(s), used, tx_ant, s)
    BY DEF ShownInv, Agreed
  <2>2. CASE s \in {"mode", "filter"}
    <3>1. Agrees(window, Queue(s), used', tx_ant', s)
      BY <2>1, <2>2 DEF Agrees, Uses
    <3>2. Queue(s)' = Queue(s)
      BY <2>2 DEF Queue
    <3> QED BY <3>1, <3>2 DEF Agreed
  <2>3. CASE s \notin {"mode", "filter"}
    <3>1. s \in {"rx_ant", "tx_ant"} /\ Queue(s) = ctrlq /\ Queue(s)' = Tail(ctrlq)
      BY <2>3 DEF Queue, Selectors
    <3>2. Agrees(window, Tail(ctrlq), used', tx_ant', s)
      BY <1>1, <2>1, <3>1, ObeyAgrees
    <3> QED BY <3>1, <3>2 DEF Agreed
  <2> QED BY <2>2, <2>3
<1> QED BY <1>2, <1>3, <1>4, <1>5 DEF ShownInv

\* Antennas, clock and overs.
LEMMA SetsKeepShown ==
  ASSUME ShownInv, SetRXAnt \/ SetTXAnt \/ SetClockSource \/ KeyDown \/ KeyUp
  PROVE  ShownInv'
<1>1. /\ ctrlq # <<>> /\ ctrlq' = Tail(ctrlq)
      /\ UNCHANGED <<window, bbq, stage, running, reports>>
  BY DEF SetRXAnt, SetTXAnt, SetClockSource, KeyDown, KeyUp, CtrlTakes, server
<1>2. AnswersOk(reports')
  BY <1>1 DEF ShownInv, ShownTypeOK, AnswersOk
<1>3. DOMAIN used = Selectors \cup {"clock"} /\ Selectors = {"rx_ant", "tx_ant", "mode", "filter"}
  BY DEF ShownInv, ShownTypeOK, Selectors
<1>4. \A s \in {"rx_ant", "tx_ant"} : \A v \in ToSet(Offers[s]) :
        Antenna(s, v) = v /\ Msg(s, v).t = s /\ Msg(s, v).v = v
  BY OfferedIsAntenna DEF Selectors, Msg
<1> DEFINE Keeps ==
      /\ DOMAIN used' = DOMAIN used
      /\ \A s \in {"mode", "filter"} : used'[s] = used[s]
      /\ \A s \in {"rx_ant", "tx_ant"} : \A v \in ToSet(Offers[s]) :
           /\ Head(ctrlq).t # s /\ Uses(used, tx_ant, s, v) => Uses(used', tx_ant', s, v)
           /\ Head(ctrlq) = Msg(s, v) => Uses(used', tx_ant', s, v)
<1>5. CASE SetRXAnt
  <2>1. /\ Head(ctrlq).t = "rx_ant" /\ tx_ant' = tx_ant
        /\ used' = [used EXCEPT !.rx_ant = Antenna("rx_ant", Head(ctrlq).v)]
    BY <1>5 DEF SetRXAnt, CtrlTakes, server
  <2>2. Keeps
    BY <1>3, <1>4, <2>1 DEF Uses
  <2> QED BY <1>1, <1>2, <2>2, CtrlKeepsShown
<1>6. CASE SetTXAnt
  <2>1. /\ Head(ctrlq).t = "tx_ant" /\ tx_ant' = Head(ctrlq).v
        /\ used' = [used EXCEPT !.tx_ant = Antenna("tx_ant", Head(ctrlq).v)]
    BY <1>6 DEF SetTXAnt, CtrlTakes
  <2>2. Keeps
    BY <1>3, <1>4, <2>1 DEF Uses
  <2> QED BY <1>1, <1>2, <2>2, CtrlKeepsShown
<1>7. CASE SetClockSource
  <2>1. /\ Head(ctrlq).t = "clock" /\ tx_ant' = tx_ant
        /\ used' = [used EXCEPT !.clock = Head(ctrlq).v]
    BY <1>7 DEF SetClockSource, CtrlTakes, server
  <2>2. Keeps
    BY <1>3, <1>4, <2>1 DEF Uses
  <2> QED BY <1>1, <1>2, <2>2, CtrlKeepsShown
<1>8. CASE KeyDown
  <2>1. /\ Head(ctrlq).t = "TX_STATE" /\ tx_ant' = tx_ant
        /\ used' = [used EXCEPT !.tx_ant = Antenna("tx_ant", tx_ant)]
    BY <1>8 DEF KeyDown, CtrlTakes
  <2>2. Keeps
    BY <1>3, <1>4, <2>1 DEF Uses
  <2> QED BY <1>1, <1>2, <2>2, CtrlKeepsShown
<1>9. CASE KeyUp
  <2>1. Head(ctrlq).t = "TX_STATE" /\ tx_ant' = tx_ant /\ used' = used
    BY <1>9 DEF KeyUp, CtrlTakes
  <2>2. Keeps
    BY <1>3, <1>4, <2>1 DEF Uses
  <2> QED BY <1>1, <1>2, <2>2, CtrlKeepsShown
<1> QED BY <1>5, <1>6, <1>7, <1>8, <1>9

\* The first and the last part of an answer, and each between, is an offer.
LEMMA ReportKeepsShown == ASSUME ShownInv, ReportChoices PROVE ShownInv'
<1>1. /\ ctrlq # <<>> /\ ctrlq' = Tail(ctrlq) /\ Head(ctrlq).t = "HWMB_REP" /\ "ctrl" \in running
      /\ UNCHANGED <<window, bbq, stage, running, used, tx_ant>>
  BY DEF ReportChoices, CtrlTakes, radio, server
<1>2. running = {"ui", "ctrl"}
  <2>1. Head(ctrlq) = ctrlq[1] /\ 1 \in 1 .. Len(ctrlq)
    BY <1>1, TakenFirst DEF ShownInv, ShownTypeOK
  <2>2. "ui" \in running
    BY <1>1, <2>1 DEF ShownInv, NoneOf
  <2> QED BY <1>1, <2>2 DEF ShownInv, ShownTypeOK
<1>3. ASSUME NEW s \in Selectors PROVE AnswersOk(Entries(s))
  <2>1. /\ Offers[s] \in Seq(ToSet(Offers[s])) /\ DOMAIN Offers[s] = 1 .. Len(Offers[s])
        /\ Len(Offers[s]) \in Nat
    BY RadioSetupAssumption, LenProperties DEF RadioSetupAssumption
  <2>2. ASSUME NEW i \in 1 .. Len(Offers[s])
        PROVE  /\ Msg(s, Offers[s][i]) \in Answers
               /\ Msg(s, Offers[s][i]).t = s /\ Msg(s, Offers[s][i]).v \in ToSet(Offers[s])
    <3>1. Offers[s][i] \in ToSet(Offers[s]) /\ ToSet(Offers[s]) \subseteq Wordings
      BY <2>1, ElementOfSeq, MessagesAre
    <3> QED BY <3>1 DEF Msg, Answers
  <2>3. Entries(s) = [i \in 1 .. Len(Offers[s]) |-> Msg(s, Offers[s][i])]
    BY <2>1 DEF Entries
  <2>4. Entries(s) \in Seq(Answers) /\ Len(Entries(s)) = Len(Offers[s])
    <3>1. Entries(s) \in [1 .. Len(Offers[s]) -> Answers]
      BY <2>2, <2>3
    <3> QED BY <2>1, <3>1, SeqDef
  <2>5. \A i \in 1 .. Len(Entries(s)) : Entries(s)[i].v \in ToSet(Offers[Entries(s)[i].t])
    BY <2>2, <2>3, <2>4
  <2> QED BY <2>4, <2>5 DEF AnswersOk
<1>4. ASSUME NEW p, NEW q, AnswersOk(p), AnswersOk(q) PROVE AnswersOk(p \o q)
  BY <1>4, EachOfJoined DEF AnswersOk
<1>5. AnswersOk(<<Msg("complete", "")>>)
  <2> DEFINE m == Msg("complete", "")
  <2>1. m \in Answers /\ m.t = "complete"
    BY MessagesAre DEF Msg, Answers
  <2> HIDE DEF m
  <2> DEFINE q == <<m>>
  <2>2. q \in Seq(Answers) /\ \A i \in 1 .. Len(q) : q[i] = m
    BY <2>1
  <2> HIDE DEF q
  <2>3. AnswersOk(q)
    BY <2>1, <2>2 DEF AnswersOk
  <2> QED BY <2>3 DEF q, m
<1>6. AnswersOk(reports')
  <2>1. AnswersOk(reports)
    BY DEF ShownInv, ShownTypeOK, AnswersOk
  <2> DEFINE a == Entries("rx_ant")
             b == Entries("tx_ant")
             c == Entries("mode")
             d == Entries("filter")
             e == <<Msg("complete", "")>>
  <2>2. AnswersOk(a) /\ AnswersOk(b) /\ AnswersOk(c) /\ AnswersOk(d) /\ AnswersOk(e)
    BY <1>3, <1>5 DEF Selectors
  <2>3. reports' = reports \o a \o b \o c \o d \o e
    BY DEF ReportChoices
  <2> HIDE DEF a, b, c, d, e
  <2>4. AnswersOk(reports \o a \o b)
    BY <1>4, <2>1, <2>2
  <2>5. AnswersOk(reports \o a \o b \o c \o d)
    BY <1>4, <2>2, <2>4
  <2> QED BY <1>4, <2>2, <2>3, <2>5
<1>7. /\ \A s \in {"mode", "filter"} : used'[s] = used[s]
      /\ \A s \in {"rx_ant", "tx_ant"} : \A v \in ToSet(Offers[s]) :
           /\ Head(ctrlq).t # s /\ Uses(used, tx_ant, s, v) => Uses(used', tx_ant', s, v)
           /\ Head(ctrlq) = Msg(s, v) => Uses(used', tx_ant', s, v)
  BY <1>1 DEF Msg
<1> QED BY <1>1, <1>2, <1>6, <1>7, CtrlKeepsShown

LEMMA BasebandKeepsShown == ASSUME ShownInv, BasebandObeys PROVE ShownInv'
<1>1. /\ bbq # <<>> /\ bbq' = Tail(bbq) /\ used' = [used EXCEPT ![Head(bbq).t] = Head(bbq).v]
      /\ UNCHANGED <<window, ctrlq, reports, stage, running, tx_ant>>
  BY DEF BasebandObeys, server
<1>2. /\ bbq \in Seq(Orders) /\ WindowOk(window) /\ DOMAIN used = Selectors \cup {"clock"}
      /\ \A i \in 1 .. Len(bbq) : bbq[i].t \in {"mode", "filter"}
  BY DEF ShownInv, ShownTypeOK
<1>3. /\ Tail(bbq) \in Seq(Orders) /\ Head(bbq).t \in {"mode", "filter"}
      /\ \A i \in 1 .. Len(Tail(bbq)) : i + 1 \in 1 .. Len(bbq) /\ Tail(bbq)[i] = bbq[i + 1]
  <2>1. /\ Tail(bbq) \in Seq(Orders) /\ Head(bbq) = bbq[1] /\ 1 \in 1 .. Len(bbq)
        /\ \A i \in 1 .. Len(Tail(bbq)) : i + 1 \in 1 .. Len(bbq) /\ Tail(bbq)[i] = bbq[i + 1]
    BY <1>1, <1>2, TakenFirst
  <2> QED BY <1>2, <2>1
<1>4. ShownTypeOK'
  BY <1>1, <1>2, <1>3 DEF ShownInv, ShownTypeOK
<1>5. NothingYet' <=> NothingYet
  BY <1>1 DEF NothingYet
<1>6. ASSUME NEW s \in Selectors PROVE Agreed(s)'
  <2>1. Agrees(window, Queue(s), used, tx_ant, s)
    BY DEF ShownInv, Agreed
  <2>2. CASE s \in {"mode", "filter"}
    <3>1. Queue(s) = bbq /\ Queue(s)' = Tail(bbq) /\ s # "tx_ant" /\ s \in DOMAIN used
      BY <1>1, <1>2, <2>2 DEF Queue
    <3>2. ASSUME NEW v
          PROVE  /\ Head(bbq).t # s /\ Uses(used, tx_ant, s, v) => Uses(used', tx_ant', s, v)
                 /\ Head(bbq) = Msg(s, v) => Uses(used', tx_ant', s, v)
      BY <1>1, <3>1 DEF Uses, Msg
    <3>3. Agrees(window, Tail(bbq), used', tx_ant', s)
      BY <1>1, <1>2, <2>1, <3>1, <3>2, ObeyAgrees
    <3> QED BY <1>1, <3>1, <3>3 DEF Agreed
  <2>3. CASE s \notin {"mode", "filter"}
    <3>1. Queue(s)' = Queue(s) /\ used'[s] = used[s]
      BY <1>1, <1>2, <1>3, <2>3 DEF Queue
    <3>2. Agrees(window, Queue(s), used', tx_ant', s)
      BY <1>1, <2>1, <3>1 DEF Agrees, Uses
    <3> QED BY <1>1, <3>1, <3>2 DEF Agreed
  <2> QED BY <2>2, <2>3
<1> QED BY <1>1, <1>4, <1>5, <1>6 DEF ShownInv

\* UI sorts what the GUI sends by the thread that heeds it.
LEMMA ForwardKeepsShown == ASSUME ShownInv, Forward PROVE ShownInv'
<1> DEFINE m == Head(window.sock)
<1>1. /\ window.sock # <<>> /\ window' = [window EXCEPT !.sock = Tail(@)] /\ "ui" \in running
      /\ IF m.t \in {"mode", "filter"}
           THEN bbq' = Append(bbq, m) /\ ctrlq' = ctrlq
           ELSE ctrlq' = Append(ctrlq, m) /\ bbq' = bbq
      /\ UNCHANGED <<used, reports, stage, running, tx_ant>>
  BY DEF Forward, radio, server
<1>2. /\ WindowOk(window) /\ window \in Windows /\ window.sock \in Seq(Orders)
      /\ ctrlq \in Seq(Orders) /\ bbq \in Seq(Orders)
      /\ \A i \in 1 .. Len(ctrlq) : ctrlq[i].t \notin {"mode", "filter"}
      /\ \A i \in 1 .. Len(bbq) : bbq[i].t \in {"mode", "filter"}
  BY DEF ShownInv, ShownTypeOK, WindowOk, Windows
<1>3. m \in Orders /\ Tail(window.sock) \in Seq(Orders)
  BY <1>1, <1>2, HeadTailProperties
<1> HIDE DEF m
<1>4. /\ window' \in Windows /\ window'.items = window.items /\ window'.shown = window.shown
      /\ window'.sock = Tail(window.sock)
  BY <1>1, <1>2, <1>3 DEF Windows
<1>5. WindowOk(window') /\ (NothingYet' <=> NothingYet)
  BY <1>1, <1>2, <1>4 DEF WindowOk, NothingYet
<1>6. /\ bbq' \in Seq(Orders) /\ ctrlq' \in Seq(Orders)
      /\ \A i \in 1 .. Len(ctrlq') : ctrlq'[i].t \notin {"mode", "filter"}
      /\ \A i \in 1 .. Len(bbq') : bbq'[i].t \in {"mode", "filter"}
  <2>1. CASE m.t \in {"mode", "filter"}
    <3>1. /\ Append(bbq, m) \in Seq(Orders)
          /\ \A i \in 1 .. Len(Append(bbq, m)) : Append(bbq, m)[i].t \in {"mode", "filter"}
      BY <1>2, <1>3, <2>1, EachBehind
    <3> QED BY <1>1, <1>2, <2>1, <3>1
  <2>2. CASE m.t \notin {"mode", "filter"}
    <3>1. /\ Append(ctrlq, m) \in Seq(Orders)
          /\ \A i \in 1 .. Len(Append(ctrlq, m)) : Append(ctrlq, m)[i].t \notin {"mode", "filter"}
      BY <1>2, <1>3, <2>2, EachBehind
    <3> QED BY <1>1, <1>2, <2>2, <3>1
  <2> QED BY <2>1, <2>2
<1>7. ShownTypeOK'
  BY <1>1, <1>5, <1>6 DEF ShownInv, ShownTypeOK
<1>8. ASSUME NEW s \in Selectors PROVE Agreed(s)'
  <2>1. Agrees(window, Queue(s), used, tx_ant, s) /\ Queue(s) \in Seq(Orders)
    BY <1>2 DEF ShownInv, Agreed, Queue
  <2>2. Queue(s)' = Append(Queue(s), m) \/ (Queue(s)' = Queue(s) /\ m.t # s)
    BY <1>1 DEF Queue, Selectors
  <2> DEFINE r == Queue(s)'
  <2>3. r = Append(Queue(s), Head(window.sock)) \/ (r = Queue(s) /\ Head(window.sock).t # s)
    BY <2>2 DEF m
  <2> HIDE DEF r
  <2>4. Agrees(window', r, used, tx_ant, s)
    BY <1>1, <1>2, <1>4, <2>1, <2>3, ForwardAgrees
  <2> QED BY <1>1, <2>4 DEF Agreed, r
<1> QED BY <1>1, <1>5, <1>7, <1>8 DEF ShownInv

\* The GUI's own steps: its window follows, and at most a report is heard.
LEMMA GuiKeepsShown ==
  ASSUME ShownInv, WindowOk(window'), Follows(window, window'), AnswersOk(reports'),
         running # {"ui", "ctrl"} => NothingYet',
         UNCHANGED <<used, tx_ant, ctrlq, bbq, running, stage>>
  PROVE  ShownInv'
<1>1. ShownTypeOK'
  BY DEF ShownInv, ShownTypeOK, AnswersOk
<1>2. ASSUME NEW s \in Selectors PROVE Agreed(s)'
  <2>1. Agrees(window', Queue(s), used, tx_ant, s)
    BY WindowAgrees DEF ShownInv, Agreed
  <2>2. Queue(s)' = Queue(s)
    BY DEF Queue
  <2> QED BY <2>1, <2>2 DEF Agreed
<1> QED BY <1>1, <1>2 DEF ShownInv

\* A window without entries, whatever it has sent, leaves nothing to agree on.
LEMMA BlankKeepsShown ==
  ASSUME ShownInv, NEW sock \in Seq(Orders), window' = EmptyWindow(sock), reports' = reports,
         UNCHANGED <<used, tx_ant, ctrlq, bbq, running, stage>>
  PROVE  ShownInv'
<1>1. /\ window' \in Windows /\ window'.sock = sock
      /\ \A s \in Selectors : window'.items[s] = <<>> /\ window'.shown[s] = 0
  BY RadioSetupAssumption DEF EmptyWindow, Windows, RadioSetupAssumption
<1>2. WindowOk(window')
  <2>1. \A s \in Selectors : <<>> \in Seq(ToSet(Offers[s])) /\ 0 \in 0 .. Len(<<>>)
    OBVIOUS
  <2> QED BY <1>1, <2>1 DEF WindowOk
<1>3. Follows(window, window')
  BY <1>1 DEF Follows
<1>4. AnswersOk(reports') /\ (running # {"ui", "ctrl"} => NothingYet')
  BY <1>1 DEF ShownInv, ShownTypeOK, NothingYet, AnswersOk
<1> QED BY <1>2, <1>3, <1>4, GuiKeepsShown

LEMMA ComesAndGoesKeepsShown == ASSUME ShownInv, GuiStart \/ GuiVanish PROVE ShownInv'
<1>1. window.sock \in Seq(Orders)
  BY DEF ShownInv, ShownTypeOK, WindowOk, Windows
<1>2. CASE GuiStart
  <2>1. Append(window.sock, Msg("HWMB_REP", "")) \in Seq(Orders)
    <3>1. Msg("HWMB_REP", "") \in Orders
      BY MessagesAre
    <3> QED BY <1>1, <3>1, AppendProperties
  <2> QED BY <1>2, <2>1, BlankKeepsShown DEF GuiStart, radio, server, queues
<1>3. CASE GuiVanish
  <2>1. PICK n \in 0 .. Len(window.sock) : window' = EmptyWindow(SubSeq(window.sock, 1, n))
    BY <1>3 DEF GuiVanish
  <2>2. SubSeq(window.sock, 1, n) \in Seq(Orders)
    <3>1. Len(window.sock) \in Nat /\ \A i \in 1 .. n : i \in 1 .. Len(window.sock)
      BY <1>1, LenProperties
    <3>2. \A i \in 1 .. n : window.sock[i] \in Orders
      BY <1>1, <3>1, ElementOfSeq
    <3> QED BY <3>1, <3>2, SubSeqProperties
  <2> QED BY <1>3, <2>1, <2>2, BlankKeepsShown DEF GuiVanish, radio, server, queues
<1> QED BY <1>2, <1>3

\* The first report and those behind it.
LEMMA FirstReport ==
  ASSUME ShownInv, reports # <<>>
  PROVE  /\ running = {"ui", "ctrl"} /\ AnswersOk(Tail(reports)) /\ Head(reports) \in Answers
         /\ Head(reports).t = "complete" \/ Head(reports).v \in ToSet(Offers[Head(reports).t])
<1>1. /\ reports \in Seq(Answers)
      /\ \A i \in 1 .. Len(reports) :
           reports[i].t = "complete" \/ reports[i].v \in ToSet(Offers[reports[i].t])
  BY DEF ShownInv, ShownTypeOK
<1>2. /\ Head(reports) \in Answers /\ Tail(reports) \in Seq(Answers)
      /\ \A i \in 1 .. Len(Tail(reports)) : /\ i + 1 \in 1 .. Len(reports)
                                            /\ Tail(reports)[i] = reports[i + 1]
      /\ 1 \in 1 .. Len(reports) /\ Head(reports) = reports[1]
  BY <1>1, TakenFirst
<1>3. running = {"ui", "ctrl"}
  BY DEF ShownInv, NothingYet
<1> QED BY <1>1, <1>2, <1>3 DEF AnswersOk

LEMMA ReportsKeepShown == ASSUME ShownInv, DropReport \/ HearReport PROVE ShownInv'
<1>1. /\ reports # <<>> /\ reports' = Tail(reports)
      /\ UNCHANGED <<used, tx_ant, ctrlq, bbq, running, stage>>
  BY DEF DropReport, HearReport, radio, server
<1>2. /\ running = {"ui", "ctrl"} /\ AnswersOk(reports')
      /\ Head(reports).t = "complete" \/ Head(reports).v \in ToSet(Offers[Head(reports).t])
  BY <1>1, FirstReport
<1>3. WindowOk(window)
  BY DEF ShownInv, ShownTypeOK
<1>4. WindowOk(window') /\ Follows(window, window')
  <2>1. CASE DropReport
    BY <1>3, <2>1, FollowsItself DEF DropReport
  <2>2. CASE HearReport
    <3> DEFINE m == Head(reports)
    <3>1. \/ m.t \in {"rx_ant", "tx_ant"} /\ window' = AddItem(window, m.t, m.v)
          \/ m.t \in {"mode", "filter"} /\ window' = AddValue(window, m.t, m.v)
          \/ \E file \in Settings : window' = Restored(window, file)
      BY <2>2 DEF HearReport
    <3>2. m.t \in Selectors => m.v \in ToSet(Offers[m.t])
      BY <1>2 DEF Selectors
    <3> HIDE DEF m
    <3>3. m.t \in {"rx_ant", "tx_ant", "mode", "filter"} => m.t \in Selectors
      BY DEF Selectors
    <3> QED BY <1>3, <3>1, <3>2, <3>3, AddFollows, RestoredFollows
  <2> QED BY <2>1, <2>2
<1> QED BY <1>1, <1>2, <1>4, GuiKeepsShown

\* Only an answer makes an entry.
LEMMA EntriesStay ==
  ASSUME NEW w, WindowOk(w)
  PROVE  /\ \A s \in Selectors : \A i : Show(w, s, i).items = w.items
         /\ \A s \in Selectors : \A text : ShowText(w, s, text).items = w.items
         /\ \A on : Tick(w, on).items = w.items
         /\ \A b \in DOMAIN BandAnts : SelectBand(w, b).items = w.items
         /\ \A m : [w EXCEPT !.sock = Append(@, m)].items = w.items
<1>1. ASSUME NEW x, WindowOk(x), NEW s \in Selectors, NEW i PROVE Show(x, s, i).items = x.items
  <2> DEFINE j == IF i \in DOMAIN x.items[s] THEN i ELSE 0
             shows == [x EXCEPT !.shown[s] = j]
  <2>1. shows.items = x.items /\ DOMAIN shows = DOMAIN x /\ "items" \in DOMAIN x
    BY <1>1 DEF WindowOk, Windows
  <2>2. \/ Show(x, s, i) = x
        \/ Show(x, s, i) = [shows EXCEPT !.sock = Append(@, Msg(s, Text(shows, s)))]
    BY DEF Show
  <2> HIDE DEF shows
  <2> QED BY <2>1, <2>2
<1>2. ASSUME NEW x, WindowOk(x), NEW s \in Selectors, NEW text
      PROVE  ShowText(x, s, text).items = x.items
  <2> DEFINE i == SelectInSeq(x.items[s], LAMBDA e : e = text)
  <2>1. ShowText(x, s, text) = Show(x, s, i) \/ ShowText(x, s, text) = x
    BY DEF ShowText
  <2> HIDE DEF i
  <2> QED BY <1>1, <1>2, <2>1
<1>3. ASSUME NEW on PROVE Tick(w, on).items = w.items
  BY DEF Tick, WindowOk, Windows
<1>4. ASSUME NEW b \in DOMAIN BandAnts PROVE SelectBand(w, b).items = w.items
  <2> DEFINE x == [w EXCEPT !.band = b]
             y == ShowText(x, "rx_ant", BandAnts[b].rx_ant)
  <2>1. x.items = w.items /\ WindowOk(x) /\ {"rx_ant", "tx_ant"} \subseteq Selectors
    BY BandFollows DEF WindowOk, Windows, Selectors
  <2>2. SelectBand(w, b) = x \/ SelectBand(w, b) = ShowText(y, "tx_ant", BandAnts[b].tx_ant)
    BY DEF SelectBand
  <2> HIDE DEF x
  <2>3. WindowOk(y) /\ y.items = x.items
    BY <1>2, <2>1, ShowTextFollows
  <2> HIDE DEF y
  <2> QED BY <1>2, <2>1, <2>2, <2>3
<1>5. ASSUME NEW m PROVE [w EXCEPT !.sock = Append(@, m)].items = w.items
  BY DEF WindowOk, Windows
<1> QED BY <1>1, <1>2, <1>3, <1>4, <1>5

\* Before both threads run there is nothing to click on.
LEMMA OperatorKeepsShown ==
  ASSUME ShownInv, Click \/ \E on \in BOOLEAN : Ptt(on) PROVE ShownInv'
<1>1. /\ UNCHANGED <<used, tx_ant, ctrlq, bbq, reports, running, stage>>
  BY DEF Click, Ptt, radio, server, queues
<1>2. WindowOk(window) /\ AnswersOk(reports')
  BY <1>1 DEF ShownInv, ShownTypeOK, AnswersOk
<1>3. /\ WindowOk(window') /\ Follows(window, window')
  <2>1. CASE Click
    <3>1. CASE \E s \in DOMAIN Offers : \E i \in DOMAIN window.items[s] :
                 window' = Show(window, s, i)
      BY <1>2, <3>1, ShowFollows, RadioSetupAssumption DEF RadioSetupAssumption
    <3>2. CASE \E on \in BOOLEAN : window' = Tick(window, on)
      BY <1>2, <3>2, TickFollows
    <3>3. CASE \E b \in DOMAIN BandAnts : window' = SelectBand(window, b)
      BY <1>2, <3>3, SelectBandFollows
    <3> QED BY <2>1, <3>1, <3>2, <3>3 DEF Click
  <2>2. CASE \E on \in BOOLEAN : Ptt(on)
    <3>1. PICK on \in BOOLEAN :
             window' = [window EXCEPT !.sock = Append(@, Msg("TX_STATE", on))]
      BY <2>2 DEF Ptt
    <3> DEFINE m == Msg("TX_STATE", on)
    <3>2. m \in Orders /\ m.t \notin Selectors
      BY MessagesAre
    <3>3. window' = [window EXCEPT !.sock = Append(@, m)]
      BY <3>1
    <3> HIDE DEF m
    <3> QED BY <1>2, <3>2, <3>3, SendFollows
  <2> QED BY <2>1, <2>2
<1>4. running # {"ui", "ctrl"} => NothingYet'
  <2> SUFFICES ASSUME NothingYet PROVE NothingYet'
    BY DEF ShownInv
  <2>1. window'.items = window.items
    <3>1. CASE \E s \in Selectors : \E i \in DOMAIN window.items[s] : window' = Show(window, s, i)
      BY <1>2, <3>1, EntriesStay
    <3>2. CASE \E on \in BOOLEAN : window' = Tick(window, on)
      BY <1>2, <3>2, EntriesStay
    <3>3. CASE \E b \in DOMAIN BandAnts : window' = SelectBand(window, b)
      BY <1>2, <3>3, EntriesStay
    <3>4. CASE \E on \in BOOLEAN : Ptt(on)
      BY <1>2, <3>4, EntriesStay DEF Ptt
    <3> QED BY <3>1, <3>2, <3>3, <3>4, RadioSetupAssumption DEF Click, RadioSetupAssumption
  <2>2. \A s \in Selectors : window'.items[s] = <<>>
    BY <2>1 DEF NothingYet
  <2>3. ASSUME NEW s \in Selectors PROVE window'.shown[s] = 0
    BY <1>3, <2>2 DEF WindowOk
  <2> QED BY <1>1, <2>2, <2>3 DEF NothingYet
<1> QED BY <1>1, <1>2, <1>3, <1>4, GuiKeepsShown

\* The killed server's successor has nothing in its queues.
LEMMA KillKeepsShown == ASSUME ShownInv, Kill PROVE ShownInv'
<1>1. /\ stage' = "down" /\ running' = {} /\ ctrlq' = <<>> /\ bbq' = <<>> /\ reports' = <<>>
      /\ window' = EmptyWindow(<<>>) /\ used' = used
  BY DEF Kill, radio
<1>2. /\ window' \in Windows
      /\ \A s \in Selectors : window'.items[s] = <<>> /\ window'.shown[s] = 0
  BY <1>1, RadioSetupAssumption DEF EmptyWindow, Windows, RadioSetupAssumption
<1>3. WindowOk(window') /\ NothingYet'
  <2>1. \A s \in Selectors : <<>> \in Seq(ToSet(Offers[s])) /\ 0 \in 0 .. Len(<<>>)
    OBVIOUS
  <2> QED BY <1>1, <1>2, <2>1 DEF WindowOk, NothingYet
<1>4. ShownTypeOK'
  <2>1. /\ <<>> \in Seq(Orders) /\ <<>> \in Seq(Answers) /\ 1 .. Len(<<>>) = {}
    OBVIOUS
  <2> QED BY <1>1, <1>3, <2>1 DEF ShownInv, ShownTypeOK
<1>5. \A s \in Selectors : Agreed(s)'
  BY <1>2, BlankAgrees DEF Agreed
<1>6. NoneOf(<<>>, "HWMB_REP")
  BY DEF NoneOf
<1> QED BY <1>1, <1>3, <1>4, <1>5, <1>6 DEF ShownInv

LEMMA ConstructorKeepsShown ==
  ASSUME ShownInv, MakeUsrp \/ InitControlGPIO \/ MakeTRControl \/ Built PROVE ShownInv'
<1>1. stage # "built"
  BY DEF MakeUsrp, InitControlGPIO, MakeTRControl, Built, Constructor
<1>2. running = {} /\ UNCHANGED <<window, ctrlq, bbq, reports, running>>
  BY <1>1 DEF ShownInv, MakeUsrp, InitControlGPIO, MakeTRControl, Built, queues
<1>3. DOMAIN used' = DOMAIN used
  BY DEF MakeUsrp, InitControlGPIO, MakeTRControl, Built
<1> QED BY <1>2, <1>3, QuietKeepsShown

LEMMA ShownInvInitially == ASSUME RsInit PROVE ShownInv
<1>1. /\ stage = "down" /\ running = {} /\ ctrlq = <<>> /\ bbq = <<>> /\ reports = <<>>
      /\ window = EmptyWindow(<<>>)
      /\ DOMAIN used = DOMAIN Offers \cup {"clock"}
  BY DEF RsInit
<1>2. /\ window \in Windows
      /\ \A s \in Selectors : window.items[s] = <<>> /\ window.shown[s] = 0
  BY <1>1, RadioSetupAssumption DEF EmptyWindow, Windows, RadioSetupAssumption
<1>3. WindowOk(window) /\ NothingYet
  <2>1. \A s \in Selectors : <<>> \in Seq(ToSet(Offers[s])) /\ 0 \in 0 .. Len(<<>>)
    OBVIOUS
  <2> QED BY <1>1, <1>2, <2>1 DEF WindowOk, NothingYet
<1>4. DOMAIN used = Selectors \cup {"clock"}
  BY <1>1, RadioSetupAssumption DEF RadioSetupAssumption
<1>5. ShownTypeOK
  <2>1. /\ <<>> \in Seq(Orders) /\ <<>> \in Seq(Answers) /\ 1 .. Len(<<>>) = {}
    OBVIOUS
  <2> QED BY <1>1, <1>3, <1>4, <2>1 DEF ShownTypeOK
<1>6. \A s \in Selectors : Agreed(s)
  BY <1>2, BlankAgrees DEF Agreed
<1>7. NoneOf(<<>>, "HWMB_REP")
  BY DEF NoneOf
<1> QED BY <1>1, <1>3, <1>5, <1>6, <1>7 DEF ShownInv

\* The inductive invariant of window, socket, queues and radio: the last command
\* about a selector on its way says what the selector shows.
THEOREM ShownInvariant == RsSpec => []ShownInv
<1>1. RsInit => ShownInv
  BY ShownInvInitially
<1>2. ShownInv /\ [RsNext]_rsVars => ShownInv'
  <2> SUFFICES ASSUME ShownInv, [RsNext]_rsVars PROVE ShownInv'
    OBVIOUS
  <2>1. CASE Boot
    BY <2>1, ConstructorKeepsShown, BeginKeepsShown DEF Boot
  <2>2. CASE Kill
    BY <2>2, KillKeepsShown
  <2>3. CASE Serve
    BY <2>3, ForwardKeepsShown, BasebandKeepsShown, SetsKeepShown, ReportKeepsShown DEF Serve
  <2>4. CASE GuiStart \/ GuiVanish
    BY <2>4, ComesAndGoesKeepsShown
  <2>5. CASE DropReport \/ HearReport
    BY <2>5, ReportsKeepShown
  <2>6. CASE Click \/ \E on \in BOOLEAN : Ptt(on)
    BY <2>6, OperatorKeepsShown
  <2>7. CASE UNCHANGED rsVars
    BY <2>7, QuietKeepsShown DEF rsVars, radio, server, queues, ShownInv
  <2> QED BY <2>1, <2>2, <2>3, <2>4, <2>5, <2>6, <2>7 DEF RsNext
<1> QED BY <1>1, <1>2, PTL DEF RsSpec

\* At rest every selector that shows something shows what the radio uses.
THEOREM WhatIsShownIsUsed == RsSpec => []ShownIsUsed
<1>1. ShownInv => ShownIsUsed
  <2> SUFFICES ASSUME ShownInv, AtRest, NEW s \in Selectors, window.shown[s] # 0
               PROVE  used[s] = Text(window, s)
    BY RadioSetupAssumption DEF RadioSetupAssumption, ShownIsUsed
  <2>1. window.sock = <<>> /\ Queue(s) = <<>> /\ 1 .. Len(<<>>) = {}
    BY DEF AtRest, Queue
  <2>2. Agrees(window, Queue(s), used, tx_ant, s)
    BY DEF ShownInv, Agreed
  <2>3. \A v : ~ LastIs(<<>>, s, v)
    BY <2>1 DEF LastIs
  <2> QED BY <2>1, <2>2, <2>3 DEF Agrees, Uses
<1> QED BY <1>1, ShownInvariant, PTL
=============================================================================
