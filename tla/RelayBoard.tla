----------------------------- MODULE RelayBoard -----------------------------
(***************************************************************************)
(* The external T/R relay of an N2xx: N200Control in USRPCtrl's thread, a  *)
(* serial line, and the Arduino that switches the relays.  A command is a  *)
(* palindrome, so that noise on the line moves nothing.  The Arduino       *)
(* answers OK or BAD; N200Control waits for 13 bytes and does not look at  *)
(* them.  The answer BAD is a byte longer than the other, and the byte may *)
(* wait for the next read.  A board that does not answer is given up.      *)
(***************************************************************************)
EXTENDS Integers, Sequences

CONSTANTS MaxSet,    \* bound: setTXOn and setTXOff calls
          MaxFault   \* bound: characters lost or garbled on the line

\* What a character may be garbled into.  Of two garbled characters no two are
\* alike: two alike, in mirrored places, would deceive the palindrome.
Noise == <<"?", "!", "~">>

ASSUME RelayBoardAssumption == MaxSet \in Nat /\ MaxFault \in 0 .. Len(Noise)

VARIABLES
  skt,      \* N200Control: the board has not been given up
  waiting,  \* N200Control: in getRaw
  want,     \* the position asked for last
  told,     \* what setTXOn or setTXOff returned last
  surplus,  \* a byte of an earlier answer is still to be read
  line,     \* characters on their way to the board
  answer,   \* "none", "OK" or "BAD", on its way back
  cmdbuf,   \* the board: what it has of a line; bidx is its length
  relay,    \* the board: the T/R relay is in transmit (its pin is LOW)
  stray,    \* the board: another relay has been moved
  n_set, n_fault

host == <<skt, waiting, want, told, surplus>>
board == <<cmdbuf, relay, stray>>
boardVars == <<host, line, answer, board, n_set, n_fault>>

Cmd(on) == IF on THEN <<"O", "N", "0", "0", "N", "O", "CR">>
           ELSE <<"S", "T", "0", "0", "T", "S", "CR">>

-----------------------------------------------------------------------------
(* N200Control.                                                            *)

SetTX(on) ==
  /\ ~waiting /\ n_set < MaxSet /\ n_set' = n_set + 1
  /\ want' = on
  /\ IF skt THEN /\ line' = line \o Cmd(on) /\ waiting' = TRUE
                 /\ UNCHANGED told
            ELSE told' = FALSE /\ UNCHANGED <<line, waiting>>
  /\ UNCHANGED <<skt, surplus, answer, board, n_fault>>

\* Thirteen bytes have come, whatever they say.  Of BAD one may be left, and then
\* for good: each read from now on starts with the end of the answer before.
ReadAnswer ==
  /\ waiting /\ answer # "none"
  /\ waiting' = FALSE /\ told' = TRUE /\ answer' = "none"
  /\ surplus' \in {surplus} \cup {answer = "BAD"}
  /\ UNCHANGED <<skt, want, line, board, n_set, n_fault>>

\* Three timeouts, longer than any answer takes.  The byte left over passes for
\* the beginning of an answer, and getRaw returns instead of throwing.
TimeOut ==
  /\ waiting /\ line = <<>> /\ answer = "none"
  /\ waiting' = FALSE /\ surplus' = FALSE
  /\ skt' = surplus /\ told' = surplus
  /\ UNCHANGED <<want, line, answer, board, n_set, n_fault>>

-----------------------------------------------------------------------------
(* The line.                                                               *)

Fault == /\ line # <<>> /\ n_fault < MaxFault /\ n_fault' = n_fault + 1
         /\ UNCHANGED <<host, answer, board, n_set>>

Lose == Fault /\ line' = Tail(line)
Garble == Fault /\ line' = <<Noise[n_fault']>> \o Tail(line)

-----------------------------------------------------------------------------
(* The Arduino, a character at a time.                                     *)

\* Slip: the command is known by its beginning.
BeginsWell(b) == Len(b) = 6
Palindrome(b) == Len(b) = 6 /\ \A i \in 1 .. 3 : b[i] = b[7 - i]

Means(b) == IF SubSeq(b, 1, 2) = <<"O", "N">> THEN {TRUE}
            ELSE IF SubSeq(b, 1, 2) = <<"S", "T">> THEN {FALSE} ELSE {}

\* A seventh character goes past the end of the buffer, and the count restarts.
Collect(c) ==
  /\ cmdbuf' = IF Len(cmdbuf) = 6 THEN <<>> ELSE Append(cmdbuf, c)
  /\ UNCHANGED <<relay, stray, answer>>

\* The third character names the pin.
Obey ==
  /\ cmdbuf' = <<>>
  /\ IF Palindrome(cmdbuf) /\ Means(cmdbuf) # {}
       THEN /\ answer' = "OK"
            /\ IF cmdbuf[3] = "0"
                 THEN relay' \in Means(cmdbuf) /\ UNCHANGED stray
                 ELSE stray' = TRUE /\ UNCHANGED relay
       ELSE answer' = "BAD" /\ UNCHANGED <<relay, stray>>

BoardLoop ==
  /\ line # <<>> /\ line' = Tail(line)
  /\ IF Head(line) = "CR" THEN Obey ELSE Collect(Head(line))
  /\ UNCHANGED <<host, n_set, n_fault>>

-----------------------------------------------------------------------------
\* The constructor's setTXOff has been answered.
BoardInit ==
  /\ skt = TRUE /\ waiting = FALSE /\ want = FALSE /\ told = TRUE
  /\ surplus = FALSE /\ line = <<>> /\ answer = "none"
  /\ cmdbuf = <<>> /\ relay = FALSE /\ stray = FALSE
  /\ n_set = 0 /\ n_fault = 0

BoardNext == \/ \E on \in BOOLEAN : SetTX(on)
             \/ ReadAnswer \/ TimeOut
             \/ Lose \/ Garble
             \/ BoardLoop

-----------------------------------------------------------------------------
\* "to prevent crazy action on the relays when a random stream of serial junk is
\* sent" (N200ArdProMini_TR.ino): with characters lost or garbled, and
\* what they leave in the board's buffer, the relay moves only to the position
\* asked for last, and no other relay moves at all.
MovesAsTold ==
  [][(relay' # relay => relay' = want) /\ stray' = stray]_<<relay, stray>>
=============================================================================
