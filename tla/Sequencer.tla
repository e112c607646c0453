----------------------------- MODULE Sequencer ------------------------------
(***************************************************************************)
(* The sequencing Arduinos, which follow a push-to-talk line, here the one *)
(* the relay of RelayBoard grounds: first the antenna switch, then the     *)
(* transverter, then the amplifier, and the other way round.  A step of    *)
(* the sequence waits out a delay, and the line is not looked at until all *)
(* are done.  The smaller board (TRSequencerDigiSpark) then sleeps until   *)
(* the line changes.                                                       *)
(***************************************************************************)
EXTENDS RelayBoard

VARIABLES sleeps,  \* the board is the one that sleeps
          at,   \* where in its loop the sequencer is
          saw,  \* the level at its first look, TRUE for transmit
          tr_switch, tvrt_ptt, amp_power  \* outputs, TRUE when activated

outputs == <<tr_switch, tvrt_ptt, amp_power>>
seqVars == <<sleeps, at, saw, outputs>>
vars == <<boardVars, seqVars>>

\* Goes on from one place in the loop to another.
From(here, next) == at = here /\ at' = next

EndOfLoop == IF sleeps THEN "asleep" ELSE "look"

Look == From("look", "debounce") /\ saw' = relay /\ UNCHANGED outputs

\* The second look, DEBOUNCE_DELAY later; a level that was not held starts nothing.
Debounce ==
  /\ at = "debounce"
  /\ at' = IF relay = saw THEN IF saw THEN "on1" ELSE "off1" ELSE EndOfLoop
  /\ UNCHANGED <<saw, outputs>>

\* Slip: the antenna is switched back before the transverter is told.
SwitchBackFirst ==
  /\ \/ From("off1", "off2") /\ amp_power' = FALSE /\ UNCHANGED <<tr_switch, tvrt_ptt>>
     \/ From("off2", "off3") /\ tr_switch' = FALSE /\ UNCHANGED <<tvrt_ptt, amp_power>>
     \/ From("off3", "rest") /\ tvrt_ptt' = FALSE /\ UNCHANGED <<tr_switch, amp_power>>
  /\ UNCHANGED saw

Activate ==
  /\ \/ From("on1", "on2") /\ tr_switch' = TRUE /\ UNCHANGED <<tvrt_ptt, amp_power>>
     \/ From("on2", "on3") /\ tvrt_ptt' = TRUE /\ UNCHANGED <<tr_switch, amp_power>>
     \/ From("on3", "rest") /\ amp_power' = TRUE /\ UNCHANGED <<tr_switch, tvrt_ptt>>
  /\ UNCHANGED saw

Release ==
  /\ \/ From("off1", "off2") /\ amp_power' = FALSE /\ UNCHANGED <<tr_switch, tvrt_ptt>>
     \/ From("off2", "off3") /\ tvrt_ptt' = FALSE /\ UNCHANGED <<tr_switch, amp_power>>
     \/ From("off3", "rest") /\ tr_switch' = FALSE /\ UNCHANGED <<tvrt_ptt, amp_power>>
  /\ UNCHANGED saw

\* AMP2REPOLL.
Repoll == From("rest", EndOfLoop) /\ UNCHANGED <<saw, outputs>>

Loop == /\ Look \/ Debounce \/ Activate \/ Release \/ Repoll
        /\ UNCHANGED <<sleeps, boardVars>>

\* A change of the line, which wakes a sleeper and is lost on all others.
Wakes == at = "asleep" /\ relay' # relay
Board == /\ BoardNext /\ at' = (IF Wakes THEN "look" ELSE at)
         /\ UNCHANGED <<sleeps, saw, outputs>>

Init == /\ BoardInit
        /\ sleeps \in BOOLEAN /\ at = EndOfLoop /\ saw = FALSE
        /\ tr_switch = FALSE /\ tvrt_ptt = FALSE /\ amp_power = FALSE

Next == Board \/ Loop

Spec == Init /\ [][Next]_vars

-----------------------------------------------------------------------------
\* The amplifier has power only into an antenna switch and a transverter that are
\* in transmit, and so has the transverter, however the line comes and goes while
\* a sequence is under way.
AmplifierLast == (amp_power => tvrt_ptt) /\ (tvrt_ptt => tr_switch)
=============================================================================
