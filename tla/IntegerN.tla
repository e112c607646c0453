------------------------------ MODULE IntegerN ------------------------------
(***************************************************************************)
(* Where the local oscillators are put.  In integer-N mode a front end's   *)
(* oscillator is a multiple of one of three steps, which are also where    *)
(* its spurs are, and the rest of the way is left to the DSP chain.  So    *)
(* the step is chosen to keep oscillator and spurs away from a frequency:  *)
(* the receiver's from its own target, the transmitter's from what the     *)
(* receiver listens to.                                                    *)
(*                                                                         *)
(* Frequencies are in units of 1/30 MHz, which makes all steps integers.   *)
(***************************************************************************)
EXTENDS Integers, FiniteSetsExt

CONSTANTS RxWishes, TxWishes,  \* frequencies asked for
          RxRange, TxRange,    \* what the front ends reach: <<low, high>>
          MaxTunes             \* bound

MHz == 30
Step == <<375, 300, 500>>      \* 12.5, 10 and 50/3 MHz
RxGrid == 3                    \* 100 kHz

ASSUME IntegerNAssumption ==
  /\ RxWishes \cup TxWishes \subseteq Int
  /\ RxRange \in Int \X Int /\ RxRange[1] <= RxRange[2]
  /\ TxRange \in Int \X Int /\ TxRange[1] <= TxRange[2]
  /\ MaxTunes \in Nat

VARIABLES
  supports_IntN_Mode,
  last_rx_req_freq,
  rx, tx,     \* what the front ends were asked for last; avoid is for the record
  n_tunes

inVars == <<supports_IntN_Mode, last_rx_req_freq, rx, tx, n_tunes>>

\* A request: manual with the oscillator at rf, a multiple of step, or automatic.
Automatic(target, integer) ==
  [manual |-> FALSE, target |-> target, rf |-> target, step |-> 0,
   integer |-> integer, avoid |-> 0]
Manual(target, avoid, rf, step) ==
  [manual |-> TRUE, target |-> target, rf |-> rf, step |-> step,
   integer |-> TRUE, avoid |-> avoid]

-----------------------------------------------------------------------------
(* applyTargetFreqCorrection.                                              *)

Nearest(f, step) == (2 * f + step) \div (2 * step)
OnStep(f, step) == step * Nearest(f, step)
Distance(f, g) == IF f > g THEN f - g ELSE g - f

\* The steps that put the oscillator far enough away.
GoodSteps(target, avoid) ==
  {i \in 1 .. 3 : Distance(OnStep(target, Step[i]), avoid) > MHz}

\* Slip: the best of the bad points is taken as it is.
GrudginglyAsIs(target, avoid) == OnStep(target, Step[1])

\* None does: the nearest point of the first step, or if that is too near its
\* neighbour on the other side.
Grudgingly(target, avoid) ==
  LET rf == OnStep(target, Step[1])
  IN  IF Distance(rf, avoid) >= MHz THEN rf
      ELSE IF rf > avoid THEN rf - Step[1] ELSE rf + Step[1]

ApplyTargetFreqCorrection(target, avoid) ==
  IF target < 10 * MHz THEN Automatic(target, FALSE)
  ELSE IF GoodSteps(target, avoid) = {}
    THEN Manual(target, avoid, Grudgingly(target, avoid), Step[1])
    ELSE LET step == Step[Min(GoodSteps(target, avoid))]
         IN  Manual(target, avoid, OnStep(target, step), step)

-----------------------------------------------------------------------------
(* set1stLOFreq.                                                           *)

InRange(f, range) ==
  IF f < range[1] THEN range[1] ELSE IF f > range[2] THEN range[2] ELSE f

\* The grid point between one and two steps below.
BelowOnGrid(f) ==
  LET point == RxGrid * (f \div RxGrid)
  IN  IF f - point < RxGrid THEN point - RxGrid ELSE point

RxRequest(f) ==
  LET target == BelowOnGrid(InRange(f, RxRange))
  IN  IF supports_IntN_Mode THEN ApplyTargetFreqCorrection(target, target)
      ELSE Automatic(target, FALSE)

\* On the short waves the step is not chosen, because the oscillator is heard.
TxRequest(f) ==
  LET target == InRange(f, TxRange)
  IN  IF ~supports_IntN_Mode THEN Automatic(target, FALSE)
      ELSE IF target > 30 * MHz THEN ApplyTargetFreqCorrection(target, last_rx_req_freq)
      ELSE Automatic(target, TRUE)

Tune == n_tunes < MaxTunes /\ n_tunes' = n_tunes + 1 /\ UNCHANGED supports_IntN_Mode

\* RX_RETUNE_FREQ and RX_FE_FREQ, of which set1stLOFreq moves the front end.
TuneRX(f) ==
  /\ Tune
  /\ last_rx_req_freq' = f
  /\ rx' = RxRequest(f)
  /\ UNCHANGED tx

\* RX_RETUNE_FREQ within reach of the third LO.
TuneRXFine(f) ==
  /\ Tune
  /\ f - rx.target \in RxGrid + 1 .. 2 * RxGrid - 1
  /\ last_rx_req_freq' = f
  /\ UNCHANGED <<rx, tx>>

\* TX_RETUNE_FREQ, TX_FE_FREQ and TX_STATE.
TuneTX(f) ==
  /\ Tune
  /\ tx' = TxRequest(f)
  /\ UNCHANGED <<last_rx_req_freq, rx>>

\* testIntNMode; one of the two is forced (Params).
TestIntNMode(force_int_N, force_frac_N) ==
  /\ force_int_N \/ force_frac_N
  /\ supports_IntN_Mode = force_int_N

InInit ==
  /\ \E force_int_N, force_frac_N \in BOOLEAN : TestIntNMode(force_int_N, force_frac_N)
  /\ last_rx_req_freq = 0 /\ n_tunes = 0
  /\ rx = Automatic(0, FALSE) /\ tx = Automatic(0, FALSE)

InNext == \/ \E f \in RxWishes : TuneRX(f) \/ TuneRXFine(f)
          \/ \E f \in TxWishes : TuneTX(f)

InSpec == InInit /\ [][InNext]_inVars

-----------------------------------------------------------------------------
\* A chosen oscillator is a multiple of its step, at least a megahertz from the
\* frequency it is to avoid ("the frequency that we must avoid by at least 1MHz",
\* USRPCtrl.hxx), on either side of it and at the multiples of 50 MHz that all
\* steps share; and never more than one step and a half from the target, which
\* leaves the DSP chain something it can do.
SpursAvoided ==
  \A request \in {rx, tx} :
    request.manual =>
      /\ request.rf % request.step = 0
      /\ Distance(request.rf, request.avoid) >= MHz
      /\ 2 * Distance(request.rf, request.target) <= 3 * request.step
=============================================================================
