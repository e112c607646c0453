---------------------------- MODULE TuningProofs ----------------------------
(***************************************************************************)
(* That the oscillators agree when all is quiet, for every grid, range and *)
(* frequency asked for.  Three threads each hold a part of the truth, so   *)
(* the invariant says what each will hold when it has taken what is in its *)
(* queue (TellsLast), and who still has to act while they differ.          *)
(***************************************************************************)
EXTENDS Tuning, TLAPS

Commands == [t : {"RX_FE_FREQ", "TX_FE_FREQ", "TX_STATE", "RX_RETUNE_FREQ",
                  "TX_RETUNE_FREQ", "LO_CHECK"}, f : Int]
Notes == [t : {"RX_FE_FREQ", "LO_OFFSET"}, f : Int]

TuningTypeOK ==
  /\ cmds \in Seq(Commands) /\ lo3q \in Seq(Int) /\ uiq \in Seq(Notes)
  /\ pc \in {"ready", "r", "t"}
  /\ last_rx_req_freq \in Int /\ last_rx_tune \in Int
  /\ tx_freq \in Int /\ tx_freq_rxmode_offset \in Int /\ tx_on \in BOOLEAN
  /\ hw \in [r : Int, t : Int, locked : SUBSET {"r", "t"}]
  /\ lo3 \in Int /\ baseband_rx_freq \in Int /\ lo_check_mode \in BOOLEAN
  /\ wanted \in SUBSET Int /\ requests \in Int

Has(q, t) == \E i \in 1 .. Len(q) : q[i].t = t

\* The last message of kind t in q is about f.
TellsLast(q, t, f) ==
  \E i \in 1 .. Len(q) : /\ q[i].t = t /\ q[i].f = f
                         /\ \A j \in i + 1 .. Len(q) : q[j].t # t

\* USRPRX's oscillator and UI's idea of the front end, once the queues are empty.
WillBeLo3(x) == IF lo3q = <<>> THEN lo3 = x ELSE lo3q[Len(lo3q)] = x
WillBelieve(x) == TellsLast(uiq, "RX_FE_FREQ", x)
                  \/ (~Has(uiq, "RX_FE_FREQ") /\ baseband_rx_freq = x)

\* The command that puts the receiver on its first frequency comes before any that
\* could move it again.
StartFirst(q) ==
  \A i, j \in 1 .. Len(q) : q[j].t = "RX_FE_FREQ" /\ i < j => q[i].t = "TX_STATE"

Started == ~Has(cmds, "RX_FE_FREQ")
Retuning == pc = "r" /\ cmds[1].t # "LO_CHECK"

\* What USRPCtrl remembers is the coarse step to the frequency last requested.
\* It is in the middle of a command while it waits for a lock.
RxSideInv ==
  /\ pc = "r" =>
       /\ cmds # <<>> /\ cmds[1].t \in {"RX_RETUNE_FREQ", "RX_FE_FREQ", "LO_CHECK"}
       /\ hw.r = RxTarget(last_rx_req_freq)
       /\ cmds[1].t # "LO_CHECK" => cmds[1].f = last_rx_req_freq
       /\ cmds[1].t = "LO_CHECK" => Started
  /\ Started /\ ~Retuning => last_rx_tune = RxTarget(last_rx_req_freq)

\* The front end is elsewhere only while an LO check is not over, and somebody
\* still has to end it.
HasEnd(q) == \E i \in 1 .. Len(q) : q[i].t = "LO_CHECK" /\ q[i].f = 0
CheckEnds ==
  pc # "r" /\ hw.r # last_rx_tune =>
    \/ Has(uiq, "LO_OFFSET") \/ lo_check_mode
    \/ HasEnd(cmds)

UIInv == Started => WillBelieve(last_rx_tune)

WantedInv ==
  \A f \in wanted :
    \/ TellsLast(cmds, "RX_RETUNE_FREQ", f)
    \/ /\ Started /\ ~Has(cmds, "RX_RETUNE_FREQ")
       /\ last_rx_req_freq = f /\ WillBeLo3(f - last_rx_tune)

TxTarget(f) == Clamp(f + tx_freq_rxmode_offset, TxLow, TxHigh)
Parked == tx_freq_rxmode_offset = IF tx_on THEN 0 ELSE Park

TxSideInv ==
  /\ pc = "t" =>
       /\ cmds # <<>> /\ cmds[1].t \in {"TX_RETUNE_FREQ", "TX_FE_FREQ", "TX_STATE"}
       /\ cmds[1].t = "TX_STATE" => Parked /\ hw.t = TxTarget(tx_freq)
       /\ cmds[1].t # "TX_STATE" => hw.t = TxTarget(cmds[1].f)
  /\ Has(cmds, "TX_STATE") \/ (Parked /\ (pc # "t" => hw.t = TxTarget(tx_freq)))

TuningInv == /\ TuningTypeOK /\ StartFirst(cmds) /\ RxSideInv /\ CheckEnds
             /\ UIInv /\ WantedInv /\ TxSideInv

-----------------------------------------------------------------------------
(* Queues of messages.                                                     *)

LEMMA AppendIs ==
  ASSUME NEW S, NEW q \in Seq(S), NEW m \in S
  PROVE  /\ Len(q) \in Nat /\ Append(q, m) \in Seq(S) /\ Append(q, m) # <<>>
         /\ Len(Append(q, m)) = Len(q) + 1 /\ Append(q, m)[Len(q) + 1] = m
         /\ \A i \in 1 .. Len(q) : Append(q, m)[i] = q[i]
OBVIOUS

LEMMA TailIs ==
  ASSUME NEW S, NEW q \in Seq(S), q # <<>>
  PROVE  /\ Len(q) \in Nat \ {0} /\ Tail(q) \in Seq(S) /\ q[1] \in S /\ Head(q) = q[1]
         /\ Len(Tail(q)) = Len(q) - 1
         /\ \A i \in 1 .. Len(q) - 1 : Tail(q)[i] = q[i + 1]
OBVIOUS

LEMMA AppendTells ==
  ASSUME NEW S, NEW q \in Seq(S), NEW m \in S
  PROVE  /\ \A t : Has(Append(q, m), t) <=> Has(q, t) \/ m.t = t
         /\ TellsLast(Append(q, m), m.t, m.f)
         /\ \A t, f : m.t # t /\ TellsLast(q, t, f) => TellsLast(Append(q, m), t, f)
         /\ HasEnd(Append(q, m)) <=> HasEnd(q) \/ (m.t = "LO_CHECK" /\ m.f = 0)
         /\ StartFirst(q) /\ m.t # "RX_FE_FREQ" => StartFirst(Append(q, m))
         /\ q # <<>> => Append(q, m)[1] = q[1]
<1> DEFINE a == Append(q, m)
<1>1. /\ Len(q) \in Nat /\ Len(a) = Len(q) + 1 /\ a[Len(q) + 1] = m
      /\ \A i \in 1 .. Len(q) : a[i] = q[i]
      /\ q # <<>> => 1 \in 1 .. Len(q)
  BY AppendIs
<1> HIDE DEF a
<1>2. \A t : Has(a, t) <=> Has(q, t) \/ m.t = t
  BY <1>1 DEF Has
<1>3. TellsLast(a, m.t, m.f)
  BY <1>1 DEF TellsLast
<1>4. \A t, f : m.t # t /\ TellsLast(q, t, f) => TellsLast(a, t, f)
  BY <1>1 DEF TellsLast
<1>5. HasEnd(a) <=> HasEnd(q) \/ (m.t = "LO_CHECK" /\ m.f = 0)
  BY <1>1 DEF HasEnd
<1>6. StartFirst(q) /\ m.t # "RX_FE_FREQ" => StartFirst(a)
  BY <1>1 DEF StartFirst
<1> QED BY <1>1, <1>2, <1>3, <1>4, <1>5, <1>6 DEF a

LEMMA TailTells ==
  ASSUME NEW S, NEW q \in Seq(S), q # <<>>
  PROVE  /\ \A t : Has(q, t) <=> Has(Tail(q), t) \/ q[1].t = t
         /\ \A t, f : TellsLast(q, t, f) =>
              TellsLast(Tail(q), t, f)
              \/ (~Has(Tail(q), t) /\ q[1].t = t /\ q[1].f = f)
         /\ \A t, f : TellsLast(q, t, f) => Has(q, t)
         /\ HasEnd(q) <=> HasEnd(Tail(q)) \/ (q[1].t = "LO_CHECK" /\ q[1].f = 0)
         /\ StartFirst(q) => StartFirst(Tail(q))
         /\ StartFirst(q) /\ q[1].t # "TX_STATE" => ~Has(Tail(q), "RX_FE_FREQ")
<1> DEFINE a == Tail(q)
<1>1. /\ Len(q) \in Nat \ {0} /\ Len(a) = Len(q) - 1
      /\ \A i \in 1 .. Len(q) - 1 : a[i] = q[i + 1]
  BY TailIs
<1> HIDE DEF a
<1>2. \A t : Has(q, t) <=> Has(a, t) \/ q[1].t = t
  <2> TAKE t
  <2>1. Has(a, t) => Has(q, t)
    BY <1>1 DEF Has
  <2>2. q[1].t = t => Has(q, t)
    BY <1>1 DEF Has
  <2>3. ASSUME NEW i \in 1 .. Len(q), q[i].t = t, i # 1 PROVE Has(a, t)
    <3>1. i - 1 \in 1 .. Len(a) /\ a[i - 1].t = t
      BY <1>1, <2>3
    <3> QED BY <3>1 DEF Has
  <2> QED BY <2>1, <2>2, <2>3 DEF Has
<1>3. ASSUME NEW t, NEW f, NEW i \in 1 .. Len(q), q[i].t = t, q[i].f = f,
             \A j \in i + 1 .. Len(q) : q[j].t # t
      PROVE  TellsLast(a, t, f) \/ (~Has(a, t) /\ q[1].t = t /\ q[1].f = f)
  <2>1. CASE i = 1
    BY <1>1, <1>3, <2>1 DEF Has
  <2>2. CASE i # 1
    <3>1. i - 1 \in 1 .. Len(a) /\ a[i - 1].t = t /\ a[i - 1].f = f
      BY <1>1, <1>3, <2>2
    <3>2. \A j \in (i - 1) + 1 .. Len(a) : a[j].t # t
      BY <1>1, <1>3
    <3> QED BY <3>1, <3>2 DEF TellsLast
  <2> QED BY <2>1, <2>2
<1>4. \A t, f : TellsLast(q, t, f) => Has(q, t)
  BY DEF TellsLast, Has
<1>5. HasEnd(q) <=> HasEnd(a) \/ (q[1].t = "LO_CHECK" /\ q[1].f = 0)
  <2>1. HasEnd(a) => HasEnd(q)
    BY <1>1 DEF HasEnd
  <2>2. q[1].t = "LO_CHECK" /\ q[1].f = 0 => HasEnd(q)
    BY <1>1 DEF HasEnd
  <2>3. ASSUME NEW i \in 1 .. Len(q), q[i].t = "LO_CHECK", q[i].f = 0, i # 1
        PROVE  HasEnd(a)
    <3>1. i - 1 \in 1 .. Len(a) /\ a[i - 1].t = "LO_CHECK" /\ a[i - 1].f = 0
      BY <1>1, <2>3
    <3> QED BY <3>1 DEF HasEnd
  <2> QED BY <2>1, <2>2, <2>3 DEF HasEnd
<1>6. StartFirst(q) => StartFirst(a)
  BY <1>1, SMTT(30) DEF StartFirst
<1>7. StartFirst(q) /\ q[1].t # "TX_STATE" => ~Has(a, "RX_FE_FREQ")
  BY <1>1 DEF StartFirst, Has
<1>8. \A t, f : TellsLast(q, t, f) =>
        TellsLast(a, t, f) \/ (~Has(a, t) /\ q[1].t = t /\ q[1].f = f)
  BY <1>3 DEF TellsLast
<1> QED BY <1>2, <1>4, <1>5, <1>6, <1>7, <1>8 DEF a

-----------------------------------------------------------------------------
(* The coarse grid.                                                        *)

LEMMA Quotient ==
  ASSUME NEW N \in Nat \ {0}, NEW a \in Int, NEW q \in Int, NEW r \in 0 .. N - 1,
         a = N * q + r
  PROVE  (a \div N) = q
OBVIOUS

LEMMA CoarseStep ==
  ASSUME NEW a \in Int
  PROVE  /\ (a \div Grid) \in Int /\ FirstTarget(a) = Grid * (a \div Grid) - Grid
         /\ FirstTarget(a) \in Int
         /\ \E r \in 0 .. Grid - 1 : a = Grid * (a \div Grid) + r
<1> DEFINE q == a \div Grid
<1>1. Grid \in Nat \ {0}
  BY TuningAssumption
<1>2. q \in Int /\ (a % Grid) \in 0 .. Grid - 1 /\ a = Grid * q + (a % Grid)
  BY <1>1
<1>3. PICK r \in 0 .. Grid - 1 : a = Grid * q + r
  BY <1>2
<1> DEFINE g == Grid * q
<1>4. g \in Int /\ a = g + r
  BY <1>1, <1>2, <1>3
<1>5. FirstTarget(a) = g - Grid
  <2>1. FirstTarget(a) = IF a - g < Grid THEN g - Grid ELSE g
    BY DEF FirstTarget
  <2> HIDE DEF g, q
  <2> QED BY <1>1, <1>4, <2>1
<1>6. FirstTarget(a) \in Int
  <2> HIDE DEF g, q
  <2> QED BY <1>1, <1>4, <1>5
<1> QED BY <1>2, <1>3, <1>5, <1>6

\* A frequency within reach of the third LO needs the coarse step that there is.
LEMMA FineKeepsTarget ==
  ASSUME NEW g \in Int, NEW f \in Int, f - RxTarget(g) \in FineRange
  PROVE  RxTarget(f) = RxTarget(g)
<1> DEFINE a == Clamp(g, RxLow, RxHigh)
           c == Clamp(f, RxLow, RxHigh)
           n == a \div Grid
<1>1. /\ Grid \in Nat \ {0} /\ RxLow \in Int /\ RxHigh \in Int /\ RxLow <= RxHigh
  BY TuningAssumption
<1>2. a \in Int /\ c \in Int /\ RxLow <= a /\ a <= RxHigh
      /\ (c = f \/ (c = RxHigh /\ f > RxHigh) \/ (c = RxLow /\ f < RxLow))
  BY <1>1 DEF Clamp
<1>3. /\ n \in Int /\ RxTarget(g) = Grid * n - Grid
      /\ \E r \in 0 .. Grid - 1 : a = Grid * n + r
  <2> HIDE DEF a
  <2>1. RxTarget(g) = FirstTarget(a)
    BY DEF RxTarget, a
  <2> QED BY <1>2, <2>1, CoarseStep
<1> DEFINE k == Grid * n
<1>4. k \in Int /\ k <= a /\ a <= k + Grid - 1 /\ f - (k - Grid) \in FineRange
  <2>1. k \in Int
    BY <1>1, <1>3
  <2>2. PICK r \in 0 .. Grid - 1 : a = k + r
    BY <1>3
  <2> HIDE DEF n, a, k
  <2>3. k <= a /\ a <= k + Grid - 1
    BY <1>1, <2>1, <2>2
  <2> QED BY <1>3, <2>1, <2>3 DEF k
<1> HIDE DEF a, c
<1>5. c - k \in 0 .. Grid - 1 /\ c = k + (c - k)
  <2> HIDE DEF k, n
  <2>1. k + 1 <= f /\ f <= k + Grid - 1
    BY <1>1, <1>4 DEF FineRange
  <2> QED BY <1>1, <1>2, <1>4, <2>1
<1>6. (c \div Grid) = n
  <2> HIDE DEF n
  <2> QED BY <1>1, <1>2, <1>3, <1>5, Quotient
<1>7. FirstTarget(c) = Grid * n - Grid
  BY <1>2, <1>6, CoarseStep
<1> QED BY <1>3, <1>7 DEF RxTarget, c

LEMMA TargetsAreInts ==
  /\ \A f \in Int : RxTarget(f) \in Int
  /\ \A f \in Int : Clamp(f, TxLow, TxHigh) \in Int /\ Clamp(f, RxLow, RxHigh) \in Int
<1>1. \A f \in Int : Clamp(f, TxLow, TxHigh) \in Int /\ Clamp(f, RxLow, RxHigh) \in Int
  BY TuningAssumption DEF Clamp
<1>2. \A f \in Int : RxTarget(f) \in Int
  BY <1>1, CoarseStep DEF RxTarget
<1> QED BY <1>1, <1>2

-----------------------------------------------------------------------------
(* Every step keeps the invariant.                                         *)

FrontEnds == [r : Int, t : Int, locked : SUBSET {"r", "t"}]

LEMMA TunedIs ==
  ASSUME TuningTypeOK, NEW f \in Int
  PROVE  /\ Tuned("r", f) \in FrontEnds /\ Tuned("r", f).r = f /\ Tuned("r", f).t = hw.t
         /\ Tuned("t", f) \in FrontEnds /\ Tuned("t", f).t = f /\ Tuned("t", f).r = hw.r
BY DEF TuningTypeOK, FrontEnds, Tuned

\* The command in hand is the first of the queue.
LEMMA InHand ==
  ASSUME TuningInv, cmds # <<>>
  PROVE  /\ cmds \in Seq(Commands) /\ Head(cmds) = cmds[1] /\ cmds[1] \in Commands
         /\ Tail(cmds) \in Seq(Commands) /\ cmds[1].f \in Int
<1>1. cmds \in Seq(Commands)
  BY DEF TuningInv, TuningTypeOK
<1>2. Head(cmds) = cmds[1] /\ cmds[1] \in Commands /\ Tail(cmds) \in Seq(Commands)
  BY <1>1, TailIs
<1>3. cmds[1].f \in Int
  BY <1>2 DEF Commands
<1> QED BY <1>1, <1>2, <1>3

LEMMA LockUpKeeps == ASSUME TuningInv, NEW sel \in {"r", "t"}, LockUp(sel) PROVE TuningInv'
<1>1. UNCHANGED <<cmds, lo3q, uiq, pc, ctrl, lo3, ui, client>>
  BY DEF LockUp
<1>2. hw' \in FrontEnds /\ hw'.r = hw.r /\ hw'.t = hw.t
  <2>1. hw' = [hw EXCEPT !.locked = hw.locked \cup {sel}]
    BY DEF LockUp
  <2> QED BY <2>1 DEF TuningInv, TuningTypeOK, FrontEnds
<1>3. TuningTypeOK'
  BY <1>1, <1>2 DEF TuningInv, TuningTypeOK, FrontEnds, ctrl, ui, client
<1>4. RxSideInv' /\ CheckEnds' /\ TxSideInv'
  BY <1>1, <1>2 DEF TuningInv, RxSideInv, CheckEnds, TxSideInv, Started, Retuning,
                    Parked, TxTarget, ctrl, ui
<1>5. UIInv' /\ WantedInv'
  BY <1>1 DEF TuningInv, UIInv, WantedInv, Started, WillBelieve, WillBeLo3, ctrl, ui, client
<1> QED BY <1>1, <1>3, <1>4, <1>5 DEF TuningInv

LEMMA RequestKeeps ==
  ASSUME TuningInv, NEW c \in Commands, c.t # "RX_FE_FREQ", c.t # "TX_FE_FREQ", Request(c)
  PROVE  TuningInv'
<1>1. /\ cmds' = Append(cmds, c)
      /\ wanted' = IF c.t = "RX_RETUNE_FREQ" THEN {c.f} ELSE wanted
      /\ requests' = requests + 1
      /\ UNCHANGED <<lo3q, uiq, pc, ctrl, hw, lo3, ui>>
  BY DEF Request
<1>2. cmds \in Seq(Commands) /\ cmds' \in Seq(Commands) /\ c.f \in Int /\ cmds' # <<>>
  BY <1>1, AppendIs DEF TuningInv, TuningTypeOK, Commands
<1>3. /\ StartFirst(cmds') /\ (Started' <=> Started)
      /\ cmds # <<>> => cmds'[1] = cmds[1]
      /\ HasEnd(cmds) => HasEnd(cmds')
      /\ Has(cmds, "TX_STATE") => Has(cmds', "TX_STATE")
  BY <1>1, <1>2, AppendTells DEF TuningInv, Started
<1>4. TuningTypeOK'
  BY <1>1, <1>2 DEF TuningInv, TuningTypeOK, ctrl, ui
<1>5. RxSideInv'
  <2>1. pc = "r" => cmds # <<>>
    BY DEF TuningInv, RxSideInv
  <2> QED BY <1>1, <1>2, <1>3, <2>1 DEF TuningInv, RxSideInv, Retuning, ctrl
<1>6. TxSideInv'
  <2>1. pc = "t" => cmds # <<>>
    BY DEF TuningInv, TxSideInv
  <2> QED BY <1>1, <1>2, <1>3, <2>1 DEF TuningInv, TxSideInv, Parked, TxTarget, ctrl
<1>7. CheckEnds' /\ UIInv'
  BY <1>1, <1>3 DEF TuningInv, CheckEnds, UIInv, WillBelieve, ctrl, ui
<1>8. WantedInv'
  <2>1. CASE c.t = "RX_RETUNE_FREQ"
    <3>1. TellsLast(cmds', "RX_RETUNE_FREQ", c.f)
      BY <1>1, <1>2, <2>1, AppendTells
    <3> QED BY <1>1, <2>1, <3>1 DEF WantedInv
  <2>2. CASE c.t # "RX_RETUNE_FREQ"
    <3>1. /\ Has(cmds', "RX_RETUNE_FREQ") <=> Has(cmds, "RX_RETUNE_FREQ")
          /\ \A f : TellsLast(cmds, "RX_RETUNE_FREQ", f) => TellsLast(cmds', "RX_RETUNE_FREQ", f)
      BY <1>1, <1>2, <2>2, AppendTells
    <3> QED BY <1>1, <1>3, <2>2, <3>1 DEF TuningInv, WantedInv, WillBeLo3, ctrl
  <2> QED BY <2>1, <2>2
<1> QED BY <1>3, <1>4, <1>5, <1>6, <1>7, <1>8 DEF TuningInv

LEMMA UsrpRxKeeps == ASSUME TuningInv, UsrpRx PROVE TuningInv'
<1>1. /\ lo3q # <<>> /\ lo3' = Head(lo3q) /\ lo3q' = Tail(lo3q)
      /\ UNCHANGED <<cmds, uiq, pc, ctrl, hw, ui, client>>
  BY DEF UsrpRx
<1>2. /\ lo3q \in Seq(Int) /\ Len(lo3q) \in Nat \ {0} /\ lo3q' \in Seq(Int)
      /\ lo3' = lo3q[1] /\ lo3' \in Int /\ Len(lo3q') = Len(lo3q) - 1
      /\ \A i \in 1 .. Len(lo3q) - 1 : lo3q'[i] = lo3q[i + 1]
  BY <1>1 DEF TuningInv, TuningTypeOK
<1>3. \A x : WillBeLo3(x) => WillBeLo3(x)'
  <2> SUFFICES ASSUME NEW x, WillBeLo3(x) PROVE WillBeLo3(x)'
    OBVIOUS
  <2>1. lo3q[Len(lo3q)] = x
    BY <1>1 DEF WillBeLo3
  <2>2. CASE Len(lo3q) = 1
    BY <1>2, <2>1, <2>2 DEF WillBeLo3
  <2>3. CASE Len(lo3q) > 1
    <3>1. lo3q'[Len(lo3q')] = x /\ lo3q' # <<>>
      BY <1>2, <2>1, <2>3
    <3> QED BY <3>1 DEF WillBeLo3
  <2> QED BY <1>2, <2>2, <2>3
<1>4. TuningTypeOK'
  BY <1>1, <1>2 DEF TuningInv, TuningTypeOK, ctrl, ui, client
<1>5. WantedInv'
  <2>1. PICK d : d = last_rx_tune /\ d = last_rx_tune'
    BY <1>1 DEF ctrl
  <2>2. \A f \in wanted :
          \/ TellsLast(cmds, "RX_RETUNE_FREQ", f)
          \/ /\ Started /\ ~Has(cmds, "RX_RETUNE_FREQ")
             /\ last_rx_req_freq = f /\ WillBeLo3(f - d)
    BY <2>1 DEF TuningInv, WantedInv
  <2>3. \A f : WillBeLo3(f - d) => WillBeLo3(f - d)'
    BY <1>3
  <2> QED BY <1>1, <2>1, <2>2, <2>3 DEF WantedInv, Started, ctrl, client, WillBeLo3
<1>6. RxSideInv' /\ TxSideInv'
  BY <1>1 DEF TuningInv, RxSideInv, TxSideInv, Started, Retuning, Parked, TxTarget, ctrl
<1>7. CheckEnds' /\ UIInv'
  BY <1>1 DEF TuningInv, CheckEnds, UIInv, Started, WillBelieve, ctrl, ui
<1> QED BY <1>1, <1>4, <1>5, <1>6, <1>7 DEF TuningInv

LEMMA UiTakesKeeps == ASSUME TuningInv, UiTakes PROVE TuningInv'
<1>1. /\ uiq # <<>> /\ uiq' = Tail(uiq)
      /\ UNCHANGED <<cmds, lo3q, pc, ctrl, hw, lo3, client>>
  BY DEF UiTakes
<1>2. /\ uiq \in Seq(Notes) /\ uiq' \in Seq(Notes) /\ Head(uiq) = uiq[1] /\ uiq[1] \in Notes
  BY <1>1, TailIs DEF TuningInv, TuningTypeOK
<1>3. \/ /\ uiq[1].t = "RX_FE_FREQ" /\ baseband_rx_freq' = uiq[1].f
         /\ lo_check_mode' = lo_check_mode
      \/ /\ uiq[1].t = "LO_OFFSET" /\ lo_check_mode' = TRUE
         /\ baseband_rx_freq' = baseband_rx_freq
  BY <1>2 DEF UiTakes, Notes
<1>4. TuningTypeOK'
  <2>1. uiq[1].f \in Int
    BY <1>2 DEF Notes
  <2> QED BY <1>1, <1>2, <1>3, <2>1 DEF TuningInv, TuningTypeOK, ctrl, client
<1>5. CheckEnds'
  <2>1. Has(uiq, "LO_OFFSET") \/ lo_check_mode => Has(uiq', "LO_OFFSET") \/ lo_check_mode'
    BY <1>1, <1>2, <1>3, TailTells
  <2> QED BY <1>1, <2>1 DEF TuningInv, CheckEnds, ctrl
<1>6. ASSUME NEW x, WillBelieve(x) PROVE WillBelieve(x)'
  <2>1. CASE TellsLast(uiq, "RX_FE_FREQ", x)
    <3>1. \/ TellsLast(uiq', "RX_FE_FREQ", x)
          \/ ~Has(uiq', "RX_FE_FREQ") /\ uiq[1].t = "RX_FE_FREQ" /\ uiq[1].f = x
      BY <1>1, <1>2, <2>1, TailTells
    <3> QED BY <1>3, <3>1 DEF WillBelieve
  <2>2. CASE ~Has(uiq, "RX_FE_FREQ") /\ baseband_rx_freq = x
    <3>1. ~Has(uiq', "RX_FE_FREQ") /\ uiq[1].t # "RX_FE_FREQ"
      BY <1>1, <1>2, <2>2, TailTells
    <3> QED BY <1>3, <2>2, <3>1 DEF WillBelieve
  <2> QED BY <1>6, <2>1, <2>2 DEF WillBelieve
<1>7. UIInv'
  <2>1. PICK x : x = last_rx_tune
    OBVIOUS
  <2>2. Started => WillBelieve(x)'
    BY <1>6, <2>1 DEF TuningInv, UIInv
  <2>3. (Started' <=> Started) /\ last_rx_tune' = x
    BY <1>1, <2>1 DEF Started, ctrl
  <2> QED BY <2>2, <2>3 DEF UIInv, WillBelieve
<1>8. RxSideInv' /\ TxSideInv'
  BY <1>1 DEF TuningInv, RxSideInv, TxSideInv, Started, Retuning, Parked, TxTarget, ctrl
<1>9. WantedInv'
  BY <1>1 DEF TuningInv, WantedInv, Started, WillBeLo3, ctrl, client
<1> QED BY <1>1, <1>4, <1>5, <1>7, <1>8, <1>9 DEF TuningInv

LEMMA UiEndsLoCheckKeeps == ASSUME TuningInv, UiEndsLoCheck PROVE TuningInv'
<1> DEFINE c == Cmd("LO_CHECK", 0)
<1>1. /\ lo_check_mode' = FALSE /\ cmds' = Append(cmds, c)
      /\ UNCHANGED <<lo3q, uiq, pc, ctrl, hw, lo3, baseband_rx_freq, client>>
  BY DEF UiEndsLoCheck
<1>2. c \in Commands /\ c.t = "LO_CHECK" /\ c.f = 0
  BY DEF Cmd, Commands
<1> HIDE DEF c
<1>3. cmds \in Seq(Commands) /\ cmds' \in Seq(Commands) /\ cmds' # <<>>
  BY <1>1, <1>2, AppendIs DEF TuningInv, TuningTypeOK
<1>4. /\ StartFirst(cmds') /\ (Started' <=> Started)
      /\ cmds # <<>> => cmds'[1] = cmds[1]
      /\ HasEnd(cmds')
      /\ Has(cmds, "TX_STATE") => Has(cmds', "TX_STATE")
      /\ Has(cmds', "RX_RETUNE_FREQ") <=> Has(cmds, "RX_RETUNE_FREQ")
      /\ \A f : TellsLast(cmds, "RX_RETUNE_FREQ", f) => TellsLast(cmds', "RX_RETUNE_FREQ", f)
  BY <1>1, <1>2, <1>3, AppendTells DEF TuningInv, Started
<1>5. TuningTypeOK'
  BY <1>1, <1>3 DEF TuningInv, TuningTypeOK, ctrl, client
<1>6. RxSideInv'
  <2>1. pc = "r" => cmds # <<>>
    BY DEF TuningInv, RxSideInv
  <2> QED BY <1>1, <1>3, <1>4, <2>1 DEF TuningInv, RxSideInv, Retuning, ctrl
<1>7. TxSideInv'
  <2>1. pc = "t" => cmds # <<>>
    BY DEF TuningInv, TxSideInv
  <2> QED BY <1>1, <1>3, <1>4, <2>1 DEF TuningInv, TxSideInv, Parked, TxTarget, ctrl
<1>8. CheckEnds' /\ UIInv' /\ WantedInv'
  BY <1>1, <1>4 DEF TuningInv, CheckEnds, UIInv, WillBelieve, WantedInv, WillBeLo3, ctrl, client
<1> QED BY <1>4, <1>5, <1>6, <1>7, <1>8 DEF TuningInv

LEMMA RetuneFineKeeps == ASSUME TuningInv, RetuneFine PROVE TuningInv'
<1> DEFINE m == cmds[1]
           d == m.f - last_rx_tune
           note == Cmd("RX_FE_FREQ", last_rx_tune)
<1>1. /\ pc = "ready" /\ cmds # <<>> /\ m.t = "RX_RETUNE_FREQ" /\ cmds' = Tail(cmds)
      /\ d \in FineRange /\ last_rx_req_freq' = m.f
      /\ lo3q' = lo3q \o <<d>> /\ uiq' = Append(uiq, note)
      /\ UNCHANGED <<pc, last_rx_tune, tx_freq, tx_freq_rxmode_offset, tx_on, hw,
                     lo3, ui, client>>
  BY InHand DEF RetuneFine, Next1, Take, F, Offset, ReportFE
<1>2. /\ m.f \in Int /\ cmds' \in Seq(Commands) /\ last_rx_tune \in Int /\ d \in Int
      /\ cmds \in Seq(Commands) /\ lo3q \in Seq(Int) /\ uiq \in Seq(Notes)
  BY <1>1, InHand DEF TuningInv, TuningTypeOK
<1>3. /\ note \in Notes /\ note.t = "RX_FE_FREQ" /\ note.f = last_rx_tune
  BY <1>2 DEF Cmd, Notes
<1> HIDE DEF note, d
<1>4. /\ lo3q' \in Seq(Int) /\ lo3q' # <<>> /\ lo3q'[Len(lo3q')] = d
  BY <1>1, <1>2
<1>5. /\ uiq' \in Seq(Notes) /\ TellsLast(uiq', "RX_FE_FREQ", last_rx_tune)
      /\ Has(uiq, "LO_OFFSET") => Has(uiq', "LO_OFFSET")
  BY <1>1, <1>2, <1>3, AppendIs, AppendTells
<1>6. /\ StartFirst(cmds') /\ Started'
      /\ HasEnd(cmds) => HasEnd(cmds')
      /\ Has(cmds, "TX_STATE") => Has(cmds', "TX_STATE")
      /\ \A f : TellsLast(cmds, "RX_RETUNE_FREQ", f) =>
           TellsLast(cmds', "RX_RETUNE_FREQ", f)
           \/ (~Has(cmds', "RX_RETUNE_FREQ") /\ m.f = f)
      /\ Has(cmds, "RX_RETUNE_FREQ")
  BY <1>1, <1>2, TailTells DEF TuningInv, Started
<1>7. Started
  <2>1. ~Has(cmds', "RX_FE_FREQ") /\ (Has(cmds, "RX_FE_FREQ") <=>
          Has(cmds', "RX_FE_FREQ") \/ m.t = "RX_FE_FREQ")
    BY <1>1, <1>2, <1>6, TailTells DEF Started
  <2> QED BY <1>1, <2>1 DEF Started
<1>8. TuningTypeOK'
  BY <1>1, <1>2, <1>4, <1>5 DEF TuningInv, TuningTypeOK, ui, client
<1>9. RxSideInv'
  <2>1. last_rx_tune = RxTarget(last_rx_req_freq) /\ last_rx_req_freq \in Int
    BY <1>1, <1>7 DEF TuningInv, TuningTypeOK, RxSideInv, Retuning
  <2>2. last_rx_tune = RxTarget(m.f)
    BY <1>1, <1>2, <2>1, FineKeepsTarget DEF d
  <2> QED BY <1>1, <2>2 DEF RxSideInv
<1>10. CheckEnds' /\ UIInv'
  BY <1>1, <1>5, <1>6 DEF TuningInv, CheckEnds, UIInv, WillBelieve, ui
<1>11. WantedInv'
  <2> SUFFICES ASSUME NEW f \in wanted
               PROVE  \/ TellsLast(cmds', "RX_RETUNE_FREQ", f)
                      \/ /\ ~Has(cmds', "RX_RETUNE_FREQ") /\ m.f = f
    BY <1>1, <1>4, <1>6 DEF WantedInv, WillBeLo3, client, d
  <2> QED BY <1>6 DEF TuningInv, WantedInv
<1>12. TxSideInv'
  BY <1>1, <1>6 DEF TuningInv, TxSideInv, Parked, TxTarget
<1> QED BY <1>6, <1>8, <1>9, <1>10, <1>11, <1>12 DEF TuningInv

LEMMA RetuneCoarseKeeps == ASSUME TuningInv, RetuneCoarse PROVE TuningInv'
<1> DEFINE m == cmds[1]
<1>1. /\ pc = "ready" /\ cmds # <<>> /\ m.t \in {"RX_RETUNE_FREQ", "RX_FE_FREQ"}
      /\ last_rx_req_freq' = m.f /\ hw' = Tuned("r", RxTarget(m.f)) /\ pc' = "r"
      /\ UNCHANGED <<cmds, lo3q, uiq, last_rx_tune, tx_freq, tx_freq_rxmode_offset,
                     tx_on, lo3, ui, client>>
  BY InHand DEF RetuneCoarse, Next1, F, SetFirstLO
<1>2. m.f \in Int /\ RxTarget(m.f) \in Int /\ cmds \in Seq(Commands)
  BY <1>1, InHand, TargetsAreInts
<1>3. hw' \in FrontEnds /\ hw'.r = RxTarget(m.f) /\ hw'.t = hw.t
  BY <1>1, <1>2, TunedIs DEF TuningInv
<1>4. Has(cmds, "RX_RETUNE_FREQ") \/ ~Started
  BY <1>1, <1>2, TailTells DEF Started
<1>5. TuningTypeOK'
  BY <1>1, <1>2, <1>3 DEF TuningInv, TuningTypeOK, FrontEnds, ui, client
<1>6. RxSideInv' /\ CheckEnds' /\ UIInv'
  BY <1>1, <1>3 DEF TuningInv, RxSideInv, CheckEnds, UIInv, Started, Retuning, WillBelieve, ui
<1>7. WantedInv'
  <2>1. \A f \in wanted : TellsLast(cmds, "RX_RETUNE_FREQ", f)
    BY <1>4 DEF TuningInv, WantedInv
  <2> QED BY <1>1, <2>1 DEF WantedInv, client
<1>8. TxSideInv'
  BY <1>1, <1>3 DEF TuningInv, TxSideInv, Parked, TxTarget
<1> QED BY <1>1, <1>5, <1>6, <1>7, <1>8 DEF TuningInv

LEMMA RetuneCoarseDoneKeeps == ASSUME TuningInv, RetuneCoarseDone PROVE TuningInv'
<1> DEFINE m == cmds[1]
           note == Cmd("RX_FE_FREQ", hw.r)
<1>0. cmds # <<>> /\ pc = "r"
  BY DEF RetuneCoarseDone, LockSeen, TuningInv, RxSideInv
<1>1. /\ m.t \in {"RX_RETUNE_FREQ", "RX_FE_FREQ"}
      /\ pc' = "ready" /\ cmds' = Tail(cmds) /\ last_rx_tune' = hw.r
      /\ uiq' = Append(uiq, note)
      /\ UNCHANGED <<last_rx_req_freq, tx_freq, tx_freq_rxmode_offset, tx_on, hw,
                     lo3, ui, client>>
  BY <1>0, InHand DEF RetuneCoarseDone, Take, ReportFE
<1>2. /\ m.f \in Int /\ cmds' \in Seq(Commands) /\ hw.r \in Int
      /\ cmds \in Seq(Commands) /\ lo3q \in Seq(Int) /\ uiq \in Seq(Notes)
  BY <1>0, <1>1, InHand DEF TuningInv, TuningTypeOK
<1>3. last_rx_req_freq = m.f /\ hw.r = RxTarget(last_rx_req_freq)
  BY <1>0, <1>1 DEF TuningInv, RxSideInv
<1>4. PICK freq \in Int : /\ lo3q' = lo3q \o <<Clamp(m.f, RxLow, RxHigh) - RxTarget(m.f),
                                              freq - hw.r>>
                          /\ m.t = "RX_RETUNE_FREQ" => freq = m.f
  <2>1. Garbage \subseteq Int
    BY TuningAssumption
  <2>2. \E freq \in IF m.t = "RX_FE_FREQ" THEN Garbage ELSE {m.f} :
          lo3q' = lo3q \o <<Clamp(m.f, RxLow, RxHigh) - RxTarget(m.f), freq - hw.r>>
    BY <1>0, InHand DEF RetuneCoarseDone, Offset, F
  <2> QED BY <1>2, <2>1, <2>2
<1>5. /\ note \in Notes /\ note.t = "RX_FE_FREQ" /\ note.f = hw.r
  BY <1>2 DEF Cmd, Notes
<1> HIDE DEF note
<1>6. /\ lo3q' \in Seq(Int) /\ lo3q' # <<>> /\ lo3q'[Len(lo3q')] = freq - hw.r
  <2> DEFINE x == Clamp(m.f, RxLow, RxHigh) - RxTarget(m.f)
             y == freq - hw.r
  <2>0. Clamp(m.f, RxLow, RxHigh) \in Int /\ RxTarget(m.f) \in Int
    BY <1>2, TargetsAreInts
  <2>1. x \in Int /\ y \in Int
    BY <1>2, <2>0
  <2> HIDE DEF x, y
  <2>2. lo3q' = lo3q \o <<x, y>>
    BY <1>4 DEF x, y
  <2>3. /\ lo3q' \in Seq(Int) /\ lo3q' # <<>> /\ lo3q'[Len(lo3q')] = y
    BY <1>2, <2>1, <2>2
  <2> QED BY <2>3 DEF y
<1>7. /\ uiq' \in Seq(Notes) /\ TellsLast(uiq', "RX_FE_FREQ", hw.r)
  BY <1>1, <1>2, <1>5, AppendIs, AppendTells
<1>8. /\ StartFirst(cmds') /\ Started'
      /\ Has(cmds, "TX_STATE") => Has(cmds', "TX_STATE")
      /\ \A f : TellsLast(cmds, "RX_RETUNE_FREQ", f) =>
           TellsLast(cmds', "RX_RETUNE_FREQ", f)
           \/ (~Has(cmds', "RX_RETUNE_FREQ") /\ m.t = "RX_RETUNE_FREQ" /\ m.f = f)
      /\ Has(cmds, m.t)
  BY <1>0, <1>1, <1>2, TailTells DEF TuningInv, Started
<1>9. TuningTypeOK'
  BY <1>1, <1>2, <1>6, <1>7 DEF TuningInv, TuningTypeOK, ui, client
<1>10. RxSideInv' /\ CheckEnds' /\ UIInv'
  BY <1>1, <1>3, <1>7 DEF RxSideInv, CheckEnds, UIInv, WillBelieve
<1>11. WantedInv'
  <2> SUFFICES ASSUME NEW f \in wanted
               PROVE  \/ TellsLast(cmds', "RX_RETUNE_FREQ", f)
                      \/ /\ ~Has(cmds', "RX_RETUNE_FREQ") /\ m.f = f
                         /\ m.t = "RX_RETUNE_FREQ"
    BY <1>1, <1>3, <1>4, <1>6, <1>8 DEF WantedInv, WillBeLo3, client
  <2>1. TellsLast(cmds, "RX_RETUNE_FREQ", f)
    BY <1>1, <1>8 DEF TuningInv, WantedInv, Started
  <2> QED BY <1>8, <2>1
<1>12. TxSideInv'
  BY <1>0, <1>1, <1>8 DEF TuningInv, TxSideInv, Parked, TxTarget
<1> QED BY <1>8, <1>9, <1>10, <1>11, <1>12 DEF TuningInv

LEMMA LoCheckGoKeeps == ASSUME TuningInv, LoCheckGo PROVE TuningInv'
<1> DEFINE m == cmds[1]
           note == Cmd("LO_OFFSET", 0)
<1>1. /\ pc = "ready" /\ cmds # <<>> /\ m.t = "LO_CHECK" /\ m.f # 0 /\ cmds' = Tail(cmds)
      /\ hw' = Tuned("r", m.f) /\ uiq' = Append(uiq, note)
      /\ UNCHANGED <<lo3q, pc, ctrl, lo3, ui, client>>
  BY InHand DEF LoCheckGo, Next1, F, Take
<1>2. /\ m.f \in Int /\ cmds' \in Seq(Commands)
      /\ cmds \in Seq(Commands) /\ uiq \in Seq(Notes)
  BY <1>1, InHand DEF TuningInv, TuningTypeOK
<1>3. hw' \in FrontEnds /\ hw'.t = hw.t
  BY <1>1, <1>2, TunedIs DEF TuningInv
<1>4. /\ note \in Notes /\ note.t = "LO_OFFSET"
  BY DEF Cmd, Notes
<1> HIDE DEF note
<1>5. /\ uiq' \in Seq(Notes) /\ Has(uiq', "LO_OFFSET")
      /\ Has(uiq', "RX_FE_FREQ") <=> Has(uiq, "RX_FE_FREQ")
      /\ \A x : TellsLast(uiq, "RX_FE_FREQ", x) => TellsLast(uiq', "RX_FE_FREQ", x)
  BY <1>1, <1>2, <1>4, AppendIs, AppendTells
<1>6. /\ StartFirst(cmds') /\ Started' /\ (Started' <=> Started)
      /\ Has(cmds, "TX_STATE") => Has(cmds', "TX_STATE")
      /\ Has(cmds, "RX_RETUNE_FREQ") <=> Has(cmds', "RX_RETUNE_FREQ")
      /\ \A f : TellsLast(cmds, "RX_RETUNE_FREQ", f) => TellsLast(cmds', "RX_RETUNE_FREQ", f)
  BY <1>1, <1>2, TailTells DEF TuningInv, Started
<1>7. TuningTypeOK'
  BY <1>1, <1>2, <1>3, <1>5 DEF TuningInv, TuningTypeOK, FrontEnds, ctrl, ui, client
<1>8. RxSideInv' /\ CheckEnds'
  BY <1>1, <1>5, <1>6 DEF TuningInv, RxSideInv, CheckEnds, Retuning, ctrl
<1>9. UIInv'
  BY <1>1, <1>5, <1>6 DEF TuningInv, UIInv, WillBelieve, ctrl, ui
<1>10. WantedInv'
  BY <1>1, <1>6 DEF TuningInv, WantedInv, WillBeLo3, ctrl, client
<1>11. TxSideInv'
  BY <1>1, <1>3, <1>6 DEF TuningInv, TxSideInv, Parked, TxTarget, ctrl
<1> QED BY <1>6, <1>7, <1>8, <1>9, <1>10, <1>11 DEF TuningInv

LEMMA LoCheckBackKeeps == ASSUME TuningInv, LoCheckBack PROVE TuningInv'
<1> DEFINE m == cmds[1]
<1>1. /\ pc = "ready" /\ cmds # <<>> /\ m.t = "LO_CHECK"
      /\ hw' = Tuned("r", RxTarget(last_rx_req_freq)) /\ pc' = "r"
      /\ UNCHANGED <<cmds, lo3q, uiq, ctrl, lo3, ui, client>>
  BY InHand DEF LoCheckBack, Next1, F, SetFirstLO
<1>2. RxTarget(last_rx_req_freq) \in Int /\ cmds \in Seq(Commands)
  BY TargetsAreInts DEF TuningInv, TuningTypeOK
<1>3. hw' \in FrontEnds /\ hw'.r = RxTarget(last_rx_req_freq) /\ hw'.t = hw.t
  BY <1>1, <1>2, TunedIs DEF TuningInv
<1>4. Started
  BY <1>1, <1>2, TailTells DEF TuningInv, Started
<1>5. TuningTypeOK'
  BY <1>1, <1>3 DEF TuningInv, TuningTypeOK, FrontEnds, ctrl, ui, client
<1>6. RxSideInv' /\ CheckEnds'
  BY <1>1, <1>3, <1>4 DEF TuningInv, RxSideInv, CheckEnds, Started, Retuning, ctrl
<1>7. UIInv' /\ WantedInv'
  BY <1>1 DEF TuningInv, UIInv, WantedInv, Started, WillBelieve, WillBeLo3, ctrl, ui, client
<1>8. TxSideInv'
  BY <1>1, <1>3 DEF TuningInv, TxSideInv, Parked, TxTarget, ctrl
<1> QED BY <1>1, <1>5, <1>6, <1>7, <1>8 DEF TuningInv

LEMMA LoCheckBackDoneKeeps == ASSUME TuningInv, LoCheckBackDone PROVE TuningInv'
<1> DEFINE m == cmds[1]
<1>0. cmds # <<>> /\ pc = "r"
  BY DEF LoCheckBackDone, LockSeen, TuningInv, RxSideInv
<1>1. /\ m.t = "LO_CHECK" /\ pc' = "ready" /\ cmds' = Tail(cmds) /\ last_rx_tune' = hw.r
      /\ UNCHANGED <<lo3q, uiq, last_rx_req_freq, tx_freq, tx_freq_rxmode_offset,
                     tx_on, hw, lo3, ui, client>>
  BY <1>0, InHand DEF LoCheckBackDone, Take
<1>2. last_rx_tune' = last_rx_tune /\ hw.r = RxTarget(last_rx_req_freq) /\ Started
  BY <1>0, <1>1 DEF TuningInv, RxSideInv, Retuning
<1>3. cmds' \in Seq(Commands) /\ cmds \in Seq(Commands)
  BY <1>0, <1>1, InHand
<1>4. /\ StartFirst(cmds') /\ Started'
      /\ Has(cmds, "TX_STATE") => Has(cmds', "TX_STATE")
      /\ Has(cmds, "RX_RETUNE_FREQ") <=> Has(cmds', "RX_RETUNE_FREQ")
      /\ \A f : TellsLast(cmds, "RX_RETUNE_FREQ", f) => TellsLast(cmds', "RX_RETUNE_FREQ", f)
  BY <1>0, <1>1, <1>3, TailTells DEF TuningInv, Started
<1>5. TuningTypeOK'
  BY <1>1, <1>2, <1>3 DEF TuningInv, TuningTypeOK, ui, client
<1>6. RxSideInv' /\ CheckEnds'
  BY <1>1, <1>2 DEF RxSideInv, CheckEnds
<1>7. UIInv' /\ WantedInv'
  BY <1>1, <1>2, <1>4 DEF TuningInv, UIInv, WantedInv, WillBelieve, WillBeLo3, ui, client
<1>8. TxSideInv'
  BY <1>0, <1>1, <1>4 DEF TuningInv, TxSideInv, Parked, TxTarget
<1> QED BY <1>4, <1>5, <1>6, <1>7, <1>8 DEF TuningInv

LEMMA TxTuneKeeps == ASSUME TuningInv, TxTune PROVE TuningInv'
<1> DEFINE m == cmds[1]
<1>1. /\ pc = "ready" /\ cmds # <<>> /\ m.t \in {"TX_RETUNE_FREQ", "TX_FE_FREQ"}
      /\ hw' = Tuned("t", TxTarget(m.f)) /\ pc' = "t"
      /\ UNCHANGED <<cmds, lo3q, uiq, ctrl, lo3, ui, client>>
  BY InHand DEF TxTune, Next1, F, SetFirstLO, TxTarget
<1>2. TxTarget(m.f) \in Int
  <2>1. m.f + tx_freq_rxmode_offset \in Int
    BY <1>1, InHand DEF TuningInv, TuningTypeOK
  <2> QED BY <2>1, TargetsAreInts DEF TxTarget
<1>3. hw' \in FrontEnds /\ hw'.t = TxTarget(m.f) /\ hw'.r = hw.r
  BY <1>1, <1>2, TunedIs DEF TuningInv
<1>4. TuningTypeOK'
  BY <1>1, <1>3 DEF TuningInv, TuningTypeOK, FrontEnds, ctrl, ui, client
<1>5. RxSideInv' /\ CheckEnds'
  BY <1>1, <1>3 DEF TuningInv, RxSideInv, CheckEnds, Started, Retuning, ctrl, ui
<1>6. UIInv' /\ WantedInv'
  BY <1>1 DEF TuningInv, UIInv, WantedInv, Started, WillBelieve, WillBeLo3, ctrl, ui, client
<1>7. TxSideInv'
  BY <1>1, <1>3 DEF TuningInv, TxSideInv, Parked, TxTarget, ctrl
<1> QED BY <1>1, <1>4, <1>5, <1>6, <1>7 DEF TuningInv

LEMMA TxTuneDoneKeeps == ASSUME TuningInv, TxTuneDone PROVE TuningInv'
<1> DEFINE m == cmds[1]
<1>0. cmds # <<>> /\ pc = "t"
  BY DEF TxTuneDone, LockSeen, TuningInv, TxSideInv
<1>1. /\ m.t \in {"TX_RETUNE_FREQ", "TX_FE_FREQ"}
      /\ pc' = "ready" /\ cmds' = Tail(cmds) /\ tx_freq' = m.f
      /\ UNCHANGED <<lo3q, uiq, last_rx_req_freq, last_rx_tune,
                     tx_freq_rxmode_offset, tx_on, hw, lo3, ui, client>>
  BY <1>0, InHand DEF TxTuneDone, Take, F
<1>2. m.f \in Int /\ cmds' \in Seq(Commands) /\ cmds \in Seq(Commands)
  BY <1>0, <1>1, InHand
<1>3. /\ StartFirst(cmds') /\ (Started' <=> Started)
      /\ Has(cmds, "TX_STATE") => Has(cmds', "TX_STATE")
      /\ Has(cmds, "RX_RETUNE_FREQ") <=> Has(cmds', "RX_RETUNE_FREQ")
      /\ \A f : TellsLast(cmds, "RX_RETUNE_FREQ", f) => TellsLast(cmds', "RX_RETUNE_FREQ", f)
      /\ HasEnd(cmds) => HasEnd(cmds')
  BY <1>0, <1>1, <1>2, TailTells DEF TuningInv, Started
<1>4. TuningTypeOK'
  BY <1>1, <1>2 DEF TuningInv, TuningTypeOK, ui, client
<1>5. RxSideInv' /\ CheckEnds'
  BY <1>0, <1>1, <1>3 DEF TuningInv, RxSideInv, CheckEnds, Retuning, ui
<1>6. UIInv' /\ WantedInv'
  BY <1>1, <1>3 DEF TuningInv, UIInv, WantedInv, WillBelieve, WillBeLo3, ui, client
<1>7. TxSideInv'
  BY <1>0, <1>1, <1>3 DEF TuningInv, TxSideInv, Parked, TxTarget
<1> QED BY <1>3, <1>4, <1>5, <1>6, <1>7 DEF TuningInv

LEMMA TxStateKeeps == ASSUME TuningInv, TxState PROVE TuningInv'
<1> DEFINE m == cmds[1]
           off == IF m.f = 1 THEN 0 ELSE Park
           goal == Clamp(tx_freq + off, TxLow, TxHigh)
<1>1. /\ pc = "ready" /\ cmds # <<>> /\ m.t = "TX_STATE"
      /\ tx_on' = (m.f = 1) /\ tx_freq_rxmode_offset' = off
      /\ hw' = Tuned("t", goal) /\ pc' = "t"
      /\ UNCHANGED <<cmds, lo3q, uiq, last_rx_req_freq, last_rx_tune, tx_freq,
                     lo3, ui, client>>
  BY InHand DEF TxState, Next1, F, SetFirstLO
<1>2. off \in Int /\ goal \in Int
  <2>1. off \in Int
    BY TuningAssumption
  <2> HIDE DEF off
  <2>2. tx_freq + off \in Int
    BY <2>1 DEF TuningInv, TuningTypeOK
  <2> QED BY <2>1, <2>2, TargetsAreInts
<1>3. hw' \in FrontEnds /\ hw'.t = goal /\ hw'.r = hw.r
  <2> HIDE DEF goal
  <2> QED BY <1>1, <1>2, TunedIs DEF TuningInv
<1>4. TuningTypeOK'
  <2>1. tx_on' \in BOOLEAN
    BY <1>1
  <2> HIDE DEF goal, off, m
  <2> QED BY <1>1, <1>2, <1>3, <2>1 DEF TuningInv, TuningTypeOK, FrontEnds, ui, client
<1>5. RxSideInv' /\ CheckEnds'
  BY <1>1, <1>3 DEF TuningInv, RxSideInv, CheckEnds, Started, Retuning, ui
<1>6. UIInv' /\ WantedInv'
  BY <1>1 DEF TuningInv, UIInv, WantedInv, Started, WillBelieve, WillBeLo3, ui, client
<1>7. TxSideInv'
  <2>1. Parked' /\ hw'.t = TxTarget(tx_freq)'
    BY <1>1, <1>3 DEF Parked, TxTarget
  <2> QED BY <1>1, <2>1 DEF TxSideInv
<1> QED BY <1>1, <1>4, <1>5, <1>6, <1>7 DEF TuningInv

LEMMA TxStateDoneKeeps == ASSUME TuningInv, TxStateDone PROVE TuningInv'
<1> DEFINE m == cmds[1]
<1>0. cmds # <<>> /\ pc = "t"
  BY DEF TxStateDone, LockSeen, TuningInv, TxSideInv
<1>1. /\ m.t = "TX_STATE" /\ pc' = "ready" /\ cmds' = Tail(cmds)
      /\ UNCHANGED <<lo3q, uiq, ctrl, hw, lo3, ui, client>>
  BY <1>0, InHand DEF TxStateDone, Take
<1>2. cmds' \in Seq(Commands) /\ cmds \in Seq(Commands)
  BY <1>0, <1>1, InHand
<1>3. /\ StartFirst(cmds') /\ (Started' <=> Started)
      /\ Has(cmds, "RX_RETUNE_FREQ") <=> Has(cmds', "RX_RETUNE_FREQ")
      /\ \A f : TellsLast(cmds, "RX_RETUNE_FREQ", f) => TellsLast(cmds', "RX_RETUNE_FREQ", f)
      /\ HasEnd(cmds) => HasEnd(cmds')
  BY <1>0, <1>1, <1>2, TailTells DEF TuningInv, Started
<1>4. TuningTypeOK'
  BY <1>1, <1>2 DEF TuningInv, TuningTypeOK, ctrl, ui, client
<1>5. RxSideInv' /\ CheckEnds'
  BY <1>0, <1>1, <1>3 DEF TuningInv, RxSideInv, CheckEnds, Retuning, ctrl, ui
<1>6. UIInv' /\ WantedInv'
  BY <1>1, <1>3 DEF TuningInv, UIInv, WantedInv, WillBelieve, WillBeLo3, ctrl, ui, client
<1>7. TxSideInv'
  <2>1. Parked /\ hw.t = TxTarget(tx_freq)
    BY <1>0, <1>1 DEF TuningInv, TxSideInv
  <2>2. Parked' /\ hw'.t = TxTarget(tx_freq)'
    BY <1>1, <2>1 DEF Parked, TxTarget, ctrl
  <2> QED BY <1>1, <2>2 DEF TxSideInv
<1> QED BY <1>3, <1>4, <1>5, <1>6, <1>7 DEF TuningInv

LEMMA ClientKeeps == ASSUME TuningInv, Client PROVE TuningInv'
<1>1. RxFreqs \subseteq Int /\ TxFreqs \subseteq Int /\ CheckFreqs \subseteq Int
  BY TuningAssumption
<1>2. PICK t \in {"RX_RETUNE_FREQ", "TX_RETUNE_FREQ", "LO_CHECK", "TX_STATE"}, f \in Int :
        Request(Cmd(t, f))
  BY <1>1 DEF Client
<1>3. Cmd(t, f) \in Commands /\ Cmd(t, f).t = t
  BY DEF Cmd, Commands
<1> QED BY <1>2, <1>3, RequestKeeps

\* At the start USRPCtrl has its own two tune commands before it, and nobody has
\* asked for anything.
LEMMA StartIsRight == Init => TuningInv
<1> SUFFICES ASSUME Init PROVE TuningInv
  OBVIOUS
<1> DEFINE off == Cmd("TX_STATE", 0)
           a == Cmd("RX_FE_FREQ", StartFreq)
           b == Cmd("TX_FE_FREQ", StartFreq)
<1>1. cmds = <<off, a, b, off>> \/ cmds = <<a, b, off, off>>
  BY DEF Init
<1>2. off \in Commands /\ a \in Commands /\ b \in Commands
  BY TuningAssumption DEF Cmd, Commands
<1>3. off.t = "TX_STATE" /\ a.t = "RX_FE_FREQ" /\ b.t = "TX_FE_FREQ"
  BY DEF Cmd
<1> HIDE DEF off, a, b
<1>4. cmds \in Seq(Commands) /\ Len(cmds) = 4
  <2>1. ASSUME NEW x \in Commands, NEW y \in Commands, NEW z \in Commands, NEW u \in Commands
        PROVE  <<x, y, z, u>> \in Seq(Commands) /\ Len(<<x, y, z, u>>) = 4
    OBVIOUS
  <2> QED BY <1>1, <1>2, <2>1
<1>5. \/ cmds[1] = off /\ cmds[2] = a /\ cmds[3] = b /\ cmds[4] = off
      \/ cmds[1] = a /\ cmds[2] = b /\ cmds[3] = off /\ cmds[4] = off
  BY <1>1
<1>6. Has(cmds, "TX_STATE") /\ Has(cmds, "RX_FE_FREQ")
  BY <1>3, <1>4, <1>5 DEF Has
<1>7. StartFirst(cmds)
  BY <1>3, <1>4, <1>5 DEF StartFirst
<1>8. TuningTypeOK
  <2>1. Grid \in Int /\ StartFreq \in Int /\ StartFreq - 2 * Grid \in Int
    BY TuningAssumption
  <2>2. hw \in [r : Int, t : Int, locked : SUBSET {"r", "t"}]
    BY DEF Init
  <2>3. /\ lo3q = <<Grid>> /\ uiq = <<>> /\ pc = "ready"
        /\ last_rx_req_freq = 0 /\ last_rx_tune = 0
        /\ tx_freq = 0 /\ tx_freq_rxmode_offset = 0 /\ tx_on = FALSE /\ lo3 = 0
        /\ baseband_rx_freq = StartFreq - 2 * Grid /\ lo_check_mode = FALSE
        /\ wanted = {} /\ requests = 0
    BY DEF Init
  <2>4. lo3q \in Seq(Int) /\ uiq \in Seq(Notes) /\ wanted \in SUBSET Int
    BY <2>1, <2>3
  <2>5. /\ last_rx_req_freq \in Int /\ last_rx_tune \in Int /\ tx_freq \in Int
        /\ tx_freq_rxmode_offset \in Int /\ lo3 \in Int /\ baseband_rx_freq \in Int
        /\ requests \in Int
    BY <2>1, <2>3
  <2> QED BY <1>4, <2>2, <2>3, <2>4, <2>5 DEF TuningTypeOK
<1>9. RxSideInv /\ CheckEnds /\ UIInv /\ WantedInv /\ TxSideInv
  <2>1. pc = "ready" /\ hw.r = last_rx_tune /\ wanted = {}
    BY DEF Init
  <2> QED BY <1>6, <2>1 DEF RxSideInv, CheckEnds, UIInv, WantedInv, TxSideInv, Started
<1> QED BY <1>7, <1>8, <1>9 DEF TuningInv

\* Every step of Spec keeps what each thread holds, or will hold, true.
THEOREM TuningInvariant == Spec => []TuningInv
<1>1. Init => TuningInv
  BY StartIsRight
<1>2. TuningInv /\ [Next]_vars => TuningInv'
  <2> SUFFICES ASSUME TuningInv, [Next]_vars PROVE TuningInv'
    OBVIOUS
  <2>1. CASE UsrpCtrl
    BY <2>1, RetuneFineKeeps, RetuneCoarseKeeps, RetuneCoarseDoneKeeps, LoCheckGoKeeps,
       LoCheckBackKeeps, LoCheckBackDoneKeeps, TxTuneKeeps, TxTuneDoneKeeps,
       TxStateKeeps, TxStateDoneKeeps DEF UsrpCtrl
  <2>2. CASE UsrpRx \/ UiTakes \/ UiEndsLoCheck
    BY <2>2, UsrpRxKeeps, UiTakesKeeps, UiEndsLoCheckKeeps
  <2>3. CASE Client
    BY <2>3, ClientKeeps
  <2>4. CASE \E sel \in {"r", "t"} : LockUp(sel)
    BY <2>4, LockUpKeeps
  <2>5. CASE UNCHANGED vars
    <3>1. UNCHANGED <<cmds, lo3q, uiq, pc, ctrl, hw, lo3, ui, client>>
      BY <2>5 DEF vars
    <3>2. TuningTypeOK' /\ StartFirst(cmds')
      BY <3>1 DEF TuningInv, TuningTypeOK, ctrl, ui, client
    <3>3. RxSideInv' /\ CheckEnds' /\ UIInv'
      BY <3>1 DEF TuningInv, RxSideInv, CheckEnds, UIInv, Started, Retuning, WillBelieve,
                  ctrl, ui
    <3>4. WantedInv' /\ TxSideInv'
      BY <3>1 DEF TuningInv, WantedInv, TxSideInv, Started, WillBeLo3, Parked, TxTarget,
                  ctrl, client
    <3> QED BY <3>2, <3>3, <3>4 DEF TuningInv
  <2> QED BY <2>1, <2>2, <2>3, <2>4, <2>5 DEF Next
<1> QED BY <1>1, <1>2, PTL DEF Spec

\* When nothing is queued or half done, the front end and the third LO add up to
\* the frequency last asked for, UI cuts the spectrum where the front end is, and
\* the transmitter's LO is on its frequency or parked.
THEOREM OscillatorsDoAgree == Spec => []OscillatorsAgree
<1>1. TuningInv => OscillatorsAgree
  <2> SUFFICES ASSUME TuningInv, Quiet
               PROVE  /\ \A f \in wanted : Listening(f)
                      /\ baseband_rx_freq = hw.r
                      /\ hw.t = Clamp(tx_freq + (IF tx_on THEN 0 ELSE Park), TxLow, TxHigh)
    BY DEF OscillatorsAgree
  <2>1. cmds = <<>> /\ lo3q = <<>> /\ uiq = <<>> /\ pc = "ready" /\ ~lo_check_mode
    BY DEF Quiet
  <2>2. /\ \A t : ~Has(cmds, t) /\ ~Has(uiq, t)
        /\ \A t, f : ~TellsLast(cmds, t, f) /\ ~TellsLast(uiq, t, f)
        /\ ~HasEnd(cmds)
    BY <2>1 DEF Has, TellsLast, HasEnd
  <2>3. hw.r = last_rx_tune
    BY <2>1, <2>2 DEF TuningInv, CheckEnds
  <2>4. baseband_rx_freq = last_rx_tune
    BY <2>2 DEF TuningInv, UIInv, Started, WillBelieve
  <2>5. ASSUME NEW f \in wanted PROVE Listening(f)
    <3>1. lo3 = f - last_rx_tune
      BY <2>1, <2>2 DEF TuningInv, WantedInv, WillBeLo3
    <3>2. f \in Int /\ hw.r \in Int /\ lo3 \in Int
      BY DEF TuningInv, TuningTypeOK
    <3> QED BY <2>3, <3>1, <3>2 DEF Listening
  <2>6. Parked /\ hw.t = TxTarget(tx_freq)
    BY <2>1, <2>2 DEF TuningInv, TxSideInv
  <2> QED BY <2>3, <2>4, <2>5, <2>6 DEF Parked, TxTarget
<1> QED BY <1>1, TuningInvariant, PTL

=============================================================================
