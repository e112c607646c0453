----------------------------- MODULE AudioProofs -----------------------------
(***************************************************************************)
(* Received audio, proved for every size of the rings, the reads and the   *)
(* backlog: the player is the queue of samples it should be and is never   *)
(* late, and the two recorders, of the audio and of the raw signal, miss   *)
(* nothing.  And the NBFM squelch fades, for any hang time and any value   *)
(* its count is born with.                                                 *)
(*                                                                         *)
(* The argument about the rings is in RingOf: the totals, which say how    *)
(* much is in a ring, agree with the positions, which say where, and with  *)
(* what is stored there.  Each call keeps that, and a reader then gets the *)
(* latest samples in order (RingReadable).                                 *)
(***************************************************************************)
EXTENDS AudioPlayer, SignalPath, BaseBandRX, IFRecorder, SequenceTheorems, FiniteSetTheorems,
        WellFoundedInduction, TLAPS

-----------------------------------------------------------------------------
(* Remainders, which is what positions in a ring are.                      *)

LEMMA Division ==
  ASSUME NEW N \in Nat \ {0}, NEW a \in Int
  PROVE  (a \div N) \in Int /\ (a % N) \in 0 .. N - 1 /\ a = N * (a \div N) + (a % N)
OBVIOUS

LEMMA Remainder ==
  ASSUME NEW N \in Nat \ {0}, NEW a \in Int, NEW r \in 0 .. N - 1, NEW q \in Int,
         a = N * q + r
  PROVE  (a % N) = r
OBVIOUS

LEMMA WholeTurns ==
  ASSUME NEW N \in Nat \ {0}, NEW a \in Int, NEW kk \in Int
  PROVE  ((a + N * kk) % N) = (a % N)
<1> DEFINE q == a \div N
           r == a % N
<1>1. q \in Int /\ r \in 0 .. N - 1 /\ a = N * q + r
  BY Division
<1> HIDE DEF q, r
<1>2. (q + kk) \in Int /\ a + N * kk = N * (q + kk) + r /\ a + N * kk \in Int
  BY <1>1
<1>3. ((a + N * kk) % N) = r
  BY <1>1, <1>2, Remainder
<1> QED BY <1>3 DEF r

LEMMA StepFromRemainder ==
  ASSUME NEW N \in Nat \ {0}, NEW a \in Int, NEW b \in Int
  PROVE  (((a % N) + b) % N) = ((a + b) % N)
<1> DEFINE q == a \div N
           r == a % N
<1>1. q \in Int /\ r \in 0 .. N - 1 /\ a = N * q + r
  BY Division
<1> HIDE DEF q, r
<1>2. a + b = (r + b) + N * q /\ r + b \in Int
  BY <1>1
<1>3. (((r + b) + N * q) % N) = ((r + b) % N)
  BY <1>1, <1>2, WholeTurns
<1> QED BY <1>2, <1>3 DEF r

-----------------------------------------------------------------------------
\* How far behind the head, going round, a place is.
Off(r, p) == (p - r.head) % r.buffer_elements

Rings(N) == [buffer : [0 .. N - 1 -> Int], buffer_elements : {N},
             head : 0 .. N - 1, tail : 0 .. N - 1, num_written : Int, num_read : Int]

\* A ring of N elements that holds the latest samples up to the w-th: its totals
\* agree with its positions, and these with what is stored.
RingOf(r, N, w) ==
  /\ r \in Rings(N)
  /\ r.num_read <= r.num_written
  /\ ((r.tail + NumElements(r)) % N) = r.head
  /\ \A p \in 0 .. N - 1 :
       Off(r, p) >= N - NumElements(r) => r.buffer[p] = w - N + 1 + Off(r, p)

LEMMA RingHolds ==
  ASSUME NEW N \in Nat \ {0}, NEW w \in Int, NEW r, RingOf(r, N, w)
  PROVE  /\ NumElements(r) \in 0 .. N /\ r.buffer_elements = N
         /\ NumElements(r) = IF Backlog(r) > N THEN N ELSE Backlog(r)
         /\ r.head \in 0 .. N - 1 /\ r.tail \in 0 .. N - 1 /\ Backlog(r) \in Nat
         /\ r.num_written \in Int /\ r.num_read \in Int
BY DEF RingOf, Rings, NumElements, Backlog

LEMMA RunIs ==
  ASSUME NEW a \in Int, NEW b \in Int, a <= b
  PROVE  /\ Run(a, b) \in Seq(Int) /\ Len(Run(a, b)) = b - a
         /\ \A i \in 1 .. b - a : Run(a, b)[i] = a + i
BY DEF Run

LEMMA RunsJoin ==
  ASSUME NEW a \in Int, NEW b \in Int, NEW c \in Int, a <= b, b <= c
  PROVE  Run(a, b) \o Run(b, c) = Run(a, c)
<1> DEFINE x == Run(a, b)
           y == Run(b, c)
           z == Run(a, c)
<1>0. a <= c
  OBVIOUS
<1>1. /\ x \in Seq(Int) /\ Len(x) = b - a /\ \A i \in 1 .. b - a : x[i] = a + i
  BY RunIs
<1>2. /\ y \in Seq(Int) /\ Len(y) = c - b /\ \A i \in 1 .. c - b : y[i] = b + i
  BY RunIs
<1>3. /\ z \in Seq(Int) /\ Len(z) = c - a /\ \A i \in 1 .. c - a : z[i] = a + i
  BY <1>0, RunIs
<1> HIDE DEF x, y, z
<1>4. x \o y \in Seq(Int) /\ Len(x \o y) = c - a
  <2>1. x \o y \in Seq(Int) /\ Len(x \o y) = Len(x) + Len(y)
    BY <1>1, <1>2, ConcatProperties
  <2> QED BY <1>1, <1>2, <2>1
<1>5. ASSUME NEW i \in 1 .. c - a PROVE (x \o y)[i] = z[i]
  <2>1. (x \o y)[i] = IF i <= Len(x) THEN x[i] ELSE y[i - Len(x)]
    BY <1>1, <1>2, ConcatProperties
  <2>2. CASE i <= b - a
    BY <1>1, <1>3, <2>1, <2>2
  <2>3. CASE i > b - a
    <3>1. i - Len(x) \in 1 .. c - b /\ y[i - Len(x)] = b + (i - Len(x))
      BY <1>1, <1>2, <2>3
    <3> QED BY <1>1, <1>3, <2>1, <2>3, <3>1
  <2>4. i <= b - a \/ i > b - a
    OBVIOUS
  <2> QED BY <2>2, <2>3, <2>4
<1>6. x \o y = z
  BY <1>3, <1>4, <1>5, SeqEqual
<1> QED BY <1>6 DEF x, y, z

\* What a reader gets, in order, are the latest samples.
LEMMA RingReadable ==
  ASSUME NEW N \in Nat \ {0}, NEW w \in Int, NEW r, RingOf(r, N, w)
  PROVE  Readable(r) = Run(w - NumElements(r), w)
<1> DEFINE num == NumElements(r)
<1>1. /\ num \in 0 .. N /\ r.buffer_elements = N /\ r.head \in 0 .. N - 1
      /\ r.tail \in 0 .. N - 1
  BY RingHolds
<1>2. Given(r, r.buffer_elements) = num
  BY <1>1 DEF Given
<1> HIDE DEF num
<1>3. ASSUME NEW i \in 1 .. num
      PROVE  r.buffer[WrapBufferPointer(r, r.tail, i - 1)] = w - num + i
  <2> DEFINE p == (r.tail + (i - 1)) % N
  <2>1. p \in 0 .. N - 1
    <3>1. r.tail + (i - 1) \in Int
      BY <1>1
    <3> QED BY <3>1, Division
  <2>2. Off(r, p) = ((r.tail + (i - 1) - r.head) % N)
    <3>1. r.tail + (i - 1) \in Int /\ -r.head \in Int
      BY <1>1
    <3>2. ((p + (-r.head)) % N) = ((r.tail + (i - 1) + (-r.head)) % N)
      BY <3>1, StepFromRemainder
    <3> HIDE DEF p
    <3> QED BY <1>1, <2>1, <3>1, <3>2 DEF Off
  <2>3. ((r.tail + (i - 1) - r.head) % N) = N - num + i - 1
    <3> DEFINE t == r.tail + num
    <3>1. t \in Int /\ (t % N) = r.head /\ t = N * (t \div N) + r.head /\ (t \div N) \in Int
      <4>1. t \in Int
        BY <1>1
      <4>2. (t % N) = r.head
        BY DEF num, RingOf
      <4> HIDE DEF t
      <4> QED BY <4>1, <4>2, Division
    <3>2. N - num + i - 1 \in 0 .. N - 1
      BY <1>1
    <3> DEFINE a == r.tail + (i - 1) - r.head
               q == t \div N
    <3>3. a \in Int /\ (q - 1) \in Int /\ a = N * (q - 1) + (N - num + i - 1)
      <4>1. q \in Int /\ r.tail + num = N * q + r.head
        BY <3>1
      <4> HIDE DEF q
      <4> QED BY <1>1, <4>1
    <3> HIDE DEF a, q
    <3>4. (a % N) = N - num + i - 1
      BY <3>2, <3>3, Remainder
    <3> QED BY <3>4 DEF a
  <2>4. Off(r, p) = N - num + i - 1
    BY <2>2, <2>3
  <2> HIDE DEF p
  <2>5. r.buffer[p] = w - N + 1 + Off(r, p)
    BY <1>1, <2>1, <2>4 DEF RingOf, num
  <2>6. WrapBufferPointer(r, r.tail, i - 1) = p
    BY <1>1 DEF WrapBufferPointer, p
  <2> QED BY <1>1, <2>4, <2>5, <2>6
<1>4. Readable(r) = [i \in 1 .. num |-> r.buffer[WrapBufferPointer(r, r.tail, i - 1)]]
  BY <1>2 DEF Readable, Out
<1>5. Run(w - num, w) = [i \in 1 .. num |-> w - num + i]
  BY <1>1 DEF Run
<1> QED BY <1>3, <1>4, <1>5 DEF num

-----------------------------------------------------------------------------
(* What the calls of a ring do to it.                                      *)

LEMMA NewRingHoldsNothing ==
  ASSUME NEW N \in Nat \ {0}, NEW w \in Int
  PROVE  RingOf(NewRing(N, 0), N, w) /\ NumElements(NewRing(N, 0)) = 0
         /\ Backlog(NewRing(N, 0)) = 0
<1> DEFINE r == NewRing(N, 0)
<1>1. /\ r.buffer = [p \in 0 .. N - 1 |-> 0] /\ r.buffer_elements = N /\ r.head = 0
      /\ r.tail = 0 /\ r.num_written = 0 /\ r.num_read = 0 /\ r \in Rings(N)
  BY DEF NewRing, Rings
<1> HIDE DEF r
<1>2. NumElements(r) = 0 /\ Backlog(r) = 0
  BY <1>1 DEF NumElements, Backlog
<1>3. ((r.tail + NumElements(r)) % N) = r.head
  BY <1>1, <1>2
<1>4. ASSUME NEW p \in 0 .. N - 1 PROVE Off(r, p) < N - NumElements(r)
  BY <1>1, <1>2 DEF Off
<1>5. \A p \in 0 .. N - 1 :
       Off(r, p) >= N - NumElements(r) => r.buffer[p] = w - N + 1 + Off(r, p)
  <2> TAKE p \in 0 .. N - 1
  <2>1. Off(r, p) \in Int
    BY <1>1 DEF Off
  <2> QED BY <1>2, <1>4, <2>1
<1> QED BY <1>1, <1>2, <1>3, <1>5 DEF RingOf, r

LEMMA ClearedHoldsNothing ==
  ASSUME NEW N \in Nat \ {0}, NEW w \in Int, NEW r, RingOf(r, N, w)
  PROVE  RingOf(Cleared(r), N, w) /\ NumElements(Cleared(r)) = 0
         /\ Backlog(Cleared(r)) = 0
<1> DEFINE c == Cleared(r)
<1>1. /\ c.buffer_elements = N /\ c.head = 0
      /\ c.tail = 0 /\ c.num_written = 0 /\ c.num_read = 0 /\ c \in Rings(N)
  <2>1. r \in Rings(N) /\ 0 \in 0 .. N - 1
    BY DEF RingOf
  <2> DEFINE kk == [r EXCEPT !.head = 0, !.tail = 0]
  <2>2. c = [kk EXCEPT !.num_written = 0, !.num_read = 0]
    BY DEF Cleared
  <2>3. kk \in Rings(N) /\ kk.head = 0 /\ kk.tail = 0
    BY <2>1 DEF Rings
  <2> HIDE DEF kk, c
  <2>4. /\ c.num_written = 0 /\ c.num_read = 0 /\ c.head = kk.head /\ c.tail = kk.tail
        /\ c \in Rings(N)
    <3>1. /\ kk.buffer \in [0 .. N - 1 -> Int] /\ kk.buffer_elements = N
          /\ kk.head \in 0 .. N - 1 /\ kk.tail \in 0 .. N - 1
      BY <2>3 DEF Rings
    <3>2. c = [buffer |-> kk.buffer, buffer_elements |-> N, head |-> kk.head, tail |-> kk.tail,
               num_written |-> 0, num_read |-> 0]
      BY <2>2, <2>3, <3>1 DEF Rings
    <3> QED BY <3>1, <3>2 DEF Rings
  <2>5. c.buffer_elements = N
    BY <2>4 DEF Rings
  <2> QED BY <2>3, <2>4, <2>5
<1> HIDE DEF c
<1>2. NumElements(c) = 0 /\ Backlog(c) = 0
  BY <1>1 DEF NumElements, Backlog
<1>3. ((c.tail + NumElements(c)) % N) = c.head
  BY <1>1, <1>2
<1>4. ASSUME NEW p \in 0 .. N - 1 PROVE Off(c, p) < N - NumElements(c)
  BY <1>1, <1>2 DEF Off
<1>5. \A p \in 0 .. N - 1 :
       Off(c, p) >= N - NumElements(c) => c.buffer[p] = w - N + 1 + Off(c, p)
  <2> TAKE p \in 0 .. N - 1
  <2>1. Off(c, p) \in Int
    BY <1>1 DEF Off
  <2> QED BY <1>2, <1>4, <2>1
<1> QED BY <1>1, <1>2, <1>3, <1>5 DEF RingOf, c

\* A ring that differs only in the totals' common offset holds the same.
LEMMA CountedHolds ==
  ASSUME NEW N \in Nat \ {0}, NEW w \in Int, NEW r, RingOf(r, N, w)
  PROVE  /\ RingOf(Counted(r), N, w) /\ NumElements(Counted(r)) = NumElements(r)
         /\ Backlog(Counted(r)) = NumElements(r)
<1> DEFINE c == Counted(r)
           num == NumElements(r)
<1>1. num \in 0 .. N /\ r \in Rings(N) /\ r.num_written \in Int
  BY RingHolds DEF RingOf
<1> HIDE DEF num
<1>2. /\ c.buffer = r.buffer /\ c.buffer_elements = N /\ c.head = r.head
      /\ c.tail = r.tail /\ c.num_written = r.num_written
      /\ c.num_read = r.num_written - num /\ c \in Rings(N)
  BY <1>1 DEF Counted, Rings, num
<1> HIDE DEF c
<1>3. Backlog(c) = num /\ NumElements(c) = num /\ c.num_read <= c.num_written
  BY <1>1, <1>2 DEF NumElements, Backlog
<1>4. /\ ((c.tail + NumElements(c)) % N) = c.head
      /\ \A p \in 0 .. N - 1 : Off(c, p) = Off(r, p)
  BY <1>1, <1>2, <1>3 DEF RingOf, Off, num, Rings
<1> QED BY <1>2, <1>3, <1>4 DEF RingOf, c, num

\* Reading takes the oldest off.
LEMMA GotHolds ==
  ASSUME NEW N \in Nat \ {0}, NEW w \in Int, NEW r, RingOf(r, N, w),
         NEW len \in Nat, len <= NumElements(r)
  PROVE  /\ RingOf(Got(r, len), N, w) /\ NumElements(Got(r, len)) = NumElements(r) - len
         /\ Backlog(Got(r, len)) = NumElements(r) - len
<1> DEFINE g == Got(r, len)
           num == NumElements(r)
<1>1. /\ num \in 0 .. N /\ r \in Rings(N) /\ r.num_written \in Int /\ r.tail \in 0 .. N - 1
      /\ r.buffer_elements = N
  BY RingHolds DEF RingOf
<1>2. Given(r, len) = len /\ len <= num
  BY <1>1 DEF Given
<1>3. r.tail + len \in Int /\ ((r.tail + len) % N) \in 0 .. N - 1
  <2>1. r.tail + len \in Int
    BY <1>1
  <2> QED BY <2>1, Division
<1> HIDE DEF num
<1>4. /\ g.buffer = r.buffer /\ g.buffer_elements = N /\ g.head = r.head
      /\ g.tail = ((r.tail + len) % N) /\ g.num_written = r.num_written
      /\ g.num_read = r.num_written - num + len /\ g \in Rings(N)
  <2> DEFINE t == (r.tail + len) % N
             kk == Counted(r)
  <2>1. /\ kk.buffer = r.buffer /\ kk.head = r.head /\ kk.num_written = r.num_written
        /\ kk.num_read = r.num_written - num /\ kk \in Rings(N)
    BY <1>1 DEF Counted, Rings, num
  <2>2. WrapBufferPointer(r, r.tail, Given(r, len)) = t
    BY <1>1, <1>2 DEF WrapBufferPointer
  <2>3. t \in 0 .. N - 1
    BY <1>3
  <2> HIDE DEF kk, t
  <2>4. g = [kk EXCEPT !.tail = t, !.num_read = kk.num_read + len]
    BY <1>2, <2>2 DEF Got, kk
  <2>5. /\ g.buffer = kk.buffer /\ g.buffer_elements = N /\ g.head = kk.head /\ g.tail = t
        /\ g.num_written = kk.num_written /\ g.num_read = kk.num_read + len
        /\ g \in Rings(N)
    <3>1. /\ kk.buffer \in [0 .. N - 1 -> Int] /\ kk.buffer_elements = N
          /\ kk.head \in 0 .. N - 1 /\ kk.num_written \in Int /\ kk.num_read + len \in Int
      BY <2>1 DEF Rings
    <3>2. g = [buffer |-> kk.buffer, buffer_elements |-> N, head |-> kk.head, tail |-> t,
               num_written |-> kk.num_written, num_read |-> kk.num_read + len]
      BY <2>1, <2>4, <3>1 DEF Rings
    <3> QED BY <2>3, <3>1, <3>2 DEF Rings
  <2> QED BY <2>1, <2>5 DEF t
<1> HIDE DEF g
<1>5. Backlog(g) = num - len /\ NumElements(g) = num - len /\ g.num_read <= g.num_written
  BY <1>1, <1>2, <1>4 DEF NumElements, Backlog
<1>6. ((g.tail + NumElements(g)) % N) = g.head
  <2>1. (((r.tail + len) % N) + (num - len)) % N = ((r.tail + len + (num - len)) % N)
    <3>1. r.tail + len \in Int /\ num - len \in Int
      BY <1>1
    <3> QED BY <3>1, StepFromRemainder
  <2>2. r.tail + len + (num - len) = r.tail + num
    BY <1>1
  <2>3. ((r.tail + num) % N) = r.head
    BY DEF RingOf, num
  <2> QED BY <1>4, <1>5, <2>1, <2>2, <2>3
<1>7. \A p \in 0 .. N - 1 :
        Off(g, p) >= N - NumElements(g) => g.buffer[p] = w - N + 1 + Off(g, p)
  <2> TAKE p \in 0 .. N - 1
  <2>1. Off(g, p) = Off(r, p)
    BY <1>1, <1>4 DEF Off
  <2>2. Off(r, p) \in Int
    <3>1. p - r.head \in Int /\ Off(r, p) = ((p - r.head) % N)
      BY <1>1 DEF Off, Rings
    <3> QED BY <3>1, Division
  <2>3. Off(r, p) >= N - num => r.buffer[p] = w - N + 1 + Off(r, p)
    BY DEF RingOf, num
  <2> QED BY <1>1, <1>2, <1>4, <1>5, <2>1, <2>2, <2>3
<1> QED BY <1>4, <1>5, <1>6, <1>7 DEF RingOf, g, num

\* The last of len samples that goes to the place o behind the head.
LEMMA LastLap ==
  ASSUME NEW N \in Nat \ {0}, NEW len \in Nat, NEW o \in 0 .. N - 1, o < len
  PROVE  LET q == (len - 1 - o) \div N
             l == o + N * q
         IN  /\ q \in Int /\ l \in 0 .. len - 1
             /\ N + l - len \in 0 .. N - 1
<1> DEFINE a == len - 1 - o
           q == a \div N
           m == a % N
<1>1. a \in Nat /\ a \in Int
  OBVIOUS
<1>2. q \in Int /\ m \in 0 .. N - 1 /\ a = N * q + m
  <2> HIDE DEF a
  <2> QED BY <1>1, Division
<1>3. o + N * q = len - 1 - m
  <2> HIDE DEF q, m
  <2> QED BY <1>2
<1>4. o + N * q >= 0
  <2>1. q >= 0
    <3> HIDE DEF a, q, m
    <3>1. CASE q <= -1
      <4>1. N * q <= -N
        BY <1>2, <3>1
      <4>2. N * q \in Int
        BY <1>2
      <4> QED BY <1>1, <1>2, <4>1, <4>2
    <3> QED BY <1>2, <3>1
  <2>2. N * q >= 0
    <3> HIDE DEF q
    <3> QED BY <1>2, <2>1
  <2>3. N * q \in Int
    BY <1>2
  <2> HIDE DEF q
  <2> QED BY <2>2, <2>3
<1>5. N * q \in Int
  BY <1>2
<1> DEFINE l == o + N * q
<1>6. l \in Int /\ l = len - 1 - m /\ l >= 0
  <2> HIDE DEF q
  <2> QED BY <1>3, <1>4, <1>5
<1>7. l \in 0 .. len - 1 /\ N + l - len \in 0 .. N - 1
  <2> HIDE DEF l, m
  <2> QED BY <1>2, <1>6
<1> QED BY <1>2, <1>7

\* Where the head of a ring has moved on by len, every place is as much further
\* behind it.
LEMMA OffMovesOn ==
  ASSUME NEW N \in Nat \ {0}, NEW len \in Nat, NEW h \in 0 .. N - 1,
         NEW p \in 0 .. N - 1
  PROVE  ((p - ((h + len) % N)) % N) = ((((p - h) % N) - len) % N)
<1> DEFINE a == h + len
           kk == a \div N
           g == a % N
<1>1. a \in Int /\ kk \in Int /\ g \in 0 .. N - 1 /\ a = N * kk + g
  <2>1. a \in Int
    OBVIOUS
  <2> HIDE DEF a
  <2> QED BY <2>1, Division
<1>2. p - g = (p - h - len) + N * kk
  <2> HIDE DEF kk, g
  <2> QED BY <1>1
<1>3. p - h - len \in Int /\ p - h \in Int /\ -len \in Int
      /\ (p - h) + (-len) = p - h - len
  OBVIOUS
<1>4. (((p - h - len) + N * kk) % N) = ((p - h - len) % N)
  BY <1>1, <1>3, WholeTurns
<1>5. ((((p - h) % N) + (-len)) % N) = (((p - h) + (-len)) % N)
  BY <1>3, StepFromRemainder
<1>6. ((p - h) % N) \in Int
  BY <1>3, Division
<1>7. ((p - h) % N) - len = ((p - h) % N) + (-len)
  BY <1>6
<1> HIDE DEF g, kk
<1>8. ((p - g) % N) = ((((p - h) % N) - len) % N)
  BY <1>2, <1>3, <1>4, <1>5, <1>7
<1> QED BY <1>8 DEF g

\* Putting adds the samples behind what there is, and the oldest give way.
LEMMA PutHolds ==
  ASSUME NEW N \in Nat \ {0}, NEW w \in Nat, NEW r, RingOf(r, N, w),
         NEW len \in Nat \ {0}
  PROVE  LET p == Put(r, Run(w, w + len))
         IN  /\ RingOf(p, N, w + len)
             /\ NumElements(p) = IF NumElements(r) + len > N THEN N
                                 ELSE NumElements(r) + len
             /\ Backlog(p) = NumElements(r) + len
<1> DEFINE in == Run(w, w + len)
           num == NumElements(r)
           h == (r.head + len) % N
           c == Copied(r, in)
           e == Put(r, in)
           q(p) == (len - 1 - Off(r, p)) \div N
           l(p) == Off(r, p) + N * q(p)
           b == [p \in 0 .. N - 1 |->
                   IF Off(r, p) < len THEN in[l(p) + 1] ELSE r.buffer[p]]
<1>1. /\ num \in 0 .. N /\ r \in Rings(N) /\ r.num_written \in Int /\ r.tail \in 0 .. N - 1
      /\ r.buffer_elements = N /\ r.head \in 0 .. N - 1 /\ r.buffer \in [0 .. N - 1 -> Int]
  <2>1. num \in 0 .. N
    <3>1. w \in Int
      OBVIOUS
    <3> QED BY <3>1, RingHolds
  <2>2. r \in Rings(N)
    BY DEF RingOf
  <2> HIDE DEF num
  <2> QED BY <2>1, <2>2 DEF Rings
<1>2. Len(in) = len /\ \A i \in 1 .. len : in[i] = w + i
  <2>1. w \in Int /\ w + len \in Int /\ w <= w + len /\ (w + len) - w = len
    OBVIOUS
  <2> QED BY <2>1, RunIs
<1>3. h \in 0 .. N - 1
  <2>1. r.head + len \in Int
    BY <1>1
  <2> QED BY <2>1, Division
<1>4. ASSUME NEW p \in 0 .. N - 1 PROVE Off(r, p) \in 0 .. N - 1 /\ Off(r, p) = ((p - r.head) % N)
  <2>1. p - r.head \in Int /\ Off(r, p) = ((p - r.head) % N)
    BY <1>1 DEF Off
  <2> QED BY <2>1, Division
<1>5. ASSUME NEW p \in 0 .. N - 1, Off(r, p) < len
      PROVE  q(p) \in Int /\ l(p) \in 0 .. len - 1 /\ N + l(p) - len \in 0 .. N - 1
  BY <1>4, <1>5, LastLap
<1>6. ASSUME NEW p \in 0 .. N - 1, Off(r, p) < len PROVE b[p] = w + l(p) + 1
  <2>1. l(p) \in 0 .. len - 1
    BY <1>5, <1>6
  <2>2. b[p] = in[l(p) + 1]
    BY <1>6
  <2> HIDE DEF l, in, b
  <2>3. l(p) + 1 \in 1 .. len
    BY <2>1
  <2> QED BY <1>2, <2>1, <2>2, <2>3
<1>7. b \in [0 .. N - 1 -> Int]
  <2>1. ASSUME NEW p \in 0 .. N - 1 PROVE b[p] \in Int
    <3>1. CASE Off(r, p) < len
      <4>1. l(p) \in Int
        BY <1>5, <3>1
      <4> HIDE DEF l, b
      <4> QED BY <1>6, <3>1, <4>1
    <3>2. CASE ~(Off(r, p) < len)
      <4>1. b[p] = r.buffer[p]
        BY <3>2
      <4> HIDE DEF b
      <4> QED BY <1>1, <4>1
    <3> QED BY <3>1, <3>2
  <2>2. b = [p \in 0 .. N - 1 |-> b[p]]
    OBVIOUS
  <2> HIDE DEF b
  <2> QED BY <2>1, <2>2
<1> HIDE DEF num, h
<1>8. /\ c.buffer = b /\ c.buffer_elements = N /\ c.head = h /\ c.tail = r.tail
      /\ c.num_written = r.num_written + len /\ c.num_read = r.num_written - num
      /\ c \in Rings(N)
  <2> DEFINE kk == Counted(r)
  <2>1. /\ kk.buffer = r.buffer /\ kk.head = r.head /\ kk.num_written = r.num_written
        /\ kk.tail = r.tail
        /\ kk.num_read = r.num_written - num /\ kk \in Rings(N)
    BY <1>1, SMTT(30) DEF Counted, Rings, num
  <2>2. WrapBufferPointer(r, kk.head, len) = h
    BY <1>1, <2>1 DEF WrapBufferPointer, h
  <2> HIDE DEF kk, in
  <2>3. c = [kk EXCEPT !.buffer = b, !.head = WrapBufferPointer(r, kk.head, len),
                      !.num_written = kk.num_written + len]
    <3>1. Places(r) = 0 .. N - 1
      BY <1>1 DEF Places
    <3>2. \A p : (p - r.head) % r.buffer_elements = Off(r, p)
      BY DEF Off
    <3> QED BY <1>1, <1>2, <3>1 DEF Copied, kk, Off
  <2> HIDE DEF b, c
  <2>4. c = [kk EXCEPT !.buffer = b, !.head = h, !.num_written = kk.num_written + len]
    BY <2>2, <2>3
  <2>5. /\ kk.tail \in 0 .. N - 1 /\ kk.num_written + len \in Int /\ kk.num_read \in Int
        /\ kk.buffer_elements = N
    BY <2>1 DEF Rings
  <2>6. c = [buffer |-> b, buffer_elements |-> N, head |-> h, tail |-> kk.tail,
             num_written |-> kk.num_written + len, num_read |-> kk.num_read]
    BY <2>1, <2>4, <2>5 DEF Rings
  <2> QED BY <1>3, <1>7, <2>1, <2>5, <2>6 DEF Rings
<1> DEFINE t == IF num + len > N THEN h ELSE r.tail
<1>9. /\ e.buffer = b /\ e.buffer_elements = N /\ e.head = h /\ e.tail = t
      /\ e.num_written = r.num_written + len /\ e.num_read = r.num_written - num
      /\ e \in Rings(N)
  <2>1. e = IF num + len > N THEN [c EXCEPT !.tail = c.head] ELSE c
    BY <1>1, <1>2 DEF Put, num
  <2> HIDE DEF c, e, b, in
  <2>2. CASE num + len > N
    <3>1. e = [c EXCEPT !.tail = h]
      BY <1>8, <2>1, <2>2
    <3>2. c.num_written \in Int /\ c.num_read \in Int
      BY <1>8 DEF Rings
    <3>3. e = [buffer |-> b, buffer_elements |-> N, head |-> h, tail |-> h,
               num_written |-> c.num_written, num_read |-> c.num_read]
      BY <1>8, <3>1 DEF Rings
    <3> QED BY <1>3, <1>7, <1>8, <2>2, <3>2, <3>3 DEF Rings
  <2>3. CASE ~(num + len > N)
    BY <1>8, <2>1, <2>3
  <2> QED BY <2>2, <2>3
<1> HIDE DEF c, e, in, b
<1>10. Backlog(e) = num + len /\ e.num_read <= e.num_written
       /\ NumElements(e) = IF num + len > N THEN N ELSE num + len
  <2>1. e.num_written - e.num_read = num + len /\ e.num_read <= e.num_written
    BY <1>1, <1>9
  <2> QED BY <1>9, <2>1 DEF Backlog, NumElements
<1> DEFINE m == NumElements(e)
<1>11. ((e.tail + m) % N) = e.head
  <2>1. CASE num + len > N
    <3>1. ((h + N) % N) = h
      <4>1. h + N = N * 1 + h /\ h + N \in Int
        BY <1>3
      <4> QED BY <1>3, <4>1, Remainder
    <3> QED BY <1>9, <1>10, <2>1, <3>1
  <2>2. CASE ~(num + len > N)
    <3>1. ((r.tail + num) % N) = r.head
      BY DEF RingOf, num
    <3>2. r.tail + num \in Int /\ r.tail + num + len = r.tail + (num + len)
      BY <1>1
    <3>3. ((((r.tail + num) % N) + len) % N) = ((r.tail + num + len) % N)
      <4> DEFINE a == r.tail + num
      <4>1. a \in Int /\ len \in Int
        BY <3>2
      <4> HIDE DEF a
      <4>2. (((a % N) + len) % N) = ((a + len) % N)
        BY <4>1, StepFromRemainder
      <4> QED BY <4>2 DEF a
    <3> QED BY <1>9, <1>10, <2>2, <3>1, <3>2, <3>3 DEF h
  <2> QED BY <2>1, <2>2
<1>12. ASSUME NEW p \in 0 .. N - 1, Off(e, p) >= N - m
       PROVE  e.buffer[p] = (w + len) - N + 1 + Off(e, p)
  <2> DEFINE o == Off(r, p)
  <2>1. o \in 0 .. N - 1
    BY <1>4
  <2>2. Off(e, p) = ((o - len) % N)
    <3>1. Off(e, p) = ((p - h) % N)
      BY <1>9 DEF Off
    <3>2. ((p - h) % N) = ((((p - r.head) % N) - len) % N)
      BY <1>1, OffMovesOn DEF h
    <3> QED BY <1>4, <3>1, <3>2
  <2>3. CASE o < len
    <3> DEFINE x == q(p)
               y == l(p)
    <3>1. x \in Int /\ y \in 0 .. len - 1 /\ N + y - len \in 0 .. N - 1 /\ y = o + N * x
      BY <1>5, <2>3
    <3>2. e.buffer[p] = w + y + 1
      BY <1>6, <1>9, <2>3
    <3> HIDE DEF x, y, o
    <3>3. o - len = N * (-x - 1) + (N + y - len) /\ o - len \in Int /\ -x - 1 \in Int
      BY <2>1, <3>1
    <3>4. ((o - len) % N) = N + y - len
      <4> DEFINE a == o - len
                 z == N + y - len
                 v == -x - 1
      <4>1. a \in Int /\ z \in 0 .. N - 1 /\ v \in Int /\ a = N * v + z
        BY <3>1, <3>3
      <4> HIDE DEF a, z, v
      <4>2. (a % N) = z
        BY <4>1, Remainder
      <4> QED BY <4>2 DEF a, z
    <3> QED BY <2>2, <3>1, <3>2, <3>4
  <2>4. CASE ~(o < len)
    <3>1. o - len \in 0 .. N - 1 /\ o - len \in Int /\ o - len = N * 0 + (o - len)
      BY <2>1, <2>4
    <3>2. ((o - len) % N) = o - len
      <4> DEFINE a == o - len
      <4>1. a \in Int /\ a \in 0 .. N - 1 /\ 0 \in Int /\ a = N * 0 + a
        BY <3>1
      <4> HIDE DEF a
      <4>2. (a % N) = a
        BY <4>1, Remainder
      <4> QED BY <4>2 DEF a
    <3>3. e.buffer[p] = r.buffer[p]
      BY <1>9, <2>4 DEF b
    <3>4. m <= num + len /\ m \in Int
      BY <1>1, <1>10
    <3> HIDE DEF m
    <3>5. o >= N - num
      BY <1>1, <1>12, <2>1, <2>2, <3>1, <3>2, <3>4
    <3>6. r.buffer[p] = w - N + 1 + o
      BY <3>5 DEF RingOf, num
    <3> HIDE DEF o
    <3> QED BY <2>1, <2>2, <3>2, <3>3, <3>6
  <2> QED BY <2>3, <2>4
<1>13. RingOf(e, N, w + len)
  <2> HIDE DEF t
  <2> QED BY <1>9, <1>10, <1>11, <1>12 DEF RingOf
<1> QED BY <1>10, <1>13 DEF e, in, num

-----------------------------------------------------------------------------
(* The player and the recorder.                                            *)

KeptBack == IF unfiled < RecordLen THEN unfiled ELSE RecordLen

\* Both rings hold the latest samples; what is in the file ends with the latest,
\* and then nothing waits to be put in front of it.
PlayerInv ==
  /\ arrived \in Nat /\ sent \in Nat /\ update_count \in 0 .. CheckEvery - 1
  /\ RingOf(audio_cbuffer, PlayLen, arrived) /\ Backlog(audio_cbuffer) <= Since
RecorderInv ==
  /\ unfiled \in Nat /\ RingOf(rec_buffer, RecordLen, arrived)
  /\ NumElements(rec_buffer) = KeptBack
  /\ \E kk \in Nat : /\ recording = Run(arrived - kk, arrived)
                     /\ kk > 0 => unfiled = 0 /\ snd_file = "open"
AudioInv == PlayerInv /\ RecorderInv

LEMMA Sizes ==
  /\ ReadLen \in Nat \ {0} /\ PlayLen \in Nat \ {0} /\ RecordLen \in Nat \ {0}
  /\ CheckEvery \in Nat \ {0} /\ MaxSlack \in Nat /\ FrameLen \in Nat \ {0}
  /\ MaxSlack + CheckEvery * ReadLen <= PlayLen /\ DeviceReads \subseteq Nat \ {0}
BY AudioAssumption

\* A measurement leaves at most the slack behind; without one nothing changes.
LEMMA MeasuredHolds ==
  ASSUME AudioInv
  PROVE  LET r == Measured(audio_cbuffer)
         IN  /\ RingOf(r, PlayLen, arrived)
             /\ NumElements(r) = 0 \/ NumElements(r) = NumElements(audio_cbuffer)
             /\ NumElements(r) <= MaxSlack + ReadLen * update_count
<1> DEFINE a == audio_cbuffer
           num == NumElements(a)
           r == Measured(a)
<1>1. PlayLen \in Nat \ {0} /\ arrived \in Int /\ RingOf(a, PlayLen, arrived)
  BY Sizes DEF AudioInv, PlayerInv
<1>2. num \in 0 .. PlayLen /\ num <= Backlog(a) /\ Backlog(a) \in Nat
  BY <1>1, RingHolds
<1>3. RingOf(Counted(a), PlayLen, arrived) /\ NumElements(Counted(a)) = num
  BY <1>1, CountedHolds
<1>4. CASE update_count # 0
  <2>1. r = a
    BY <1>4 DEF Measured
  <2>2. Backlog(a) <= MaxSlack + ReadLen * update_count
    BY <1>4 DEF AudioInv, PlayerInv, Since
  <2>3. MaxSlack + ReadLen * update_count \in Int
    BY Sizes DEF AudioInv, PlayerInv
  <2> HIDE DEF num, a, r
  <2>4. num <= MaxSlack + ReadLen * update_count
    BY <1>2, <2>2, <2>3
  <2> QED BY <1>1, <2>1, <2>4 DEF num, a, r
<1>5. CASE update_count = 0
  <2>1. MaxSlack + ReadLen * update_count = MaxSlack /\ MaxSlack \in Nat
    BY <1>5, Sizes
  <2>2. CASE num > MaxSlack
    <3>1. r = Cleared(Counted(a))
      BY <1>5, <2>2 DEF Measured, CleanBuffer
    <3>2. RingOf(r, PlayLen, arrived) /\ NumElements(r) = 0
      BY <1>1, <1>3, <3>1, ClearedHoldsNothing
    <3> HIDE DEF num, a, r
    <3>3. NumElements(r) <= MaxSlack + ReadLen * update_count
      BY <2>1, <3>2
    <3> QED BY <3>2, <3>3 DEF num, a, r
  <2>3. CASE ~(num > MaxSlack)
    <3>1. r = Counted(a)
      BY <1>5, <2>3 DEF Measured
    <3>2. num <= MaxSlack
      BY <1>2, <2>1, <2>3
    <3> HIDE DEF num, a, r
    <3>3. NumElements(r) = num /\ NumElements(r) <= MaxSlack + ReadLen * update_count
      BY <1>3, <2>1, <3>1, <3>2
    <3> QED BY <1>3, <3>1, <3>3 DEF num, a, r
  <2> QED BY <2>2, <2>3
<1> QED BY <1>4, <1>5

LEMMA ProcessKeepsPlayer ==
  ASSUME AudioInv, NEW num \in 1 .. ReadLen, ProcessRXAudio(num)
  PROVE  /\ PlayerInv'
         /\ \/ NumElements(audio_cbuffer') = IF num > PlayLen THEN PlayLen ELSE num
            \/ NumElements(audio_cbuffer') =
                 IF NumElements(audio_cbuffer) + num > PlayLen THEN PlayLen
                 ELSE NumElements(audio_cbuffer) + num
<1> DEFINE r == Measured(audio_cbuffer)
           u == update_count
           a == audio_cbuffer'
<1>1. /\ arrived \in Nat /\ num \in Nat \ {0} /\ num <= ReadLen /\ u \in 0 .. CheckEvery - 1
      /\ arrived' = arrived + num /\ sent' = sent /\ sent \in Nat
      /\ u' = ((u + 1) % CheckEvery) /\ a = Put(r, Run(arrived, arrived + num))
  BY Sizes DEF AudioInv, PlayerInv, ProcessRXAudio
<1>2. /\ RingOf(r, PlayLen, arrived)
      /\ NumElements(r) = 0 \/ NumElements(r) = NumElements(audio_cbuffer)
      /\ NumElements(r) <= MaxSlack + ReadLen * u
  BY MeasuredHolds
<1>3. NumElements(r) \in 0 .. PlayLen
  <2>1. arrived \in Int
    BY <1>1
  <2> HIDE DEF r
  <2> QED BY <1>2, <2>1, Sizes, RingHolds
<1> HIDE DEF r, a
<1>4. /\ RingOf(a, PlayLen, arrived + num) /\ Backlog(a) = NumElements(r) + num
      /\ NumElements(a) = IF NumElements(r) + num > PlayLen THEN PlayLen
                          ELSE NumElements(r) + num
  BY <1>1, <1>2, Sizes, PutHolds
<1>5. /\ u + 1 < CheckEvery => u' = u + 1
      /\ u + 1 = CheckEvery => u' = 0
      /\ u + 1 < CheckEvery \/ u + 1 = CheckEvery
  <2>1. CASE u + 1 < CheckEvery
    <3>1. u + 1 \in 0 .. CheckEvery - 1 /\ u + 1 \in Int /\ u + 1 = CheckEvery * 0 + (u + 1)
      BY <1>1, <2>1, Sizes
    <3>2. ((u + 1) % CheckEvery) = u + 1
      BY <3>1, Sizes, Remainder
    <3> QED BY <1>1, <2>1, <3>2, Sizes
  <2>2. CASE u + 1 = CheckEvery
    <3>1. u + 1 \in Int /\ u + 1 = CheckEvery * 1 + 0 /\ 0 \in 0 .. CheckEvery - 1
      BY <1>1, <2>2, Sizes
    <3>2. ((u + 1) % CheckEvery) = 0
      BY <3>1, Sizes, Remainder
    <3> QED BY <1>1, <2>2, <3>2, Sizes
  <2> QED BY <1>1, <2>1, <2>2, Sizes
<1>6. Backlog(a) <= MaxSlack + ReadLen * (u + 1)
  <2>1. ReadLen * (u + 1) = ReadLen * u + ReadLen /\ ReadLen * u \in Int
    BY <1>1, Sizes
  <2> QED BY <1>1, <1>2, <1>3, <1>4, <2>1, Sizes
<1>7. Backlog(a) <= Since'
  <2>1. CASE u + 1 < CheckEvery
    BY <1>1, <1>5, <1>6, <2>1 DEF Since
  <2>2. CASE u + 1 = CheckEvery
    BY <1>1, <1>5, <1>6, <2>2 DEF Since
  <2> QED BY <1>5, <2>1, <2>2
<1>8. u' \in 0 .. CheckEvery - 1
  BY <1>1, <1>5, Sizes
<1>9. PlayerInv'
  BY <1>1, <1>4, <1>7, <1>8 DEF PlayerInv, a
<1>10. \/ NumElements(a) = IF num > PlayLen THEN PlayLen ELSE num
       \/ NumElements(a) = IF NumElements(audio_cbuffer) + num > PlayLen THEN PlayLen
                           ELSE NumElements(audio_cbuffer) + num
  BY <1>1, <1>2, <1>4
<1> QED BY <1>9, <1>10 DEF a

LEMMA ProcessKeepsRecorder ==
  ASSUME AudioInv, NEW num \in 1 .. ReadLen, ProcessRXAudio(num)
  PROVE  RecorderInv'
<1> DEFINE buf == Run(arrived, arrived + num)
           r == rec_buffer
<1>1. /\ arrived \in Nat /\ num \in Nat \ {0} /\ arrived' = arrived + num
      /\ unfiled \in Nat /\ RingOf(r, RecordLen, arrived) /\ NumElements(r) = KeptBack
      /\ Len(buf) = num /\ RecordLen \in Nat \ {0} /\ SaveData(buf)
  <2>1. arrived \in Nat /\ num \in Nat \ {0}
    BY Sizes DEF AudioInv, PlayerInv
  <2>2. arrived \in Int /\ arrived + num \in Int /\ arrived <= arrived + num
        /\ (arrived + num) - arrived = num
    BY <2>1
  <2>3. Len(buf) = num
    BY <2>2, RunIs
  <2> QED BY <2>1, <2>3, Sizes DEF AudioInv, RecorderInv, ProcessRXAudio
<1>2. PICK kk \in Nat : /\ recording = Run(arrived - kk, arrived)
                        /\ kk > 0 => unfiled = 0 /\ snd_file = "open"
  BY DEF AudioInv, RecorderInv
<1> DEFINE m == NumElements(r)
<1>3. m \in 0 .. RecordLen /\ m = KeptBack /\ m \in Nat
  <2>1. arrived \in Int
    BY <1>1
  <2>2. m \in 0 .. RecordLen
    BY <1>1, <2>1, RingHolds
  <2> HIDE DEF m
  <2>3. m \in Nat
    BY <1>1, <2>2
  <2> QED BY <1>1, <2>2, <2>3 DEF m
<1>4. CASE snd_file = "open"
  <2>1. /\ recording' = recording \o Readable(r) \o buf /\ rec_buffer' = Got(r, m)
        /\ unfiled' = 0 /\ snd_file' = "open"
    BY <1>1, <1>4 DEF SaveData, LeadIn
  <2>2. RingOf(Got(r, m), RecordLen, arrived) /\ NumElements(Got(r, m)) = 0
    <3>1. arrived \in Int /\ m <= NumElements(r) /\ m - m = 0
      BY <1>1, <1>3
    <3> QED BY <1>1, <1>3, <3>1, GotHolds
  \* An empty ring is one of any latest sample.
  <2>3. RingOf(Got(r, m), RecordLen, arrived + num)
    <3> DEFINE g == Got(r, m)
    <3>1. ASSUME NEW p \in 0 .. RecordLen - 1 PROVE Off(g, p) \in 0 .. RecordLen - 1
      <4>1. p - g.head \in Int /\ Off(g, p) = ((p - g.head) % RecordLen)
        BY <2>2 DEF RingOf, Rings, Off
      <4> QED BY <1>1, <4>1, Division
    <3> HIDE DEF g
    <3>2. \A p \in 0 .. RecordLen - 1 : ~(Off(g, p) >= RecordLen - NumElements(g))
      BY <1>1, <2>2, <3>1 DEF g
    <3> QED BY <2>2, <3>2 DEF RingOf, g
  <2>4. Readable(r) = Run(arrived - m, arrived)
    <3>1. arrived \in Int
      BY <1>1
    <3> QED BY <1>1, <3>1, RingReadable
  <2>5. \E j \in Nat : recording' = Run(arrived' - j, arrived')
    <3> HIDE DEF m
    <3>1. CASE kk = 0
      <4>1. /\ arrived - m \in Int /\ arrived - m <= arrived /\ arrived \in Int
            /\ arrived - kk = arrived /\ arrived + num \in Int /\ arrived <= arrived + num
        BY <1>1, <1>3, <3>1
      <4>2. Run(arrived, arrived) \o Run(arrived - m, arrived) = Run(arrived - m, arrived)
        <5>1. /\ Run(arrived, arrived) \in Seq(Int)
              /\ Len(Run(arrived, arrived)) = arrived - arrived
          BY <1>1, <4>1, RunIs
        <5>2. Run(arrived, arrived) = <<>>
          BY <1>1, <5>1
        <5>3. Run(arrived - m, arrived) \in Seq(Int)
          BY <4>1, RunIs
        <5> QED BY <5>2, <5>3, ConcatEmptySeq
      <4>3. Run(arrived - m, arrived) \o buf = Run(arrived - m, arrived + num)
        BY <4>1, RunsJoin
      <4>4. recording' = Run(arrived - m, arrived + num)
        BY <1>2, <2>1, <2>4, <4>1, <4>2, <4>3
      <4>5. m + num \in Nat /\ arrived' - (m + num) = arrived - m
        BY <1>1, <1>3
      <4> QED BY <1>1, <4>4, <4>5
    <3>2. CASE kk > 0
      <4>1. m = 0
        BY <1>1, <1>2, <1>3, <3>2 DEF KeptBack
      <4>2. /\ arrived - m = arrived /\ arrived \in Int /\ arrived - kk \in Int
            /\ arrived - kk <= arrived /\ arrived + num \in Int /\ arrived <= arrived + num
            /\ arrived <= arrived
        BY <1>1, <4>1
      <4>3. Run(arrived - kk, arrived) \o Run(arrived, arrived) = Run(arrived - kk, arrived)
        BY <4>2, RunsJoin
      <4>4. Run(arrived - kk, arrived) \o buf = Run(arrived - kk, arrived + num)
        BY <4>2, RunsJoin
      <4>5. recording' = Run(arrived - kk, arrived + num)
        BY <1>2, <2>1, <2>4, <4>2, <4>3, <4>4
      <4>6. kk + num \in Nat /\ arrived' - (kk + num) = arrived - kk
        BY <1>1
      <4> QED BY <1>1, <4>5, <4>6
    <3> QED BY <3>1, <3>2
  <2>6. KeptBack' = 0
    BY <1>1, <2>1 DEF KeptBack
  <2> QED BY <1>1, <2>1, <2>2, <2>3, <2>5, <2>6 DEF RecorderInv
<1>5. CASE snd_file # "open"
  <2>1. /\ rec_buffer' = Put(r, buf) /\ unfiled' = unfiled + num
        /\ snd_file' = snd_file /\ recording' = recording
    BY <1>1, <1>5 DEF SaveData
  <2>2. /\ RingOf(rec_buffer', RecordLen, arrived + num)
        /\ NumElements(rec_buffer') = IF m + num > RecordLen THEN RecordLen ELSE m + num
    <3>1. /\ RingOf(Put(r, buf), RecordLen, arrived + num)
          /\ NumElements(Put(r, buf)) = IF m + num > RecordLen THEN RecordLen ELSE m + num
      <4>1. /\ arrived \in Nat /\ num \in Nat \ {0} /\ RecordLen \in Nat \ {0}
            /\ RingOf(r, RecordLen, arrived)
        BY <1>1
      <4> HIDE DEF r
      <4> QED BY ONLY <4>1, PutHolds
    <3> QED BY <2>1, <3>1
  <2>3. NumElements(rec_buffer') = KeptBack'
    <3> HIDE DEF m
    <3> QED BY <1>1, <1>3, <2>1, <2>2 DEF KeptBack
  <2>4. recording' = Run(arrived' - 0, arrived')
    <3>1. kk = 0
      BY <1>2, <1>5
    <3>2. /\ arrived - kk = arrived /\ arrived \in Int /\ arrived <= arrived
          /\ arrived' \in Int /\ arrived' <= arrived' /\ arrived' - 0 = arrived'
          /\ arrived - arrived = 0 /\ arrived' - arrived' = 0
      BY <1>1, <3>1
    <3>3. Run(arrived, arrived) \in Seq(Int) /\ Len(Run(arrived, arrived)) = 0
      BY <3>2, RunIs
    <3>4. Run(arrived', arrived') \in Seq(Int) /\ Len(Run(arrived', arrived')) = 0
      BY <3>2, RunIs
    <3> QED BY <1>2, <2>1, <3>2, <3>3, <3>4
  <2>5. unfiled' \in Nat /\ 0 \in Nat /\ ~(0 > 0)
    BY <1>1, <2>1
  <2> QED BY <1>1, <2>2, <2>3, <2>4, <2>5 DEF RecorderInv
<1> QED BY <1>4, <1>5

\* A pull takes what it gets off the player's ring.
LEMMA PullKeepsPlayer ==
  ASSUME AudioInv, NEW m \in DeviceReads, GiveSilence(m) \/ GiveSamples(m)
  PROVE  /\ PlayerInv' /\ UNCHANGED <<recorder, arrived>>
         /\ GiveSilence(m) => NumElements(audio_cbuffer') = NumElements(audio_cbuffer)
         /\ GiveSamples(m) =>
              /\ m <= NumElements(audio_cbuffer)
              /\ NumElements(audio_cbuffer') = NumElements(audio_cbuffer) - m
<1> DEFINE a == audio_cbuffer
<1>1. /\ arrived \in Nat /\ arrived \in Int /\ RingOf(a, PlayLen, arrived)
      /\ m \in Nat \ {0} /\ PlayLen \in Nat \ {0}
      /\ UNCHANGED <<link, sent, arrived, update_count, recorder>>
  BY Sizes DEF AudioInv, PlayerInv, GiveSilence, GiveSamples
<1>2. NumElements(a) \in 0 .. PlayLen /\ NumElements(a) <= Backlog(a) /\ Backlog(a) \in Nat
  BY <1>1, RingHolds
<1>3. Since' = Since /\ Since \in Int /\ Backlog(a) <= Since
  BY <1>1, Sizes DEF Since, AudioInv, PlayerInv
<1>4. CASE GiveSilence(m)
  <2>1. audio_cbuffer' = Counted(a) /\ NumElements(a) < m
    BY <1>4 DEF GiveSilence
  <2>2. /\ RingOf(Counted(a), PlayLen, arrived) /\ NumElements(Counted(a)) = NumElements(a)
        /\ Backlog(Counted(a)) = NumElements(a)
    BY <1>1, CountedHolds
  <2>3. Backlog(audio_cbuffer') <= Since'
    BY <1>2, <1>3, <2>1, <2>2
  <2>4. PlayerInv'
    BY <1>1, <2>1, <2>2, <2>3 DEF AudioInv, PlayerInv
  <2>5. ~GiveSamples(m)
    BY <1>1, <1>2, <2>1 DEF GiveSamples
  <2> QED BY <1>1, <2>1, <2>2, <2>4, <2>5
<1>5. CASE GiveSamples(m)
  <2>1. audio_cbuffer' = Got(a, m) /\ m <= NumElements(a)
    BY <1>1, <1>2, <1>5 DEF GiveSamples
  <2>2. /\ RingOf(Got(a, m), PlayLen, arrived) /\ NumElements(Got(a, m)) = NumElements(a) - m
        /\ Backlog(Got(a, m)) = NumElements(a) - m
    BY <1>1, <2>1, GotHolds
  <2>3. Backlog(audio_cbuffer') <= Since'
    BY <1>1, <1>2, <1>3, <2>1, <2>2
  <2>4. PlayerInv'
    BY <1>1, <2>1, <2>2, <2>3 DEF AudioInv, PlayerInv
  <2>5. ~GiveSilence(m)
    BY <1>1, <1>2, <2>1 DEF GiveSilence
  <2> QED BY <1>1, <2>1, <2>2, <2>4, <2>5
<1> QED BY <1>4, <1>5

\* The inductive invariant of the player and the recorder holds in every
\* reachable state.
THEOREM AudioInvariant == Spec => []AudioInv
<1>1. Init => AudioInv
  <2> SUFFICES ASSUME Init PROVE AudioInv
    OBVIOUS
  <2>1. /\ arrived = 0 /\ sent = 0 /\ update_count = 0 /\ unfiled = 0 /\ recording = <<>>
        /\ audio_cbuffer = NewRing(PlayLen, 0) /\ rec_buffer = NewRing(RecordLen, 0)
    BY DEF Init
  <2>2. RingOf(audio_cbuffer, PlayLen, 0) /\ Backlog(audio_cbuffer) = 0
    BY <2>1, Sizes, NewRingHoldsNothing
  <2>3. RingOf(rec_buffer, RecordLen, 0) /\ NumElements(rec_buffer) = 0
    BY <2>1, Sizes, NewRingHoldsNothing
  <2>4. 0 <= Since /\ KeptBack = 0 /\ 0 \in 0 .. CheckEvery - 1
    BY <2>1, Sizes DEF Since, KeptBack
  <2>5. recording = Run(0 - 0, 0)
    <3>1. Run(0, 0) \in Seq(Int) /\ Len(Run(0, 0)) = 0 - 0
      BY RunIs
    <3>2. Run(0, 0) = <<>>
      BY <3>1
    <3> QED BY <2>1, <3>2
  <2>6. PlayerInv
    BY <2>1, <2>2, <2>4 DEF PlayerInv
  <2>7. RecorderInv
    BY <2>1, <2>3, <2>4, <2>5 DEF RecorderInv
  <2> QED BY <2>6, <2>7 DEF AudioInv
<1>2. AudioInv /\ [Next]_vars => AudioInv'
  <2> SUFFICES ASSUME AudioInv, [Next]_vars PROVE AudioInv'
    OBVIOUS
  <2> USE DEF AudioInv
  <2>1. CASE Connect
    BY <2>1 DEF Connect, PlayerInv, RecorderInv, KeptBack, Since, listener, recorder
  <2>2. CASE PendAudioBuffer
    BY <2>2, Sizes DEF PendAudioBuffer, PlayerInv, RecorderInv, KeptBack, Since, listener, recorder
  <2>3. CASE \E num \in 1 .. ReadLen : ProcessRXAudio(num)
    BY <2>3, ProcessKeepsPlayer, ProcessKeepsRecorder
  <2>4. CASE \E m \in DeviceReads : GiveSilence(m) \/ GiveSamples(m)
    <3>1. PlayerInv' /\ UNCHANGED <<recorder, arrived>>
      BY <2>4, PullKeepsPlayer
    <3> QED BY <3>1 DEF RecorderInv, KeptBack, recorder
  <2>5. CASE \E on \in BOOLEAN : Record(on)
    <3>1. /\ recording' = <<>> /\ UNCHANGED <<sent, arrived, listener, rec_buffer, unfiled>>
      BY <2>5 DEF Record
    <3>2. PlayerInv'
      BY <3>1 DEF PlayerInv, Since, listener
    <3>3. recording' = Run(arrived' - 0, arrived')
      <4>1. arrived' \in Int /\ arrived' - 0 = arrived' /\ arrived' - arrived' = 0
            /\ arrived' <= arrived'
        BY <3>1 DEF PlayerInv
      <4>2. Run(arrived', arrived') \in Seq(Int) /\ Len(Run(arrived', arrived')) = 0
        BY <4>1, RunIs
      <4> QED BY <3>1, <4>1, <4>2
    <3>4. RecorderInv'
      BY <3>1, <3>3 DEF RecorderInv, KeptBack
    <3> QED BY <3>2, <3>4
  <2>6. CASE UNCHANGED vars
    BY <2>6 DEF vars, listener, recorder, PlayerInv, RecorderInv, KeptBack, Since
  <2> QED BY <2>1, <2>2, <2>3, <2>4, <2>5, <2>6 DEF Next
<1> QED BY <1>1, <1>2, PTL DEF Spec

\* The operator hears the radio no later than the slack and what one interval
\* between measurements brings, and the ring is never overrun, for any sizes of
\* the ring, the reads and the interval that leave room for that.
THEOREM LatencyIsBounded == Spec => []LatencyBounded
<1>1. AudioInv => LatencyBounded
  <2> SUFFICES ASSUME AudioInv PROVE LatencyBounded
    OBVIOUS
  <2> DEFINE c == IF update_count = 0 THEN CheckEvery ELSE update_count
  <2>1. c \in Nat /\ c <= CheckEvery
    BY Sizes DEF AudioInv, PlayerInv
  <2>2. Since = MaxSlack + ReadLen * c
    BY DEF Since
  <2>3. Backlog(audio_cbuffer) \in Nat /\ Backlog(audio_cbuffer) <= Since
    <3>1. arrived \in Int /\ RingOf(audio_cbuffer, PlayLen, arrived)
      BY DEF AudioInv, PlayerInv
    <3>2. Backlog(audio_cbuffer) \in Nat
      BY <3>1, Sizes, RingHolds
    <3> QED BY <3>2 DEF AudioInv, PlayerInv
  <2> HIDE DEF c
  <2>4. ReadLen * c <= CheckEvery * ReadLen /\ ReadLen * c \in Int
        /\ CheckEvery * ReadLen \in Int
    <3>1. (CheckEvery - c) * ReadLen >= 0 /\ CheckEvery - c \in Nat
      BY <2>1, Sizes
    <3>2. (CheckEvery - c) * ReadLen = CheckEvery * ReadLen - ReadLen * c
      BY <2>1, Sizes
    <3> QED BY <2>1, <3>1, <3>2, Sizes
  <2>5. Backlog(audio_cbuffer) <= PlayLen
    BY <2>2, <2>3, <2>4, Sizes
  <2> QED BY <2>3, <2>5 DEF LatencyBounded
<1> QED BY <1>1, AudioInvariant, PTL

\* A recording is an unbroken piece of what arrived, to the latest sample, and
\* begins as long before the button as the recorder's ring, of any size, holds.
THEOREM RecordingIsSeamless == Spec => []RecordingSeamless
<1>1. AudioInv => RecordingSeamless
  <2> SUFFICES ASSUME AudioInv PROVE RecordingSeamless
    OBVIOUS
  <2>1. arrived \in Nat /\ arrived \in Int /\ RingOf(rec_buffer, RecordLen, arrived)
        /\ NumElements(rec_buffer) = KeptBack
    BY DEF AudioInv, PlayerInv, RecorderInv
  <2>2. Readable(rec_buffer) = Run(arrived - KeptBack, arrived)
    BY <2>1, Sizes, RingReadable
  <2>3. PICK kk \in Nat : recording = Run(arrived - kk, arrived)
    BY DEF AudioInv, RecorderInv
  <2>4. arrived - kk \in Int /\ arrived - kk <= arrived /\ arrived - (arrived - kk) = kk
    BY <2>1
  <2>5. Len(recording) = kk
    BY <2>1, <2>3, <2>4, RunIs
  <2> QED BY <2>2, <2>3, <2>5 DEF RecordingSeamless, KeptBack
<1> QED BY <1>1, AudioInvariant, PTL

-----------------------------------------------------------------------------
(* The player's ring implements the queue of samples.                      *)

LEMMA RunSuffix ==
  ASSUME NEW a \in Int, NEW b \in Int, NEW kk \in Nat, a + kk <= b
  PROVE  SubSeq(Run(a, b), kk + 1, b - a) = Run(a + kk, b)
<1> DEFINE x == Run(a, b)
           y == Run(a + kk, b)
           z == SubSeq(x, kk + 1, b - a)
<1>1. /\ a <= b /\ a + kk \in Int /\ b - a \in Nat
  OBVIOUS
<1>2. x \in Seq(Int) /\ Len(x) = b - a /\ \A i \in 1 .. b - a : x[i] = a + i
  BY <1>1, RunIs
<1>3. /\ y \in Seq(Int) /\ Len(y) = b - (a + kk)
      /\ \A i \in 1 .. b - (a + kk) : y[i] = a + kk + i
  BY <1>1, RunIs
<1> HIDE DEF x, y
<1>4. /\ z \in Seq(Int) /\ Len(z) = b - (a + kk)
      /\ \A i \in 1 .. b - (a + kk) : z[i] = x[kk + i]
  BY <1>1, <1>2
<1>5. ASSUME NEW i \in 1 .. b - (a + kk) PROVE z[i] = y[i]
  <2>1. kk + i \in 1 .. b - a
    OBVIOUS
  <2> HIDE DEF z
  <2> QED BY <1>2, <1>3, <1>4, <2>1
<1> HIDE DEF z
<1>6. z = y
  BY <1>3, <1>4, <1>5, SeqEqual
<1> QED BY <1>6 DEF x, y, z

LEMMA NewestOfRun ==
  ASSUME NEW a \in Int, NEW b \in Int, a <= b
  PROVE  PlayFifo!Newest(Run(a, b)) = Run(b - (IF b - a > PlayLen THEN PlayLen ELSE b - a), b)
<1>1. Len(Run(a, b)) = b - a /\ PlayLen \in Nat \ {0}
  BY RunIs, Sizes
<1>2. CASE b - a > PlayLen
  <2> DEFINE kk == b - a - PlayLen
  <2>1. kk \in Nat /\ a + kk <= b /\ a + kk = b - PlayLen
    BY <1>1, <1>2
  <2> HIDE DEF kk
  <2>2. SubSeq(Run(a, b), kk + 1, b - a) = Run(a + kk, b)
    BY <2>1, RunSuffix
  <2>3. PlayFifo!Newest(Run(a, b)) = SubSeq(Run(a, b), kk + 1, b - a)
    BY <1>1, <1>2 DEF PlayFifo!Newest, kk
  <2> QED BY <1>2, <2>1, <2>2, <2>3
<1>3. CASE ~(b - a > PlayLen)
  <2>1. PlayFifo!Newest(Run(a, b)) = Run(a, b)
    BY <1>1, <1>3 DEF PlayFifo!Newest
  <2>2. b - (b - a) = a
    OBVIOUS
  <2> QED BY <1>3, <2>1, <2>2
<1> QED BY <1>2, <1>3

\* What the sound device would get are the latest samples.
LEMMA QueueIs ==
  ASSUME PlayerInv
  PROVE  /\ Readable(audio_cbuffer) = Run(arrived - NumElements(audio_cbuffer), arrived)
         /\ NumElements(audio_cbuffer) \in 0 .. PlayLen /\ arrived \in Nat
<1>1. arrived \in Nat /\ arrived \in Int /\ RingOf(audio_cbuffer, PlayLen, arrived)
  BY DEF PlayerInv
<1> QED BY <1>1, Sizes, RingHolds, RingReadable

\* Samples that are read are offered, behind those that wait or in their place.
LEMMA ProcessOffers ==
  ASSUME AudioInv, NEW num \in 1 .. ReadLen, ProcessRXAudio(num)
  PROVE  PlayFifo!Offer(num) \/ PlayFifo!Renew(num)
<1> DEFINE q == Readable(audio_cbuffer)
           m == NumElements(audio_cbuffer)
           l == NumElements(audio_cbuffer')
           q1 == Readable(audio_cbuffer')
           new == Run(arrived, arrived + num)
<1>1. /\ arrived \in Nat /\ m \in 0 .. PlayLen /\ q = Run(arrived - m, arrived)
      /\ num \in Nat /\ PlayLen \in Nat \ {0}
  BY QueueIs, Sizes DEF AudioInv
<1>2. arrived' = arrived + num
  BY DEF ProcessRXAudio
<1>3. /\ q1 = Run((arrived + num) - l, arrived + num)
      /\ \/ l = IF num > PlayLen THEN PlayLen ELSE num
         \/ l = IF m + num > PlayLen THEN PlayLen ELSE m + num
  <2>1. PlayerInv'
    BY ProcessKeepsPlayer
  <2>2. arrived' \in Int /\ RingOf(audio_cbuffer', PlayLen, arrived')
    BY <2>1 DEF PlayerInv
  <2>3. q1 = Run(arrived' - l, arrived')
    BY <2>2, Sizes, RingReadable
  <2>4. \/ l = IF num > PlayLen THEN PlayLen ELSE num
        \/ l = IF m + num > PlayLen THEN PlayLen ELSE m + num
    BY ProcessKeepsPlayer
  <2> HIDE DEF q1, l, m
  <2> QED BY <1>2, <2>3, <2>4
<1>4. PlayFifo!New(num) = new
  <2>1. (arrived + num) - arrived = num
    BY <1>1
  <2> QED BY <2>1, Zenon DEF PlayFifo!New, Run
<1>5. arrived - m \in Int /\ arrived - m <= arrived /\ arrived <= arrived + num
      /\ arrived + num \in Int /\ arrived \in Int /\ arrived - m <= arrived + num
  BY <1>1
<1>6. q \o new = Run(arrived - m, arrived + num)
  <2> HIDE DEF m
  <2> QED BY <1>1, <1>5, RunsJoin
<1>7. CASE l = IF m + num > PlayLen THEN PlayLen ELSE m + num
  <2>1. PlayFifo!Newest(q \o new) = Run((arrived + num) - l, arrived + num)
    <3> DEFINE a == arrived - m
               b == arrived + num
    <3>1. b - a = m + num /\ a \in Int /\ b \in Int /\ a <= b
      BY <1>1
    <3> HIDE DEF m, l, a, b
    <3>2. PlayFifo!Newest(Run(a, b))
            = Run(b - (IF b - a > PlayLen THEN PlayLen ELSE b - a), b)
      BY <3>1, NewestOfRun
    <3>3. PlayFifo!Newest(Run(a, b)) = Run(b - l, b)
      BY <1>7, <3>1, <3>2
    <3> QED BY <1>6, <3>3 DEF a, b
  <2> QED BY <1>2, <1>3, <1>4, <2>1 DEF PlayFifo!Offer
<1>8. CASE l = IF num > PlayLen THEN PlayLen ELSE num
  <2>1. PlayFifo!Newest(new) = Run((arrived + num) - l, arrived + num)
    <3> DEFINE b == arrived + num
    <3>1. b - arrived = num /\ arrived \in Int /\ b \in Int /\ arrived <= b
      BY <1>1
    <3> HIDE DEF m, l, b
    <3>2. PlayFifo!Newest(Run(arrived, b))
            = Run(b - (IF b - arrived > PlayLen THEN PlayLen ELSE b - arrived), b)
      BY <3>1, NewestOfRun
    <3>3. PlayFifo!Newest(Run(arrived, b)) = Run(b - l, b)
      BY <1>8, <3>1, <3>2
    <3> QED BY <3>3 DEF b
  <2> QED BY <1>2, <1>3, <1>4, <2>1 DEF PlayFifo!Renew
<1> QED BY <1>3, <1>7, <1>8

\* A pull takes samples, or leaves the queue as it is.
LEMMA PullTakes ==
  ASSUME AudioInv, NEW m \in DeviceReads, GiveSilence(m) \/ GiveSamples(m)
  PROVE  PlayFifo!Next \/ UNCHANGED PlayFifo!vars
<1> DEFINE q == Readable(audio_cbuffer)
           num == NumElements(audio_cbuffer)
           l == NumElements(audio_cbuffer')
           q1 == Readable(audio_cbuffer')
<1>1. /\ arrived \in Nat /\ num \in 0 .. PlayLen /\ q = Run(arrived - num, arrived)
      /\ m \in Nat \ {0} /\ PlayLen \in Nat \ {0} /\ num \in Nat
  BY QueueIs, Sizes DEF AudioInv
<1>2. arrived' = arrived /\ PlayerInv'
  BY PullKeepsPlayer
<1>3. q1 = Run(arrived - l, arrived)
  <2>2. arrived' \in Int /\ RingOf(audio_cbuffer', PlayLen, arrived')
    BY <1>2 DEF PlayerInv
  <2>1. q1 = Run(arrived' - l, arrived')
    BY <2>2, Sizes, RingReadable
  <2> QED BY <1>2, <2>1
<1>4. CASE GiveSilence(m)
  <2>1. l = num
    BY <1>4, PullKeepsPlayer
  <2> HIDE DEF l, num
  <2>2. q1 = q
    BY <1>1, <1>3, <2>1
  <2> QED BY <1>2, <2>2 DEF PlayFifo!vars
<1>5. CASE GiveSamples(m)
  <2>1. l = num - m /\ m <= num
    BY <1>5, PullKeepsPlayer
  <2> HIDE DEF l, num, q1
  <2>2. /\ arrived - num \in Int /\ arrived \in Int /\ arrived - num + m <= arrived
        /\ arrived - (arrived - num) = num /\ arrived - num <= arrived /\ m \in Nat
        /\ arrived - l = arrived - num + m /\ m \in 1 .. num
    BY <1>1, <2>1
  <2>3. SubSeq(Run(arrived - num, arrived), m + 1, arrived - (arrived - num))
          = Run(arrived - num + m, arrived)
    BY <2>2, RunSuffix
  <2>4. Len(q) = num
    BY <1>1, <2>2, RunIs
  <2>5. q1 = SubSeq(q, m + 1, Len(q))
    BY <1>1, <1>3, <2>2, <2>3, <2>4
  <2>6. PlayFifo!Take(m)
    BY <1>2, <2>5 DEF PlayFifo!Take, q1
  <2> QED BY <2>2, <2>4, <2>6 DEF PlayFifo!Next
<1> QED BY <1>4, <1>5

\* To the sound device the listener's ring, of any size, is the drop-oldest queue
\* of the samples that arrive, whatever the reads, the pulls and the slack.
THEOREM PlayerImplementsFifo == Spec => PlayIsFifo
<1>1. Init => PlayFifo!Init
  <2> SUFFICES ASSUME Init PROVE PlayFifo!Init
    OBVIOUS
  <2>1. arrived = 0 /\ audio_cbuffer = NewRing(PlayLen, 0)
    BY DEF Init
  <2>2. RingOf(audio_cbuffer, PlayLen, 0) /\ NumElements(audio_cbuffer) = 0
    BY <2>1, Sizes, NewRingHoldsNothing
  <2>3. Readable(audio_cbuffer) = Run(0 - 0, 0)
    BY <2>2, Sizes, RingReadable
  <2>4. Run(0, 0) \in Seq(Int) /\ Len(Run(0, 0)) = 0 - 0
    BY RunIs
  <2> QED BY <2>1, <2>3, <2>4 DEF PlayFifo!Init
<1>2. AudioInv /\ [Next]_vars => [PlayFifo!Next]_PlayFifo!vars
  <2> SUFFICES ASSUME AudioInv, [Next]_vars
               PROVE  PlayFifo!Next \/ UNCHANGED PlayFifo!vars
    OBVIOUS
  <2>1. CASE \E num \in 1 .. ReadLen : ProcessRXAudio(num)
    BY <2>1, ProcessOffers DEF PlayFifo!Next
  <2>2. CASE \E m \in DeviceReads : GiveSilence(m) \/ GiveSamples(m)
    BY <2>2, PullTakes
  <2>3. CASE UNCHANGED <<audio_cbuffer, arrived>>
    BY <2>3 DEF PlayFifo!vars
  <2> QED BY <2>1, <2>2, <2>3
          DEF Next, Connect, PendAudioBuffer, Record, vars, listener
<1> QED BY <1>1, <1>2, AudioInvariant, PTL DEF Spec, PlayIsFifo, PlayFifo!Spec

-----------------------------------------------------------------------------
(* The squelch: once a loud buffer has set it, the count and the quiet     *)
(* buffers since share the hang time.                                      *)

\* What is left of the count is at most what the quiet buffers have left of it.
SquelchInv ==
  /\ hang_count \in Int /\ quiet \in 0 .. HangTime /\ broken \in BOOLEAN
  /\ broken => 0 <= hang_count /\ hang_count <= HangTime - quiet
  /\ broken /\ heard = "nbfm" => 0 < hang_count

\* A buffer of NBFM uses up one of each; a loud one starts both afresh.
LEMMA NBFMKeepsSquelchInv ==
  ASSUME SquelchInv, NEW loud \in BOOLEAN, DemodulateNBFM(loud)
  PROVE  SquelchInv'
<1>1. HangTime \in Nat \ {0}
  BY BaseBandRXAssumption
<1>2. CASE loud
  <2>1. hang_count' = HangTime /\ quiet' = 0 /\ broken'
    BY <1>2 DEF DemodulateNBFM, Hang
  <2> QED BY <1>1, <2>1 DEF SquelchInv
<1>3. CASE ~loud
  <2>1. /\ hang_count' = IF hang_count > 0 THEN hang_count - 1 ELSE hang_count
        /\ quiet' = IF quiet < HangTime THEN quiet + 1 ELSE quiet
        /\ heard' = IF hang_count' # 0 THEN "nbfm" ELSE "closed"
        /\ broken' = broken
    BY <1>3 DEF DemodulateNBFM, Hang, SquelchInv
  <2>2. hang_count' \in Int /\ quiet' \in 0 .. HangTime /\ broken' \in BOOLEAN
    BY <1>1, <2>1 DEF SquelchInv
  <2>3. broken' => 0 <= hang_count' /\ hang_count' <= HangTime - quiet'
    BY <1>1, <2>1 DEF SquelchInv
  <2>4. broken' /\ heard' = "nbfm" => 0 < hang_count'
    <3> SUFFICES ASSUME broken', heard' = "nbfm" PROVE 0 < hang_count'
      OBVIOUS
    <3>1. hang_count' # 0
      BY <2>1, Zenon
    <3> QED BY <2>2, <2>3, <3>1
  <2> QED BY <2>2, <2>3, <2>4 DEF SquelchInv
<1> QED BY <1>2, <1>3

\* A buffer of another mode, or of a half-duplex over, is not the squelch's.
LEMMA HearKeepsSquelchInv ==
  ASSUME SquelchInv, NEW loud \in BOOLEAN, Hear(loud)
  PROVE  SquelchInv'
<1>1. CASE audio_rx_stream_enabled /\ rx_modulation = "NBFM"
  BY <1>1, NBFMKeepsSquelchInv DEF Hear
<1>2. CASE ~(audio_rx_stream_enabled /\ rx_modulation = "NBFM")
  <2>1. heard' # "nbfm" /\ UNCHANGED <<hang_count, broken, quiet>>
    BY <1>2 DEF Hear
  <2> QED BY <2>1 DEF SquelchInv
<1> QED BY <1>1, <1>2

\* Neither the GUI nor a command of BaseBandRX reaches the squelch.
LEMMA CommandsKeepSquelch ==
  ASSUME \/ \E m \in Modes : SetModulation(m)
         \/ \E f \in AFFilters : SetAFFilter(f)
         \/ \E s \in {"duplex", "half", "receive"} : SetPTT(s)
         \/ ShowMarkers
         \/ HearMode \/ HearFilter \/ HearTXMode \/ HearTXState
  PROVE  UNCHANGED squelch
BY DEF SetModulation, SetAFFilter, SetPTT, Send, ShowMarkers,
       HearMode, HearFilter, HearTXMode, HearTXState

\* The inductive invariant of the squelch holds in every reachable state.
THEOREM SquelchInvariant == BbSpec => []SquelchInv
<1>1. BbInit => SquelchInv
  <2> SUFFICES ASSUME BbInit PROVE SquelchInv
    OBVIOUS
  <2>1. hang_count \in Int /\ quiet \in 0 .. HangTime
    <3>1. hang_count \in Uninitialised /\ quiet = HangTime
      BY DEF BbInit
    <3> QED BY <3>1, BaseBandRXAssumption
  <2>2. broken = FALSE
    BY DEF BbInit
  <2> QED BY <2>1, <2>2 DEF SquelchInv
<1>2. SquelchInv /\ [BbNext]_bbVars => SquelchInv'
  <2> SUFFICES ASSUME SquelchInv, [BbNext]_bbVars PROVE SquelchInv'
    OBVIOUS
  <2>1. CASE \E loud \in BOOLEAN : Hear(loud)
    BY <2>1, HearKeepsSquelchInv
  <2>2. CASE UNCHANGED squelch
    BY <2>2 DEF squelch, SquelchInv
  <2>3. CASE UNCHANGED bbVars
    BY <2>2, <2>3 DEF bbVars
  <2> QED BY <2>1, <2>2, <2>3, CommandsKeepSquelch DEF BbNext
<1> QED BY <1>1, <1>2, PTL DEF BbSpec

\* Once something has broken the squelch it is shut after HangTime quiet buffers
\* at the latest, whatever overs and changes of mode come between them.
THEOREM SquelchCloses == BbSpec => []SquelchFades
<1>1. SquelchInv => SquelchFades
  BY BaseBandRXAssumption DEF SquelchInv, SquelchFades
<1> QED BY <1>1, SquelchInvariant, PTL

-----------------------------------------------------------------------------
(* The recorder of the raw signal.                                         *)

FePlaces == FeFreqs \cup {0}
Cmds == [t : {"RF_RECORD_START"}, name : {"a", "b"}, due : SUBSET FePlaces]
          \cup [t : {"RF_RECORD_STOP", "STOP"}]
          \cup [t : {"RX_FE_FREQ"}, f : FePlaces]

Files == [name : {"a", "b", "none"}, header : FePlaces, bufs : Seq(Nat),
          due : SUBSET FePlaces]

IrTypeOK ==
  /\ n_if \in Nat /\ left \in Nat
  /\ toCtrl \in Seq(FeFreqs) /\ fe \in FePlaces /\ reporting \in BOOLEAN
  /\ cmd_stream \in Seq(Cmds) /\ rx_stream \in Seq(Nat)
  /\ write_stream_on \in BOOLEAN /\ current_rx_center_freq \in FePlaces
  /\ ostr \in Files

\* Consecutive numbers, of which e is the last.
EndsAt(b, e) == \A i \in 1 .. Len(b) : b[i] = e - Len(b) + i

\* What the recorder has yet to take are the last buffers that were put.
InOrder == EndsAt(rx_stream, n_if)

\* An open file is written to, and ends where the queue begins.
FileInv ==
  ostr.name # "none" => write_stream_on /\ EndsAt(ostr.bufs, n_if - Len(rx_stream))

IsReport(q, i) == q[i].t = "RX_FE_FREQ"

\* A recorder that knows c takes f for the front end's frequency when it has
\* taken the commands of q before the i-th.
Knows(c, q, i, f) ==
  \/ c = f /\ \A kk \in 1 .. i - 1 : ~IsReport(q, kk)
  \/ \E j \in 1 .. i - 1 :
       IsReport(q, j) /\ q[j].f = f /\ \A kk \in j + 1 .. i - 1 : ~IsReport(q, kk)

\* With no report due the recorder will know the front end's frequency, and at a
\* command to start it will know the one at which that was given.
HeaderInv ==
  /\ ~reporting => Knows(current_rx_center_freq, cmd_stream, Len(cmd_stream) + 1, fe)
  /\ \A i \in 1 .. Len(cmd_stream) :
       cmd_stream[i].t = "RF_RECORD_START" =>
         \A f \in cmd_stream[i].due : Knows(current_rx_center_freq, cmd_stream, i, f)
  /\ \A f \in ostr.due : ostr.header = f

IrInv == IrTypeOK /\ InOrder /\ FileInv /\ HeaderInv

LEMMA EndsAtAppend ==
  ASSUME NEW b \in Seq(Nat), NEW e \in Int, EndsAt(b, e)
  PROVE  EndsAt(Append(b, e + 1), e + 1)
BY DEF EndsAt

LEMMA EndsAtTail ==
  ASSUME NEW b \in Seq(Nat), b # <<>>, NEW e \in Int, EndsAt(b, e)
  PROVE  EndsAt(Tail(b), e) /\ Head(b) = e - Len(b) + 1
BY DEF EndsAt

LEMMA EndsAtConsecutive ==
  ASSUME NEW b \in Seq(Nat), NEW e \in Int, EndsAt(b, e)
  PROVE  /\ \A i \in 2 .. Len(b) : b[i] = b[i - 1] + 1
         /\ b # <<>> => Last(b) = e
<1>1. \A i \in 2 .. Len(b) : b[i] = b[i - 1] + 1
  BY DEF EndsAt
<1>2. b # <<>> => Last(b) = e
  BY DEF EndsAt, Last
<1> QED BY <1>1, <1>2

LEMMA KnowsAfterAppend ==
  ASSUME NEW q \in Seq(Cmds), NEW m \in Cmds, NEW c, NEW f
  PROVE  /\ \A i \in 1 .. Len(q) + 1 : Knows(c, Append(q, m), i, f) <=> Knows(c, q, i, f)
         /\ m.t # "RX_FE_FREQ" /\ Knows(c, q, Len(q) + 1, f)
              => Knows(c, Append(q, m), Len(q) + 2, f)
         /\ m.t = "RX_FE_FREQ" /\ m.f = f => Knows(c, Append(q, m), Len(q) + 2, f)
<1> DEFINE a == Append(q, m)
<1>1. /\ Len(q) \in Nat /\ a[Len(q) + 1] = m
      /\ \A i \in 1 .. Len(q) : a[i] = q[i]
  OBVIOUS
<1> HIDE DEF a
<1>2. \A i \in 1 .. Len(q) : IsReport(a, i) <=> IsReport(q, i)
  BY <1>1 DEF IsReport
<1>3. IsReport(a, Len(q) + 1) <=> m.t = "RX_FE_FREQ"
  BY <1>1 DEF IsReport
<1>4. \A i \in 1 .. Len(q) + 1 : Knows(c, a, i, f) <=> Knows(c, q, i, f)
  BY <1>1, <1>2 DEF Knows
<1>5. m.t # "RX_FE_FREQ" /\ Knows(c, q, Len(q) + 1, f) => Knows(c, a, Len(q) + 2, f)
  BY <1>1, <1>2, <1>3 DEF Knows
<1>6. m.t = "RX_FE_FREQ" /\ m.f = f => Knows(c, a, Len(q) + 2, f)
  BY <1>1, <1>3 DEF Knows
<1> QED BY <1>4, <1>5, <1>6 DEF a

LEMMA KnowsAfterTail ==
  ASSUME NEW q \in Seq(Cmds), q # <<>>, NEW c, NEW f, NEW i \in 1 .. Len(q),
         Knows(c, q, i + 1, f)
  PROVE  Knows(IF IsReport(q, 1) THEN q[1].f ELSE c, Tail(q), i, f)
<1> DEFINE d == IF IsReport(q, 1) THEN q[1].f ELSE c
<1>1. /\ Len(q) \in Nat /\ Len(q) >= 1
      /\ \A kk \in 1 .. Len(q) - 1 : Tail(q)[kk] = q[kk + 1]
  OBVIOUS
<1>2. \A kk \in 1 .. i - 1 : IsReport(Tail(q), kk) <=> IsReport(q, kk + 1)
  BY <1>1 DEF IsReport
<1>3. CASE c = f /\ \A kk \in 1 .. i : ~IsReport(q, kk)
  BY <1>1, <1>2, <1>3 DEF Knows
<1>4. ASSUME NEW j \in 1 .. i, IsReport(q, j), q[j].f = f,
             \A kk \in j + 1 .. i : ~IsReport(q, kk)
      PROVE  Knows(d, Tail(q), i, f)
  <2>1. CASE j = 1
    BY <1>1, <1>2, <1>4, <2>1 DEF Knows
  <2>2. CASE j # 1
    <3>1. j - 1 \in 1 .. i - 1 /\ IsReport(Tail(q), j - 1) /\ Tail(q)[j - 1].f = f
      BY <1>1, <1>2, <1>4, <2>2
    <3>2. \A kk \in (j - 1) + 1 .. i - 1 : ~IsReport(Tail(q), kk)
      BY <1>1, <1>2, <1>4
    <3> QED BY <3>1, <3>2 DEF Knows
  <2> QED BY <2>1, <2>2
<1>5. i + 1 - 1 = i
  OBVIOUS
<1> QED BY <1>3, <1>4, <1>5 DEF Knows

\* A command at the end of the queue disturbs nothing that is known of the others.
LEMMA CommandKeepsHeader ==
  ASSUME IrInv, NEW m \in Cmds, cmd_stream' = Append(cmd_stream, m),
         UNCHANGED <<current_rx_center_freq, ostr, fe>>,
         \/ m.t # "RX_FE_FREQ" /\ reporting' = reporting
         \/ m.t = "RX_FE_FREQ" /\ m.f = fe,
         m.t = "RF_RECORD_START" =>
           m.due = {} \/ (m.due = {fe} /\ ~reporting)
  PROVE  HeaderInv'
<1> DEFINE q == cmd_stream
           c == current_rx_center_freq
<1>1. q \in Seq(Cmds)
  BY DEF IrInv, IrTypeOK
<1>2. /\ Len(q) \in Nat /\ Len(Append(q, m)) = Len(q) + 1
      /\ Append(q, m)[Len(q) + 1] = m
      /\ \A i \in 1 .. Len(q) : Append(q, m)[i] = q[i]
  BY <1>1
<1>3. ~reporting' => Knows(c, Append(q, m), Len(q) + 2, fe)
  BY <1>1, KnowsAfterAppend DEF IrInv, HeaderInv
<1>4. ASSUME NEW i \in 1 .. Len(q) + 1, Append(q, m)[i].t = "RF_RECORD_START",
             NEW f \in Append(q, m)[i].due
      PROVE  Knows(c, Append(q, m), i, f)
  <2>1. Knows(c, q, i, f)
    <3>1. CASE i \in 1 .. Len(q)
      BY <1>2, <1>4, <3>1 DEF IrInv, HeaderInv
    <3>2. CASE i = Len(q) + 1
      BY <1>2, <1>4, <3>2 DEF IrInv, HeaderInv
    <3> QED BY <1>2, <3>1, <3>2
  <2> QED BY <1>1, <2>1, KnowsAfterAppend
<1>5. \A f \in ostr'.due : ostr'.header = f
  BY DEF IrInv, HeaderInv
<1> HIDE DEF c
<1>6. Len(cmd_stream') = Len(q) + 1 /\ Len(q) + 1 + 1 = Len(q) + 2
  BY <1>2
<1> QED BY <1>2, <1>3, <1>4, <1>5, <1>6 DEF HeaderInv, c

LEMMA ClientAsksKeepsIrInv == ASSUME IrInv, ClientAsks PROVE IrInv'
<1>1. UNCHANGED <<rx_stream, fe, reporting, irRecorder, n_if>>
  BY DEF ClientAsks
<1>2. InOrder' /\ FileInv'
  BY <1>1 DEF irRecorder, IrInv, InOrder, FileInv
<1>3. CASE (\E f \in FeFreqs : toCtrl' = Append(toCtrl, f)) /\ UNCHANGED cmd_stream
  <2>1. HeaderInv'
    BY <1>1, <1>3 DEF irRecorder, IrInv, HeaderInv, Knows, IsReport
  <2>2. IrTypeOK'
    BY <1>1, <1>3 DEF irRecorder, IrInv, IrTypeOK
  <2> QED BY <1>2, <2>1, <2>2 DEF IrInv
<1>4. CASE UNCHANGED toCtrl /\ ~UNCHANGED cmd_stream
  <2> DEFINE due == IF toCtrl = <<>> /\ ~reporting THEN {fe} ELSE {}
  <2>1. PICK m \in {Start("a", due), Start("b", due), Other("RF_RECORD_STOP"),
                    Other("STOP")} : cmd_stream' = Append(cmd_stream, m)
    BY <1>4 DEF ClientAsks
  <2>2. due \in SUBSET FePlaces
    BY DEF IrInv, IrTypeOK
  <2>3. m \in Cmds
    BY <2>2 DEF Start, Other, Cmds
  <2>4. m.t # "RX_FE_FREQ"
    BY DEF Start, Other
  <2>5. m.t = "RF_RECORD_START" => m.due = {} \/ (m.due = {fe} /\ ~reporting)
    BY DEF Start, Other
  <2>6. HeaderInv'
    BY <1>1, <2>1, <2>3, <2>4, <2>5, CommandKeepsHeader DEF irRecorder
  <2>7. IrTypeOK'
    BY <1>1, <1>4, <2>1, <2>3 DEF irRecorder, IrInv, IrTypeOK
  <2> QED BY <1>2, <2>6, <2>7 DEF IrInv
<1> QED BY <1>3, <1>4 DEF ClientAsks

LEMMA CtrlMovesKeepsIrInv == ASSUME IrInv, CtrlMoves PROVE IrInv'
<1>1. /\ UNCHANGED <<cmd_stream, rx_stream, irRecorder, n_if, n_rec>>
      /\ reporting' = TRUE
  BY DEF CtrlMoves
<1>2. fe' \in FePlaces /\ toCtrl' \in Seq(FeFreqs)
  BY DEF CtrlMoves, IrInv, IrTypeOK, FePlaces
<1>3. HeaderInv'
  BY <1>1 DEF irRecorder, IrInv, HeaderInv, Knows, IsReport
<1>4. IrTypeOK' /\ InOrder' /\ FileInv'
  BY <1>1, <1>2 DEF irRecorder, IrInv, IrTypeOK, InOrder, FileInv
<1> QED BY <1>3, <1>4 DEF IrInv

LEMMA CtrlReportsKeepsIrInv == ASSUME IrInv, CtrlReports PROVE IrInv'
<1>1. /\ UNCHANGED <<toCtrl, rx_stream, fe, irRecorder, n_if, n_rec>>
      /\ reporting' = FALSE /\ cmd_stream' = Append(cmd_stream, Report(fe))
  BY DEF CtrlReports
<1>2. Report(fe) \in Cmds /\ Report(fe).t = "RX_FE_FREQ" /\ Report(fe).f = fe
  BY DEF Report, Cmds, IrInv, IrTypeOK
<1>3. HeaderInv'
  BY <1>1, <1>2, CommandKeepsHeader DEF irRecorder
<1>4. IrTypeOK'
  <2>1. cmd_stream' \in Seq(Cmds)
    BY <1>1, <1>2 DEF IrInv, IrTypeOK
  <2> QED BY <1>1, <2>1 DEF irRecorder, IrInv, IrTypeOK
<1>5. InOrder' /\ FileInv'
  BY <1>1 DEF irRecorder, IrInv, InOrder, FileInv
<1> QED BY <1>3, <1>4, <1>5 DEF IrInv

LEMMA UsrpRxPutsKeepsIrInv == ASSUME IrInv, UsrpRxPuts PROVE IrInv'
<1>1. /\ UNCHANGED <<toCtrl, cmd_stream, fe, reporting, irRecorder, n_rec>>
      /\ n_if' = n_if + 1 /\ rx_stream' = Append(rx_stream, n_if + 1)
  BY DEF UsrpRxPuts
<1>2. /\ rx_stream \in Seq(Nat) /\ n_if \in Nat
      /\ Len(rx_stream) \in Nat /\ Len(rx_stream') = Len(rx_stream) + 1
      /\ rx_stream' \in Seq(Nat)
  BY <1>1 DEF IrInv, IrTypeOK
<1>3. IrTypeOK'
  BY <1>1, <1>2 DEF irRecorder, IrInv, IrTypeOK
<1>7. HeaderInv'
  BY <1>1 DEF irRecorder, IrInv, HeaderInv, Knows, IsReport
<1>4. InOrder'
  BY <1>1, <1>2, EndsAtAppend DEF IrInv, InOrder
<1>5. n_if' - Len(rx_stream') = n_if - Len(rx_stream)
  BY <1>1, <1>2
<1>6. FileInv'
  BY <1>1, <1>5 DEF irRecorder, IrInv, FileInv
<1> QED BY <1>3, <1>4, <1>6, <1>7 DEF IrInv

LEMMA TakesCommandKeepsIrInv == ASSUME IrInv, TakesCommand PROVE IrInv'
<1>1. UNCHANGED <<toCtrl, rx_stream, fe, reporting, n_if, n_rec>> /\ left' = 2
  BY DEF TakesCommand
<1>2. InOrder'
  BY <1>1 DEF IrInv, InOrder
<1>3. CASE cmd_stream = <<>>
  BY <1>1, <1>2, <1>3
     DEF TakesCommand, IrInv, IrTypeOK, FileInv, HeaderInv, Knows, IsReport
<1>4. CASE cmd_stream # <<>>
  <2> DEFINE q == cmd_stream
             c == current_rx_center_freq
             m == q[1]
             d == IF IsReport(q, 1) THEN q[1].f ELSE c
  <2>1. /\ q \in Seq(Cmds) /\ Len(q) \in Nat \ {0} /\ Len(Tail(q)) = Len(q) - 1
        /\ m \in Cmds /\ m = Head(q) /\ Tail(q) \in Seq(Cmds)
        /\ \A i \in 1 .. Len(q) - 1 : Tail(q)[i] = q[i + 1]
    BY <1>4 DEF IrInv, IrTypeOK
  <2>2. cmd_stream' = Tail(q)
    BY <1>4 DEF TakesCommand
  <2>3. \/ m.t = "RF_RECORD_START" /\ OpenOutStream(m)
        \/ m.t = "RF_RECORD_STOP" /\ CloseOutStream
        \/ m.t = "STOP" /\ LastRound
        \/ /\ m.t = "RX_FE_FREQ" /\ c' = m.f
           /\ UNCHANGED <<write_stream_on, ostr, looping>>
    BY <1>4, <2>1 DEF TakesCommand
  <2>4. c' = d
    BY <2>3 DEF IsReport, OpenOutStream, CloseOutStream, LastRound
  <2>5. /\ c' \in FePlaces /\ write_stream_on' \in BOOLEAN
        /\ ostr' \in Files
    <3>1. CASE m.t = "RF_RECORD_START" /\ OpenOutStream(m)
      <4>1. m.name \in {"a", "b"} /\ m.due \in SUBSET FePlaces
        BY <2>1, <3>1 DEF Cmds
      <4> QED BY <3>1, <4>1 DEF OpenOutStream, Files, IrInv, IrTypeOK
    <3>2. CASE m.t = "RF_RECORD_STOP" /\ CloseOutStream
      <4>1. Closed \in Files
        BY DEF Closed, Files, FePlaces
      <4> QED BY <3>2, <4>1 DEF CloseOutStream, IrInv, IrTypeOK
    <3>3. CASE m.t = "STOP" /\ LastRound
      BY <3>3 DEF LastRound, IrInv, IrTypeOK
    <3>4. CASE /\ m.t = "RX_FE_FREQ" /\ c' = m.f
               /\ UNCHANGED <<write_stream_on, ostr, looping>>
      <4>1. m.f \in FePlaces
        BY <2>1, <3>4 DEF Cmds
      <4> QED BY <3>4, <4>1 DEF IrInv, IrTypeOK
    <3> QED BY <2>3, <3>1, <3>2, <3>3, <3>4
  <2>6. FileInv'
    <3>1. CASE OpenOutStream(m) \/ CloseOutStream
      BY <3>1 DEF OpenOutStream, CloseOutStream, Closed, FileInv, EndsAt
    <3>2. CASE UNCHANGED <<write_stream_on, ostr>>
      BY <1>1, <3>2 DEF IrInv, FileInv
    <3> QED BY <2>3, <3>1, <3>2 DEF LastRound
  <2>7. \A i \in 1 .. Len(q) : \A f : Knows(c, q, i + 1, f) => Knows(d, Tail(q), i, f)
    BY <1>4, <2>1, KnowsAfterTail
  <2>8. ~reporting => Knows(d, Tail(q), Len(Tail(q)) + 1, fe)
    <3>1. ~reporting => Knows(c, q, Len(q) + 1, fe)
      BY DEF IrInv, HeaderInv
    <3>2. Len(Tail(q)) + 1 = Len(q) /\ Len(q) \in 1 .. Len(q)
      BY <2>1
    <3> HIDE DEF d, c
    <3> QED BY <2>7, <3>1, <3>2
  <2>9. ASSUME NEW i \in 1 .. Len(Tail(q)), Tail(q)[i].t = "RF_RECORD_START",
               NEW f \in Tail(q)[i].due
        PROVE  Knows(d, Tail(q), i, f)
    <3>1. i \in 1 .. Len(q) /\ i + 1 \in 1 .. Len(q) /\ Tail(q)[i] = q[i + 1]
      BY <2>1
    <3>2. Knows(c, q, i + 1, f)
      BY <2>9, <3>1 DEF IrInv, HeaderInv
    <3> QED BY <2>7, <3>1, <3>2
  <2>10. \A f \in ostr'.due : ostr'.header = f
    <3>1. CASE m.t = "RF_RECORD_START" /\ OpenOutStream(m)
      <4>1. \A f \in m.due : Knows(c, q, 1, f)
        BY <2>1, <3>1 DEF IrInv, HeaderInv
      <4>2. \A f \in m.due : c = f
        BY <4>1 DEF Knows
      <4> QED BY <3>1, <4>2 DEF OpenOutStream
    <3>2. CASE CloseOutStream
      BY <3>2 DEF CloseOutStream, Closed
    <3>3. CASE UNCHANGED ostr
      BY <3>3 DEF IrInv, HeaderInv
    <3> QED BY <2>3, <3>1, <3>2, <3>3 DEF LastRound
  <2>11. HeaderInv'
    <3> HIDE DEF d
    <3> QED BY <1>1, <2>2, <2>4, <2>8, <2>9, <2>10 DEF HeaderInv
  <2>12. IrTypeOK'
    BY <1>1, <2>1, <2>2, <2>5 DEF IrInv, IrTypeOK
  <2> QED BY <1>2, <2>6, <2>11, <2>12 DEF IrInv
<1> QED BY <1>3, <1>4

\* The buffer at the head of the queue is the one that follows the file.
LEMMA TakesBufferKeepsIrInv == ASSUME IrInv, TakesBuffer PROVE IrInv'
<1>1. /\ UNCHANGED <<toCtrl, cmd_stream, fe, reporting, write_stream_on,
                     current_rx_center_freq, looping, n_if, n_rec>>
      /\ left' = left - 1 /\ left > 0 /\ rx_stream # <<>> /\ rx_stream' = Tail(rx_stream)
  BY DEF TakesBuffer
<1>2. /\ rx_stream \in Seq(Nat) /\ n_if \in Nat /\ left' \in Nat
      /\ Len(rx_stream) \in Nat /\ Len(rx_stream') = Len(rx_stream) - 1
      /\ rx_stream' \in Seq(Nat) /\ Head(rx_stream) \in Nat
  BY <1>1 DEF IrInv, IrTypeOK
<1>3. InOrder' /\ Head(rx_stream) = n_if - Len(rx_stream) + 1
  BY <1>1, <1>2, EndsAtTail DEF IrInv, InOrder
<1> DEFINE e == n_if - Len(rx_stream)
<1>4. e \in Int /\ n_if' - Len(rx_stream') = e + 1 /\ Head(rx_stream) = e + 1
  BY <1>1, <1>2, <1>3
<1>5. ostr \in Files /\ ostr.bufs \in Seq(Nat)
  BY DEF IrInv, IrTypeOK, Files
<1>6. CASE write_stream_on
  <2> DEFINE b == Append(ostr.bufs, Head(rx_stream))
  <2>1. b \in Seq(Nat)
    BY <1>2, <1>5
  <2>2. ostr' = [ostr EXCEPT !.bufs = b]
    BY <1>6 DEF TakesBuffer
  <2> HIDE DEF b
  <2>3. /\ ostr'.bufs = b /\ ostr'.name = ostr.name
        /\ ostr'.header = ostr.header /\ ostr'.due = ostr.due /\ ostr' \in Files
    BY <1>5, <2>1, <2>2 DEF Files
  <2>4. ostr.name # "none" => EndsAt(b, e + 1)
    <3>1. ostr.name # "none" => EndsAt(ostr.bufs, e)
      BY DEF IrInv, FileInv
    <3> HIDE DEF e
    <3> QED BY <1>4, <1>5, <3>1, EndsAtAppend DEF b
  <2>5. FileInv'
    BY <1>1, <1>4, <1>6, <2>3, <2>4 DEF FileInv
  <2>6. HeaderInv'
    BY <1>1, <2>3 DEF IrInv, HeaderInv, Knows, IsReport
  <2>7. IrTypeOK'
    BY <1>1, <1>2, <2>3 DEF IrInv, IrTypeOK
  <2> QED BY <1>3, <2>5, <2>6, <2>7 DEF IrInv
<1>7. CASE ~write_stream_on
  <2>1. UNCHANGED ostr
    BY <1>7 DEF TakesBuffer
  <2>2. FileInv' /\ HeaderInv' /\ IrTypeOK'
    BY <1>1, <1>2, <1>7, <2>1 DEF IrInv, FileInv, HeaderInv, IrTypeOK, Knows, IsReport
  <2> QED BY <1>3, <2>2 DEF IrInv
<1> QED BY <1>6, <1>7

LEMMA EndsRoundKeepsIrInv == ASSUME IrInv, EndsRound PROVE IrInv'
<1>1. HeaderInv'
  BY DEF EndsRound, irQueues, IrInv, HeaderInv, Knows, IsReport
<1>2. IrTypeOK' /\ InOrder' /\ FileInv'
  BY DEF EndsRound, irQueues, IrInv, IrTypeOK, InOrder, FileInv
<1> QED BY <1>1, <1>2 DEF IrInv

LEMMA LeavesLoopKeepsIrInv == ASSUME IrInv, LeavesLoop PROVE IrInv'
<1>1. Closed \in Files
  BY DEF Closed, Files, FePlaces
<1>2. HeaderInv'
  BY DEF LeavesLoop, irQueues, Closed, IrInv, HeaderInv, Knows, IsReport
<1>3. IrTypeOK' /\ InOrder' /\ FileInv'
  BY <1>1 DEF LeavesLoop, irQueues, Closed, IrInv, IrTypeOK, InOrder, FileInv
<1> QED BY <1>2, <1>3 DEF IrInv

\* The inductive invariant of the recorder holds in every reachable state.
THEOREM RawRecorderInvariant == IrSpec => []IrInv
<1>1. IrInit => IrInv
  <2> SUFFICES ASSUME IrInit PROVE IrInv
    OBVIOUS
  <2>1. PICK f \in FeFreqs : toCtrl = <<f>>
    BY DEF IrInit
  <2>2. IrTypeOK
    <3>1. Closed \in Files
      BY DEF Closed, Files, FePlaces
    <3>2. <<f>> \in Seq(FeFreqs) /\ <<>> \in Seq(Cmds) /\ <<>> \in Seq(Nat)
      OBVIOUS
    <3> QED BY <2>1, <3>1, <3>2 DEF IrInit, IrTypeOK, FePlaces
  <2> QED BY <2>2 DEF IrInit, IrInv, InOrder, FileInv, HeaderInv, EndsAt, Knows, IsReport, Closed
<1>2. IrInv /\ [IrNext]_irVars => IrInv'
  <2> SUFFICES ASSUME IrInv, [IrNext]_irVars PROVE IrInv'
    OBVIOUS
  <2>1. CASE UNCHANGED irVars
    BY <2>1 DEF irVars, irQueues, irRecorder, IrInv, IrTypeOK, InOrder, FileInv,
                HeaderInv, Knows, IsReport
  <2> QED BY <2>1, ClientAsksKeepsIrInv, CtrlMovesKeepsIrInv, CtrlReportsKeepsIrInv,
             UsrpRxPutsKeepsIrInv, TakesCommandKeepsIrInv, TakesBufferKeepsIrInv,
             EndsRoundKeepsIrInv, LeavesLoopKeepsIrInv DEF IrNext
<1> QED BY <1>1, <1>2, PTL DEF IrSpec

\* A recording of the raw signal has no gap and the right frequency in front, for
\* any backlog and any commands in between.
THEOREM RecordingIsWhole == IrSpec => []RecordingWhole
<1>1. IrInv => RecordingWhole
  <2> SUFFICES ASSUME IrInv, ostr.name # "none" PROVE RecordingWhole
    BY DEF RecordingWhole
  <2> DEFINE e == n_if - Len(rx_stream)
  <2>1. /\ ostr.bufs \in Seq(Nat) /\ rx_stream \in Seq(Nat) /\ n_if \in Nat
        /\ e \in Int
    BY DEF IrInv, IrTypeOK, Files
  <2>2. EndsAt(ostr.bufs, e)
    BY DEF IrInv, FileInv
  <2>3. rx_stream # <<>> => Head(rx_stream) = e + 1
    BY <2>1, EndsAtTail DEF IrInv, InOrder
  <2> HIDE DEF e
  <2>4. /\ \A i \in 2 .. Len(ostr.bufs) : ostr.bufs[i] = ostr.bufs[i - 1] + 1
        /\ ostr.bufs # <<>> => Last(ostr.bufs) = e
    BY <2>1, <2>2, EndsAtConsecutive
  <2> QED BY <2>3, <2>4 DEF RecordingWhole, IrInv, HeaderInv
<1> QED BY <1>1, RawRecorderInvariant, PTL

-----------------------------------------------------------------------------
(* The blocks of the signal path: what is carried over from one to the     *)
(* next is what one long block would have at that place.                   *)

LEMMA Least == ASSUME NEW T \in SUBSET Nat, T # {}
               PROVE  \E x \in T : \A y \in T : x <= y
<1> DEFINE R == OpToRel(<, Nat)
<1>1. IsWellFoundedOn(R, Nat)
  BY NatLessThanWellFounded
<1>2. \A x, y \in Nat : <<y, x>> \in R <=> y < x
  BY DEF OpToRel
<1> HIDE DEF R
<1>3. \E x \in T : \A y \in T : ~ (<<y, x>> \in R)
  BY <1>1, WFMin
<1>4. PICK x \in T : \A y \in T : ~ (<<y, x>> \in R)
  BY <1>3
<1>5. ASSUME NEW y \in T PROVE x <= y
  <2>1. x \in Nat /\ y \in Nat /\ ~ (y < x)
    BY <1>2, <1>4
  <2> QED BY <2>1
<1> QED BY <1>5

-----------------------------------------------------------------------------
(* Quotients.                                                              *)

\* A multiple of the divisor comes off whole.
LEMMA Quotient ==
  ASSUME NEW d \in Nat \ {0}, NEW q \in Int, NEW a \in Int
  PROVE  /\ (d * q + a) \div d = q + a \div d /\ (d * q + a) % d = a % d
         /\ a \div d \in Int /\ a % d \in 0 .. d - 1 /\ a = d * (a \div d) + (a % d)
<1> DEFINE p == a \div d
           r == a % d
<1>1. p \in Int /\ r \in 0 .. d - 1 /\ a = d * p + r
  OBVIOUS
<1> HIDE DEF p, r
<1>2. d * q + a = d * (q + p) + r /\ q + p \in Int
  BY <1>1
<1>3. \A z \in Int : (d * z + r) \div d = z /\ (d * z + r) % d = r
  BY <1>1
<1>4. (d * q + a) \div d = q + p /\ (d * q + a) % d = r
  BY <1>2, <1>3
<1> QED BY <1>1, <1>4 DEF p, r

LEMMA QuotientGrows ==
  ASSUME NEW d \in Nat \ {0}, NEW a \in Int, NEW b \in Int, a <= b
  PROVE  a \div d <= b \div d
<1> DEFINE p == a \div d
           q == b \div d
<1>1. p \in Int /\ q \in Int /\ d * p <= a /\ b < d * q + d
  OBVIOUS
<1> HIDE DEF p, q
<1>2. d * p < d * (q + 1)
  BY <1>1
<1>3. p < q + 1
  BY <1>1, <1>2
<1> QED BY <1>1, <1>3 DEF p, q

-----------------------------------------------------------------------------
(* The resampler.                                                          *)

LEMMA StageIs == ASSUME td \in Stages
                 PROVE  td.M = 5 /\ td.L \in 1 .. 4 /\ td.taps \in 8 .. 35
<1>1. 35 \div 1 = 35 /\ 30 \div 3 = 10 /\ 32 \div 4 = 8 /\ 40 \div 4 = 10
  OBVIOUS
<1> QED BY <1>1 DEF Stages, RationalResampler

\* The copy of the last samples, of which nobody has written those before the first.
PrefixHolds ==
  /\ DOMAIN prefix_buf = 0 .. 2 * td.taps - 1
  /\ \A i \in 0 .. td.taps - 1 :
       prefix_buf[i] = IF fed - td.taps + i >= 0 THEN fed - td.taps + i ELSE Silence

\* T outputs of the stream are made.
PositionIs(T) ==
  /\ k = (T * td.M) % td.L
  /\ n = (T * td.M) \div td.L - fed

TdInv ==
  /\ td \in Stages /\ fed \in Nat /\ made \in Nat /\ n \in 0 .. td.taps - 1
  /\ PrefixHolds
  /\ \E c \in Nat : DOMAIN td_out = 0 .. c - 1 /\ PositionIs(made + c)
  /\ CutAnywhere

LEMMA HowMany == ASSUME NEW c \in Nat PROVE Cardinality(0 .. c - 1) = c
  BY FS_Interval

LEMMA TdStarts == TdInit => TdInv
<1> SUFFICES ASSUME TdInit PROVE TdInv
  OBVIOUS
<1>1. /\ td \in Stages /\ k = 0 /\ n = 0 /\ td_out = <<>> /\ made = 0 /\ fed = 0
      /\ prefix_buf = [i \in 0 .. 2 * td.taps - 1 |-> Silence]
  BY DEF TdInit
<1>2. td.M = 5 /\ td.L \in 1 .. 4 /\ td.taps \in 8 .. 35
  BY <1>1, StageIs
<1>3. DOMAIN td_out = 0 .. 0 - 1 /\ Cardinality(DOMAIN td_out) = 0
  <2>1. DOMAIN td_out = {} /\ 0 .. 0 - 1 = {}
    BY <1>1
  <2> QED BY <2>1, HowMany
<1>4. PositionIs(made + 0)
  <2>1. (made + 0) * td.M = 0
    BY <1>1, <1>2
  <2>2. 0 % td.L = 0 /\ 0 \div td.L = 0
    BY <1>2
  <2> QED BY <1>1, <2>1, <2>2 DEF PositionIs
<1>5. PrefixHolds
  <2> DEFINE t == td.taps
  <2>1. /\ t \in 8 .. 35 /\ prefix_buf = [i \in 0 .. 2 * t - 1 |-> Silence]
        /\ fed = 0
    BY <1>1, <1>2
  <2> HIDE DEF t
  <2>2. \A i \in 0 .. t - 1 : i \in 0 .. 2 * t - 1 /\ ~(fed - t + i >= 0)
    BY <2>1
  <2>3. /\ DOMAIN prefix_buf = 0 .. 2 * t - 1
        /\ \A i \in 0 .. t - 1 : prefix_buf[i] = Silence
    BY <2>1, <2>2
  <2> QED BY <2>2, <2>3 DEF PrefixHolds, t
<1>6. CutAnywhere
  <2>1. made + Cardinality(DOMAIN td_out) = 0 /\ 0 * td.M = 0 /\ 0 \div td.L >= fed
    BY <1>1, <1>2, <1>3
  <2>2. DOMAIN td_out = {}
    BY <1>1
  <2> QED BY <2>1, <2>2 DEF CutAnywhere
<1>7. 0 \in 0 .. td.taps - 1
  BY <1>2
<1>8. \E c \in Nat : DOMAIN td_out = 0 .. c - 1 /\ PositionIs(made + c)
  <2>1. 0 \in Nat
    OBVIOUS
  <2> QED BY <1>3, <1>4, <2>1
<1> QED BY <1>1, <1>5, <1>6, <1>7, <1>8 DEF TdInv

\* The steps of the loop go on and on, by a quotient of M / L.
LEMMA StepsGo ==
  ASSUME td \in Stages, k \in 0 .. td.L - 1, n \in Nat
  PROVE  /\ \A m \in Nat : NewestAt(m) \in Nat /\ PhaseAt(m) \in 0 .. td.L - 1
         /\ NewestAt(0) = n
         /\ \A m, p \in Nat : m <= p => NewestAt(m) <= NewestAt(p)
         /\ \A m \in Nat \ {0} : NewestAt(m) <= NewestAt(m - 1) + 5
<1> DEFINE L == td.L
           q(m) == (k + m * 5) \div L
<1>1. td.M = 5 /\ L \in 1 .. 4 /\ k \in 0 .. L - 1 /\ L \in Nat \ {0} /\ k \in Int
  BY StageIs
<1>2. ASSUME NEW m \in Nat
      PROVE  /\ NewestAt(m) = n + q(m) /\ NewestAt(m) \in Nat /\ q(m) \in Int
             /\ PhaseAt(m) \in 0 .. L - 1
  <2>1. k + m * 5 \in Nat
    BY <1>1
  <2>2. NewestAt(m) = n + q(m) /\ PhaseAt(m) = (k + m * 5) % L
    BY <1>1 DEF NewestAt, PhaseAt
  <2> HIDE DEF L
  <2>3. \A a \in Nat : a \div L \in Nat /\ a % L \in 0 .. L - 1
    BY <1>1
  <2> QED BY <2>1, <2>2, <2>3
<1>3. NewestAt(0) = n
  <2>1. k + 0 * 5 = k
    BY <1>1
  <2>2. k \div L = 0
    BY <1>1
  <2>3. q(0) = 0
    BY <2>1, <2>2
  <2> QED BY <1>2, <2>3
<1>4. ASSUME NEW m \in Nat, NEW p \in Nat, m <= p PROVE NewestAt(m) <= NewestAt(p)
  <2>1. k + m * 5 \in Int /\ k + p * 5 \in Int /\ k + m * 5 <= k + p * 5
    BY <1>1, <1>4
  <2>2. q(m) <= q(p)
    BY <1>1, <2>1, QuotientGrows
  <2> HIDE DEF q
  <2> QED BY <1>2, <2>2
<1>5. ASSUME NEW m \in Nat \ {0} PROVE NewestAt(m) <= NewestAt(m - 1) + 5
  <2> DEFINE a == k + (m - 1) * 5
  <2>1. a \in Int /\ L * 5 + a \in Int /\ k + m * 5 \in Int /\ k + m * 5 <= L * 5 + a /\ m - 1 \in Nat
    BY <1>1
  <2>2. (L * 5 + a) \div L = 5 + a \div L
    <3> HIDE DEF a
    <3> QED BY <1>1, <2>1, Quotient
  <2>3. q(m) <= (L * 5 + a) \div L
    <3> HIDE DEF a
    <3> QED BY <1>1, <2>1, QuotientGrows
  <2>4. q(m) <= 5 + q(m - 1)
    BY <2>2, <2>3
  <2> HIDE DEF q
  <2> QED BY <1>2, <2>1, <2>4
<1> QED BY <1>2, <1>3, <1>4, <1>5

\* The loop ends when the buffer is used up, never for want of room.
LEMMA RoomEnough ==
  ASSUME td \in Stages, k \in 0 .. td.L - 1, n \in Nat, NEW len \in InLens, NEW max \in Rooms(len)
  PROVE  max \in Nat /\ NewestAt(max) >= len /\ len \in Nat /\ len >= td.taps
<1> DEFINE L == td.L
           all == len * L
<1>1. td.M = 5 /\ L \in 1 .. 4 /\ k \in 0 .. L - 1 /\ L \in Nat \ {0}
  BY StageIs
<1>2. len \in Nat /\ len >= td.taps
  BY PolyphaseAssumption
<1>3. all \in Nat
  BY <1>1, <1>2
<1>4. max = 3 + all \div 5 \/ (all % 5 = 0 /\ max = all \div 5)
  BY <1>1 DEF Rooms
<1> HIDE DEF all
<1>5. max \in Nat /\ max * 5 >= all
  BY <1>3, <1>4
<1> HIDE DEF L
<1>6. (k + max * 5) \div L >= len
  <2> DEFINE a == L * len + 0
             b == k + max * 5
  <2>1. a \in Int /\ b \in Int /\ a <= b
    <3>1. all = L * len
      BY <1>1, <1>2 DEF all
    <3> QED BY <1>1, <1>3, <1>5, <3>1
  <2>2. a \div L = len + 0 \div L
    BY <1>1, <1>2, Quotient
  <2>3. 0 \div L = 0
    BY <1>1
  <2> HIDE DEF a, b
  <2>4. a \div L <= b \div L
    BY <1>1, <2>1, QuotientGrows
  <2>5. a \div L = len
    BY <1>2, <2>2, <2>3
  <2> QED BY <2>4, <2>5 DEF b
<1>7. NewestAt(max) = n + (k + max * 5) \div L
  BY <1>1 DEF NewestAt, L
<1>8. NewestAt(max) \in Nat
  BY <1>5, StepsGo
<1>9. (k + max * 5) \div L \in Int
  BY <1>1, <1>5
<1> QED BY <1>2, <1>5, <1>6, <1>7, <1>9

\* What the loop counts: the outputs whose newest sample is in the buffer.
LEMMA LoopCounts ==
  ASSUME td \in Stages, k \in 0 .. td.L - 1, n \in Nat, NEW len \in Nat, NEW max \in Nat,
         NewestAt(max) >= len, n < len
  PROVE  LET c == Cardinality({m \in 0 .. max - 1 : NewestAt(m) < len})
         IN  /\ c \in Nat \ {0} /\ NewestAt(c) >= len /\ NewestAt(c - 1) < len
             /\ \A m \in 0 .. c - 1 : NewestAt(m) < len
<1> DEFINE T == {m \in Nat : NewestAt(m) >= len}
           S == {m \in 0 .. max - 1 : NewestAt(m) < len}
<1>1. /\ \A m \in Nat : NewestAt(m) \in Nat
      /\ NewestAt(0) = n /\ \A m, p \in Nat : m <= p => NewestAt(m) <= NewestAt(p)
  BY StepsGo
<1>2. PICK c \in T : \A y \in T : c <= y
  <2>1. T # {} /\ T \in SUBSET Nat
    OBVIOUS
  <2> HIDE DEF T
  <2> QED BY <2>1, Least
<1>3. c \in Nat /\ NewestAt(c) >= len /\ c # 0 /\ c <= max
  BY <1>1, <1>2
<1>4. ASSUME NEW m \in Nat, m < c PROVE NewestAt(m) < len
  <2>1. m \notin T
    <3>1. ~(c <= m)
      BY <1>3, <1>4
    <3> HIDE DEF T
    <3> QED BY <1>2, <3>1
  <2> QED BY <1>1, <2>1
<1>5. S = 0 .. c - 1
  <2>1. ASSUME NEW m \in S PROVE m \in 0 .. c - 1
    <3>1. m \in Nat /\ ~(NewestAt(m) >= len)
      BY <1>1
    <3>2. c <= m => NewestAt(c) <= NewestAt(m)
      BY <1>1, <1>3, <3>1
    <3>3. NewestAt(m) \in Nat /\ NewestAt(c) \in Nat
      BY <1>1, <1>3, <3>1
    <3> QED BY <1>3, <3>1, <3>2, <3>3
  <2>2. ASSUME NEW m \in 0 .. c - 1 PROVE m \in S
    <3>1. m \in Nat /\ m < c /\ m \in 0 .. max - 1
      BY <1>3
    <3> QED BY <1>4, <3>1
  <2> HIDE DEF S
  <2> QED BY <2>1, <2>2
<1>6. Cardinality(S) = c
  BY <1>3, <1>5, HowMany
<1>7. c - 1 \in Nat /\ c - 1 < c /\ \A m \in 0 .. c - 1 : m \in Nat /\ m < c
  BY <1>3
<1> QED BY <1>3, <1>4, <1>6, <1>7

\* Output number made + m of the stream.
LEMMA Numbered ==
  ASSUME td \in Stages, n \in Nat, fed \in Nat, NEW T \in Nat, PositionIs(T), NEW m \in Nat
  PROVE  LET J == (T + m) * td.M
         IN  J % td.L = PhaseAt(m) /\ J \div td.L = fed + NewestAt(m)
<1> DEFINE L == td.L
           q == fed + n
           a == k + m * 5
           J == (T + m) * td.M
<1>1. td.M = 5 /\ L \in 1 .. 4 /\ L \in Nat \ {0}
  BY StageIs
<1>2. k = (T * 5) % L /\ n = (T * 5) \div L - fed
  BY <1>1 DEF PositionIs
<1>3. T * 5 = L * q + k /\ k \in 0 .. L - 1 /\ q \in Nat
  <2> DEFINE b == T * 5
  <2>1. b \in Int
    OBVIOUS
  <2> HIDE DEF b
  <2>2. b \div L \in Int /\ b % L \in 0 .. L - 1 /\ b = L * (b \div L) + (b % L)
    BY <1>1, <2>1, Quotient
  <2>3. q = b \div L /\ k = b % L
    BY <1>1, <1>2, <2>2 DEF b
  <2> QED BY <2>2, <2>3 DEF b
<1>4. J = L * q + a /\ a \in Int
  BY <1>1, <1>3
<1>5. NewestAt(m) = n + a \div L /\ PhaseAt(m) = a % L
  BY <1>1 DEF NewestAt, PhaseAt
<1> HIDE DEF a, L, J
<1>6. (L * q + a) \div L = q + a \div L /\ (L * q + a) % L = a % L /\ a \div L \in Int
  BY <1>1, <1>3, <1>4, Quotient
<1>7. J % L = PhaseAt(m) /\ J \div L = fed + NewestAt(m)
  BY <1>4, <1>5, <1>6
<1> QED BY <1>7 DEF J, L

\* What the products of an output are taken from.
LEMMA SamplesRead ==
  ASSUME TdInv, NEW len \in Nat, len >= td.taps,
         NEW m \in Nat, NewestAt(m) < len, NEW i \in 0 .. td.taps - 1,
         m = 0 => NewestAt(m) < td.taps, NewestAt(m) \in Nat
  PROVE  LET in == [j \in 0 .. len - 1 |-> fed + j]
             prefix == [j \in DOMAIN prefix_buf |->
                          IF j < td.taps THEN prefix_buf[j] ELSE in[j - td.taps]]
             x == fed + NewestAt(m) - i
         IN  Sample(m, i, prefix, in) = IF x >= 0 THEN x ELSE Silence
<1> DEFINE t == td.taps
           w == NewestAt(m)
           in == [j \in 0 .. len - 1 |-> fed + j]
           prefix == [j \in DOMAIN prefix_buf |->
                        IF j < t THEN prefix_buf[j] ELSE in[j - t]]
           x == w - i
           there == m > 0 /\ PastPrefix(w)
<1>1. /\ t \in 8 .. 35 /\ w \in Nat /\ w < len /\ i \in 0 .. t - 1 /\ len \in Nat /\ len >= t
      /\ fed \in Nat /\ (m = 0 => w < t)
      /\ DOMAIN prefix_buf = 0 .. 2 * t - 1
      /\ \A j \in 0 .. t - 1 : prefix_buf[j] = IF fed - t + j >= 0 THEN fed - t + j ELSE Silence
  BY StageIs DEF TdInv, PrefixHolds
<1>2. Sample(m, i, prefix, in)
        = CASE there /\ x \in DOMAIN in -> in[x]
            [] ~there /\ t + x \in DOMAIN prefix -> prefix[t + x]
            [] OTHER -> Outside
  BY DEF Sample
<1>3. there <=> m > 0 /\ w > t - 2
  BY DEF PastPrefix
<1>4. DOMAIN in = 0 .. len - 1 /\ \A j \in 0 .. len - 1 : in[j] = fed + j
  OBVIOUS
<1>5. /\ DOMAIN prefix = 0 .. 2 * t - 1
      /\ \A j \in 0 .. 2 * t - 1 : prefix[j] = IF j < t THEN prefix_buf[j] ELSE in[j - t]
  BY <1>1
<1>a. fed + w - i = fed + x
  BY <1>1
<1> HIDE DEF t, w, in, prefix, there
<1>6. CASE there
  <2>1. x \in 0 .. len - 1 /\ fed + x >= 0 /\ fed + w - i = fed + x
    BY <1>1, <1>3, <1>6
  <2>2. Sample(m, i, prefix, in) = fed + x
    BY <1>2, <1>4, <1>6, <2>1
  <2> QED BY <2>1, <2>2 DEF t, w, in, prefix
<1>7. CASE ~there
  <2>1. w < t
    BY <1>1, <1>3, <1>7
  <2>2. t + x \in 0 .. 2 * t - 1 /\ (t + x < t <=> x < 0) /\ (t + x) - t = x
        /\ (x < 0 => t + x \in 0 .. t - 1) /\ (~(x < 0) => x \in 0 .. len - 1 /\ fed + x >= 0)
        /\ fed - t + (t + x) = fed + x
    BY <1>1, <2>1
  <2>3. Sample(m, i, prefix, in) = prefix[t + x]
    BY <1>2, <1>5, <1>7, <2>2
  <2>4. prefix[t + x] = IF fed + x >= 0 THEN fed + x ELSE Silence
    <3>1. CASE x < 0
      <4>1. prefix[t + x] = prefix_buf[t + x]
        BY <1>5, <2>2, <3>1
      <4> QED BY <1>1, <2>2, <3>1, <4>1
    <3>2. CASE ~(x < 0)
      BY <1>4, <1>5, <2>2, <3>2
    <3> QED BY <3>1, <3>2
  <2>5. Sample(m, i, prefix, in) = IF fed + w - i >= 0 THEN fed + w - i ELSE Silence
    BY <1>a, <2>3, <2>4
  <2> QED BY <2>5 DEF t, w, in, prefix
<1> QED BY <1>6, <1>7

LEMMA TdSteps == ASSUME TdInv, NEW len \in InLens, NEW max \in Rooms(len), TdApply(len, max)
                 PROVE  TdInv'
<1> DEFINE M == td.M
           L == td.L
           t == td.taps
           in == [i \in 0 .. len - 1 |-> fed + i]
           prefix == [i \in DOMAIN prefix_buf |-> IF i < t THEN prefix_buf[i] ELSE in[i - t]]
           sum(m) == {<<i * L + PhaseAt(m), Sample(m, i, prefix, in)>> : i \in 0 .. t - 1}
           T == made + Cardinality(DOMAIN td_out)
           count == Cardinality({m \in 0 .. max - 1 : NewestAt(m) < len})
<1>1. /\ td_out' = [m \in 0 .. count - 1 |-> {p \in sum(m) : p[2] # Silence}]
      /\ prefix_buf' = [i \in DOMAIN prefix |->
                          IF i < t THEN in[i + len - t] ELSE prefix[i]]
      /\ k' = PhaseAt(count) /\ n' = NewestAt(count) - len
      /\ made' = T /\ fed' = fed + len /\ td' = td
  BY DEF TdApply
<1>2. /\ td \in Stages /\ M = 5 /\ L \in 1 .. 4 /\ t \in 8 .. 35
      /\ fed \in Nat /\ made \in Nat /\ n \in 0 .. t - 1
      /\ DOMAIN prefix_buf = 0 .. 2 * t - 1
  BY StageIs DEF TdInv, PrefixHolds
<1>3. T \in Nat /\ PositionIs(T)
  <2>1. PICK d \in Nat : DOMAIN td_out = 0 .. d - 1 /\ PositionIs(made + d)
    BY DEF TdInv
  <2>2. Cardinality(DOMAIN td_out) = d
    BY <2>1, HowMany
  <2> QED BY <1>2, <2>1, <2>2
<1>4. k \in 0 .. L - 1
  <2>1. k = (T * 5) % L
    BY <1>2, <1>3 DEF PositionIs
  <2> HIDE DEF T, L
  <2>2. T * 5 \in Nat
    BY <1>3
  <2> QED BY <1>2, <2>1, <2>2
<1> HIDE DEF T
<1> HIDE DEF M, L, t, count
<1>5. max \in Nat /\ NewestAt(max) >= len /\ len \in Nat /\ len >= t /\ n \in Nat /\ n < len
  <2>1. n \in Nat /\ n < t
    BY <1>2
  <2>2. max \in Nat /\ NewestAt(max) >= len /\ len \in Nat /\ len >= t
    BY <1>2, <1>4, <2>1, RoomEnough DEF t, L
  <2> QED BY <1>2, <2>1, <2>2
<1>6. PICK c \in Nat \ {0} :
        /\ c = count
        /\ NewestAt(c) >= len /\ NewestAt(c - 1) < len
        /\ \A m \in 0 .. c - 1 : NewestAt(m) < len
  BY <1>2, <1>4, <1>5, LoopCounts DEF count, L
<1>7. /\ \A m \in Nat : NewestAt(m) \in Nat /\ PhaseAt(m) \in 0 .. L - 1
      /\ NewestAt(0) = n /\ NewestAt(c) <= NewestAt(c - 1) + 5
  BY <1>2, <1>4, <1>5, <1>6, StepsGo DEF L
<1>8. \A m \in Nat : ((T + m) * M) % L = PhaseAt(m) /\ ((T + m) * M) \div L = fed + NewestAt(m)
  BY <1>2, <1>3, <1>5, Numbered DEF L, M
<1>9. n' \in 0 .. t - 1
  <2>1. c - 1 \in Nat
    BY <1>6
  <2>2. NewestAt(c) \in Nat /\ NewestAt(c - 1) \in Nat
    BY <1>6, <1>7, <2>1
  <2>3. n' = NewestAt(c) - len
    BY <1>1, <1>6
  <2> DEFINE a == NewestAt(c)
             b == NewestAt(c - 1)
  <2>4. a \in Nat /\ b \in Nat /\ a >= len /\ b < len /\ a <= b + 5 /\ t \in 8 .. 35 /\ len \in Nat
    BY <1>2, <1>5, <1>6, <1>7, <2>2
  <2> HIDE DEF a, b
  <2>5. a - len \in 0 .. t - 1
    BY <2>4
  <2> QED BY <2>3, <2>5 DEF a
<1>a. DOMAIN td_out' = 0 .. c - 1 /\ Cardinality(DOMAIN td_out') = c
  BY <1>1, <1>6, HowMany
<1>b. PositionIs(made + c)'
  <2>1. made' + c = T + c /\ td' = td /\ NewestAt(c) \in Nat
    BY <1>1, <1>6, <1>7
  <2>a. k' = PhaseAt(c) /\ n' = NewestAt(c) - len
    BY <1>1, <1>6
  <2>2. k' = ((T + c) * M) % L /\ n' = ((T + c) * M) \div L - fed'
    <3>1. ((T + c) * M) % L = PhaseAt(c) /\ ((T + c) * M) \div L = fed + NewestAt(c)
      BY <1>6, <1>8
    <3>2. NewestAt(c) - len = (fed + NewestAt(c)) - (fed + len)
      BY <1>2, <1>5, <2>1
    <3> QED BY <1>1, <2>a, <3>1, <3>2
  <2>3. k' = ((made' + c) * td'.M) % td'.L /\ n' = ((made' + c) * td'.M) \div td'.L - fed'
    BY <2>1, <2>2 DEF M, L
  <2> QED BY <2>3 DEF PositionIs
<1>c. PrefixHolds'
  <2>1. DOMAIN prefix = 0 .. 2 * t - 1
    BY <1>2
  <2> HIDE DEF prefix
  <2>2. \A i \in 0 .. t - 1 : i + len - t \in 0 .. len - 1 /\ i \in 0 .. 2 * t - 1 /\ i < t
    BY <1>2, <1>5
  <2>3. DOMAIN prefix_buf' = 0 .. 2 * t - 1
    BY <1>1, <2>1
  <2>4. ASSUME NEW i \in 0 .. t - 1
        PROVE  prefix_buf'[i] = IF fed' - t + i >= 0 THEN fed' - t + i ELSE Silence
    <3>1. prefix_buf'[i] = fed + (i + len - t)
      BY <1>1, <2>1, <2>2
    <3>a. t \in 8 .. 35 /\ len \in Nat /\ len >= t /\ fed \in Nat /\ fed' = fed + len /\ i \in 0 .. t - 1
      BY <1>1, <1>2, <1>5
    <3> HIDE DEF t, in, prefix, M, L, T
    <3>2. fed' - t + i = fed + (i + len - t) /\ fed' - t + i >= 0
      BY <3>a
    <3> QED BY <3>1, <3>2
  <2> QED BY <1>1, <2>3, <2>4 DEF PrefixHolds, t
<1>d. ASSUME NEW j \in 0 .. c - 1
      PROVE  LET J == (T + j) * M IN
             td_out'[j] = {p \in {<<i * L + (J % L), J \div L - i>> : i \in 0 .. t - 1} : p[2] >= 0}
  <2> DEFINE J == (T + j) * M
             a(i) == i * L + PhaseAt(j)
             y(i) == fed + NewestAt(j) - i
             s(i) == Sample(j, i, prefix, in)
  <2>1. j \in Nat /\ NewestAt(j) < len /\ NewestAt(j) \in Nat /\ (j = 0 => NewestAt(j) < t)
    <3>1. j \in Nat /\ NewestAt(j) < len
      BY <1>6
    <3>2. n < t
      BY <1>2
    <3> QED BY <1>7, <3>1, <3>2
  <2>2. J % L = PhaseAt(j) /\ J \div L = fed + NewestAt(j)
    BY <1>8, <2>1
  <2>3. \A i \in 0 .. t - 1 : s(i) = IF y(i) >= 0 THEN y(i) ELSE Silence
    BY <1>5, <2>1, SamplesRead DEF t
  <2>4. \A i \in 0 .. t - 1 : y(i) \in Int
    BY <1>2, <2>1
  <2>5. Silence = -1
    BY DEF Silence
  <2> HIDE DEF J, s, y, a
  <2>6. {p \in {<<a(i), s(i)>> : i \in 0 .. t - 1} : p[2] # Silence}
          = {p \in {<<a(i), y(i)>> : i \in 0 .. t - 1} : p[2] >= 0}
    <3> DEFINE A == {p \in {<<a(i), s(i)>> : i \in 0 .. t - 1} : p[2] # Silence}
               B == {p \in {<<a(i), y(i)>> : i \in 0 .. t - 1} : p[2] >= 0}
    <3>1. ASSUME NEW p \in A PROVE p \in B
      <4>1. PICK i \in 0 .. t - 1 : p = <<a(i), s(i)>> /\ s(i) # Silence
        OBVIOUS
      <4>2. s(i) = y(i) /\ y(i) >= 0
        BY <2>3, <4>1
      <4> QED BY <4>1, <4>2
    <3>2. ASSUME NEW p \in B PROVE p \in A
      <4>1. PICK i \in 0 .. t - 1 : p = <<a(i), y(i)>> /\ y(i) >= 0
        OBVIOUS
      <4>2. s(i) = y(i) /\ y(i) # Silence
        BY <2>3, <2>4, <2>5, <4>1
      <4> QED BY <4>1, <4>2
    <3> HIDE DEF A, B
    <3> QED BY <3>1, <3>2 DEF A, B
  <2>7. td_out'[j] = {p \in {<<a(i), s(i)>> : i \in 0 .. t - 1} : p[2] # Silence}
    BY <1>1, <1>6 DEF a, s
  <2>8. ASSUME NEW i \in 0 .. t - 1 PROVE a(i) = i * L + (J % L) /\ y(i) = J \div L - i
    <3>1. a(i) = i * L + (J % L)
      BY <2>2, Zenon DEF a
    <3>2. y(i) = (fed + NewestAt(j)) - i
      BY <1>2, <2>1 DEF y
    <3> QED BY <2>2, <3>1, <3>2
  <2> QED BY <2>6, <2>7, <2>8 DEF J
<1>e. /\ ((T + c) * M) \div L >= fed'
      /\ (((T + c) - 1) * M) \div L < fed'
  <2>1. c - 1 \in Nat /\ c \in Nat /\ T + (c - 1) = (T + c) - 1
    BY <1>3, <1>6
  <2>2. ((T + c) * M) \div L = fed + NewestAt(c)
        /\ ((T + (c - 1)) * M) \div L = fed + NewestAt(c - 1)
    BY <1>8, <2>1
  <2>3. NewestAt(c) \in Nat /\ NewestAt(c - 1) \in Nat
    BY <1>7, <2>1
  <2> QED BY <1>1, <1>2, <1>5, <1>6, <2>1, <2>2, <2>3
<1>f. CutAnywhere'
  <2>0. T + c > 0
    BY <1>3
  <2>1. made' + Cardinality(DOMAIN td_out') = T + c /\ made' = T /\ DOMAIN td_out' = 0 .. c - 1
    BY <1>1, <1>a
  <2>2. td'.M = M /\ td'.L = L /\ td'.taps = t
    BY <1>1 DEF M, L, t
  <2>3. LET all == made' + Cardinality(DOMAIN td_out') IN
        (all * td'.M) \div td'.L >= fed' /\ ((all - 1) * td'.M) \div td'.L < fed'
    BY <1>e, <2>1, <2>2
  <2>4. \A j \in DOMAIN td_out' :
          LET J == (made' + j) * td'.M IN
          td_out'[j] = {p \in {<<i * td'.L + (J % td'.L), J \div td'.L - i>> :
                                 i \in 0 .. td'.taps - 1} : p[2] >= 0}
    BY <1>d, <2>1, <2>2
  <2> QED BY <2>3, <2>4 DEF CutAnywhere
<1>g. fed' \in Nat /\ made' \in Nat
  BY <1>1, <1>2, <1>3, <1>5
<1>h. \E d \in Nat : DOMAIN td_out' = 0 .. d - 1 /\ PositionIs(made + d)'
  <2>1. c \in Nat
    BY <1>6
  <2> QED BY <1>a, <1>b, <2>1
<1> QED BY <1>1, <1>2, <1>9, <1>c, <1>f, <1>g, <1>h DEF TdInv, t

\* Between two buffers phase, position and the copied samples are those of one long
\* buffer (RationalResampler::apply, RationalResampler::bumpCounters).
THEOREM ResamplerInvariant == TdSpec => []TdInv
<1>1. TdInv /\ [TdNext]_tdVars => TdInv'
  <2> SUFFICES ASSUME TdInv, [TdNext]_tdVars PROVE TdInv'
    OBVIOUS
  <2>1. CASE TdNext
    BY <2>1, TdSteps DEF TdNext
  <2>2. CASE UNCHANGED tdVars
    BY <2>2 DEF tdVars, TdInv, PrefixHolds, PositionIs, CutAnywhere
  <2> QED BY <2>1, <2>2
<1> QED BY <1>1, TdStarts, PTL DEF TdSpec

-----------------------------------------------------------------------------
(* The dimensions of the filters.                                          *)

LEMMA Powers ==
  /\ \A a \in 0 .. 15 : 2^a \in Nat \ {0}
  /\ \A b \in 0 .. 3 : 3^b \in Nat \ {0} /\ 5^b \in Nat \ {0}
  /\ 3^3 = 27 /\ 5^3 = 125
<1> DEFINE P == Nat \ {0}
<1>1. /\ 2^0 \in P /\ 2^1 \in P /\ 2^2 \in P /\ 2^3 \in P /\ 2^4 \in P /\ 2^5 \in P /\ 2^6 \in P
      /\ 2^7 \in P /\ 2^8 \in P /\ 2^9 \in P /\ 2^10 \in P /\ 2^11 \in P
      /\ 2^12 \in P /\ 2^13 \in P /\ 2^14 \in P /\ 2^15 \in P
  OBVIOUS
<1>2. /\ 3^0 \in P /\ 3^1 \in P /\ 3^2 \in P /\ 3^3 \in P /\ 3^3 = 27
      /\ 5^0 \in P /\ 5^1 \in P /\ 5^2 \in P /\ 5^3 \in P /\ 5^3 = 125
  OBVIOUS
<1>3. \A a \in 0 .. 15 : a = 0 \/ a = 1 \/ a = 2 \/ a = 3 \/ a = 4 \/ a = 5 \/ a = 6 \/ a = 7
        \/ a = 8 \/ a = 9 \/ a = 10 \/ a = 11 \/ a = 12 \/ a = 13 \/ a = 14 \/ a = 15
  OBVIOUS
<1>4. \A b \in 0 .. 3 : b = 0 \/ b = 1 \/ b = 2 \/ b = 3
  OBVIOUS
<1> HIDE DEF P
<1>5. ASSUME NEW a \in 0 .. 15 PROVE 2^a \in P
  BY <1>1, <1>3, Zenon
<1>6. ASSUME NEW b \in 0 .. 3 PROVE 3^b \in P /\ 5^b \in P
  BY <1>2, <1>4, Zenon
<1>7. (\A a \in 0 .. 15 : 2^a \in P) /\ (\A b \in 0 .. 3 : 3^b \in P /\ 5^b \in P)
  BY <1>5, <1>6
<1> QED BY <1>2, <1>7, Zenon DEF P

\* Longer than any block or filter.
Reach == 2^15

LEMMA ReachIs == Reach \in Nat \ {0}
  BY Powers DEF Reach

LEMMA LeastIs == ASSUME NEW T \in SUBSET Nat, T # {} PROVE Min(T) \in T
  BY Least DEF Min

LEMMA SmoothIs ==
  /\ Smooth \subseteq Nat
  /\ Reach * 27 * 125 \in Smooth
<1>1. Smooth = {Multiple(a, b, c) : a \in 0 .. 15, b \in 0 .. 3, c \in 0 .. 3} \ {1}
  BY DEF Smooth
<1>2. ASSUME NEW a \in 0 .. 15, NEW b \in 0 .. 3, NEW c \in 0 .. 3 PROVE Multiple(a, b, c) \in Nat
  <2> DEFINE x == 2^a
             y == 3^b
             z == 5^c
  <2>1. x \in Nat /\ y \in Nat /\ z \in Nat
    BY Powers, Zenon
  <2> HIDE DEF x, y, z
  <2>2. x * y * z \in Nat
    BY <2>1
  <2> QED BY <2>2, Zenon DEF x, y, z, Multiple
<1>3. Multiple(15, 3, 3) = Reach * 27 * 125
  <2> DEFINE x == 2^15
             y == 3^3
             z == 5^3
  <2>1. x = Reach /\ y = 27 /\ z = 125
    BY Powers, Zenon DEF Reach
  <2> HIDE DEF x, y, z
  <2>2. x * y * z = Reach * 27 * 125
    BY <2>1, Zenon
  <2> QED BY <2>2, Zenon DEF x, y, z, Multiple
<1>4. Reach * 27 * 125 # 1
  BY ReachIs
<1>5. 15 \in 0 .. 15 /\ 3 \in 0 .. 3
  OBVIOUS
<1> QED BY <1>1, <1>2, <1>3, <1>4, <1>5

LEMMA GuessIs ==
  ASSUME NEW M \in Nat \ {0}, M <= 3 * Reach, NEW L \in Nat \ {0}, L <= Reach
  PROVE  GuessN(M, L) \in Nat /\ GuessN(M, L) >= M + L - 1
<1> DEFINE T == {g \in Smooth : g >= M + L - 1}
<1>1. Reach * 27 * 125 \in T /\ T \in SUBSET Nat
  <2>1. Reach * 27 * 125 >= M + L - 1
    BY ReachIs
  <2> QED BY <2>1, SmoothIs
<1>2. Min(T) \in T
  <2> HIDE DEF T
  <2> QED BY <1>1, LeastIs
<1> QED BY <1>1, <1>2 DEF GuessN

Dims(f) ==
  /\ f.N \in Nat /\ f.M \in Nat \ {0} /\ f.Q \in Nat /\ f.N >= f.M + f.Q - 1
  /\ f.iM \in {1, 3, 4, 5} /\ f.dN \in {1, 3, 4, 5} /\ Divides(f.M * f.iM, f.dN)
  /\ f.taps \subseteq 0 .. f.Q - 1 /\ 0 .. f.Q - 2 \subseteq f.zeroed

LEMMA OSFilterDims ==
  ASSUME NEW M \in Nat \ {0}, M <= Reach, NEW L \in Nat \ {0}, L <= Reach
  PROVE  Dims(OSFilter(M, L))
<1> DEFINE f == OSFilter(M, L)
           N == GuessN(M, L)
           Q == N - M
<1>1. N \in Nat /\ N >= M + L - 1
  BY ReachIs, GuessIs
<1>2. /\ f.N = N /\ f.M = M /\ f.Q = Q /\ f.iM = 1 /\ f.dN = 1 /\ f.taps = 0 .. Q - 1
      /\ f.zeroed = 0 .. Q - 2
  BY DEF OSFilter
<1> HIDE DEF f, N
<1>3. Q \in Nat /\ N >= M + Q - 1 /\ M * 1 = M /\ M % 1 = 0
  BY <1>1
<1> HIDE DEF Q
<1>4. Dims(f)
  BY <1>1, <1>2, <1>3 DEF Dims, Divides
<1> QED BY <1>4 DEF f

LEMMA HilbertDims ==
  ASSUME NEW M \in Nat \ {0}, M <= Reach, NEW L \in Nat \ {0}, L <= Reach
  PROVE  Dims(HilbertTransformer(M, L))
<1> DEFINE f == HilbertTransformer(M, L)
           T == {m \in {4 * L * 2^d : d \in 0 .. 15} : m >= M + L}
           N == Min(T)
           Q == N - M + 1
           h == Q \div 2
           odd == {i \in 0 .. h - 1 : i % 2 = 1}
<1>1. N \in Nat /\ N >= M + L
  <2>1. ASSUME NEW m \in T PROVE m \in Nat
    <3>1. \E d \in 0 .. 15 : m = 4 * L * 2^d
      BY Zenon
    <3>2. PICK d \in 0 .. 15 : m = 4 * L * 2^d
      BY <3>1, Zenon
    <3> DEFINE x == 2^d
    <3>3. x \in Nat /\ m = 4 * L * x
      BY <3>2, Powers, Zenon
    <3> HIDE DEF x, T
    <3> QED BY <3>3
  <2>2. 4 * L * Reach \in T
    <3>1. 4 * L * Reach >= M + L
      <4>1. L * Reach >= Reach /\ L * Reach >= L /\ L * Reach \in Nat
        BY ReachIs
      <4>2. 4 * L * Reach = 4 * (L * Reach)
        BY ReachIs
      <4> QED BY <4>1, <4>2, ReachIs
    <3>2. 15 \in 0 .. 15
      OBVIOUS
    <3> QED BY <3>1, <3>2, Zenon DEF Reach
  <2>3. Min(T) \in T
    <3>1. T # {} /\ T \in SUBSET Nat
      BY <2>1, <2>2
    <3> HIDE DEF T
    <3> QED BY <3>1, LeastIs
  <2> QED BY <2>1, <2>3
<1>2. /\ f.N = N /\ f.M = M /\ f.Q = Q /\ f.iM = 1 /\ f.dN = 1 /\ f.zeroed = 0 .. Q - 1
      /\ f.taps = {h + i : i \in odd} \cup {h - i : i \in odd}
  BY DEF HilbertTransformer
<1> HIDE DEF f, N
<1>3. /\ Q \in Nat /\ N >= M + Q - 1 /\ M * 1 = M /\ M % 1 = 0
      /\ 0 .. Q - 2 \subseteq 0 .. Q - 1 /\ h \in Nat /\ 2 * h <= Q
  BY <1>1
<1> HIDE DEF Q, h
<1>4. ASSUME NEW t \in f.taps PROVE t \in 0 .. Q - 1
  <2>1. PICK i \in odd : t = h + i \/ t = h - i
    BY <1>2
  <2>2. i \in 0 .. h - 1
    OBVIOUS
  <2> QED BY <1>3, <2>1, <2>2
<1>5. Dims(f)
  BY <1>1, <1>2, <1>3, <1>4 DEF Dims, Divides
<1> QED BY <1>5 DEF f

LEMMA ReSamplerDims ==
  ASSUME NEW M \in Nat \ {0}, M <= 3 * Reach, NEW L \in Nat \ {0}, L <= Reach,
         NEW iM \in {1, 3, 4, 5}, NEW dN \in {1, 3, 4, 5}, Divides(M * iM, dN)
  PROVE  Dims(ReSampler(iM, dN, M, L))
<1> DEFINE f == ReSampler(iM, dN, M, L)
           N == GuessN(M, L)
           Q == N - M
<1>1. N \in Nat /\ N >= M + L - 1
  BY ReachIs, GuessIs
<1>2. /\ f.N = N /\ f.M = M /\ f.Q = Q /\ f.iM = iM /\ f.dN = dN
      /\ f.taps = 0 .. 2 * (Q \div 2) - 1 /\ f.zeroed = 0 .. N - 1
  BY DEF ReSampler, LowPassTaps
<1> HIDE DEF f, N
<1>3. /\ Q \in Nat /\ N >= M + Q - 1 /\ 0 .. Q - 2 \subseteq 0 .. N - 1
      /\ 0 .. 2 * (Q \div 2) - 1 \subseteq 0 .. Q - 1
  BY <1>1
<1> HIDE DEF Q
<1>4. Dims(f)
  BY <1>1, <1>2, <1>3 DEF Dims
<1> QED BY <1>4 DEF f

LEMMA FilterDims == ASSUME NEW f \in Filters PROVE Dims(f)
<1>0. \A len \in Lengths \cup Blocks \cup RfBlocks \cup AudioBlocks :
         len \in Nat \ {0} /\ len <= Reach
  BY OverlapAssumption DEF Reach
<1>1. CASE \E M \in Blocks, L \in Lengths : f \in {OSFilter(M, L), HilbertTransformer(M, L)}
  <2>1. PICK M \in Blocks, L \in Lengths : f \in {OSFilter(M, L), HilbertTransformer(M, L)}
    BY <1>1
  <2>2. M \in Nat \ {0} /\ M <= Reach /\ L \in Nat \ {0} /\ L <= Reach
    BY <1>0
  <2> QED BY <2>1, <2>2, OSFilterDims, HilbertDims
<1>2. CASE \E M \in AudioBlocks, L \in Lengths : f \in ReSample48to625(M, L)
  <2>1. PICK M \in AudioBlocks, L \in Lengths : f \in ReSample48to625(M, L)
    BY <1>2
  <2>2. M \in Nat \ {0} /\ M <= Reach /\ L \in Nat \ {0} /\ L <= Reach
    BY <1>0
  <2> DEFINE s2 == (M * 5) \div 4
             s3 == (s2 * 5) \div 4
             s4 == (s3 * 5) \div 3
  <2>3. /\ Divides(M, 48)
        /\ f \in {ReSampler(5, 4, M, L), ReSampler(5, 4, s2, L),
                  ReSampler(5, 3, s3, L), ReSampler(5, 1, s4, L)}
    BY <2>1 DEF ReSample48to625
  <2>4. PICK r \in Nat \ {0} : M = 48 * r
    <3>1. M % 48 = 0
      BY <2>3 DEF Divides
    <3>2. M \div 48 \in Nat \ {0} /\ M = 48 * (M \div 48)
      BY <2>2, <3>1
    <3> QED BY <3>2
  <2>5. s2 = 60 * r /\ s3 = 75 * r /\ s4 = 125 * r
    <3>1. s2 = 60 * r
      BY <2>4
    <3> HIDE DEF s2
    <3>2. s3 = 75 * r
      BY <3>1
    <3> HIDE DEF s3
    <3> QED BY <3>1, <3>2
  <2> HIDE DEF s2, s3, s4
  <2>6. /\ \A s \in {M, s2, s3, s4} : s \in Nat \ {0} /\ s <= 3 * Reach
        /\ (M * 5) % 4 = 0 /\ (s2 * 5) % 4 = 0 /\ (s3 * 5) % 3 = 0 /\ (s4 * 5) % 1 = 0
    BY <2>2, <2>4, <2>5, ReachIs
  <2> QED BY <2>2, <2>3, <2>6, ReSamplerDims DEF Divides
<1>3. CASE \E M \in RfBlocks, L \in Lengths : f \in ReSample625to48(M, L)
  <2>1. PICK M \in RfBlocks, L \in Lengths : f \in ReSample625to48(M, L)
    BY <1>3
  <2>2. M \in Nat \ {0} /\ M <= Reach /\ L \in Nat \ {0} /\ L <= Reach
    BY <1>0
  <2> DEFINE s2 == M \div 5
             s3 == (s2 * 3) \div 5
             s4 == (s3 * 4) \div 5
  <2>3. /\ Divides(M, 625)
        /\ f \in {ReSampler(1, 5, M, L), ReSampler(3, 5, s2, L),
                  ReSampler(4, 5, s3, L), ReSampler(4, 5, s4, L)}
    BY <2>1 DEF ReSample625to48
  <2>4. PICK r \in Nat \ {0} : M = 625 * r
    <3>1. M % 625 = 0
      BY <2>3 DEF Divides
    <3>2. M \div 625 \in Nat \ {0} /\ M = 625 * (M \div 625)
      BY <2>2, <3>1
    <3> QED BY <3>2
  <2>5. s2 = 125 * r /\ s3 = 75 * r /\ s4 = 60 * r
    <3>1. s2 = 125 * r
      BY <2>4
    <3> HIDE DEF s2
    <3>2. s3 = 75 * r
      BY <3>1
    <3> HIDE DEF s3
    <3> QED BY <3>1, <3>2
  <2> HIDE DEF s2, s3, s4
  <2>6. /\ \A s \in {M, s2, s3, s4} : s \in Nat \ {0} /\ s <= 3 * Reach
        /\ (M * 1) % 5 = 0 /\ (s2 * 3) % 5 = 0 /\ (s3 * 4) % 5 = 0 /\ (s4 * 4) % 5 = 0
    BY <2>2, <2>4, <2>5, ReachIs
  <2> QED BY <2>2, <2>3, <2>6, ReSamplerDims DEF Divides
<1> QED BY <1>1, <1>2, <1>3 DEF Filters

-----------------------------------------------------------------------------
(* The filters and resamplers, block by block.                             *)

\* A tap of the phase meets a sample where the streams are stuffed with zeros.
LEMMA Meeting ==
  ASSUME NEW d \in Nat \ {0}, NEW u \in Nat, NEW t \in Nat, t <= u, NEW a \in Int
  PROVE  LET meets == d * a + (u - t)
             s == (u \div d) - (t \div d)
         IN  /\ meets % d = 0 <=> t % d = u % d
             /\ t % d = u % d => meets \div d = a + s /\ d * s = u - t /\ s \in Nat
<1> DEFINE qu == u \div d
           ru == u % d
           qt == t \div d
           rt == t % d
           meets == d * a + (u - t)
           s == qu - qt
<1>1. /\ qu \in Int /\ ru \in 0 .. d - 1 /\ u = d * qu + ru
      /\ qt \in Int /\ rt \in 0 .. d - 1 /\ t = d * qt + rt
  OBVIOUS
<1> HIDE DEF qu, ru, qt, rt
<1>2. a + s \in Int /\ ru - rt \in Int /\ meets = d * (a + s) + (ru - rt)
  <2>1. d * (a + s) = d * a + (d * qu - d * qt)
    BY <1>1
  <2> QED BY <1>1, <2>1
<1>3. meets % d = (ru - rt) % d /\ meets \div d = (a + s) + (ru - rt) \div d
  <2> DEFINE w == a + s
             v == ru - rt
  <2> HIDE DEF w, v
  <2>1. (d * w + v) % d = v % d /\ (d * w + v) \div d = w + v \div d
    BY <1>2, Quotient DEF w, v
  <2> HIDE DEF meets
  <2> QED BY <1>2, <2>1 DEF w, v
<1>4. (ru - rt) % d = 0 <=> ru = rt
  <2> DEFINE v == ru - rt
  <2>1. v \in Int /\ v < d /\ v > -d
    BY <1>1
  <2> HIDE DEF v
  <2>2. v % d = 0 => v = d * (v \div d)
    BY <2>1
  <2>3. v % d = 0 => v = 0
    <3> DEFINE w == v \div d
    <3>1. w \in Int
      BY <2>1
    <3> HIDE DEF w
    <3>2. w >= 1 => d * w >= d
      BY <3>1
    <3>3. w <= -1 => d * w <= -d
      BY <3>1
    <3>4. w = 0 => d * w = 0
      OBVIOUS
    <3> QED BY <2>1, <2>2, <3>1, <3>2, <3>3, <3>4 DEF w
  <2>4. 0 % d = 0
    OBVIOUS
  <2>5. v = 0 <=> ru = rt
    BY <1>1 DEF v
  <2> QED BY <2>3, <2>4, <2>5 DEF v
<1>5. ASSUME ru = rt PROVE meets \div d = a + s /\ d * s = u - t /\ s \in Nat
  <2>1. ru - rt = 0 /\ 0 \div d = 0
    BY <1>1, <1>5
  <2>2. meets \div d = a + s
    <3> HIDE DEF meets, s
    <3> QED BY <1>2, <1>3, <2>1
  <2>3. d * s = u - t
    BY <1>1, <1>5
  <2>4. s \in Int
    BY <1>1
  <2> HIDE DEF s
  <2>5. s \in Nat
    <3>1. s <= -1 => d * s <= -d
      BY <2>4
    <3> QED BY <2>3, <2>4, <3>1
  <2> QED BY <2>2, <2>3, <2>5
<1> QED BY <1>3, <1>4, <1>5 DEF qu, ru, qt, rt

\* The sample at an index of the stream, of which there are none before the first.
Heard(x) == IF x >= 0 THEN x ELSE Zero

\* What the saved samples are: the last of the stream so far.
SavedIs == \A i \in 0 .. filter.Q - 2 :
             input[i] = Heard(blocks * filter.M - (filter.Q - 1) + i)

OsInv ==
  /\ filter \in Filters /\ filter.Q - 1 <= filter.M /\ blocks \in Nat
  /\ SavedIs
  /\ Seamless

LEMMA OsStarts == OsInit => OsInv
<1> SUFFICES ASSUME OsInit PROVE OsInv
  OBVIOUS
<1>1. /\ filter \in Filters /\ filter.Q - 1 <= filter.M
      /\ input = [i \in 0 .. filter.N - 1 |-> IF i \in filter.zeroed THEN Zero ELSE Junk]
      /\ out = <<>> /\ blocks = 0
  BY DEF OsInit
<1>2. Dims(filter)
  BY <1>1, FilterDims
<1>3. SavedIs
  <2> SUFFICES ASSUME NEW i \in 0 .. filter.Q - 2
               PROVE  input[i] = Heard(blocks * filter.M - (filter.Q - 1) + i)
    BY DEF SavedIs
  <2>1. /\ filter.M \in Nat /\ filter.Q \in Nat /\ filter.N \in Nat
        /\ filter.N >= filter.M + filter.Q - 1 /\ i \in filter.zeroed
    BY <1>2 DEF Dims
  <2>2. i \in 0 .. filter.N - 1 /\ ~(0 * filter.M - (filter.Q - 1) + i >= 0)
    BY <2>1
  <2> QED BY <1>1, <2>1, <2>2 DEF Heard
<1>4. Seamless
  BY <1>1 DEF Seamless
<1> QED BY <1>1, <1>3, <1>4 DEF OsInv

LEMMA OsSteps == ASSUME OsInv, Apply PROVE OsInv'
<1> DEFINE f == filter
           N == filter.N
           M == filter.M
           Q == filter.Q
           d == filter.iM
           e == filter.dN
           P == blocks * M
           a == P - (Q - 1)
           buf == [i \in 0 .. M - 1 |-> P + i]
           in == Filled(f, buf)
<1>1. /\ out' = Kept(f, in) /\ input' = Saved(f, in, buf) /\ blocks' = blocks + 1 /\ filter' = f
  BY DEF Apply
<1>2. /\ N \in Nat /\ M \in Nat \ {0} /\ Q \in Nat /\ N >= M + Q - 1 /\ Q - 1 <= M
      /\ d \in Nat \ {0} /\ e \in Nat \ {0} /\ (M * d) % e = 0
      /\ f.taps \subseteq 0 .. Q - 1 /\ blocks \in Nat
  BY FilterDims DEF OsInv, Dims, Divides
<1>3. P \in Nat /\ a \in Int /\ (blocks + 1) * M = P + M
  BY <1>2
<1>4. \A i \in 0 .. Q - 2 : input[i] = Heard(a + i)
  BY DEF OsInv, SavedIs
<1>5. in = [i \in 0 .. N - 1 |->
              IF i \in Q - 1 .. Q + M - 2 THEN buf[i - (Q - 1)] ELSE input[i]]
  BY DEF Filled
<1>6. /\ DOMAIN buf = 0 .. M - 1
      /\ \A i \in 0 .. M - 1 : buf[i] = P + i
  OBVIOUS
<1> HIDE DEF N, M, Q, d, e, P, a, buf, in
\* The block stands behind what was saved.
<1>7. ASSUME NEW i \in 0 .. Q + M - 2 PROVE in[i] = Heard(a + i)
  <2>1. i \in 0 .. N - 1
    BY <1>2
  <2>2. CASE i \in Q - 1 .. Q + M - 2
    <3>1. i - (Q - 1) \in 0 .. M - 1 /\ P + (i - (Q - 1)) = a + i /\ a + i >= 0
      BY <1>2, <1>3, <2>2 DEF a
    <3>2. in[i] = buf[i - (Q - 1)]
      BY <1>5, <2>1, <2>2
    <3> QED BY <1>6, <3>1, <3>2 DEF Heard
  <2>3. CASE ~(i \in Q - 1 .. Q + M - 2)
    <3>1. i \in 0 .. Q - 2
      BY <1>2, <2>3
    <3>2. in[i] = input[i]
      BY <1>5, <2>1, <2>3
    <3> QED BY <1>4, <3>1, <3>2
  <2> QED BY <2>2, <2>3
<1>8. SavedIs'
  <2>1. ASSUME NEW i \in 0 .. Q - 2 PROVE input'[i] = Heard((P + M) - (Q - 1) + i)
    <3> DEFINE x == TailIndex(f) + i
    <3>1. i \in 0 .. N - 1 /\ i < Q - 1
      BY <1>2
    <3>2. x \in 0 .. M - 1 /\ P + x = (P + M) - (Q - 1) + i /\ (P + M) - (Q - 1) + i >= 0
      BY <1>2, <1>3 DEF TailIndex, M, Q
    <3>3. input'[i] = IF x \in DOMAIN buf THEN buf[x] ELSE Junk
      BY <1>1, <3>1 DEF Saved, N, Q
    <3> HIDE DEF x
    <3> QED BY <1>6, <3>2, <3>3 DEF Heard
  <2>2. blocks' * filter'.M = P + M /\ filter'.Q = Q
    BY <1>1, <1>3 DEF M, Q
  <2> QED BY <2>1, <2>2 DEF SavedIs
\* An output of the block is the stream's.
<1>9. ASSUME NEW j \in 0 .. ((M * d) \div e) - 1
      PROVE  out'[j] = Wanted(f, ((P * d) \div e) + j)
  <2> DEFINE u == (Q - 1) + j * e
             J == ((P * d) \div e) + j
             meets(t) == J * e - (d - 1) * (Q - 1) - t
             s(t) == (u \div d) - (t \div d)
             mine(t) == <<t, in[s(t) % N]>>
  <2>1. out'[j] = {p \in {mine(t) : t \in {t \in f.taps : t % d = u % d}} : p[2] # Zero}
    <3>1. First(f) + j * e = u
      BY DEF First, Q
    <3>2. out'[j] = Convolved(f, in, u)
      BY <1>1, <3>1 DEF Kept, M, d, e
    <3> QED BY <3>2 DEF Convolved, N, d
  <2>2. Wanted(f, J) = {<<t, meets(t) \div d>> : t \in {t \in f.taps : meets(t) >= 0 /\ meets(t) % d = 0}}
    BY DEF Wanted, d, e, Q
  <2>3. j \in Nat /\ j * e \in Nat /\ j * e <= M * d - 1
    <3> DEFINE h == (M * d) \div e
    <3>1. M * d \in Nat
      BY <1>2
    <3>2. h \in Nat /\ M * d = e * h
      BY <1>2, <3>1
    <3> HIDE DEF h
    <3>3. j \in Nat /\ j <= h - 1
      BY <3>2 DEF h
    <3>4. j * e <= (h - 1) * e
      BY <1>2, <3>2, <3>3
    <3>5. (h - 1) * e = e * h - e
      BY <1>2, <3>2
    <3>6. j * e \in Nat
      BY <1>2, <3>3
    <3> QED BY <1>2, <3>1, <3>2, <3>3, <3>4, <3>5, <3>6
  <2>4. J * e = P * d + j * e
    <3> DEFINE h == (M * d) \div e
    <3>1. M * d \in Nat
      BY <1>2
    <3>2. h \in Nat /\ M * d = e * h
      BY <1>2, <3>1
    <3> HIDE DEF h
    <3>3. P * d = e * (blocks * h)
      <4>1. P * d = blocks * (M * d)
        BY <1>2 DEF P
      <4>2. blocks * (e * h) = e * (blocks * h)
        BY <1>2, <3>2
      <4> QED BY <3>2, <4>1, <4>2
    <3> DEFINE b == blocks * h
    <3>4. b \in Nat
      BY <1>2, <3>2
    <3> HIDE DEF b
    <3>5. (e * b) \div e = b
      BY <1>2, <3>4
    <3>6. J = b + j
      BY <3>3, <3>5 DEF b
    <3>7. (b + j) * e = e * b + j * e
      BY <1>2, <2>3, <3>4
    <3> HIDE DEF J
    <3> QED BY <3>3, <3>6, <3>7 DEF b
  <2> HIDE DEF J
  \* What each tap meets.
  <2>5. ASSUME NEW t \in f.taps
        PROVE  /\ meets(t) % d = 0 <=> t % d = u % d
               /\ t % d = u % d => /\ meets(t) \div d = a + s(t)
                                   /\ meets(t) >= 0 <=> a + s(t) >= 0
                                   /\ s(t) % N = s(t) /\ in[s(t)] = Heard(a + s(t))
                                   /\ a + s(t) \in Int
    <3>1. t \in Nat /\ t <= Q - 1 /\ u \in Nat /\ t <= u /\ Q >= 1
      BY <1>2, <2>3
    <3>2. J * e \in Int
      BY <1>2, <1>3, <2>3, <2>4
    <3>3. meets(t) = d * a + (u - t)
      <4>1. (d - 1) * (Q - 1) = d * (Q - 1) - (Q - 1)
        BY <1>2
      <4>2. d * a = P * d - d * (Q - 1)
        BY <1>2, <1>3 DEF a
      <4> DEFINE x == d * (Q - 1)
                 y == P * d
                 z == j * e
      <4>3. x \in Int /\ y \in Int /\ z \in Int
        BY <1>2, <1>3, <2>3
      <4>4. meets(t) = (y + z) - (x - (Q - 1)) - t /\ d * a = y - x /\ u = (Q - 1) + z
        BY <2>4, <4>1, <4>2
      <4> HIDE DEF x, y, z, meets, u
      <4> QED BY <1>2, <3>1, <4>3, <4>4
    <3> HIDE DEF u
    <3>4. /\ (d * a + (u - t)) % d = 0 <=> t % d = u % d
          /\ t % d = u % d => /\ (d * a + (u - t)) \div d = a + s(t)
                              /\ d * s(t) = u - t /\ s(t) \in Nat
      <4>1. d \in Nat \ {0} /\ u \in Nat /\ t \in Nat /\ t <= u /\ a \in Int
        BY <1>2, <1>3, <3>1
      <4> QED BY <4>1, Meeting, Zenon
    <3>5. ASSUME t % d = u % d
          PROVE  /\ meets(t) \div d = a + s(t)
                 /\ meets(t) >= 0 <=> a + s(t) >= 0
                 /\ s(t) % N = s(t) /\ in[s(t)] = Heard(a + s(t))
                 /\ a + s(t) \in Int
      <4> DEFINE z == s(t)
      <4>1. z \in Nat /\ d * z = u - t /\ meets(t) \div d = a + z
        BY <3>3, <3>4, <3>5
      <4> HIDE DEF z
      <4>2. meets(t) = d * (a + z)
        BY <1>2, <1>3, <3>3, <4>1
      <4>3. a + z \in Int
        BY <1>3, <4>1
      <4>4. meets(t) >= 0 <=> a + z >= 0
        <5> DEFINE w == a + z
        <5> HIDE DEF w, meets
        <5>1. w >= 0 => d * w >= 0
          BY <1>2, <4>3 DEF w
        <5>2. w <= -1 => d * w <= -d
          BY <1>2, <4>3 DEF w
        <5> QED BY <1>2, <4>2, <4>3, <5>1, <5>2 DEF w
      <4>5. z <= Q + M - 2
        <5>1. d * z <= (Q - 1) + (M * d - 1)
          BY <1>2, <2>3, <3>1, <4>1 DEF u
        <5>2. z >= Q + M - 1 => d * z >= d * (Q - 1) + M * d
          <6>1. z >= Q + M - 1 => d * z >= d * (Q + M - 1)
            BY <1>2, <4>1
          <6>2. d * (Q + M - 1) = d * (Q - 1) + M * d
            BY <1>2
          <6> QED BY <6>1, <6>2
        <5>3. d * (Q - 1) >= Q - 1
          BY <1>2, <3>1
        <5> DEFINE x == d * (Q - 1)
                   y == M * d
                   v == d * z
        <5>4. x \in Int /\ y \in Int /\ v \in Int
          BY <1>2, <4>1
        <5> HIDE DEF x, y, v
        <5>5. v <= (Q - 1) + (y - 1) /\ (z >= Q + M - 1 => v >= x + y) /\ x >= Q - 1
          BY <5>1, <5>2, <5>3 DEF x, y, v
        <5> QED BY <1>2, <4>1, <5>4, <5>5
      <4>6. z \in 0 .. Q + M - 2 /\ z \in 0 .. N - 1
        BY <1>2, <4>1, <4>5
      <4>7. z % N = z
        BY <1>2, <4>6
      <4>8. in[z] = Heard(a + z)
        BY <1>7, <4>6
      <4> QED BY <4>1, <4>3, <4>4, <4>7, <4>8 DEF z
    <3> QED BY <3>3, <3>4, <3>5
  <2>6. Zero = -1
    BY DEF Zero
  <2> HIDE DEF u, meets, s
  <2> DEFINE A == {p \in {mine(t) : t \in {t \in f.taps : t % d = u % d}} : p[2] # Zero}
             B == {<<t, meets(t) \div d>> : t \in {t \in f.taps : meets(t) >= 0 /\ meets(t) % d = 0}}
  <2>7. ASSUME NEW p \in A PROVE p \in B
    <3>1. PICK t \in f.taps : t % d = u % d /\ p = mine(t) /\ mine(t)[2] # Zero
      OBVIOUS
    <3>2. in[s(t) % N] = Heard(a + s(t)) /\ Heard(a + s(t)) # Zero
      BY <2>5, <3>1
    <3>3. a + s(t) >= 0 /\ Heard(a + s(t)) = a + s(t)
      BY <3>2 DEF Heard
    <3>4. p = <<t, meets(t) \div d>> /\ meets(t) >= 0 /\ meets(t) % d = 0
      BY <2>5, <3>1, <3>2, <3>3
    <3> QED BY <3>4
  <2>8. ASSUME NEW p \in B PROVE p \in A
    <3>1. PICK t \in f.taps : meets(t) >= 0 /\ meets(t) % d = 0 /\ p = <<t, meets(t) \div d>>
      OBVIOUS
    <3>2. t % d = u % d /\ a + s(t) >= 0 /\ meets(t) \div d = a + s(t) /\ a + s(t) \in Int
          /\ in[s(t) % N] = Heard(a + s(t))
      BY <2>5, <3>1
    <3>3. Heard(a + s(t)) = a + s(t) /\ a + s(t) # Zero
      BY <2>6, <3>2 DEF Heard
    <3>4. p = mine(t) /\ mine(t)[2] # Zero
      BY <3>1, <3>2, <3>3
    <3> QED BY <3>2, <3>4
  <2>9. A = B
    <3> HIDE DEF A, B
    <3> QED BY <2>7, <2>8
  <2> QED BY <2>1, <2>2, <2>9 DEF J
<1>a. Seamless'
  <2>1. DOMAIN out' = 0 .. ((M * d) \div e) - 1
    BY <1>1 DEF Kept, M, d, e
  <2>2. ((blocks' - 1) * filter'.M * filter'.iM) \div filter'.dN = (P * d) \div e /\ filter' = f
    <3>1. blocks' - 1 = blocks
      BY <1>1, <1>2
    <3> QED BY <1>1, <3>1 DEF P, M, d, e
  <2> QED BY <1>9, <2>1, <2>2 DEF Seamless
<1>b. filter' \in Filters /\ filter'.Q - 1 <= filter'.M /\ blocks' \in Nat
  BY <1>1, <1>2 DEF OsInv
<1> QED BY <1>8, <1>a, <1>b DEF OsInv

\* Between two blocks the saved samples are the last of the stream, or silence before
\* its first (OSFilter::apply, ReSampler::apply, HilbertTransformer::apply).
THEOREM OverlapInvariant == OsSpec => []OsInv
<1>1. OsInv /\ [OsNext]_osVars => OsInv'
  <2> SUFFICES ASSUME OsInv, [OsNext]_osVars PROVE OsInv'
    OBVIOUS
  <2>1. CASE OsNext
    BY <2>1, OsSteps DEF OsNext
  <2>2. CASE UNCHANGED osVars
    BY <2>2 DEF osVars, OsInv, SavedIs, Seamless
  <2> QED BY <2>1, <2>2
<1> QED BY <1>1, OsStarts, PTL DEF OsSpec

\* What comes out of the receiver's resampler and of the filters behind it is the
\* stream of one long buffer, however it is cut (RationalResampler::apply,
\* OSFilter::apply, ReSampler::apply, HilbertTransformer::apply).
THEOREM StreamIsContinuous == SpSpec => []Continuous
<1>1. OsInv => Seamless
  BY DEF OsInv
<1>2. TdInv => CutAnywhere
  BY DEF TdInv
<1>3. Seamless /\ CutAnywhere => Continuous
  BY DEF Continuous
<1> QED BY <1>1, <1>2, <1>3, OverlapInvariant, ResamplerInvariant, PTL DEF SpSpec
=============================================================================
