---------------------------- MODULE SessionProofs ----------------------------
(***************************************************************************)
(* For any number of clients and any bounds on the queues: that the lock   *)
(* file outlives the server, whatever a write to a client that is gone     *)
(* does to the process; that a message crosses the stream whole, whatever  *)
(* the socket holds; and that the answers come in their order.             *)
(***************************************************************************)
EXTENDS Session, ByteStream, SequenceTheorems, TLAPS

Stages == {"off", "launched", "locked", "bound", "up", "killed", "closed"}
Locked == {"locked", "bound", "up", "killed", "closed"}

\* The lock and the socket files, at each stage of main().
LockInv ==
  /\ srv \in Stages
  /\ running # {} => srv = "up"
  /\ srv \in Locked \/ files # "none" => lock
  /\ srv \in {"launched", "locked", "closed"} => files = "none"

LEMMA LockInvCovers == LockInv => LockOutlivesServer
BY DEF LockInv, LockOutlivesServer, Locked

\* Threads that end, one or all, leave the files and main() where they are.
LEMMA EndingKeepsLockInv ==
  ASSUME LockInv, UNCHANGED <<lock, files, srv>>, running' \subseteq running
  PROVE  LockInv'
BY DEF LockInv

\* A process that a signal ends, while its threads run, leaves its lock behind.
LEMMA KilledKeepsLockInv ==
  ASSUME LockInv, running # {}, Killed, UNCHANGED lock PROVE LockInv'
BY DEF LockInv, Killed, Stages, Locked

\* main() creates the lock before the sockets and deletes it after them.
LEMMA MainKeepsLockInv == ASSUME LockInv, MainSteps PROVE LockInv'
<1>1. CASE CreateLock
  BY <1>1 DEF CreateLock, LockInv, Stages, Locked
<1>2. CASE BindSockets
  BY <1>2 DEF BindSockets, LockInv, Stages, Locked
<1>3. CASE StartThreads
  BY <1>3 DEF StartThreads, LockInv, Stages, Locked
<1>4. CASE CloseSockets
  BY <1>4 DEF CloseSockets, Joined, LockInv, Stages, Locked
<1>5. CASE DeleteLock
  BY <1>5 DEF DeleteLock, LockInv, Stages, Locked
<1>6. CASE Bury
  BY <1>6 DEF Bury, LockInv, Stages, Locked
<1> QED BY <1>1, <1>2, <1>3, <1>4, <1>5, <1>6 DEF MainSteps

\* Without a radio the server ends before it has any socket.
LEMMA NoRadioKeepsLockInv ==
  ASSUME LockInv, NEW caught \in BOOLEAN, NoRadio(caught) PROVE LockInv'
BY DEF NoRadio, LockInv, Stages, Locked

\* A GUI launches a server only where there is no lock, and so no server.
LEMMA LaunchKeepsLockInv == ASSUME LockInv, NEW c, Launch(c) PROVE LockInv'
<1>1. UNCHANGED <<lock, files, running>>
  BY DEF Launch
<1>2. CASE lock
  BY <1>1, <1>2 DEF Launch, LockInv
<1>3. CASE ~lock
  <2>1. srv' = "launched" /\ files = "none" /\ running = {} /\ srv \notin Locked
    BY <1>3 DEF Launch, LockInv, Locked
  <2> QED BY <1>1, <2>1 DEF LockInv, Stages, Locked
<1> QED BY <1>2, <1>3

\* The operator deletes the lock only when no server runs, and the sockets too.
LEMMA CleanUpKeepsLockInv == ASSUME LockInv, CleanUp PROVE LockInv'
BY DEF CleanUp, LockInv, Stages, Locked

\* UI leaves the process alone, ends its own loop, or dies in a write.
LEMMA UiKeepsLockInv == ASSUME LockInv, UiSteps PROVE LockInv'
<1>1. CASE UiLooks \/ UiTakesBuffer \/ UiMovesOn
  BY <1>1, EndingKeepsLockInv DEF UiLooks, UiTakesBuffer, UiMovesOn, process
<1>2. CASE UiGets
  <2>1. UNCHANGED <<lock, files, srv>> /\ running' \subseteq running
    BY <1>2 DEF UiGets
  <2> QED BY <2>1, EndingKeepsLockInv
<1>3. ASSUME NEW s, NEW m, Put(s, m), "UI" \in running PROVE LockInv'
  <2>1. \/ UNCHANGED <<srv, running, files>>
        \/ Killed
    BY <1>3 DEF Put
  <2>2. UNCHANGED lock
    BY <1>3 DEF Put
  <2> QED BY <1>3, <2>1, <2>2, EndingKeepsLockInv, KilledKeepsLockInv
<1>4. CASE UiGreets
  BY <1>3, <1>4 DEF UiGreets, UiAt
<1>5. CASE UiSendsSpectrum
  BY <1>3, <1>5 DEF UiSendsSpectrum, UiAt
<1>6. CASE UiRelays
  <2>1. \/ Put("cmd", Head(cmdq["UI"]))
        \/ UNCHANGED process
    BY <1>6 DEF UiRelays
  <2>2. "UI" \in running
    BY <1>6 DEF UiRelays, UiAt
  <2> QED BY <1>3, <2>1, <2>2, EndingKeepsLockInv DEF process
<1> QED BY <1>1, <1>2, <1>4, <1>5, <1>6 DEF UiSteps

\* The other threads and the clients.
LEMMA OthersKeepLockInv ==
  ASSUME LockInv,
         \/ CtrlTakes \/ RxTakes \/ RxCollects \/ RxCollected \/ GpsTakes
         \/ \E c \in Clients : Connect(c) \/ CloseRadio(c) \/ Leave(c) \/ Ask(c)
  PROVE  LockInv'
<1>1. UNCHANGED <<lock, files, srv>> /\ running' \subseteq running
  <2>1. ASSUME NEW t, Takes(t)
        PROVE  UNCHANGED <<lock, files, srv>> /\ running' \subseteq running
    BY <2>1 DEF Takes
  <2>2. CASE CtrlTakes \/ RxTakes
    BY <2>1, <2>2 DEF CtrlTakes, RxTakes
  <2>3. CASE RxCollects \/ RxCollected \/ GpsTakes
    BY <2>3 DEF RxCollects, RxCollected, GpsTakes, process
  <2>4. CASE \E c \in Clients : Connect(c) \/ CloseRadio(c) \/ Leave(c) \/ Ask(c)
    BY <2>4 DEF Connect, CloseRadio, Leave, Ask, process
  <2> QED BY <2>2, <2>3, <2>4
<1> QED BY <1>1, EndingKeepsLockInv

\* The inductive invariant of the server's files holds in every reachable state.
THEOREM LockInvariant == Spec => []LockInv
<1>1. Init => LockInv
  BY DEF Init, LockInv, Stages, Locked
<1>2. LockInv /\ [Next]_vars => LockInv'
  <2> SUFFICES ASSUME LockInv, [Next]_vars PROVE LockInv'
    OBVIOUS
  <2>1. CASE Next
    BY <2>1, MainKeepsLockInv, UiKeepsLockInv, NoRadioKeepsLockInv,
       LaunchKeepsLockInv, CleanUpKeepsLockInv, OthersKeepLockInv DEF Next
  <2>2. CASE UNCHANGED vars
    BY <2>2, EndingKeepsLockInv DEF vars, process
  <2> QED BY <2>1, <2>2
<1> QED BY <1>1, <1>2, PTL DEF Spec

\* From its creation on the lock stays until every thread has left its run loop
\* and the socket files are gone, whatever way the server ends.
THEOREM LockHolds == Spec => []LockOutlivesServer
BY LockInvariant, LockInvCovers, PTL

-----------------------------------------------------------------------------
(* Stretches of the stream.  Its units are numbered from 0; what is in one *)
(* place is a stretch, and where two stretches meet no unit is missing.    *)

W == Size + 1
Units == ({"length"} \X Nat) \cup ({"byte"} \X Nat \X Nat)

UnitAt(j) == LET msg == (j \div W) + 1
             IN  IF (j % W) = 0 THEN <<"length", msg>> ELSE <<"byte", msg, j % W>>

Stretch(s, a, b) == /\ a \in Nat /\ b \in Nat /\ a <= b
                    /\ s \in Seq(Units) /\ Len(s) = b - a
                    /\ \A i \in 1 .. b - a : s[i] = UnitAt(a + i - 1)

LEMMA WidthIs == W \in Nat \ {0} /\ Size \in Nat \ {0} /\ MaxMsg \in Nat \ {0}
BY StreamAssumption DEF W

LEMMA UnitOf ==
  ASSUME NEW m \in Nat, NEW k \in 0 .. Size
  PROVE  UnitAt(W * m + k) = IF k = 0 THEN <<"length", m + 1>> ELSE <<"byte", m + 1, k>>
<1> DEFINE j == W * m + k
<1>1. W \in Nat \ {0} /\ k \in 0 .. W - 1
  BY WidthIs DEF W
<1>2. (j \div W) = m /\ (j % W) = k
  BY <1>1
<1> QED BY <1>2 DEF UnitAt

LEMMA WholeFrames ==
  ASSUME NEW m \in Nat, NEW n \in Nat
  PROVE  /\ W * m \in Nat /\ W * (m + 1) = W * m + W /\ (W * m = W * n => m = n)
         /\ W * m <= W * n => m <= n
BY WidthIs

LEMMA EmptyStretch == \A a \in Nat : Stretch(<<>>, a, a)
BY DEF Stretch

LEMMA StretchEmpty == \A a, b : Stretch(<<>>, a, b) => a = b
BY DEF Stretch

LEMMA Joined2 ==
  ASSUME NEW s, NEW t, NEW a, NEW b, NEW c, Stretch(s, a, b), Stretch(t, b, c)
  PROVE  Stretch(s \o t, a, c)
<1>1. /\ a \in Nat /\ b \in Nat /\ c \in Nat /\ a <= b /\ b <= c /\ a <= c
      /\ s \in Seq(Units) /\ Len(s) = b - a /\ t \in Seq(Units) /\ Len(t) = c - b
  BY DEF Stretch
<1>2. s \o t \in Seq(Units) /\ Len(s \o t) = Len(s) + Len(t)
  BY <1>1, ConcatProperties
<1>3. Len(s \o t) = c - a
  BY <1>1, <1>2
<1>4. ASSUME NEW i \in 1 .. c - a PROVE (s \o t)[i] = UnitAt(a + i - 1)
  <2>1. (s \o t)[i] = IF i <= Len(s) THEN s[i] ELSE t[i - Len(s)]
    BY <1>1, ConcatProperties
  <2>2. CASE i <= b - a
    <3>1. i \in 1 .. b - a
      BY <1>1, <2>2
    <3> QED BY <1>1, <2>1, <3>1 DEF Stretch
  <2>3. CASE i > b - a
    <3>1. i - Len(s) \in 1 .. c - b /\ b + (i - Len(s)) - 1 = a + i - 1
      BY <1>1, <2>3
    <3>2. t[i - Len(s)] = UnitAt(b + (i - Len(s)) - 1)
      BY <3>1 DEF Stretch
    <3> QED BY <1>1, <2>1, <2>3, <3>1, <3>2
  <2>4. i <= b - a \/ i > b - a
    BY <1>1
  <2> QED BY <2>2, <2>3, <2>4
<1> QED BY <1>1, <1>2, <1>3, <1>4 DEF Stretch

LEMMA Cut ==
  ASSUME NEW s, NEW a, NEW b, Stretch(s, a, b), NEW n \in 0 .. Len(s)
  PROVE  /\ Stretch(SubSeq(s, 1, n), a, a + n)
         /\ Stretch(SubSeq(s, n + 1, Len(s)), a + n, b)
<1>1. /\ a \in Nat /\ b \in Nat /\ a <= b /\ s \in Seq(Units) /\ Len(s) = b - a
      /\ n \in Nat /\ n <= b - a /\ a + n \in Nat /\ a + n <= b
  BY DEF Stretch
<1> DEFINE x == SubSeq(s, 1, n)
           y == SubSeq(s, n + 1, Len(s))
<1>2. x \in Seq(Units) /\ Len(x) = n /\ \A i \in 1 .. n : x[i] = s[i]
  BY <1>1
<1>3. /\ y \in Seq(Units) /\ Len(y) = b - (a + n)
      /\ \A i \in 1 .. b - (a + n) : y[i] = s[n + i]
  BY <1>1
<1> HIDE DEF x, y
<1>4. Stretch(x, a, a + n)
  <2>1. (a + n) - a = n
    BY <1>1
  <2>2. \A i \in 1 .. n : i \in 1 .. b - a
    BY <1>1
  <2> QED BY <1>1, <1>2, <2>1, <2>2 DEF Stretch
<1>5. Stretch(y, a + n, b)
  <2> SUFFICES ASSUME NEW i \in 1 .. b - (a + n) PROVE y[i] = UnitAt((a + n) + i - 1)
    BY <1>1, <1>3 DEF Stretch
  <2>1. n + i \in 1 .. b - a /\ a + (n + i) - 1 = (a + n) + i - 1
    BY <1>1
  <2>2. s[n + i] = UnitAt(a + (n + i) - 1)
    BY <2>1 DEF Stretch
  <2> QED BY <1>3, <2>1, <2>2
<1> QED BY <1>4, <1>5 DEF x, y

\* A message travels as the next W units.
LEMMA FrameIs ==
  ASSUME NEW m \in Nat
  PROVE  Stretch(Frame(m + 1), W * m, W * (m + 1))
<1> DEFINE h == <<<<"length", m + 1>>>>
           t == [i \in 1 .. Size |-> <<"byte", m + 1, i>>]
<1>1. h \in Seq(Units) /\ Len(h) = 1 /\ h[1] = <<"length", m + 1>>
  BY DEF Units
<1>2. t \in Seq(Units) /\ Len(t) = Size /\ \A i \in 1 .. Size : t[i] = <<"byte", m + 1, i>>
  <2>1. \A i \in 1 .. Size : <<"byte", m + 1, i>> \in Units
    BY WidthIs DEF Units
  <2> QED BY <2>1, WidthIs
<1> HIDE DEF h, t
<1> DEFINE f == h \o t
<1>3. f \in Seq(Units) /\ Len(f) = Len(h) + Len(t)
  BY <1>1, <1>2, ConcatProperties
<1>4. W * m \in Nat /\ W * (m + 1) = W * m + W /\ W * (m + 1) - W * m = W /\ W = Size + 1
      /\ W * (m + 1) \in Nat /\ W * m <= W * (m + 1)
  BY WidthIs, WholeFrames DEF W
<1>5. ASSUME NEW i \in 1 .. W PROVE f[i] = UnitAt(W * m + i - 1)
  <2>1. f[i] = IF i <= Len(h) THEN h[i] ELSE t[i - Len(h)]
    BY <1>1, <1>2, <1>4, ConcatProperties, WidthIs, SMTT(30)
  <2>2. i - 1 \in 0 .. Size /\ W * m + (i - 1) = W * m + i - 1
    BY <1>4, WidthIs
  <2>3. UnitAt(W * m + (i - 1)) =
          IF i - 1 = 0 THEN <<"length", m + 1>> ELSE <<"byte", m + 1, i - 1>>
    BY <2>2, UnitOf
  <2>4. CASE i = 1
    BY <1>1, <2>1, <2>2, <2>3, <2>4
  <2>5. CASE i # 1
    <3>1. i - 1 \in 1 .. Size /\ ~(i <= 1)
      BY <1>4, <2>5, WidthIs
    <3> QED BY <1>1, <1>2, <2>1, <2>2, <2>3, <3>1
  <2> QED BY <2>4, <2>5
<1>6. Frame(m + 1) = f
  BY DEF Frame, f, h, t
<1>7. Len(f) = W
  BY <1>1, <1>2, <1>3, <1>4, WidthIs
<1> HIDE DEF f
<1> QED BY <1>3, <1>4, <1>5, <1>6, <1>7 DEF Stretch

\* Who has read these W units has read that message.
LEMMA MessageIs ==
  ASSUME NEW m \in Nat, m + 1 \in 1 .. MaxMsg, NEW s, Stretch(s, W * m, W * (m + 1))
  PROVE  Message(s) = m + 1
<1>1. s = Frame(m + 1)
  <2>1. Stretch(Frame(m + 1), W * m, W * (m + 1))
    BY FrameIs
  <2> DEFINE f == Frame(m + 1)
             a == W * m
             b == W * (m + 1)
  <2> HIDE DEF f, a, b
  <2>2. Stretch(f, a, b) /\ Stretch(s, a, b)
    BY <2>1 DEF f, a, b
  <2>3. /\ f \in Seq(Units) /\ s \in Seq(Units) /\ Len(f) = Len(s)
        /\ \A i \in 1 .. Len(s) : f[i] = s[i]
    BY <2>2 DEF Stretch
  <2>4. f = s
    BY <2>3, SeqEqual
  <2> QED BY <2>4 DEF f
<1>2. ASSUME NEW k \in 1 .. MaxMsg, s = Frame(k) PROVE k = m + 1
  <2>1. k - 1 \in Nat /\ (k - 1) + 1 = k
    BY WidthIs
  <2>2. \A n \in Nat : Frame(n + 1)[1] = <<"length", n + 1>>
    <3> TAKE n \in Nat
    <3>1. Stretch(Frame(n + 1), W * n, W * (n + 1)) /\ W * (n + 1) - W * n = W
          /\ W * n \in Nat
      BY FrameIs, WholeFrames, WidthIs
    <3>2. Frame(n + 1)[1] = UnitAt(W * n + 1 - 1) /\ W * n + 1 - 1 = W * n + 0
      BY <3>1, WidthIs DEF Stretch
    <3>3. 0 \in 0 .. Size
      BY WidthIs
    <3>4. UnitAt(W * n + 0) = <<"length", n + 1>>
      BY <3>3, UnitOf
    <3> QED BY <3>2, <3>4
  <2>3. Frame(k)[1] = <<"length", k>> /\ Frame(m + 1)[1] = <<"length", m + 1>>
    BY <2>1, <2>2
  <2> QED BY <1>1, <1>2, <2>3
<1> QED BY <1>1, <1>2 DEF Message

-----------------------------------------------------------------------------
(* Where the two directions stand.                                         *)

Counted(s) == s \in Seq(Nat) /\ \A i \in 1 .. Len(s) : s[i] = i

\* The units on their way to the server: what get() has read of a message, then
\* the socket, then the client's buffer, which ends behind the last message put.
Inbound(p, q) ==
  /\ Stretch(partial, W * Len(heard), p)
  /\ Stretch(to_server, p, q)
  /\ Stretch(write_buf, q, W * asked)
  /\ want = 0 => p = W * Len(heard)
  /\ want > 0 => p + want = W * (Len(heard) + 1)

\* And to the client.
Outbound(p, q) ==
  /\ Stretch(read_buf, W * Len(seen), p)
  /\ Stretch(to_client, p, q)
  /\ Stretch(left, q, W * told)

StreamInv ==
  /\ asked \in 0 .. MaxMsg /\ told \in 0 .. MaxMsg /\ want \in 0 .. Size
  /\ Counted(heard) /\ Counted(seen)
  /\ Len(seen) <= told
  /\ \E p, q : Inbound(p, q)
  /\ ~gone => \E p, q : Outbound(p, q)

LEMMA CountedIs ==
  ASSUME NEW s, Counted(s) PROVE s = [i \in 1 .. Len(s) |-> i] /\ Len(s) \in Nat
<1>1. s \in Seq(Nat) /\ \A i \in 1 .. Len(s) : s[i] = i
  BY DEF Counted
<1> QED BY <1>1

LEMMA CountsOn ==
  ASSUME NEW s, Counted(s)
  PROVE  Counted(Append(s, Len(s) + 1)) /\ Len(Append(s, Len(s) + 1)) = Len(s) + 1
<1>1. s \in Seq(Nat) /\ Len(s) \in Nat /\ \A i \in 1 .. Len(s) : s[i] = i
  BY DEF Counted
<1> QED BY <1>1 DEF Counted

\* Nobody has got more than was put.
LEMMA StreamInvCovers == StreamInv => FramesKept
<1> SUFFICES ASSUME StreamInv PROVE FramesKept
  OBVIOUS
<1>1. heard = [i \in 1 .. Len(heard) |-> i] /\ seen = [i \in 1 .. Len(seen) |-> i]
  BY CountedIs DEF StreamInv
<1>2. Len(heard) \in Nat /\ asked \in Nat
  BY CountedIs DEF StreamInv
<1>3. PICK p, q : Inbound(p, q)
  BY DEF StreamInv
<1>4. W * Len(heard) <= W * asked
  BY <1>3 DEF Inbound, Stretch
<1>5. Len(heard) <= asked
  BY <1>2, <1>4, WholeFrames
<1> QED BY <1>1, <1>5 DEF StreamInv, FramesKept

-----------------------------------------------------------------------------
(* What the actions do to them.                                            *)

InSide  == <<partial, want, heard, to_server, write_buf, asked>>
OutSide == <<read_buf, seen, to_client, left, told, gone>>

LEMMA InSideStays ==
  ASSUME StreamInv, UNCHANGED InSide
  PROVE  (\E p, q : Inbound(p, q))' /\ Counted(heard)' /\ asked' \in 0 .. MaxMsg /\ want' \in 0 .. Size
BY DEF StreamInv, InSide, Inbound

LEMMA OutSideStays ==
  ASSUME StreamInv, UNCHANGED OutSide
  PROVE  /\ (~gone => \E p, q : Outbound(p, q))' /\ Counted(seen)'
         /\ told' \in 0 .. MaxMsg /\ Len(seen') <= told'
BY DEF StreamInv, OutSide, Outbound

LEMMA SidesMake ==
  ASSUME (\E p, q : Inbound(p, q))', Counted(heard)', asked' \in 0 .. MaxMsg, want' \in 0 .. Size,
         (~gone => \E p, q : Outbound(p, q))', Counted(seen)',
         told' \in 0 .. MaxMsg, Len(seen') <= told'
  PROVE  StreamInv'
BY DEF StreamInv

\* A put adds a frame behind the last.
LEMMA ServerPutKeeps == ASSUME StreamInv, ServerPut PROVE StreamInv'
<1>1. UNCHANGED InSide /\ told' = told + 1 /\ left' = Frame(told + 1) /\ left = <<>>
      /\ told < MaxMsg /\ UNCHANGED <<read_buf, seen, to_client, gone>>
  BY DEF ServerPut, InSide, guest, InLoop
<1>2. told \in Nat /\ told + 1 \in 0 .. MaxMsg /\ Len(seen) \in Nat /\ Len(seen) <= told + 1
  BY <1>1, WidthIs, CountedIs DEF StreamInv
<1>3. ASSUME ~gone PROVE (\E p, q : Outbound(p, q))'
  <2>1. PICK p, q : Outbound(p, q)
    BY <1>3 DEF StreamInv
  <2>2. q = W * told
    BY <1>1, <2>1, StretchEmpty DEF Outbound
  <2>3. Stretch(Frame(told + 1), q, W * (told + 1))
    BY <1>2, <2>2, FrameIs
  <2>4. Outbound(p, q)'
    BY <1>1, <2>1, <2>3 DEF Outbound
  <2> QED BY <2>4
<1> QED BY <1>1, <1>2, <1>3, InSideStays, SidesMake DEF StreamInv

LEMMA ClientPutKeeps == ASSUME StreamInv, ClientPut PROVE StreamInv'
<1>1. UNCHANGED OutSide /\ asked' = asked + 1 /\ write_buf' = write_buf \o Frame(asked + 1)
      /\ asked < MaxMsg /\ UNCHANGED <<partial, want, heard, to_server>>
  BY DEF ClientPut, OutSide, server
<1>2. asked \in Nat /\ asked + 1 \in 0 .. MaxMsg
  BY <1>1, WidthIs DEF StreamInv
<1>3. PICK p, q : Inbound(p, q)
  BY DEF StreamInv
<1>4. Stretch(write_buf \o Frame(asked + 1), q, W * (asked + 1))
  BY <1>2, <1>3, FrameIs, Joined2 DEF Inbound
<1>5. Inbound(p, q)'
  BY <1>1, <1>3, <1>4 DEF Inbound
<1> QED BY <1>1, <1>2, <1>5, OutSideStays, SidesMake DEF StreamInv

\* Units that cross a boundary move it.
LEMMA Passed ==
  ASSUME NEW s, NEW t, NEW a, NEW b, NEW c, Stretch(s, a, b), Stretch(t, b, c),
         NEW n \in 0 .. Len(t)
  PROVE  Stretch(s \o SubSeq(t, 1, n), a, b + n) /\ Stretch(SubSeq(t, n + 1, Len(t)), b + n, c)
BY Cut, Joined2

LEMMA LoopWriteKeeps == ASSUME StreamInv, NEW n \in 1 .. Size, LoopWrite(n) PROVE StreamInv'
<1>1. /\ UNCHANGED InSide /\ UNCHANGED <<read_buf, seen, told, gone>> /\ ~gone
      /\ to_client' = to_client \o SubSeq(left, 1, n) /\ left' = SubSeq(left, n + 1, Len(left))
      /\ left # <<>> /\ n <= (IF Head(left)[1] = "length" THEN 1 ELSE Len(left))
  BY DEF LoopWrite, InSide, guest, Rest
<1>2. PICK p, q : Outbound(p, q)
  BY <1>1 DEF StreamInv
<1>3. n \in 0 .. Len(left)
  <2>1. left \in Seq(Units)
    BY <1>2 DEF Outbound, Stretch
  <2>2. Len(left) \in Nat /\ 1 <= Len(left)
    BY <1>1, <2>1
  <2> QED BY <1>1, <2>2, WidthIs
<1>4. Outbound(p, q + n)'
  BY <1>1, <1>2, <1>3, Passed DEF Outbound
<1> QED BY <1>1, <1>4, InSideStays, SidesMake DEF StreamInv

LEMMA FlushKeeps == ASSUME StreamInv, NEW n \in 1 .. Pipe, Flush(n) PROVE StreamInv'
<1>1. /\ UNCHANGED OutSide /\ UNCHANGED <<partial, want, heard, asked>>
      /\ to_server' = to_server \o SubSeq(write_buf, 1, n)
      /\ write_buf' = SubSeq(write_buf, n + 1, Len(write_buf))
      /\ n <= Len(write_buf)
  BY DEF Flush, OutSide, server
<1>2. PICK p, q : Inbound(p, q)
  BY DEF StreamInv
<1>3. n \in 0 .. Len(write_buf)
  BY <1>1, <1>2, StreamAssumption DEF Inbound, Stretch
<1>4. Inbound(p, q + n)'
  BY <1>1, <1>2, <1>3, Passed DEF Inbound
<1> QED BY <1>1, <1>4, OutSideStays, SidesMake DEF StreamInv

\* get() begins where a frame begins, with its length.
LEMMA GetLengthKeeps == ASSUME StreamInv, GetLength PROVE StreamInv'
<1>1. /\ UNCHANGED OutSide /\ UNCHANGED <<write_buf, heard, asked>>
      /\ to_server # <<>> /\ want = 0 /\ want' = Size
      /\ partial' = <<Head(to_server)>> /\ to_server' = Tail(to_server)
  BY DEF GetLength, OutSide, guest, InLoop
<1>2. PICK p, q : Inbound(p, q)
  BY DEF StreamInv
<1>3. p = W * Len(heard) /\ Stretch(to_server, p, q) /\ to_server \in Seq(Units)
  BY <1>1, <1>2 DEF Inbound, Stretch
<1>4. 1 \in 0 .. Len(to_server) /\ <<Head(to_server)>> = SubSeq(to_server, 1, 1)
      /\ Tail(to_server) = SubSeq(to_server, 1 + 1, Len(to_server))
  BY <1>1, <1>3
<1>5. Stretch(partial', p, p + 1) /\ Stretch(to_server', p + 1, q)
  BY <1>1, <1>3, <1>4, Cut
<1>6. Len(heard) \in Nat /\ W = Size + 1 /\ p \in Nat
  BY <1>3, CountedIs, WholeFrames DEF StreamInv, W
<1>7. (p + 1) + Size = W * (Len(heard) + 1) /\ Size > 0 /\ Size \in 0 .. Size
  BY <1>3, <1>6, WholeFrames, WidthIs
<1>8. Inbound(p + 1, q)'
  BY <1>1, <1>2, <1>3, <1>5, <1>7 DEF Inbound
<1> QED BY <1>1, <1>7, <1>8, OutSideStays, SidesMake DEF StreamInv

\* It ends where the frame ends, and has read that frame.
LEMMA GetBytesKeeps == ASSUME StreamInv, GetBytes PROVE StreamInv'
<1> DEFINE n == IF Len(to_server) < want THEN Len(to_server) ELSE want
           read == partial \o SubSeq(to_server, 1, n)
<1>1. /\ UNCHANGED OutSide /\ UNCHANGED <<write_buf, asked>>
      /\ want > 0 /\ n > 0 /\ want' = want - n
      /\ to_server' = SubSeq(to_server, n + 1, Len(to_server))
      /\ partial' = (IF want' = 0 THEN <<>> ELSE read)
      /\ heard' = (IF want' = 0 THEN Append(heard, Message(read)) ELSE heard)
  BY DEF GetBytes, OutSide, guest
<1>2. PICK p, q : Inbound(p, q)
  BY DEF StreamInv
<1>3. /\ Stretch(partial, W * Len(heard), p) /\ Stretch(to_server, p, q)
      /\ Stretch(write_buf, q, W * asked)
      /\ p \in Nat /\ q \in Nat /\ q <= W * asked /\ Len(to_server) = q - p /\ p <= q
      /\ p + want = W * (Len(heard) + 1)
  BY <1>1, <1>2 DEF Inbound, Stretch
<1>4. want \in Nat /\ want <= Size /\ Size \in Nat
  BY WidthIs DEF StreamInv
<1>5. n \in 0 .. Len(to_server) /\ n <= want /\ want - n \in 0 .. Size
  BY <1>1, <1>3, <1>4
<1> HIDE DEF n
<1>6. Stretch(read, W * Len(heard), p + n) /\ Stretch(to_server', p + n, q)
  BY <1>1, <1>3, <1>5, Passed
<1> HIDE DEF read
<1>7. PICK r : r = p + n
  OBVIOUS
<1>8. CASE want' # 0
  <2>1. want' > 0 /\ (p + n) + want' = W * (Len(heard) + 1)
    BY <1>1, <1>3, <1>4, <1>5, <1>8
  <2>2. partial' = read /\ UNCHANGED <<write_buf, heard, asked>>
    BY <1>1, <1>8
  <2>3. /\ Stretch(partial', W * Len(heard'), p + n) /\ Stretch(write_buf', q, W * asked')
        /\ (p + n) + want' = W * (Len(heard') + 1)
    BY <1>3, <1>6, <2>1, <2>2
  <2>4. Inbound(r, q)'
    BY <1>6, <1>8, <1>7, <2>3 DEF Inbound
  <2> QED BY <1>1, <1>5, <1>8, <2>4, OutSideStays, SidesMake DEF StreamInv
<1>9. CASE want' = 0
  <2> DEFINE m == Len(heard)
  <2>1. m \in Nat /\ asked \in Nat /\ asked <= MaxMsg
    BY CountedIs, WidthIs DEF StreamInv
  <2>2. p + n = W * (m + 1)
    BY <1>1, <1>3, <1>4, <1>5, <1>9, SMTT(30)
  <2>3. p + n <= q
    BY <1>3, <1>5
  <2>4. m + 1 <= asked
    <3>1. W * (m + 1) <= W * asked
      BY <1>3, <1>5, <2>1, <2>2, <2>3, WholeFrames, SMTT(30)
    <3> QED BY <2>1, <3>1, WholeFrames
  <2>5. Message(read) = m + 1
    <3>1. m + 1 \in 1 .. MaxMsg
      BY <2>1, <2>4, WidthIs
    <3> QED BY <1>6, <2>1, <2>2, <3>1, MessageIs
  <2>6. Counted(heard') /\ Len(heard') = m + 1
    BY <1>1, <1>9, <2>5, CountsOn DEF StreamInv
  <2>7. Stretch(partial', W * Len(heard'), p + n)
    <3>1. p + n \in Nat /\ partial' = <<>>
      BY <1>1, <1>3, <1>5, <1>9
    <3> QED BY <2>2, <2>6, <3>1, EmptyStretch
  <2>8. Inbound(r, q)'
    <3>1. p + n = W * Len(heard') /\ Stretch(write_buf', q, W * asked') /\ ~(want' > 0)
      BY <1>1, <1>3, <1>9, <2>2, <2>6
    <3> QED BY <1>6, <1>7, <2>7, <3>1 DEF Inbound
  <2> QED BY <1>1, <1>5, <1>9, <2>6, <2>8, OutSideStays, SidesMake DEF StreamInv
<1> QED BY <1>8, <1>9

LEMMA ReadNotificationKeeps == ASSUME StreamInv, ReadNotification PROVE StreamInv'
<1>1. /\ UNCHANGED InSide /\ UNCHANGED <<seen, told, gone, left>> /\ ~gone
      /\ read_buf' = read_buf \o to_client /\ to_client' = <<>>
  BY DEF ReadNotification, InSide, server
<1>2. PICK p, q : Outbound(p, q)
  BY <1>1 DEF StreamInv
<1>3. q \in Nat
  BY <1>2 DEF Outbound, Stretch
<1>4. Outbound(q, q)'
  BY <1>1, <1>2, <1>3, Joined2, EmptyStretch DEF Outbound
<1> QED BY <1>1, <1>4, InSideStays, SidesMake DEF StreamInv

\* The Listener takes a whole frame, from where one begins.
LEMMA ProcessCmdKeeps == ASSUME StreamInv, ProcessCmd PROVE StreamInv'
<1>1. /\ UNCHANGED InSide /\ UNCHANGED <<to_client, told, gone, left>> /\ ~gone
      /\ Len(read_buf) > Size
      /\ seen' = Append(seen, Message(SubSeq(read_buf, 1, Size + 1)))
      /\ read_buf' = SubSeq(read_buf, Size + 2, Len(read_buf))
  BY DEF ProcessCmd, InSide, server
<1>2. PICK p, q : Outbound(p, q)
  BY <1>1 DEF StreamInv
<1> DEFINE m == Len(seen)
<1>3. /\ Stretch(read_buf, W * m, p) /\ p \in Nat /\ q \in Nat /\ p <= q /\ q <= W * told
      /\ read_buf \in Seq(Units) /\ Len(read_buf) = p - W * m
  BY <1>2 DEF Outbound, Stretch
<1>4. m \in Nat /\ told \in Nat /\ told <= MaxMsg
  BY CountedIs, WidthIs DEF StreamInv
<1>5. W = Size + 1 /\ Size + 2 = W + 1 /\ W \in 0 .. Len(read_buf)
  BY <1>1, <1>3, WidthIs DEF W
<1>6. W * m \in Nat /\ W * (m + 1) = W * m + W
  BY <1>4, WholeFrames
<1>7. /\ Stretch(SubSeq(read_buf, 1, W), W * m, W * (m + 1))
      /\ Stretch(read_buf', W * (m + 1), p)
  BY <1>1, <1>3, <1>5, <1>6, Cut
<1>8. m + 1 <= told
  <2>1. W * (m + 1) <= W * told
    <3>1. W * (m + 1) <= p /\ W * (m + 1) \in Nat
      BY <1>7 DEF Stretch
    <3>2. W * told \in Nat
      BY <1>4, WholeFrames
    <3> QED BY <1>3, <3>1, <3>2
  <2> QED BY <1>4, <2>1, WholeFrames
<1>9. Message(SubSeq(read_buf, 1, W)) = m + 1
  <2>1. m + 1 \in 1 .. MaxMsg
    BY <1>4, <1>8, WidthIs
  <2> QED BY <1>4, <1>7, <2>1, MessageIs
<1>10. Counted(seen') /\ Len(seen') = m + 1
  BY <1>1, <1>5, <1>9, CountsOn DEF StreamInv
<1>11. Outbound(p, q)'
  BY <1>1, <1>2, <1>7, <1>10 DEF Outbound
<1> QED BY <1>1, <1>8, <1>10, <1>11, InSideStays, SidesMake DEF StreamInv

\* Once the client has gone, nothing more is said of what was on its way to it.
LEMMA GoneKeeps == ASSUME StreamInv, WriteFails \/ PeekEnd \/ Close PROVE StreamInv'
<1>1. UNCHANGED <<InSide, seen, told>> /\ gone'
  BY DEF WriteFails, PeekEnd, Close, InSide, guest, server
<1>2. Counted(seen)' /\ told' \in 0 .. MaxMsg /\ Len(seen') <= told'
  BY <1>1 DEF StreamInv
<1>3. UNCHANGED InSide
  BY <1>1
<1> QED BY <1>1, <1>2, <1>3, InSideStays, SidesMake

\* Between the two ends no unit is lost, doubled or out of its place, and get()
\* and the Listener are where the lengths say.
THEOREM StreamInvariant == BsSpec => []StreamInv
<1>1. BsInit => StreamInv
  <2> SUFFICES ASSUME BsInit PROVE StreamInv
    OBVIOUS
  <2>1. /\ to_server = <<>> /\ to_client = <<>> /\ told = 0 /\ left = <<>>
        /\ partial = <<>> /\ want = 0 /\ heard = <<>> /\ asked = 0
        /\ write_buf = <<>> /\ read_buf = <<>> /\ seen = <<>>
    BY DEF BsInit, BsBegin
  <2>2. W * 0 = 0 /\ 0 \in Nat /\ Stretch(<<>>, 0, 0) /\ Counted(<<>>) /\ Len(<<>>) = 0
    BY WidthIs, EmptyStretch DEF Counted
  <2>3. Inbound(0, 0) /\ Outbound(0, 0)
    BY <2>1, <2>2 DEF Inbound, Outbound
  <2>4. 0 \in 0 .. MaxMsg /\ 0 \in 0 .. Size /\ 0 <= 0
    BY WidthIs
  <2> QED BY <2>1, <2>2, <2>3, <2>4 DEF StreamInv
<1>2. StreamInv /\ [BsNext]_bsVars => StreamInv'
  <2> SUFFICES ASSUME StreamInv, [BsNext]_bsVars PROVE StreamInv'
    OBVIOUS
  <2>1. CASE UiStep
    BY <2>1, LoopWriteKeeps, GoneKeeps, GetLengthKeeps, GetBytesKeeps DEF UiStep
  <2>2. CASE ServerPut \/ ClientPut \/ ReadNotification \/ ProcessCmd \/ Close
    BY <2>2, ServerPutKeeps, ClientPutKeeps, ReadNotificationKeeps, ProcessCmdKeeps, GoneKeeps
  <2>3. CASE \E n \in 1 .. Pipe : Flush(n)
    BY <2>3, FlushKeeps
  <2>4. CASE UNCHANGED bsVars
    <3>1. UNCHANGED InSide /\ UNCHANGED OutSide
      BY <2>4 DEF bsVars, server, guest, InSide, OutSide
    <3> QED BY <3>1, InSideStays, OutSideStays, SidesMake
  <2> QED BY <2>1, <2>2, <2>3, <2>4 DEF BsNext
<1> QED BY <1>1, <1>2, PTL DEF BsSpec

\* However the stream is cut, for messages of any length and a socket of any
\* size, what is got is what was put, whole, in order and once.
THEOREM FramesAreKept == BsSpec => []FramesKept
BY StreamInvariant, StreamInvCovers, PTL

-----------------------------------------------------------------------------
(* Answers.  A client that is being served has been greeted, and what is   *)
(* on its way to it, in CTRL's queue as a GET and in UI's as the answer,   *)
(* is in order.                                                            *)

Greeting == [k |-> "SDR_VERSION"]
Dims     == [k |-> "SPEC_DIMS"]
Get(c)   == [k |-> "GET", by |-> c]
Stop(c)  == [k |-> "STOP", by |-> c]
Entry(c) == [k |-> "entry", by |-> c]
Done(c)  == [k |-> "INIT_SETUP_COMPLETE", by |-> c]

Requests == {Get(c) : c \in Clients} \cup {Stop(c) : c \in Clients}
Messages == Requests \cup {Dims} \cup {Entry(c) : c \in Clients} \cup {Done(c) : c \in Clients}

Has(q, m) == \E i \in 1 .. Len(q) : q[i] = m

\* In q m comes before all of late.
First(q, m, late) ==
  \E i \in 1 .. Len(q) : q[i] = m /\ \A j \in 1 .. Len(q) : q[j] \in late => i < j

\* In q there is m before each of late.
Before(q, m, late) ==
  \A j \in 1 .. Len(q) : q[j] \in late => \E i \in 1 .. j - 1 : q[i] = m

Lives == {"idle", "waiting", "up", "closing", "stuck", "gone"}

SessionTypes ==
  /\ client \in [Clients -> Lives]
  /\ got \in [Clients -> SUBSET (Messages \cup {Greeting})]
  /\ up \in [Clients -> Seq(Requests)]
  /\ \A c \in Clients : \A i \in 1 .. Len(up[c]) : up[c][i].by = c
  /\ conn \in [Sockets -> Clients \cup {None}]
  /\ ready \in [Sockets -> BOOLEAN]
  /\ backlog \in [Sockets -> Seq(Clients)]
  /\ cmdq \in [CmdReaders -> Seq(Messages)]
  /\ new_connection \in BOOLEAN

\* UI's loop and its command socket.
Loop ==
  /\ srv \in {"off", "launched", "locked", "bound", "closed"} => ~ready["cmd"]
  /\ ready["cmd"] => conn["cmd"] # None
  /\ ~ready["cmd"] => new_connection
  /\ upc = "greet" => ready["cmd"] /\ new_connection
  /\ upc = "get" => ready["cmd"] /\ ~new_connection

Mail(c) == \/ Has(cmdq["CTRL"], Get(c))
           \/ Has(cmdq["UI"], Entry(c)) \/ Has(cmdq["UI"], Done(c))

Early(c)  == client[c] \in {"idle", "waiting"}
Served(c) == Open(c) /\ conn["cmd"] = c /\ ready["cmd"] /\ ~new_connection

\* Who is connected or in the backlog has been to Connect, who has not yet has
\* no mail, and only the client that is served has any.
Known(c) ==
  /\ Early(c) => conn["cmd"] # c /\ ~Has(backlog["cmd"], c) /\ ~Mail(c)
  /\ ~Open(c) => got[c] = {}
  /\ Open(c) /\ Mail(c) => Served(c)

Ordered(c) ==
  /\ Served(c) => /\ Greeting \in got[c]
                  /\ Dims \in got[c] \/ First(cmdq["UI"], Dims, {Entry(c), Done(c)})
  /\ Open(c) => Entry(c) \in got[c] \/ Before(cmdq["UI"], Entry(c), {Done(c)})
  /\ Done(c) \in got[c] => Greeting \in got[c] /\ Dims \in got[c] /\ Entry(c) \in got[c]

AnswersInv == SessionTypes /\ Loop /\ \A c \in Clients : Known(c) /\ Ordered(c)

LEMMA AnswersInvCovers == AnswersInv => AnswersInOrder
BY DEF AnswersInv, Ordered, AnswersInOrder, Greeting, Dims, Entry, Done

LEMMA TellApart ==
  /\ \A c, d : /\ Entry(c) = Entry(d) => c = d
               /\ Done(c) = Done(d) => c = d
               /\ Get(c) = Get(d) => c = d
               /\ Entry(c) # Done(d) /\ Entry(c) # Get(d) /\ Entry(c) # Stop(d)
               /\ Done(c) # Get(d) /\ Done(c) # Stop(d) /\ Get(c) # Stop(d)
  /\ \A c : /\ Dims # Entry(c) /\ Dims # Done(c) /\ Dims # Get(c) /\ Dims # Stop(c)
            /\ Greeting # Entry(c) /\ Greeting # Done(c)
  /\ Greeting # Dims
<1>1. /\ Dims.k = "SPEC_DIMS" /\ Greeting.k = "SDR_VERSION"
      /\ \A c : /\ Entry(c).k = "entry" /\ Entry(c).by = c
               /\ Done(c).k = "INIT_SETUP_COMPLETE" /\ Done(c).by = c
               /\ Get(c).k = "GET" /\ Get(c).by = c
               /\ Stop(c).k = "STOP" /\ Stop(c).by = c
  BY DEF Dims, Greeting, Entry, Done, Get, Stop
<1>2. /\ "SPEC_DIMS" # "SDR_VERSION" /\ "entry" # "INIT_SETUP_COMPLETE" /\ "entry" # "GET"
      /\ "entry" # "STOP" /\ "INIT_SETUP_COMPLETE" # "GET" /\ "INIT_SETUP_COMPLETE" # "STOP"
      /\ "GET" # "STOP"
      /\ "SPEC_DIMS" \notin {"entry", "INIT_SETUP_COMPLETE", "GET", "STOP"}
      /\ "SDR_VERSION" \notin {"entry", "INIT_SETUP_COMPLETE", "GET", "STOP"}
  OBVIOUS
<1> QED BY <1>1, <1>2

LEMMA Kinds ==
  ASSUME NEW m \in Messages
  PROVE  /\ m.k = "GET" => m = Get(m.by) /\ m.by \in Clients
         /\ m.k \in Reports => (m = Dims \/ \E c \in Clients : m = Entry(c) \/ m = Done(c))
         /\ m.k \notin Reports => m # Dims /\ \A c : m # Entry(c) /\ m # Done(c)
<1>1. \/ m = Dims
      \/ \E c \in Clients : m = Get(c) \/ m = Stop(c) \/ m = Entry(c) \/ m = Done(c)
  BY DEF Messages, Requests
<1>2. CASE m = Dims
  <2>1. m.k = "SPEC_DIMS" /\ m.k # "GET" /\ m.k \in Reports
    BY <1>2 DEF Dims, Reports
  <2> QED BY <1>2, <2>1
<1>3. ASSUME NEW c \in Clients, m = Get(c) \/ m = Stop(c) \/ m = Entry(c) \/ m = Done(c)
      PROVE  /\ m.k = "GET" => m = Get(m.by) /\ m.by \in Clients
             /\ m.k \in Reports => m = Entry(c) \/ m = Done(c)
             /\ m.k \notin Reports => m = Get(c) \/ m = Stop(c)
  BY <1>3 DEF Get, Stop, Entry, Done, Reports
<1>4. CASE \E c \in Clients : m = Get(c) \/ m = Stop(c) \/ m = Entry(c) \/ m = Done(c)
  <2>1. PICK c \in Clients : m = Get(c) \/ m = Stop(c) \/ m = Entry(c) \/ m = Done(c)
    BY <1>4
  <2>2. ASSUME m.k \notin Reports PROVE m # Dims /\ \A d : m # Entry(d) /\ m # Done(d)
    <3>1. m = Get(c) \/ m = Stop(c)
      BY <1>3, <2>1, <2>2
    <3> QED BY <3>1, TellApart
  <2> QED BY <1>3, <2>1, <2>2
<1> QED BY <1>1, <1>2, <1>4

-----------------------------------------------------------------------------
(* What queues do to the order of messages.                                *)

LEMMA Later ==
  ASSUME NEW S, NEW q \in Seq(S), NEW x \in S
  PROVE  /\ Append(q, x) \in Seq(S)
         /\ \A m : Has(Append(q, x), m) <=> (Has(q, m) \/ m = x)
         /\ \A m, late : First(q, m, late) => First(Append(q, x), m, late)
         /\ \A m, late : ((\A l \in late : ~Has(q, l)) /\ x = m /\ m \notin late)
                           => First(Append(q, x), m, late)
         /\ \A m, late : Before(q, m, late) /\ (x \in late => Has(q, m))
                           => Before(Append(q, x), m, late)
<1> DEFINE r == Append(q, x)
           n == Len(q)
<1>1. /\ r \in Seq(S) /\ n \in Nat /\ Len(r) = n + 1 /\ r[n + 1] = x
      /\ \A i \in 1 .. n : r[i] = q[i]
  OBVIOUS
<1>2. 1 .. n + 1 = 1 .. n \cup {n + 1}
  BY <1>1
<1> HIDE DEF r, n
<1>3. \A i \in 1 .. Len(r) : i \in 1 .. n \/ i = n + 1
  BY <1>1, <1>2
<1>4. \A i \in 1 .. n : i \in 1 .. Len(r) /\ i < n + 1
  BY <1>1
<1>5. n + 1 \in 1 .. Len(r)
  BY <1>1
<1>6. \A m : Has(r, m) <=> (Has(q, m) \/ m = x)
  BY <1>1, <1>3, <1>4, <1>5 DEF Has, n
<1>7. \A m, late : First(q, m, late) => First(r, m, late)
  BY <1>1, <1>3, <1>4, <1>5 DEF First, n
<1>8. \A m, late : ((\A l \in late : ~Has(q, l)) /\ x = m /\ m \notin late) => First(r, m, late)
  <2> SUFFICES ASSUME NEW m, NEW late, \A l \in late : ~Has(q, l), x = m, m \notin late
               PROVE  First(r, m, late)
    OBVIOUS
  <2>1. \A j \in 1 .. Len(r) : r[j] \notin late
    BY <1>1, <1>3 DEF Has, n
  <2> QED BY <1>1, <1>5, <2>1 DEF First
<1>9. \A m, late : Before(q, m, late) /\ (x \in late => Has(q, m)) => Before(r, m, late)
  <2> SUFFICES ASSUME NEW m, NEW late, Before(q, m, late), x \in late => Has(q, m),
                      NEW j \in 1 .. Len(r), r[j] \in late
               PROVE  \E i \in 1 .. j - 1 : r[i] = m
    BY DEF Before
  <2>1. CASE j \in 1 .. n
    <3>1. PICK i \in 1 .. j - 1 : q[i] = m
      BY <1>1, <2>1 DEF Before, n
    <3>2. i \in 1 .. n
      BY <1>1, <2>1
    <3> QED BY <1>1, <3>1, <3>2
  <2>2. CASE j = n + 1
    <3>1. PICK i \in 1 .. n : q[i] = m
      BY <1>1, <2>2 DEF Has, n
    <3>2. i \in 1 .. j - 1
      BY <1>1, <2>2
    <3> QED BY <1>1, <3>1, <3>2
  <2> QED BY <1>3, <2>1, <2>2
<1> QED BY <1>1, <1>6, <1>7, <1>8, <1>9 DEF r

LEMMA Sooner ==
  ASSUME NEW S, NEW q \in Seq(S), q # <<>>
  PROVE  /\ Tail(q) \in Seq(S) /\ Head(q) \in S /\ Has(q, Head(q))
         /\ \A m : Has(Tail(q), m) => Has(q, m)
         /\ \A m, late : First(q, m, late) /\ Head(q) # m => First(Tail(q), m, late)
         /\ \A m, late : First(q, m, late) /\ m \notin late => Head(q) \notin late
         /\ \A m, late : Before(q, m, late) /\ Head(q) # m => Before(Tail(q), m, late)
         /\ \A m, late : Before(q, m, late) => Head(q) \notin late
<1> DEFINE r == Tail(q)
           n == Len(r)
           h == Head(q)
<1>1. /\ r \in Seq(S) /\ h \in S /\ n \in Nat /\ Len(q) = n + 1 /\ q[1] = h
      /\ \A i \in 1 .. n : r[i] = q[i + 1]
  OBVIOUS
<1> HIDE DEF r, h
<1>2. /\ \A i \in 1 .. n : i + 1 \in 1 .. Len(q) /\ (i + 1) - 1 = i
      /\ \A i \in 1 .. Len(q) : i # 1 => i - 1 \in 1 .. n /\ (i - 1) + 1 = i
      /\ 1 \in 1 .. Len(q)
  BY <1>1
<1> HIDE DEF n
<1>3. Has(q, h) /\ \A m : Has(r, m) => Has(q, m)
  BY <1>1, <1>2 DEF Has, n
<1>4. ASSUME NEW m, NEW late, First(q, m, late)
      PROVE  /\ h # m => First(r, m, late)
             /\ m \notin late => h \notin late
  <2>1. PICK i \in 1 .. Len(q) : q[i] = m /\ \A j \in 1 .. Len(q) : q[j] \in late => i < j
    BY <1>4 DEF First
  <2>2. ASSUME h # m PROVE First(r, m, late)
    <3>1. i - 1 \in 1 .. n /\ r[i - 1] = m
      BY <1>1, <1>2, <2>1, <2>2
    <3>2. ASSUME NEW j \in 1 .. n, r[j] \in late PROVE i - 1 < j
      <4>1. i < j + 1
        BY <1>1, <1>2, <2>1, <3>2
      <4> QED BY <4>1, <1>1
    <3> QED BY <3>1, <3>2 DEF First, n
  <2>3. ASSUME m \notin late, h \in late PROVE FALSE
    BY <1>1, <1>2, <2>1, <2>3
  <2> QED BY <2>2, <2>3
<1>5. ASSUME NEW m, NEW late, Before(q, m, late)
      PROVE  h \notin late /\ (h # m => Before(r, m, late))
  <2>1. h \notin late
    BY <1>1, <1>2, <1>5 DEF Before
  <2>2. ASSUME h # m, NEW j \in 1 .. n, r[j] \in late PROVE \E i \in 1 .. j - 1 : r[i] = m
    <3>1. PICK i \in 1 .. j : q[i] = m
      BY <1>1, <1>2, <1>5, <2>2 DEF Before
    <3>2. i # 1 /\ i \in 1 .. Len(q) /\ i - 1 \in 1 .. j - 1 /\ i - 1 \in 1 .. n /\ (i - 1) + 1 = i
      BY <1>1, <2>2, <3>1
    <3> QED BY <1>1, <3>1, <3>2
  <2> QED BY <2>1, <2>2 DEF Before, n
<1> QED BY <1>1, <1>3, <1>4, <1>5 DEF r, h

-----------------------------------------------------------------------------
(* What the actions do to them.                                            *)

view == <<client, got, conn["cmd"], ready["cmd"], backlog["cmd"],
          cmdq["CTRL"], cmdq["UI"], new_connection>>

EveryClient == \A c \in Clients : Known(c) /\ Ordered(c)

LEMMA ViewStays == ASSUME EveryClient, UNCHANGED view PROVE EveryClient'
<1> SUFFICES ASSUME NEW c \in Clients PROVE Known(c)' /\ Ordered(c)'
  BY DEF EveryClient
<1>1. Known(c) /\ Ordered(c)
  BY DEF EveryClient
<1>2. UNCHANGED <<Open(c), Mail(c), Early(c), Served(c)>>
  BY DEF view, Open, Mail, Early, Served
<1> QED BY <1>1, <1>2 DEF view, Known, Ordered

LEMMA TypesStay ==
  ASSUME SessionTypes, UNCHANGED <<client, got, up, conn, ready, backlog, cmdq, new_connection>>
  PROVE  SessionTypes'
BY DEF SessionTypes

\* Steps that leave the clients and UI's side of the sockets alone.
LEMMA ElsewhereKeepsAnswers ==
  ASSUME AnswersInv, LockInv,
         \/ CreateLock \/ BindSockets \/ DeleteLock \/ CleanUp
         \/ \E caught \in BOOLEAN : NoRadio(caught)
         \/ RxCollects \/ RxCollected \/ GpsTakes \/ UiMovesOn
  PROVE  AnswersInv'
<1>1. UNCHANGED <<client, got, up, conn, ready, backlog, cmdq, new_connection>>
  BY DEF CreateLock, BindSockets, DeleteLock, CleanUp, NoRadio, RxCollects, RxCollected,
         GpsTakes, UiMovesOn, peers, sockets, boxes, ui
<1>2. SessionTypes' /\ EveryClient'
  <2>1. UNCHANGED view
    BY <1>1 DEF view
  <2> QED BY <1>1, <2>1, TypesStay, ViewStays DEF AnswersInv, EveryClient
<1>3. Loop'
  <2>1. CASE CreateLock \/ BindSockets \/ DeleteLock \/ \E caught \in BOOLEAN : NoRadio(caught)
    BY <1>1, <2>1 DEF CreateLock, BindSockets, DeleteLock, NoRadio, ui, AnswersInv, Loop
  <2>2. CASE CleanUp \/ RxCollects \/ RxCollected \/ GpsTakes
    <3>1. UNCHANGED <<srv, upc>>
      BY <2>2 DEF CleanUp, RxCollects, RxCollected, GpsTakes, ui, process
    <3> QED BY <1>1, <3>1 DEF AnswersInv, Loop
  <2>3. CASE UiMovesOn
    <3>1. UNCHANGED srv /\ upc' \in {"if", "top"}
      BY <2>3 DEF UiMovesOn, process
    <3> QED BY <1>1, <3>1 DEF AnswersInv, Loop
  <2> QED BY <2>1, <2>2, <2>3
<1> QED BY <1>2, <1>3 DEF AnswersInv, EveryClient

\* A server that ends loses its queues and its connections; whoever was on one
\* has the answers it has.
LEMMA OffKeepsAnswers ==
  ASSUME AnswersInv, Bury \/ CloseSockets PROVE AnswersInv'
<1>1. Off /\ UNCHANGED <<client, got, up>>
  BY DEF Bury, CloseSockets, peers
<1>2. /\ conn' = [s \in Sockets |-> None] /\ ready' = [s \in Sockets |-> FALSE]
      /\ backlog' = [s \in Sockets |-> <<>>] /\ cmdq' = [r \in CmdReaders |-> <<>>]
      /\ upc' = "top" /\ new_connection' = TRUE
  BY <1>1 DEF Off
<1>3. SessionTypes'
  BY <1>1, <1>2 DEF AnswersInv, SessionTypes
<1>4. Loop'
  BY <1>2 DEF Loop, Sockets
<1>5. ASSUME NEW c \in Clients PROVE Known(c)' /\ Ordered(c)'
  <2>1. conn'["cmd"] = None /\ ~ready'["cmd"] /\ backlog'["cmd"] = <<>>
        /\ cmdq'["CTRL"] = <<>> /\ cmdq'["UI"] = <<>>
    BY <1>2 DEF Sockets, CmdReaders
  <2>2. ~Mail(c)' /\ ~Served(c)' /\ ~Has(backlog["cmd"], c)' /\ Before(cmdq["UI"], Entry(c), {Done(c)})'
    BY <2>1 DEF Mail, Served, Has, Before
  <2>3. c # None
    BY SessionAssumption
  <2>4. Known(c) /\ Ordered(c)
    BY DEF AnswersInv
  <2> QED BY <1>1, <2>1, <2>2, <2>3, <2>4 DEF Known, Ordered, Open
<1> QED BY <1>3, <1>4, <1>5 DEF AnswersInv

\* UI's queue gets its first message while nobody is connected.
LEMMA StartThreadsKeepsAnswers == ASSUME AnswersInv, StartThreads PROVE AnswersInv'
<1>1. /\ srv = "bound" /\ srv' = "up" /\ cmdq' = [cmdq EXCEPT !["UI"] = <<Dims>>]
      /\ UNCHANGED <<client, got, up, conn, ready, backlog, upc, new_connection>>
  BY DEF StartThreads, peers, sockets, ui, Dims
<1>2. cmdq \in [CmdReaders -> Seq(Messages)] /\ ~ready["cmd"]
  BY <1>1 DEF AnswersInv, SessionTypes, Loop
<1>3. /\ cmdq'["UI"] = <<Dims>> /\ cmdq'["CTRL"] = cmdq["CTRL"]
      /\ cmdq' \in [CmdReaders -> Seq(Messages)]
  <2>1. <<Dims>> \in Seq(Messages)
    BY DEF Messages
  <2> QED BY <1>1, <1>2, <2>1 DEF CmdReaders
<1>4. SessionTypes'
  BY <1>1, <1>3 DEF AnswersInv, SessionTypes
<1>5. Loop'
  BY <1>1 DEF AnswersInv, Loop
<1>6. ASSUME NEW c \in Clients PROVE Known(c)' /\ Ordered(c)'
  <2>1. ~Has(<<Dims>>, Entry(c)) /\ ~Has(<<Dims>>, Done(c)) /\ Before(<<Dims>>, Entry(c), {Done(c)})
    BY TellApart DEF Has, Before
  <2>2. Mail(c)' => Mail(c)
    BY <1>3, <2>1 DEF Mail
  <2>3. ~Served(c) /\ ~Served(c)' /\ (Open(c)' <=> Open(c)) /\ (Early(c)' <=> Early(c))
    BY <1>1, <1>2 DEF Served, Open, Early
  <2>4. Known(c) /\ Ordered(c)
    BY DEF AnswersInv
  <2> QED BY <1>1, <1>3, <2>1, <2>2, <2>3, <2>4 DEF Known, Ordered
<1> QED BY <1>4, <1>5, <1>6 DEF AnswersInv

LEMMA ClientTypes ==
  ASSUME SessionTypes, NEW c \in Clients, NEW s \in Lives, client' = [client EXCEPT ![c] = s]
  PROVE  /\ client' \in [Clients -> Lives] /\ client'[c] = s
         /\ \A d \in Clients : d # c => client'[d] = client[d]
BY DEF SessionTypes

\* A GUI launches a server where there is none.
LEMMA LaunchKeepsAnswers ==
  ASSUME AnswersInv, LockInv, NEW c \in Clients, Launch(c) PROVE AnswersInv'
<1>1. /\ client[c] = "idle" /\ srv # "launched"
      /\ client' = [client EXCEPT ![c] = IF lock THEN "gone" ELSE "waiting"]
      /\ srv' = (IF lock THEN srv ELSE "launched")
      /\ UNCHANGED <<got, up, conn, ready, backlog, cmdq, upc, new_connection>>
  BY DEF Launch, sockets, boxes, ui
<1>2. /\ client' \in [Clients -> Lives] /\ client'[c] \in {"gone", "waiting"}
      /\ \A d \in Clients : d # c => client'[d] = client[d]
  <2>1. PICK s \in {"gone", "waiting"} : client' = [client EXCEPT ![c] = s]
    BY <1>1
  <2> QED BY <2>1, ClientTypes DEF AnswersInv, Lives
<1>3. SessionTypes'
  BY <1>1, <1>2 DEF AnswersInv, SessionTypes
<1>4. Loop'
  <2>1. ~lock => srv \in {"off", "launched", "locked", "bound", "closed"}
    BY DEF LockInv, Stages, Locked
  <2> QED BY <1>1, <2>1 DEF AnswersInv, Loop
<1>5. ASSUME NEW d \in Clients PROVE Known(d)' /\ Ordered(d)'
  <2>1. Known(d) /\ Ordered(d)
    BY DEF AnswersInv
  <2>2. (Open(d)' <=> Open(d)) /\ (Early(d)' => Early(d)) /\ (Mail(d)' <=> Mail(d))
    BY <1>1, <1>2 DEF Open, Early, Mail
  <2>3. Served(d)' <=> Served(d)
    BY <1>1, <2>2 DEF Served
  <2> QED BY <1>1, <2>1, <2>2, <2>3 DEF Known, Ordered
<1> QED BY <1>3, <1>4, <1>5 DEF AnswersInv

\* A client that connects has nothing on its way yet, and a place in the backlog.
LEMMA ConnectKeepsAnswers ==
  ASSUME AnswersInv, NEW c \in Clients, Connect(c) PROVE AnswersInv'
<1>1. /\ Early(c)
      /\ client' = [client EXCEPT ![c] = IF files = "live" THEN "up" ELSE "stuck"]
      /\ backlog' = (IF files = "live"
                      THEN [s \in Sockets |-> Append(backlog[s], c)] ELSE backlog)
      /\ UNCHANGED <<srv, got, up, conn, ready, cmdq, upc, new_connection>>
  BY DEF Connect, process, boxes, ui, Early
<1>2. /\ client' \in [Clients -> Lives] /\ client'[c] \in {"up", "stuck"}
      /\ \A d \in Clients : d # c => client'[d] = client[d]
  <2>1. PICK s \in {"up", "stuck"} : client' = [client EXCEPT ![c] = s]
    BY <1>1
  <2> QED BY <2>1, ClientTypes DEF AnswersInv, Lives
<1>3. backlog \in [Sockets -> Seq(Clients)]
  BY DEF AnswersInv, SessionTypes
<1>4. /\ backlog' \in [Sockets -> Seq(Clients)]
      /\ \A d : Has(backlog'["cmd"], d) => Has(backlog["cmd"], d) \/ d = c
  <2>1. \A s \in Sockets : Append(backlog[s], c) \in Seq(Clients)
    BY <1>3
  <2>2. \A d : Has(Append(backlog["cmd"], c), d) <=> (Has(backlog["cmd"], d) \/ d = c)
    <3>1. backlog["cmd"] \in Seq(Clients)
      BY <1>3 DEF Sockets
    <3> QED BY <3>1, Later
  <2>3. CASE files = "live"
    <3>1. backlog' = [s \in Sockets |-> Append(backlog[s], c)]
      BY <1>1, <2>3
    <3>2. backlog'["cmd"] = Append(backlog["cmd"], c)
      BY <3>1 DEF Sockets
    <3> QED BY <2>1, <2>2, <3>1, <3>2
  <2>4. CASE files # "live"
    BY <1>1, <1>3, <2>4
  <2> QED BY <2>3, <2>4
<1>5. SessionTypes'
  BY <1>1, <1>2, <1>4 DEF AnswersInv, SessionTypes
<1>6. Loop'
  BY <1>1 DEF AnswersInv, Loop
<1>7. ASSUME NEW d \in Clients PROVE Known(d)' /\ Ordered(d)'
  <2>1. Known(d) /\ Ordered(d)
    BY DEF AnswersInv
  <2>2. Mail(d)' <=> Mail(d)
    BY <1>1 DEF Mail
  <2>3. CASE d # c
    <3>1. (Open(d)' <=> Open(d)) /\ (Early(d)' <=> Early(d))
      BY <1>2, <2>3 DEF Open, Early
    <3>2. Served(d)' <=> Served(d)
      BY <1>1, <3>1 DEF Served
    <3> QED BY <1>1, <1>4, <2>1, <2>2, <2>3, <3>1, <3>2 DEF Known, Ordered
  <2>4. CASE d = c
    <3>1. ~Open(c) /\ got[c] = {} /\ ~Mail(c) /\ conn["cmd"] # c
      BY <1>1, <2>1, <2>4 DEF Open, Early, Known
    <3>2. ~Early(c)' /\ ~Mail(c)' /\ ~Served(c)' /\ got'[c] = {}
      BY <1>1, <1>2, <2>2, <2>4, <3>1 DEF Early, Served
    <3>3. Before(cmdq["UI"], Entry(c), {Done(c)})'
      BY <3>2 DEF Mail, Has, Before
    <3> QED BY <2>4, <3>2, <3>3 DEF Known, Ordered
  <2> QED BY <2>3, <2>4
<1> QED BY <1>5, <1>6, <1>7 DEF AnswersInv

\* What a client writes is in its own name.
LEMMA WritesKeepAnswers ==
  ASSUME AnswersInv, NEW c \in Clients, Ask(c) \/ CloseRadio(c) PROVE AnswersInv'
<1>1. /\ Open(c) /\ UNCHANGED <<srv, got, conn, ready, backlog, cmdq, upc, new_connection>>
      /\ \E m \in {Get(c), Stop(c)} : up' = [up EXCEPT ![c] = Append(@, m)]
      /\ UNCHANGED client \/ client' = [client EXCEPT ![c] = "closing"]
  BY DEF Ask, CloseRadio, Open, process, sockets, boxes, ui, Get, Stop
<1>2. PICK m \in {Get(c), Stop(c)} : up' = [up EXCEPT ![c] = Append(@, m)]
  BY <1>1
<1>3. /\ client' \in [Clients -> Lives] /\ client'[c] \in {"up", "closing"}
      /\ \A d \in Clients : d # c => client'[d] = client[d]
  <2>1. CASE UNCHANGED client
    BY <1>1, <2>1 DEF Open, AnswersInv, SessionTypes
  <2>2. CASE client' = [client EXCEPT ![c] = "closing"]
    BY <2>2, ClientTypes DEF AnswersInv, Lives
  <2> QED BY <1>1, <2>1, <2>2
<1>4. /\ up' \in [Clients -> Seq(Requests)]
      /\ \A d \in Clients : \A i \in 1 .. Len(up'[d]) : up'[d][i].by = d
  <2>1. m \in Requests /\ m.by = c
    BY <1>2 DEF Requests, Get, Stop
  <2>2. up \in [Clients -> Seq(Requests)] /\ \A d \in Clients : \A i \in 1 .. Len(up[d]) : up[d][i].by = d
    BY DEF AnswersInv, SessionTypes
  <2>3. /\ up[c] \in Seq(Requests) /\ up'[c] = Append(up[c], m)
        /\ \A d \in Clients : d # c => up'[d] = up[d]
    BY <1>2, <2>2
  <2> DEFINE q == up[c]
  <2>4. /\ Append(q, m) \in Seq(Requests) /\ \A i \in 1 .. Len(Append(q, m)) : Append(q, m)[i].by = c
    <3>1. q \in Seq(Requests) /\ \A i \in 1 .. Len(q) : q[i].by = c
      BY <2>2, <2>3
    <3> HIDE DEF q
    <3>2. Append(q, m) \in Seq(Requests) /\ Len(Append(q, m)) = Len(q) + 1 /\ Len(q) \in Nat
      BY <2>1, <3>1
    <3>3. ASSUME NEW i \in 1 .. Len(Append(q, m)) PROVE Append(q, m)[i].by = c
      <4>1. CASE i = Len(q) + 1
        <5>1. Append(q, m)[i] = m
          BY <2>1, <3>1, <4>1
        <5> QED BY <2>1, <5>1
      <4>2. CASE i # Len(q) + 1
        <5>1. i \in 1 .. Len(q)
          BY <3>2, <4>2
        <5>2. Append(q, m)[i] = q[i]
          BY <3>1, <5>1
        <5> QED BY <3>1, <5>1, <5>2
      <4> QED BY <4>1, <4>2
    <3> QED BY <3>2, <3>3
  <2>5. up' \in [Clients -> Seq(Requests)]
    BY <1>2, <2>2, <2>4
  <2>6. ASSUME NEW d \in Clients PROVE \A i \in 1 .. Len(up'[d]) : up'[d][i].by = d
    <3>1. CASE d = c
      BY <2>3, <2>4, <3>1
    <3>2. CASE d # c
      BY <2>2, <2>3, <3>2
    <3> QED BY <3>1, <3>2
  <2> QED BY <2>5, <2>6
<1>5. SessionTypes'
  BY <1>1, <1>3, <1>4 DEF AnswersInv, SessionTypes
<1>6. Loop'
  BY <1>1 DEF AnswersInv, Loop
<1>7. ASSUME NEW d \in Clients PROVE Known(d)' /\ Ordered(d)'
  <2>1. Known(d) /\ Ordered(d)
    BY DEF AnswersInv
  <2>2. (Open(d)' <=> Open(d)) /\ (Early(d)' <=> Early(d)) /\ (Mail(d)' <=> Mail(d))
    BY <1>1, <1>3 DEF Open, Early, Mail
  <2>3. Served(d)' <=> Served(d)
    BY <1>1, <2>2 DEF Served
  <2> QED BY <1>1, <2>1, <2>2, <2>3 DEF Known, Ordered
<1> QED BY <1>5, <1>6, <1>7 DEF AnswersInv

\* What a client that leaves had read is gone with it.
LEMMA LeaveKeepsAnswers ==
  ASSUME AnswersInv, NEW c \in Clients, Leave(c) PROVE AnswersInv'
<1>1. /\ client' = [client EXCEPT ![c] = "gone"] /\ got' = [got EXCEPT ![c] = {}]
      /\ UNCHANGED <<srv, up, conn, ready, backlog, cmdq, upc, new_connection>>
  BY DEF Leave, process, boxes, ui
<1>2. /\ client' \in [Clients -> Lives] /\ client'[c] = "gone"
      /\ \A d \in Clients : d # c => client'[d] = client[d]
  BY <1>1, ClientTypes DEF AnswersInv, Lives
<1>3. /\ got' \in [Clients -> SUBSET (Messages \cup {Greeting})] /\ got'[c] = {}
      /\ \A d \in Clients : d # c => got'[d] = got[d]
  BY <1>1 DEF AnswersInv, SessionTypes
<1>4. SessionTypes'
  BY <1>1, <1>2, <1>3 DEF AnswersInv, SessionTypes
<1>5. Loop'
  BY <1>1 DEF AnswersInv, Loop
<1>6. ASSUME NEW d \in Clients PROVE Known(d)' /\ Ordered(d)'
  <2>1. Known(d) /\ Ordered(d)
    BY DEF AnswersInv
  <2>2. CASE d # c
    <3>1. (Open(d)' <=> Open(d)) /\ (Early(d)' <=> Early(d)) /\ (Mail(d)' <=> Mail(d))
      BY <1>1, <1>2, <2>2 DEF Open, Early, Mail
    <3>2. Served(d)' <=> Served(d)
      BY <1>1, <3>1 DEF Served
    <3> QED BY <1>1, <1>3, <2>1, <2>2, <3>1, <3>2 DEF Known, Ordered
  <2>3. CASE d = c
    <3>1. ~Open(d)' /\ ~Early(d)' /\ ~Served(d)' /\ got'[d] = {}
      BY <1>2, <1>3, <2>3 DEF Open, Early, Served
    <3> QED BY <3>1 DEF Known, Ordered
  <2> QED BY <2>2, <2>3
<1> QED BY <1>4, <1>5, <1>6 DEF AnswersInv

\* A socket's look and its put concern that socket alone.
LEMMA Others ==
  ASSUME SessionTypes, NEW s \in Sockets, NEW r \in BOOLEAN, NEW h,
         ready' = [ready EXCEPT ![s] = r],
         conn' = (IF Comes(s) THEN [conn EXCEPT ![s] = h] ELSE conn),
         Comes(s) => h = Head(backlog[s]),
         backlog' = (IF Comes(s) THEN [backlog EXCEPT ![s] = Tail(@)] ELSE backlog)
  PROVE  /\ ready' \in [Sockets -> BOOLEAN] /\ ready'[s] = r
         /\ conn' \in [Sockets -> Clients \cup {None}]
         /\ backlog' \in [Sockets -> Seq(Clients)]
         /\ \A t \in Sockets : t # s => /\ ready'[t] = ready[t] /\ conn'[t] = conn[t]
                                       /\ backlog'[t] = backlog[t]
         /\ Comes(s) => /\ ~ready[s] /\ conn'[s] \in Clients /\ Has(backlog[s], conn'[s])
                        /\ \A c : Has(backlog'[s], c) => Has(backlog[s], c)
         /\ ~Comes(s) => conn' = conn /\ backlog' = backlog
<1>1. /\ ready \in [Sockets -> BOOLEAN] /\ conn \in [Sockets -> Clients \cup {None}]
      /\ backlog \in [Sockets -> Seq(Clients)] /\ backlog[s] \in Seq(Clients)
  BY DEF SessionTypes
<1>2. CASE Comes(s)
  <2>1. backlog[s] # <<>> /\ ~ready[s]
    BY <1>2 DEF Comes
  <2>2. /\ Tail(backlog[s]) \in Seq(Clients) /\ h \in Clients /\ Has(backlog[s], h)
        /\ \A c : Has(Tail(backlog[s]), c) => Has(backlog[s], c)
    BY <1>1, <1>2, <2>1, Sooner
  <2>3. /\ conn' = [conn EXCEPT ![s] = h] /\ backlog' = [backlog EXCEPT ![s] = Tail(backlog[s])]
    BY <1>2
  <2> QED BY <1>1, <1>2, <2>1, <2>2, <2>3
<1>3. CASE ~Comes(s)
  BY <1>1, <1>3
<1> QED BY <1>2, <1>3

LEMMA LookIs ==
  ASSUME SessionTypes, NEW s \in Sockets, Look(s)
  PROVE  /\ ready' \in [Sockets -> BOOLEAN] /\ (ready'[s] <=> IsReady(s))
         /\ conn' \in [Sockets -> Clients \cup {None}]
         /\ backlog' \in [Sockets -> Seq(Clients)]
         /\ \A t \in Sockets : t # s => /\ ready'[t] = ready[t] /\ conn'[t] = conn[t]
                                       /\ backlog'[t] = backlog[t]
         /\ Comes(s) => /\ ~ready[s] /\ conn'[s] \in Clients /\ Has(backlog[s], conn'[s])
                        /\ \A c : Has(backlog'[s], c) => Has(backlog[s], c)
         /\ ~Comes(s) => conn' = conn /\ backlog' = backlog
<1>1. PICK r \in BOOLEAN : r <=> IsReady(s)
  OBVIOUS
<1>2. r = IsReady(s)
  BY <1>1 DEF IsReady, Comes
<1>3. PICK h : h = Head(backlog[s])
  OBVIOUS
<1>4. /\ ready' = [ready EXCEPT ![s] = r]
      /\ conn' = (IF Comes(s) THEN [conn EXCEPT ![s] = h] ELSE conn)
      /\ backlog' = (IF Comes(s) THEN [backlog EXCEPT ![s] = Tail(@)] ELSE backlog)
  BY <1>2, <1>3 DEF Look
<1> QED BY <1>1, <1>3, <1>4, Others

\* A put reaches the client that is connected, or the first of the backlog, or
\* nobody; unless it finds that client gone, and that ends the server.
LEMMA PutIs ==
  ASSUME SessionTypes, NEW s \in Sockets, NEW m, Put(s, m),
         "error" \notin BrokenPipe
  PROVE  /\ ready' \in [Sockets -> BOOLEAN]
         /\ conn' \in [Sockets -> Clients \cup {None}]
         /\ backlog' \in [Sockets -> Seq(Clients)]
         /\ \A t \in Sockets : t # s => /\ ready'[t] = ready[t] /\ conn'[t] = conn[t]
                                       /\ backlog'[t] = backlog[t]
         /\ Comes(s) => /\ ~ready[s] /\ conn'[s] \in Clients /\ Has(backlog[s], conn'[s])
                        /\ \A c : Has(backlog'[s], c) => Has(backlog[s], c)
         /\ ~Comes(s) => conn' = conn /\ backlog' = backlog
         /\ (ready[s] => conn[s] # None) => (ready'[s] <=> (ready[s] \/ Comes(s)))
         /\ srv' \in {srv, "killed"}
         /\ got' = (IF s = "cmd" /\ ready'[s] /\ Open(conn'[s])
                    THEN [got EXCEPT ![conn'[s]] = @ \cup {m}] ELSE got)
<1> DEFINE to == IF ready[s] THEN conn[s] ELSE IF Comes(s) THEN Head(backlog[s]) ELSE None
           broken == to # None /\ ~Open(to)
<1>1. /\ conn' = (IF Comes(s) THEN [conn EXCEPT ![s] = to] ELSE conn)
      /\ backlog' = (IF Comes(s) THEN [backlog EXCEPT ![s] = Tail(@)] ELSE backlog)
      /\ got' = (IF s = "cmd" /\ Open(to) THEN [got EXCEPT ![to] = @ \cup {m}] ELSE got)
      /\ \/ ready' = [ready EXCEPT ![s] = (to # None)] /\ srv' = srv
         \/ to # None /\ ready' = [ready EXCEPT ![s] = TRUE] /\ srv' = "killed"
  BY DEF Put, Killed
<1>2. (Comes(s) => ~ready[s] /\ backlog[s] # <<>>) /\ backlog[s] \in Seq(Clients)
      /\ conn[s] \in Clients \cup {None}
  BY DEF Comes, SessionTypes
<1>3. Comes(s) => to = Head(backlog[s]) /\ to \in Clients
  BY <1>2
<1>4. None \notin Clients
  BY SessionAssumption
<1>5. /\ (ready[s] => conn[s] # None) => ((to # None) <=> (ready[s] \/ Comes(s)))
      /\ to # None => ready[s] \/ Comes(s)
  BY <1>2, <1>3, <1>4
<1>6. srv' \in {srv, "killed"}
  BY <1>1
<1>7. PICK r \in BOOLEAN : (r <=> (to # None)) /\ ready' = [ready EXCEPT ![s] = r]
  <2>1. CASE to # None /\ ready' = [ready EXCEPT ![s] = TRUE]
    BY <2>1
  <2>2. CASE ready' = [ready EXCEPT ![s] = (to # None)]
    BY <2>2
  <2> QED BY <1>1, <2>1, <2>2
<1>8. PICK h : h = to
  OBVIOUS
<1>9. /\ conn' = (IF Comes(s) THEN [conn EXCEPT ![s] = h] ELSE conn)
      /\ Comes(s) => h = Head(backlog[s])
  BY <1>1, <1>3, <1>8
<1>10. /\ ready' \in [Sockets -> BOOLEAN] /\ ready'[s] = r
       /\ conn' \in [Sockets -> Clients \cup {None}]
       /\ backlog' \in [Sockets -> Seq(Clients)]
       /\ \A t \in Sockets : t # s => /\ ready'[t] = ready[t] /\ conn'[t] = conn[t]
                                     /\ backlog'[t] = backlog[t]
       /\ Comes(s) => /\ ~ready[s] /\ conn'[s] \in Clients /\ Has(backlog[s], conn'[s])
                      /\ \A c : Has(backlog'[s], c) => Has(backlog[s], c)
       /\ ~Comes(s) => conn' = conn /\ backlog' = backlog
  BY <1>1, <1>7, <1>9, Others
<1>11. (ready'[s] => conn'[s] = to) /\ (~ready'[s] => to = None)
  <2>1. CASE Comes(s)
    <3>1. conn' = [conn EXCEPT ![s] = h] /\ conn \in [Sockets -> Clients \cup {None}]
      BY <1>9, <2>1 DEF SessionTypes
    <3> QED BY <1>5, <1>7, <1>8, <1>10, <2>1, <3>1
  <2>2. CASE ~Comes(s)
    BY <1>5, <1>7, <1>10, <2>2
  <2> QED BY <2>1, <2>2
<1>12. Open(to) => to # None
  BY <1>4 DEF Open
<1> HIDE DEF to
<1> QED BY <1>1, <1>5, <1>6, <1>7, <1>10, <1>11, <1>12

\* Only a server that is up has a UI, and it is up, or killed, after its step.
LEMMA UpWith == ASSUME LockInv, NEW p, UiAt(p) PROVE srv = "up"
BY DEF LockInv, UiAt

\* Whoever is accepted is to be greeted first.
LEMMA UiLooksKeepsAnswers == ASSUME AnswersInv, LockInv, UiLooks PROVE AnswersInv'
<1>1. /\ Look("cmd") /\ UiAt("top")
      /\ upc' = (IF ~IsReady("cmd") THEN "ring" ELSE IF new_connection THEN "greet" ELSE "get")
      /\ new_connection' = (new_connection \/ ~IsReady("cmd"))
      /\ UNCHANGED <<srv, client, up, got, cmdq>>
  BY DEF UiLooks, GreetNext, process, peers, boxes
<1>2. SessionTypes /\ Loop /\ "cmd" \in Sockets /\ new_connection \in BOOLEAN
  BY DEF AnswersInv, SessionTypes, Sockets
<1>3. /\ ready' \in [Sockets -> BOOLEAN] /\ (ready'["cmd"] <=> IsReady("cmd"))
      /\ conn' \in [Sockets -> Clients \cup {None}] /\ backlog' \in [Sockets -> Seq(Clients)]
      /\ Comes("cmd") => /\ ~ready["cmd"] /\ conn'["cmd"] \in Clients
                         /\ Has(backlog["cmd"], conn'["cmd"])
                         /\ \A c : Has(backlog'["cmd"], c) => Has(backlog["cmd"], c)
      /\ ~Comes("cmd") => conn' = conn /\ backlog' = backlog
  BY <1>1, <1>2, LookIs
<1>4. SessionTypes'
  <2>1. new_connection' \in BOOLEAN
    BY <1>1, <1>2
  <2> QED BY <1>1, <1>2, <1>3, <2>1 DEF SessionTypes
<1>5. Loop'
  <2>1. srv' = "up"
    BY <1>1, UpWith
  <2>2. ready'["cmd"] => conn'["cmd"] # None
    BY <1>2, <1>3, SessionAssumption DEF Loop, IsReady
  <2> QED BY <1>1, <1>2, <1>3, <2>1, <2>2 DEF Loop
<1>6. ASSUME NEW c \in Clients PROVE Known(c)' /\ Ordered(c)'
  <2>1. Known(c) /\ Ordered(c)
    BY DEF AnswersInv
  <2>2. (Open(c)' <=> Open(c)) /\ (Early(c)' <=> Early(c)) /\ (Mail(c)' <=> Mail(c))
    BY <1>1 DEF Open, Early, Mail
  <2>3. Served(c)' <=> Served(c)
    <3>1. CASE ready["cmd"]
      BY <1>1, <1>3, <2>2, <3>1 DEF Served, IsReady, AtEnd
    <3>2. CASE ~ready["cmd"]
      BY <1>1, <1>2, <2>2, <3>2 DEF Served, Loop
    <3> QED BY <3>1, <3>2
  <2>4. Early(c) => conn'["cmd"] # c /\ ~Has(backlog'["cmd"], c)
    BY <1>3, <2>1 DEF Known
  <2> QED BY <1>1, <2>1, <2>2, <2>3, <2>4 DEF Known, Ordered
<1> QED BY <1>4, <1>5, <1>6 DEF AnswersInv

\* The greeting; the dimensions follow by way of UI's queue.
LEMMA UiGreetsKeepsAnswers ==
  ASSUME AnswersInv, LockInv, UiGreets, "error" \notin BrokenPipe PROVE AnswersInv'
<1>1. /\ UiAt("greet") /\ Put("cmd", Greeting) /\ new_connection' = FALSE /\ upc' = "get"
      /\ cmdq' = [cmdq EXCEPT !["UI"] = Append(@, Dims)]
      /\ UNCHANGED <<client, up>>
  BY DEF UiGreets, peers, Greeting, Dims
<1>2. SessionTypes /\ Loop /\ "cmd" \in Sockets /\ ready["cmd"] /\ new_connection
      /\ conn["cmd"] # None /\ conn["cmd"] \in Clients
  BY <1>1 DEF AnswersInv, SessionTypes, Sockets, Loop, UiAt
<1>3. ~Comes("cmd")
  BY <1>2 DEF Comes
<1>4. /\ ready' \in [Sockets -> BOOLEAN] /\ ready'["cmd"] /\ conn' = conn /\ backlog' = backlog
      /\ srv' \in {srv, "killed"}
      /\ got' = (IF Open(conn["cmd"])
                 THEN [got EXCEPT ![conn["cmd"]] = @ \cup {Greeting}] ELSE got)
  BY <1>1, <1>2, <1>3, PutIs
<1>5. /\ got' \in [Clients -> SUBSET (Messages \cup {Greeting})]
      /\ \A c \in Clients : /\ Open(c) /\ conn["cmd"] = c => got'[c] = got[c] \cup {Greeting}
                            /\ ~(Open(c) /\ conn["cmd"] = c) => got'[c] = got[c]
  BY <1>2, <1>4 DEF SessionTypes
<1>6. /\ cmdq \in [CmdReaders -> Seq(Messages)] /\ {"UI", "CTRL"} \subseteq CmdReaders
      /\ cmdq["UI"] \in Seq(Messages) /\ Dims \in Messages
  BY <1>2 DEF SessionTypes, CmdReaders, Messages
<1> DEFINE q == cmdq["UI"]
<1>7. /\ Append(q, Dims) \in Seq(Messages)
      /\ \A m : Has(Append(q, Dims), m) <=> (Has(q, m) \/ m = Dims)
      /\ \A m, late : ((\A l \in late : ~Has(q, l)) /\ m = Dims /\ m \notin late)
                        => First(Append(q, Dims), m, late)
      /\ \A m, late : Before(q, m, late) /\ Dims \notin late => Before(Append(q, Dims), m, late)
  BY <1>6, Later
<1>8. /\ cmdq' \in [CmdReaders -> Seq(Messages)] /\ cmdq'["UI"] = Append(q, Dims)
      /\ cmdq'["CTRL"] = cmdq["CTRL"]
  BY <1>1, <1>6, <1>7
<1>9. SessionTypes'
  BY <1>1, <1>2, <1>4, <1>5, <1>8 DEF SessionTypes
<1>10. Loop'
  <2>1. srv' \in {"up", "killed"}
    BY <1>1, <1>4, UpWith
  <2> QED BY <1>1, <1>2, <1>4, <2>1 DEF Loop
<1> HIDE DEF q
<1>11. ASSUME NEW c \in Clients PROVE Known(c)' /\ Ordered(c)'
  <2>1. Known(c) /\ Ordered(c)
    BY DEF AnswersInv
  <2>2. Dims # Entry(c) /\ Dims # Done(c) /\ Greeting # Done(c)
    BY TellApart
  <2>3. (Open(c)' <=> Open(c)) /\ (Early(c)' <=> Early(c)) /\ (Mail(c)' <=> Mail(c))
    BY <1>1, <1>7, <1>8, <2>2 DEF Open, Early, Mail, q
  <2>4. Open(c) => ~Mail(c)
    BY <1>2, <2>1 DEF Known, Served
  <2>5. Known(c)'
    BY <1>4, <1>5, <2>1, <2>3, <2>4 DEF Known
  <2>6. ASSUME Served(c)' PROVE Greeting \in got'[c] /\ First(cmdq'["UI"], Dims, {Entry(c), Done(c)})
    <3>1. Open(c) /\ conn["cmd"] = c
      BY <1>4, <2>3, <2>6 DEF Served
    <3>2. ~Has(q, Entry(c)) /\ ~Has(q, Done(c))
      BY <2>4, <3>1 DEF Mail, q
    <3>3. First(Append(q, Dims), Dims, {Entry(c), Done(c)})
      <4>1. \A l \in {Entry(c), Done(c)} : ~Has(q, l)
        BY <3>2
      <4>2. Dims \notin {Entry(c), Done(c)}
        BY <2>2
      <4> QED BY <1>7, <4>1, <4>2
    <3> QED BY <1>5, <1>8, <3>1, <3>3
  <2>7. Open(c)' => Entry(c) \in got'[c] \/ Before(cmdq'["UI"], Entry(c), {Done(c)})
    <3>1. Open(c) => Entry(c) \in got[c] \/ Before(q, Entry(c), {Done(c)})
      BY <2>1 DEF Ordered, q
    <3>2. got[c] \subseteq got'[c]
      BY <1>5
    <3> QED BY <1>7, <1>8, <2>2, <2>3, <3>1, <3>2
  <2>8. Done(c) \in got'[c] => Greeting \in got'[c] /\ Dims \in got'[c] /\ Entry(c) \in got'[c]
    BY <1>5, <2>1, <2>2 DEF Ordered
  <2> QED BY <2>5, <2>6, <2>7, <2>8 DEF Ordered
<1> QED BY <1>9, <1>10, <1>11 DEF AnswersInv

\* What UI reads is from the client it has greeted.
LEMMA UiGetsKeepsAnswers == ASSUME AnswersInv, LockInv, UiGets PROVE AnswersInv'
<1> DEFINE x == conn["cmd"]
<1>1. /\ UiAt("get") /\ upc' = "ring"
      /\ \/ UNCHANGED <<up, cmdq>>
         \/ /\ up[x] # <<>> /\ up' = [up EXCEPT ![x] = Tail(@)]
            /\ cmdq' = [r \in CmdReaders |-> Append(cmdq[r], Head(up[x]))]
      /\ UNCHANGED <<srv, client, got, conn, ready, backlog, new_connection>>
  BY DEF UiGets, sockets
<1>2. SessionTypes /\ Loop /\ ready["cmd"] /\ ~new_connection /\ x # None /\ x \in Clients
  BY <1>1 DEF AnswersInv, SessionTypes, Sockets, Loop, UiAt
<1>3. Loop'
  BY <1>1, <1>2 DEF Loop
<1>4. CASE UNCHANGED <<up, cmdq>>
  <2>1. UNCHANGED view
    BY <1>1, <1>4 DEF view
  <2> QED BY <1>1, <1>2, <1>3, <1>4, <2>1, TypesStay, ViewStays DEF AnswersInv, EveryClient
<1>5. CASE /\ up[x] # <<>> /\ up' = [up EXCEPT ![x] = Tail(@)]
           /\ cmdq' = [r \in CmdReaders |-> Append(cmdq[r], Head(up[x]))]
  <2> DEFINE m == Head(up[x])
             q == cmdq["UI"]
             g == cmdq["CTRL"]
  <2>1. /\ up \in [Clients -> Seq(Requests)] /\ up[x] \in Seq(Requests)
        /\ \A c \in Clients : \A i \in 1 .. Len(up[c]) : up[c][i].by = c
        /\ cmdq \in [CmdReaders -> Seq(Messages)] /\ {"UI", "CTRL"} \subseteq CmdReaders
    BY <1>2 DEF SessionTypes, CmdReaders
  <2>2. m \in Requests /\ m.by = x
    <3>1. 1 \in 1 .. Len(up[x]) /\ m = up[x][1] /\ m \in Requests
      BY <1>5, <2>1
    <3> QED BY <1>2, <2>1, <3>1
  <2>3. m = Get(x) \/ m = Stop(x)
    <3> HIDE DEF m, x
    <3>1. PICK c \in Clients : m = Get(c) \/ m = Stop(c)
      BY <2>2 DEF Requests
    <3>2. m.by = c
      BY <3>1 DEF Get, Stop
    <3> QED BY <2>2, <3>1, <3>2
  <2>4. m \in Messages
    BY <2>2 DEF Messages
  <2>5. /\ up' \in [Clients -> Seq(Requests)]
        /\ \A c \in Clients : \A i \in 1 .. Len(up'[c]) : up'[c][i].by = c
    <3>1. /\ Tail(up[x]) \in Seq(Requests) /\ Len(up[x]) \in Nat
          /\ Len(Tail(up[x])) = Len(up[x]) - 1
          /\ \A i \in 1 .. Len(Tail(up[x])) : Tail(up[x])[i] = up[x][i + 1]
      BY <1>5, <2>1
    <3>2. /\ up' \in [Clients -> Seq(Requests)] /\ up'[x] = Tail(up[x])
          /\ \A c \in Clients : c # x => up'[c] = up[c]
      BY <1>2, <1>5, <2>1, <3>1
    <3>3. ASSUME NEW i \in 1 .. Len(up'[x]) PROVE up'[x][i].by = x
      <4>1. i + 1 \in 1 .. Len(up[x]) /\ up'[x][i] = up[x][i + 1]
        BY <3>1, <3>2
      <4> QED BY <1>2, <2>1, <4>1
    <3>4. ASSUME NEW c \in Clients, c # x PROVE \A i \in 1 .. Len(up'[c]) : up'[c][i].by = c
      BY <2>1, <3>2, <3>4
    <3> QED BY <3>2, <3>3, <3>4
  <2> HIDE DEF m
  <2>6. /\ cmdq' \in [CmdReaders -> Seq(Messages)]
        /\ cmdq'["UI"] = Append(q, m) /\ cmdq'["CTRL"] = Append(g, m)
    <3>1. \A r \in CmdReaders : Append(cmdq[r], m) \in Seq(Messages)
      BY <2>1, <2>4
    <3>2. cmdq' = [r \in CmdReaders |-> Append(cmdq[r], m)]
      BY <1>5 DEF m
    <3> QED BY <2>1, <3>1, <3>2
  <2>7. SessionTypes'
    BY <1>1, <1>2, <2>5, <2>6 DEF SessionTypes
  <2>8. /\ q \in Seq(Messages) /\ g \in Seq(Messages)
    BY <2>1
  <2> HIDE DEF q, g
  <2>9. /\ \A l : Has(Append(q, m), l) <=> (Has(q, l) \/ m = l)
        /\ \A l : Has(Append(g, m), l) <=> (Has(g, l) \/ m = l)
        /\ \A l, late : First(q, l, late) => First(Append(q, m), l, late)
        /\ \A l, late : Before(q, l, late) /\ m \notin late => Before(Append(q, m), l, late)
    BY <2>4, <2>8, Later
  <2> HIDE DEF x
  <2>10. ASSUME NEW c \in Clients PROVE Known(c)' /\ Ordered(c)'
    <3>1. Known(c) /\ Ordered(c)
      BY DEF AnswersInv
    <3>2. m # Entry(c) /\ m # Done(c) /\ (m = Get(c) => c = x)
      BY <2>3, TellApart
    <3>3. (Open(c)' <=> Open(c)) /\ (Early(c)' <=> Early(c))
      BY <1>1 DEF Open, Early
    <3>4. Served(c)' <=> Served(c)
      BY <1>1, <3>3 DEF Served
    <3>5. Mail(c)' => Mail(c) \/ c = x
      BY <2>6, <2>9, <3>2 DEF Mail, q, g
    <3>6. Open(c) /\ c = x => Served(c)
      BY <1>2 DEF Served, x
    <3>7. Known(c)'
      BY <1>1, <3>1, <3>3, <3>4, <3>5, <3>6 DEF Known, x
    <3>8. Ordered(c)'
      <4>1. First(q, Dims, {Entry(c), Done(c)}) => First(cmdq'["UI"], Dims, {Entry(c), Done(c)})
        BY <2>6, <2>9
      <4>2. Before(q, Entry(c), {Done(c)}) => Before(cmdq'["UI"], Entry(c), {Done(c)})
        <5>1. m \notin {Done(c)}
          BY <3>2
        <5> QED BY <2>6, <2>9, <5>1
      <4> QED BY <1>1, <3>1, <3>3, <3>4, <4>1, <4>2 DEF Ordered, q
    <3> QED BY <3>7, <3>8
  <2> QED BY <1>3, <2>7, <2>10 DEF AnswersInv
<1> QED BY <1>1, <1>4, <1>5

\* A report goes to the client it is for, in its turn, unless that is gone.
LEMMA UiRelaysKeepsAnswers ==
  ASSUME AnswersInv, LockInv, UiRelays, "error" \notin BrokenPipe PROVE AnswersInv'
<1> DEFINE q == cmdq["UI"]
           m == Head(q)
<1>1. /\ UiAt("ring") /\ q # <<>> /\ cmdq' = [cmdq EXCEPT !["UI"] = Tail(q)]
      /\ IF m.k \in Reports THEN Put("cmd", m) ELSE UNCHANGED <<srv, got, conn, ready, backlog>>
      /\ UNCHANGED <<client, up, upc, new_connection>>
  BY DEF UiRelays, peers, ui, process, sockets
<1>2. /\ SessionTypes /\ Loop /\ "cmd" \in Sockets /\ upc = "ring"
      /\ cmdq \in [CmdReaders -> Seq(Messages)] /\ {"UI", "CTRL"} \subseteq CmdReaders
      /\ q \in Seq(Messages)
  BY <1>1 DEF AnswersInv, SessionTypes, Sockets, CmdReaders, UiAt
<1>3. /\ Tail(q) \in Seq(Messages) /\ m \in Messages /\ Has(q, m)
      /\ \A l : Has(Tail(q), l) => Has(q, l)
      /\ \A l, late : First(q, l, late) /\ m # l => First(Tail(q), l, late)
      /\ \A l, late : First(q, l, late) /\ l \notin late => m \notin late
      /\ \A l, late : Before(q, l, late) /\ m # l => Before(Tail(q), l, late)
      /\ \A l, late : Before(q, l, late) => m \notin late
  BY <1>1, <1>2, Sooner
<1>4. /\ cmdq' \in [CmdReaders -> Seq(Messages)] /\ cmdq'["UI"] = Tail(q)
      /\ cmdq'["CTRL"] = cmdq["CTRL"]
  BY <1>1, <1>2, <1>3
<1> HIDE DEF m
<1>5. m.k \in Reports =>
        /\ ready' \in [Sockets -> BOOLEAN]
        /\ conn' \in [Sockets -> Clients \cup {None}]
        /\ backlog' \in [Sockets -> Seq(Clients)]
        /\ Comes("cmd") => /\ ~ready["cmd"] /\ conn'["cmd"] \in Clients
                           /\ Has(backlog["cmd"], conn'["cmd"])
                           /\ \A c : Has(backlog'["cmd"], c) => Has(backlog["cmd"], c)
        /\ ~Comes("cmd") => conn' = conn /\ backlog' = backlog
        /\ ready'["cmd"] <=> (ready["cmd"] \/ Comes("cmd"))
        /\ srv' \in {srv, "killed"}
        /\ got' = (IF ready'["cmd"] /\ Open(conn'["cmd"])
                   THEN [got EXCEPT ![conn'["cmd"]] = @ \cup {m}] ELSE got)
  <2>1. ready["cmd"] => conn["cmd"] # None
    BY <1>2 DEF Loop
  <2> QED BY <1>1, <1>2, <2>1, PutIs
<1>6. /\ ready' \in [Sockets -> BOOLEAN]
      /\ conn' \in [Sockets -> Clients \cup {None}]
      /\ backlog' \in [Sockets -> Seq(Clients)]
      /\ \/ ready["cmd"] /\ ready'["cmd"] /\ conn' = conn /\ backlog' = backlog
         \/ ~ready["cmd"] /\ ~ready'["cmd"] /\ conn' = conn /\ backlog' = backlog
         \/ /\ ~ready["cmd"] /\ ready'["cmd"] /\ conn'["cmd"] \in Clients
            /\ Has(backlog["cmd"], conn'["cmd"])
            /\ \A c : Has(backlog'["cmd"], c) => Has(backlog["cmd"], c)
      /\ srv' \in {srv, "killed"}
  BY <1>1, <1>2, <1>5 DEF SessionTypes, Comes
<1>7. /\ got' \in [Clients -> SUBSET (Messages \cup {Greeting})]
      /\ \A c \in Clients :
           /\ got'[c] \in {got[c], got[c] \cup {m}}
           /\ got'[c] # got[c] => Open(c) /\ conn'["cmd"] = c /\ ready'["cmd"]
           /\ m.k \in Reports /\ Open(c) /\ conn'["cmd"] = c /\ ready'["cmd"] => m \in got'[c]
  <2>1. got \in [Clients -> SUBSET (Messages \cup {Greeting})]
    BY <1>2 DEF SessionTypes
  <2>2. CASE m.k \notin Reports
    BY <1>1, <2>1, <2>2 DEF m
  <2>3. CASE m.k \in Reports
    <3>1. CASE ready'["cmd"] /\ Open(conn'["cmd"])
      <4>1. PICK d \in Clients : d = conn'["cmd"]
        BY <3>1 DEF Open
      <4>2. got' = [got EXCEPT ![d] = @ \cup {m}]
        BY <1>5, <2>3, <3>1, <4>1
      <4> QED BY <1>3, <2>1, <3>1, <4>1, <4>2
    <3>2. CASE ~(ready'["cmd"] /\ Open(conn'["cmd"]))
      BY <1>5, <2>1, <2>3, <3>2
    <3> QED BY <3>1, <3>2
  <2> QED BY <2>2, <2>3
<1>8. SessionTypes'
  BY <1>1, <1>2, <1>4, <1>6, <1>7 DEF SessionTypes
<1>9. Loop'
  <2>1. srv' \in {"up", "killed"}
    BY <1>1, <1>6, UpWith
  <2> QED BY <1>1, <1>2, <1>6, <2>1, SessionAssumption DEF Loop
<1> HIDE DEF q
<1>10. ASSUME NEW c \in Clients PROVE Known(c)' /\ Ordered(c)'
  <2>1. Known(c) /\ Ordered(c)
    BY DEF AnswersInv
  <2>2. (Open(c)' <=> Open(c)) /\ (Early(c)' <=> Early(c)) /\ (Mail(c)' => Mail(c))
    BY <1>1, <1>3, <1>4 DEF Open, Early, Mail, q
  <2>3. Served(c)' <=> Served(c)
    BY <1>1, <1>2, <1>6, <2>2 DEF Served, Loop
  <2>4. Known(c)'
    <3>1. Early(c) => conn'["cmd"] # c /\ ~Has(backlog'["cmd"], c)
      BY <1>6, <2>1 DEF Known
    <3>2. ~Open(c) => got'[c] = {}
      BY <1>7, <2>1 DEF Known
    <3> QED BY <2>1, <2>2, <2>3, <3>1, <3>2 DEF Known
  <2>5. got[c] \subseteq got'[c]
    BY <1>7
  <2>6. m = Dims \/ m = Entry(c) \/ m = Done(c) => m.k \in Reports
    BY <1>3, Kinds
  <2>7. Served(c) => conn'["cmd"] = c /\ ready'["cmd"]
    BY <1>6 DEF Served
  <2>8. Open(c) /\ (m = Entry(c) \/ m = Done(c)) => Served(c)
    BY <1>3, <2>1 DEF Known, Mail, q
  <2>9. Served(c)' => /\ Greeting \in got'[c]
                      /\ Dims \in got'[c] \/ First(cmdq'["UI"], Dims, {Entry(c), Done(c)})
    <3>1. Served(c) /\ m = Dims => Dims \in got'[c]
      BY <1>7, <2>6, <2>7 DEF Served
    <3>2. Served(c) => Dims \in got[c] \/ First(q, Dims, {Entry(c), Done(c)})
      BY <2>1 DEF Ordered, q
    <3> QED BY <1>3, <1>4, <2>1, <2>3, <2>5, <3>1, <3>2 DEF Ordered
  <2>10. Open(c)' => Entry(c) \in got'[c] \/ Before(cmdq'["UI"], Entry(c), {Done(c)})
    <3>1. Open(c) /\ m = Entry(c) => Entry(c) \in got'[c]
      BY <1>7, <2>6, <2>7, <2>8
    <3>2. Open(c) => Entry(c) \in got[c] \/ Before(q, Entry(c), {Done(c)})
      BY <2>1 DEF Ordered, q
    <3> QED BY <1>3, <1>4, <2>2, <2>5, <3>1, <3>2
  <2>11. Done(c) \in got'[c] => Greeting \in got'[c] /\ Dims \in got'[c] /\ Entry(c) \in got'[c]
    <3>1. CASE Done(c) \in got[c]
      BY <2>1, <2>5, <3>1 DEF Ordered
    <3>2. CASE Done(c) \in got'[c] /\ Done(c) \notin got[c]
      <4>1. m = Done(c) /\ Open(c)
        BY <1>7, <3>2
      <4>2. Served(c)
        BY <2>8, <4>1
      <4>3. Greeting \in got[c] /\ (Dims \in got[c] \/ First(q, Dims, {Entry(c), Done(c)}))
            /\ (Entry(c) \in got[c] \/ Before(q, Entry(c), {Done(c)}))
        BY <2>1, <4>1, <4>2 DEF Ordered, q
      <4>4. Dims \notin {Entry(c), Done(c)}
        BY TellApart
      <4>5. Dims \in got[c] /\ Entry(c) \in got[c]
        BY <1>3, <4>1, <4>3, <4>4
      <4> QED BY <2>5, <4>3, <4>5
    <3> QED BY <3>1, <3>2
  <2> QED BY <2>4, <2>9, <2>10, <2>11 DEF Ordered
<1> QED BY <1>8, <1>9, <1>10 DEF AnswersInv

\* The waterfall's socket is another.
LEMMA WaterfallKeepsAnswers ==
  ASSUME AnswersInv, LockInv, UiTakesBuffer \/ UiSendsSpectrum, "error" \notin BrokenPipe
  PROVE  AnswersInv'
<1>1. SessionTypes /\ Loop /\ {"cmd", "wfall"} \subseteq Sockets /\ "cmd" # "wfall"
  BY DEF AnswersInv, Sockets
<1>2. /\ ready' \in [Sockets -> BOOLEAN] /\ conn' \in [Sockets -> Clients \cup {None}]
      /\ backlog' \in [Sockets -> Seq(Clients)]
      /\ ready'["cmd"] = ready["cmd"] /\ conn'["cmd"] = conn["cmd"] /\ backlog'["cmd"] = backlog["cmd"]
      /\ UNCHANGED <<client, up, got, cmdq, new_connection>>
      /\ upc' \in {"fft", "if"} /\ srv' \in {srv, "killed"} /\ srv = "up"
  <2>1. CASE UiTakesBuffer
    <3>1. /\ Look("wfall") /\ UiAt("if")
          /\ UNCHANGED <<srv, client, up, got, cmdq, new_connection>> /\ upc' \in {"fft", "if"}
      BY <2>1 DEF UiTakesBuffer, process, peers
    <3> QED BY <1>1, <3>1, LookIs, UpWith
  <2>2. CASE UiSendsSpectrum
    <3>1. /\ Put("wfall", [k |-> "spectrum"]) /\ UiAt("fft")
          /\ UNCHANGED <<client, up, cmdq, new_connection>> /\ upc' = "if"
      BY <2>2 DEF UiSendsSpectrum, peers, boxes
    <3> DEFINE m == [k |-> "spectrum"]
    <3> HIDE DEF m
    <3>2. Put("wfall", m)
      BY <3>1 DEF m
    <3>3. UNCHANGED got
      BY <3>1 DEF Put
    <3> QED BY <1>1, <3>1, <3>2, <3>3, PutIs, UpWith
  <2> QED BY <2>1, <2>2
<1>3. SessionTypes'
  BY <1>1, <1>2 DEF SessionTypes
<1>4. Loop'
  BY <1>1, <1>2 DEF Loop
<1>5. EveryClient'
  <2>1. UNCHANGED view
    BY <1>2 DEF view
  <2> QED BY <2>1, ViewStays DEF AnswersInv, EveryClient
<1> QED BY <1>2, <1>3, <1>4, <1>5 DEF AnswersInv, EveryClient

LEMMA RxTakesKeepsAnswers == ASSUME AnswersInv, RxTakes PROVE AnswersInv'
<1>1. /\ cmdq["RX"] # <<>> /\ cmdq' = [cmdq EXCEPT !["RX"] = Tail(@)]
      /\ UNCHANGED <<srv, client, up, got, conn, ready, backlog, upc, new_connection>>
  BY DEF RxTakes, Takes, peers, sockets, ui
<1>2. cmdq \in [CmdReaders -> Seq(Messages)] /\ {"UI", "CTRL", "RX"} \subseteq CmdReaders
  BY DEF AnswersInv, SessionTypes, CmdReaders
<1>3. Tail(cmdq["RX"]) \in Seq(Messages)
  BY <1>1, <1>2
<1>4. cmdq' \in [CmdReaders -> Seq(Messages)] /\ UNCHANGED <<cmdq["UI"], cmdq["CTRL"]>>
  BY <1>1, <1>2, <1>3
<1>5. SessionTypes' /\ Loop'
  BY <1>1, <1>4 DEF AnswersInv, SessionTypes, Loop
<1>6. EveryClient'
  <2>1. UNCHANGED view
    BY <1>1, <1>4 DEF view
  <2> QED BY <2>1, ViewStays DEF AnswersInv, EveryClient
<1> QED BY <1>5, <1>6 DEF AnswersInv, EveryClient

\* USRPCtrl's answer has its entries before its end.
LEMMA CtrlTakesKeepsAnswers == ASSUME AnswersInv, CtrlTakes PROVE AnswersInv'
<1> DEFINE g == cmdq["CTRL"]
           q == cmdq["UI"]
           m == Head(g)
           answer == IF m.k # "GET" THEN <<>> ELSE <<Entry(m.by), Done(m.by)>>
<1>1. /\ g # <<>> /\ cmdq' = [cmdq EXCEPT !["CTRL"] = Tail(@), !["UI"] = @ \o answer]
      /\ UNCHANGED <<srv, client, up, got, conn, ready, backlog, upc, new_connection>>
  BY DEF CtrlTakes, Takes, peers, sockets, ui, Entry, Done
<1>2. /\ cmdq \in [CmdReaders -> Seq(Messages)] /\ {"UI", "CTRL"} \subseteq CmdReaders
      /\ "UI" # "CTRL" /\ g \in Seq(Messages) /\ q \in Seq(Messages)
  BY DEF AnswersInv, SessionTypes, CmdReaders
<1>3. /\ Tail(g) \in Seq(Messages) /\ m \in Messages /\ Has(g, m)
      /\ \A l : Has(Tail(g), l) => Has(g, l)
  BY <1>1, <1>2, Sooner
<1> HIDE DEF m
<1>4. CASE m.k # "GET"
  <2>1. q \o answer = q
    BY <1>2, <1>4
  <2>2. /\ cmdq' \in [CmdReaders -> Seq(Messages)] /\ cmdq'["UI"] = q /\ cmdq'["CTRL"] = Tail(g)
    BY <1>1, <1>2, <1>3, <2>1
  <2>3. SessionTypes' /\ Loop'
    BY <1>1, <2>2 DEF AnswersInv, SessionTypes, Loop
  <2>4. ASSUME NEW c \in Clients PROVE Known(c)' /\ Ordered(c)'
    <3>1. Known(c) /\ Ordered(c)
      BY DEF AnswersInv
    <3>2. (Open(c)' <=> Open(c)) /\ (Early(c)' <=> Early(c)) /\ (Mail(c)' => Mail(c))
      BY <1>1, <1>3, <2>2 DEF Open, Early, Mail
    <3>3. Served(c)' <=> Served(c)
      BY <1>1, <3>2 DEF Served
    <3> QED BY <1>1, <2>2, <3>1, <3>2, <3>3 DEF Known, Ordered
  <2> QED BY <2>3, <2>4 DEF AnswersInv
<1>5. CASE m.k = "GET"
  <2> DEFINE x == m.by
             e == Entry(x)
             d == Done(x)
             r == Append(q, e)
             z == Append(r, d)
  <2>1. m = Get(x) /\ x \in Clients
    BY <1>3, <1>5, Kinds
  <2>2. e \in Messages /\ d \in Messages
    BY <2>1 DEF Messages
  <2>3. q \o answer = z
    <3>1. answer = <<e, d>>
      BY <1>5
    <3> HIDE DEF e, d, q, answer
    <3> QED BY <1>2, <2>2, <3>1
  <2>4. /\ r \in Seq(Messages)
        /\ \A l : Has(r, l) <=> (Has(q, l) \/ l = e)
        /\ \A l, late : First(q, l, late) => First(r, l, late)
        /\ \A l, late : Before(q, l, late) /\ (e \in late => Has(q, l)) => Before(r, l, late)
    BY <1>2, <2>2, Later
  <2> HIDE DEF r
  <2>5. /\ z \in Seq(Messages)
        /\ \A l : Has(z, l) <=> (Has(r, l) \/ l = d)
        /\ \A l, late : First(r, l, late) => First(z, l, late)
        /\ \A l, late : Before(r, l, late) /\ (d \in late => Has(r, l)) => Before(z, l, late)
    BY <2>2, <2>4, Later
  <2> HIDE DEF z, answer
  <2>6. /\ cmdq' \in [CmdReaders -> Seq(Messages)] /\ cmdq'["UI"] = z /\ cmdq'["CTRL"] = Tail(g)
    BY <1>1, <1>2, <1>3, <2>3, <2>5
  <2>7. SessionTypes' /\ Loop'
    BY <1>1, <2>6 DEF AnswersInv, SessionTypes, Loop
  <2> HIDE DEF x, g, q
  <2>8. ASSUME NEW c \in Clients PROVE Known(c)' /\ Ordered(c)'
    <3>1. Known(c) /\ Ordered(c)
      BY DEF AnswersInv
    <3>2. (e = Entry(c) => c = x) /\ (d = Done(c) => c = x) /\ e # Done(c) /\ d # Entry(c)
      BY TellApart
    <3>3. Mail(x)
      BY <1>3, <2>1 DEF Mail, g
    <3>4. (Open(c)' <=> Open(c)) /\ (Early(c)' <=> Early(c))
      BY <1>1 DEF Open, Early
    <3>5. Mail(c)' => Mail(c)
      BY <1>3, <2>4, <2>5, <2>6, <3>2, <3>3 DEF Mail, g, q
    <3>6. Served(c)' <=> Served(c)
      BY <1>1, <3>4 DEF Served
    <3>7. Known(c)'
      BY <1>1, <3>1, <3>4, <3>5, <3>6 DEF Known
    <3>8. First(q, Dims, {Entry(c), Done(c)}) => First(cmdq'["UI"], Dims, {Entry(c), Done(c)})
      BY <2>4, <2>5, <2>6
    <3>9. Before(q, Entry(c), {Done(c)}) => Before(cmdq'["UI"], Entry(c), {Done(c)})
      <4>1. e \notin {Done(c)}
        BY <3>2
      <4>2. d \in {Done(c)} => Has(r, Entry(c))
        BY <2>4, <3>2
      <4> QED BY <2>4, <2>5, <2>6, <4>1, <4>2
    <3>10. Ordered(c)'
      BY <1>1, <3>1, <3>4, <3>6, <3>8, <3>9 DEF Ordered, q
    <3> QED BY <3>7, <3>10
  <2> QED BY <2>7, <2>8 DEF AnswersInv
<1> QED BY <1>4, <1>5

LEMMA AnswersKept ==
  ASSUME "error" \notin BrokenPipe, AnswersInv, LockInv, [Next]_vars PROVE AnswersInv'
<1>1. CASE MainSteps
  BY <1>1, ElsewhereKeepsAnswers, OffKeepsAnswers, StartThreadsKeepsAnswers DEF MainSteps
<1>2. CASE UiSteps
  BY <1>2, UiLooksKeepsAnswers, UiGreetsKeepsAnswers, UiGetsKeepsAnswers,
     UiRelaysKeepsAnswers, WaterfallKeepsAnswers, ElsewhereKeepsAnswers DEF UiSteps
<1>3. CASE \E c \in Clients : Launch(c) \/ Connect(c) \/ CloseRadio(c) \/ Leave(c) \/ Ask(c)
  BY <1>3, LaunchKeepsAnswers, ConnectKeepsAnswers, WritesKeepAnswers, LeaveKeepsAnswers
<1>4. CASE \/ CleanUp \/ RxCollects \/ RxCollected \/ GpsTakes
           \/ \E caught \in BOOLEAN : NoRadio(caught)
  BY <1>4, ElsewhereKeepsAnswers
<1>5. CASE CtrlTakes \/ RxTakes
  BY <1>5, CtrlTakesKeepsAnswers, RxTakesKeepsAnswers
<1>6. CASE UNCHANGED vars
  <2>1. UNCHANGED <<srv, client, up, got, conn, ready, backlog, cmdq, upc, new_connection>>
    BY <1>6 DEF vars, process, peers, sockets, boxes, ui
  <2>2. SessionTypes' /\ Loop'
    BY <2>1 DEF AnswersInv, SessionTypes, Loop
  <2>3. EveryClient'
    <3>1. UNCHANGED view
      BY <2>1 DEF view
    <3> QED BY <3>1, ViewStays DEF AnswersInv, EveryClient
  <2> QED BY <2>2, <2>3 DEF AnswersInv, EveryClient
<1> QED BY <1>1, <1>2, <1>3, <1>4, <1>5, <1>6 DEF Next

LEMMA AnswersBegin == ASSUME Init PROVE AnswersInv
<1>1. SessionTypes
  BY DEF Init, SessionTypes, Lives
<1>2. Loop
  BY DEF Init, Loop, Sockets
<1>3. ASSUME NEW c \in Clients PROVE Known(c) /\ Ordered(c)
  <2>1. /\ client[c] = "idle" /\ got[c] = {} /\ conn["cmd"] = None /\ backlog["cmd"] = <<>>
        /\ ready["cmd"] = FALSE /\ cmdq["UI"] = <<>> /\ cmdq["CTRL"] = <<>>
    BY DEF Init, Sockets, CmdReaders
  <2>2. ~Open(c) /\ ~Mail(c) /\ ~Served(c) /\ ~Has(backlog["cmd"], c)
    BY <2>1 DEF Open, Mail, Served, Has
  <2>3. c # None
    BY SessionAssumption
  <2> QED BY <2>1, <2>2, <2>3 DEF Known, Ordered
<1> QED BY <1>1, <1>2, <1>3 DEF AnswersInv

\* As long as a write to a client that is gone kills the server, as SIGPIPE does,
\* only the client that is served, and that has been greeted, has anything on its
\* way, and that is in order.
THEOREM AnswersInvariant ==
  ASSUME "error" \notin BrokenPipe PROVE Spec => []AnswersInv
<1>1. AnswersInv /\ LockInv /\ [Next]_vars => AnswersInv'
  BY AnswersKept
<1>2. Init => AnswersInv
  BY AnswersBegin
<1> QED BY <1>1, <1>2, LockInvariant, PTL DEF Spec

\* Whatever clients come, leave, or find the server of another, who gets the end
\* of the answer has got the greeting, the dimensions and the entries before.
THEOREM AnswersComeInOrder ==
  ASSUME "error" \notin BrokenPipe PROVE Spec => []AnswersInOrder
BY AnswersInvariant, AnswersInvCovers, PTL
=============================================================================
