---------------------------- MODULE CWTextProofs ----------------------------
(***************************************************************************)
(* For any amount of text, any size of buffer and any client: how far CWTX *)
(* runs ahead of the transmitter, when a marker comes back, that CWTX and  *)
(* USRPTX keep to the mode and the count of a careful client, and that the *)
(* buffers hold the keying of the text.                                    *)
(***************************************************************************)
EXTENDS CWText, Keyer, FiniteSetTheorems, FunctionTheorems, SequenceTheorems,
        WellFoundedInduction, TLAPS

\* Characters and markers by their number, and the commands that CWTX takes.
Serials == 1 .. MaxText
CwtxCmds == [t : {"TX_STATE"}, v : {2, 3}]
              \cup [t : {"TX_BEACON", "TX_MODE"}, v : {0, 1}]
              \cup [t : {"TX_CW_TEXT", "TX_CW_MARKER"}, v : Serials]
              \cup [t : {"TX_CW_FLUSHTEXT", "TX_CW_EMPTY"}, v : {0}]

\* Where characters are kept, each place holds characters.
TextTypes ==
  /\ cwq \in Seq(CwtxCmds)
  /\ text_queue \in Seq(Serials \cup {ETX})
  /\ coming \in Seq(Serials) /\ env \in Seq(Serials)
  /\ n_text \in 0 .. MaxText

AheadInv == TextTypes /\ AheadBounded

LEMMA InitAhead == Init => AheadInv
  BY CWAssumption DEF Init, AheadInv, TextTypes, AheadBounded

\* The client adds a command to CWTX's queue and touches nothing else here.
LEMMA ClientKeeps ==
  ASSUME AheadInv, Client
  PROVE  AheadInv'
  <1>1. UNCHANGED <<text_queue, coming, env>>
    BY DEF Client, Type, Mark, Flush, Ask, Key, Carrier, Mode, Radio, cwtx, cwgen
  <1>2. /\ n_text' \in 0 .. MaxText
        /\ \/ UNCHANGED cwq
           \/ \E c \in CwtxCmds : cwq' = Append(cwq, c)
    <2>1. CASE Type
      <3>1. n_text' \in Serials
        BY <2>1, CWAssumption DEF Type, AheadInv, TextTypes, Serials
      <3>2. Cmd("TX_CW_TEXT", n_text') \in CwtxCmds
        BY <3>1 DEF Cmd, CwtxCmds
      <3>3. QED
        BY <2>1, <3>1, <3>2, CWAssumption DEF Type, ToCwtx, Serials
    <2>2. CASE Mark
      <3>1. n_text' \in Serials
        BY <2>2, CWAssumption DEF Mark, AheadInv, TextTypes, Serials
      <3>2. Cmd("TX_CW_MARKER", n_text') \in CwtxCmds
        BY <3>1 DEF Cmd, CwtxCmds
      <3>3. QED
        BY <2>2, <3>1, <3>2, CWAssumption DEF Mark, ToCwtx, Serials
    <2>3. CASE Flush
      <3>1. Cmd("TX_CW_FLUSHTEXT", 0) \in CwtxCmds
        BY DEF Cmd, CwtxCmds
      <3>2. QED
        BY <2>3, <3>1 DEF Flush, ToCwtx, AheadInv, TextTypes
    <2>4. ASSUME NEW on \in BOOLEAN, Key(on) \/ Carrier(on) \/ Mode(on)
          PROVE  n_text' = n_text /\ \E c \in CwtxCmds : cwq' = Append(cwq, c)
      <3>1. /\ Cmd("TX_STATE", Flag(on) + 2) \in CwtxCmds
            /\ Cmd("TX_BEACON", Flag(on)) \in CwtxCmds
            /\ Cmd("TX_MODE", Flag(on)) \in CwtxCmds
        BY DEF Cmd, CwtxCmds, Flag
      <3>2. QED
        BY <2>4, <3>1 DEF Key, Carrier, Mode, ToBoth
    <2>5. CASE Ask
      BY <2>5 DEF Ask, AheadInv, TextTypes
    <2>6. QED
      BY <2>1, <2>2, <2>3, <2>4, <2>5 DEF Client, AheadInv, TextTypes
  <1>3. cwq' \in Seq(CwtxCmds)
    <2>1. cwq \in Seq(CwtxCmds)
      BY DEF AheadInv, TextTypes
    <2>2. CASE UNCHANGED cwq
      BY <2>1, <2>2
    <2>3. ASSUME NEW c \in CwtxCmds, cwq' = Append(cwq, c)
          PROVE  cwq' \in Seq(CwtxCmds)
      BY <2>1, <2>3
    <2>4. QED
      BY <1>2, <2>2, <2>3
  <1>4. QED
    BY <1>1, <1>2, <1>3 DEF AheadInv, TextTypes, AheadBounded

LEMMA CwtxTakesKeeps ==
  ASSUME AheadInv, CwtxTakes
  PROVE  AheadInv'
  <1>1. /\ UNCHANGED <<coming, env, n_text>>
        /\ cwq' = Tail(cwq) /\ cwq # <<>>
    BY DEF CwtxTakes, cwgen, client
  <1>2. Head(cwq) \in CwtxCmds
    BY <1>1 DEF AheadInv, TextTypes
  <1>3. text_queue' \in Seq(Serials \cup {ETX})
    <2> DEFINE c == Head(cwq)
    <2>1. \/ UNCHANGED text_queue
          \/ c.t = "TX_CW_TEXT" /\ text_queue' = Append(text_queue, c.v)
          \/ text_queue' = Append(text_queue, ETX)
          \/ text_queue' = <<>>
      BY DEF CwtxTakes, texts, ClearTextQueue
    <2>2. c.t = "TX_CW_TEXT" => c.v \in Serials
      BY <1>2 DEF CwtxCmds
    <2>3. text_queue \in Seq(Serials \cup {ETX})
      BY DEF AheadInv, TextTypes
    <2>4. ASSUME NEW e \in Serials \cup {ETX}
          PROVE  Append(text_queue, e) \in Seq(Serials \cup {ETX})
      BY <2>3
    <2>5. <<>> \in Seq(Serials \cup {ETX})
      OBVIOUS
    <2>6. QED
      BY <2>1, <2>2, <2>3, <2>4, <2>5
  <1>4. QED
    BY <1>1, <1>3 DEF AheadInv, TextTypes, AheadBounded

\* The only step that adds to what waits is taken below the limit, and adds at
\* most one character's buffers.
LEMMA CwtxSendsKeeps ==
  ASSUME AheadInv, CwtxSends
  PROVE  AheadInv'
  <1>1. /\ UNCHANGED <<cwq, env, n_text>>
        /\ coming = <<>> /\ Len(env) < MaxAhead
        /\ text_queue # <<>> /\ text_queue' = Tail(text_queue)
    BY DEF CwtxSends, client, ReadyForMore
  <1>2. Head(text_queue) \in Serials \cup {ETX}
        /\ text_queue' \in Seq(Serials \cup {ETX})
    BY <1>1 DEF AheadInv, TextTypes
  <1>3. coming' \in Seq(Serials) /\ Len(coming') <= MaxPost
    <2>1. CASE Head(text_queue) = ETX
      <3>1. coming' = <<>>
        BY <1>1, <2>1 DEF CwtxSends
      <3>2. QED
        BY <3>1, CWAssumption
    <2>2. CASE Head(text_queue) # ETX
      <3>1. PICK k \in 0 .. MaxPost : coming' = [i \in 1 .. k |-> Head(text_queue)]
        BY <2>2 DEF CwtxSends
      <3>2. Head(text_queue) \in Serials /\ k \in Nat
        BY <1>2, <2>2
      <3>3. QED
        BY <3>1, <3>2
    <2>3. QED
      BY <2>1, <2>2
  <1>4. QED
    BY <1>1, <1>2, <1>3, CWAssumption DEF AheadInv, TextTypes, AheadBounded

LEMMA CwtxPostsKeeps ==
  ASSUME AheadInv, CwtxPosts
  PROVE  AheadInv'
  <1>1. /\ UNCHANGED <<cwq, text_queue, n_text>>
        /\ coming # <<>> /\ coming' = Tail(coming)
        /\ env' = Append(env, Head(coming))
    BY DEF CwtxPosts, mail, cwtx, client
  <1>2. Head(coming) \in Serials /\ coming' \in Seq(Serials)
        /\ Len(coming') = Len(coming) - 1
    BY <1>1 DEF AheadInv, TextTypes
  <1>3. env' \in Seq(Serials) /\ Len(env') = Len(env) + 1
    BY <1>1, <1>2 DEF AheadInv, TextTypes
  <1>4. QED
    BY <1>1, <1>2, <1>3, CWAssumption DEF AheadInv, TextTypes, AheadBounded

LEMMA UsrptxKeeps ==
  ASSUME AheadInv, Usrptx
  PROVE  AheadInv'
  <1>1. UNCHANGED <<text_queue, coming, n_text>>
    BY DEF Usrptx, TxTakes, TxSends, TxFindsDry, TxReports, cwtx, cwgen, client
  <1>2. CASE TxSends
    <2>1. env # <<>> /\ env' = Tail(env) /\ UNCHANGED cwq
      BY <1>2 DEF TxSends, mail
    <2>2. env' \in Seq(Serials) /\ Len(env') = Len(env) - 1
      BY <2>1 DEF AheadInv, TextTypes
    <2>3. QED
      BY <1>1, <2>1, <2>2, CWAssumption DEF AheadInv, TextTypes, AheadBounded
  <1>3. CASE TxTakes \/ TxFindsDry
    <2>1. UNCHANGED <<cwq, env>>
      BY <1>3 DEF TxTakes, TxFindsDry, mail
    <2>2. QED
      BY <1>1, <2>1 DEF AheadInv, TextTypes, AheadBounded
  <1>4. CASE TxReports
    <2>1. UNCHANGED env /\ cwq' = Append(cwq, Cmd("TX_CW_EMPTY", 0))
      BY <1>4 DEF TxReports
    <2>2. Cmd("TX_CW_EMPTY", 0) \in CwtxCmds
      BY DEF Cmd, CwtxCmds
    <2>3. QED
      BY <1>1, <2>1, <2>2 DEF AheadInv, TextTypes, AheadBounded
  <1>5. QED
    BY <1>2, <1>3, <1>4 DEF Usrptx

LEMMA StepAhead ==
  ASSUME AheadInv, [Next]_vars
  PROVE  AheadInv'
  <1>1. CASE CwtxStarts \/ CwtxStops \/ UNCHANGED vars
    <2>1. UNCHANGED <<cwq, text_queue, coming, env, n_text>>
      BY <1>1 DEF CwtxStarts, CwtxStops, vars, mail, cwtx, cwgen, client
    <2>2. QED
      BY <2>1 DEF AheadInv, TextTypes, AheadBounded
  <1>2. QED
    BY <1>1, ClientKeeps, CwtxTakesKeeps, CwtxSendsKeeps, CwtxPostsKeeps,
       UsrptxKeeps DEF Next, Cwtx

\* However long the text and whenever the transmitter stops, CWTX never has
\* more than a second of envelope and one character waiting
\* (CWGenerator::readyForMore, CWTX::sendAvailChar).
THEOREM BackPressure == Spec => []AheadBounded
  <1>1. AheadInv => AheadBounded
    BY DEF AheadInv
  <1>2. QED
    BY <1>1, InitAhead, StepAhead, PTL DEF Spec

-----------------------------------------------------------------------------
(* Markers.  What reports a marker passes through is an ETX in the text, a *)
(* request in USRPTX's queue, USRPTX's flag and a report in CWTX's queue.  *)
(* Each stands for a tag of CWTX's queue of tags or an earlier one: tags   *)
(* rise from the last of these stages back to the text.                    *)

Empty == Cmd("TX_CW_EMPTY", 0)

\* The tags a of those of q that are in X: they rise, above lo and up to hi.
Rising(q, X, a, lo, hi) ==
  /\ a \in Seq(Nat) /\ Len(a) = Len(q)
  /\ \A i \in 1 .. Len(q) : q[i] \in X => lo < a[i] /\ a[i] <= hi
  /\ \A i, j \in 1 .. Len(q) : q[i] \in X /\ q[j] \in X /\ i < j => a[i] < a[j]

Tags(q, X, a) == {a[i] : i \in {j \in 1 .. Len(q) : q[j] \in X}}

\* No character of q precedes the marker with tag x.
NoneBelow(q, x) == \A i \in 1 .. Len(q) : q[i] # ETX => x <= q[i]

\* In the text no character behind a marker precedes it.
Apart(q, d) ==
  \A i, j \in 1 .. Len(q) : q[i] = ETX /\ q[j] # ETX /\ i < j => d[i] <= q[j]

Holds(q, x) == \E i \in 1 .. Len(q) : q[i] = x

LEMMA Appended ==
  ASSUME NEW S, NEW q \in Seq(S), NEW x \in S
  PROVE  /\ Append(q, x) \in Seq(S) /\ Len(q) \in Nat /\ Len(Append(q, x)) = Len(q) + 1
         /\ Append(q, x)[Len(q) + 1] = x
         /\ \A i \in 1 .. Len(q) : i \in 1 .. Len(q) + 1 /\ Append(q, x)[i] = q[i]
         /\ \A i \in 1 .. Len(q) + 1 : i \in 1 .. Len(q) \/ i = Len(q) + 1
OBVIOUS

LEMMA Shifted ==
  ASSUME NEW S, NEW q \in Seq(S), q # <<>>
  PROVE  /\ Tail(q) \in Seq(S) /\ Len(q) \in Nat /\ Len(Tail(q)) = Len(q) - 1
         /\ Head(q) = q[1] /\ Head(q) \in S /\ 1 \in 1 .. Len(q)
         /\ \A i \in 1 .. Len(q) - 1 : i + 1 \in 1 .. Len(q) /\ Tail(q)[i] = q[i + 1]
         /\ \A i \in 1 .. Len(q) : i = 1 \/ (i - 1 \in 1 .. Len(q) - 1 /\ Tail(q)[i - 1] = q[i])
<1>1. /\ Tail(q) \in Seq(S) /\ Len(q) \in Nat /\ Len(Tail(q)) = Len(q) - 1
      /\ Head(q) = q[1] /\ Head(q) \in S /\ Len(q) >= 1
      /\ \A i \in 1 .. Len(q) - 1 : Tail(q)[i] = q[i + 1]
  OBVIOUS
<1> DEFINE t == Tail(q)
           n == Len(q)
<1> HIDE DEF t, n
<1>2. n \in Nat /\ n >= 1 /\ \A i \in 1 .. n - 1 : t[i] = q[i + 1]
  BY <1>1 DEF t, n
<1>3. \A i \in 1 .. n : i = 1 \/ (i - 1 \in 1 .. n - 1 /\ t[i - 1] = q[i])
  <2> TAKE i \in 1 .. n
  <2>1. CASE i # 1
    <3>1. i - 1 \in 1 .. n - 1 /\ (i - 1) + 1 = i
      BY <1>2, <2>1
    <3>2. t[i - 1] = q[(i - 1) + 1]
      BY <1>2, <3>1
    <3> QED BY <3>1, <3>2
  <2> QED BY <2>1
<1>4. \A i \in 1 .. n - 1 : i + 1 \in 1 .. n
  BY <1>2
<1> QED BY <1>1, <1>3, <1>4 DEF t, n

LEMMA RisingAppended ==
  ASSUME NEW S, NEW q \in Seq(S), NEW x \in S, NEW X, NEW a, NEW lo \in Nat, NEW hi \in Nat,
         Rising(q, X, a, lo, hi), NEW v \in Nat, NEW top \in Nat,
         x \in X => lo < v /\ hi < v /\ v <= top, hi <= top
  PROVE  /\ Rising(Append(q, x), X, Append(a, v), lo, top)
         /\ \A y \in Tags(Append(q, x), X, Append(a, v)) : y \in Tags(q, X, a) \/ (x \in X /\ y = v)
<1> DEFINE r == Append(q, x)
           b == Append(a, v)
           n == Len(q)
<1>1. /\ n \in Nat /\ Len(r) = n + 1 /\ r[n + 1] = x
      /\ \A i \in 1 .. n : i \in 1 .. n + 1 /\ r[i] = q[i]
      /\ \A i \in 1 .. n + 1 : i \in 1 .. n \/ i = n + 1
  BY Appended
<1>2. a \in Seq(Nat) /\ Len(a) = n
  BY DEF Rising
<1>3. /\ b \in Seq(Nat) /\ Len(b) = n + 1 /\ b[n + 1] = v
      /\ \A i \in 1 .. n : b[i] = a[i]
  BY <1>2, Appended
<1>4. \A i \in 1 .. n : a[i] \in Nat
  BY <1>2
<1> HIDE DEF r, b
<1>5. \A i \in 1 .. n : q[i] \in X => lo < a[i] /\ a[i] <= hi
  BY DEF Rising, n
<1>6. \A i, j \in 1 .. n : q[i] \in X /\ q[j] \in X /\ i < j => a[i] < a[j]
  BY DEF Rising, n
<1> HIDE DEF n
<1>7. \A i \in 1 .. n + 1 : r[i] \in X => lo < b[i] /\ b[i] <= top
  BY <1>1, <1>3, <1>4, <1>5, SMTT(30)
<1>8. \A i, j \in 1 .. n + 1 : r[i] \in X /\ r[j] \in X /\ i < j => b[i] < b[j]
  <2> SUFFICES ASSUME NEW i \in 1 .. n + 1, NEW j \in 1 .. n + 1,
                      r[i] \in X, r[j] \in X, i < j
               PROVE  b[i] < b[j]
    OBVIOUS
  <2>1. i \in 1 .. n
    BY <1>1
  <2>2. CASE j \in 1 .. n
    BY <1>1, <1>3, <1>6, <2>1, <2>2
  <2>3. CASE j = n + 1
    BY <1>1, <1>3, <1>4, <1>5, <2>1, <2>3
  <2> QED BY <1>1, <2>2, <2>3
<1>9. \A y \in Tags(r, X, b) : y \in Tags(q, X, a) \/ (x \in X /\ y = v)
  <2> SUFFICES ASSUME NEW i \in 1 .. n + 1, r[i] \in X
               PROVE  b[i] \in Tags(q, X, a) \/ (x \in X /\ b[i] = v)
    BY <1>1 DEF Tags
  <2>1. CASE i \in 1 .. n
    BY <1>1, <1>3, <2>1 DEF Tags, n
  <2> QED BY <1>1, <1>3, <2>1
<1> QED BY <1>1, <1>3, <1>7, <1>8, <1>9 DEF Rising, r, b

\* One more of those that carry a tag.
LEMMA RisingOn ==
  ASSUME NEW S, NEW q \in Seq(S), NEW x \in S, NEW a, NEW lo \in Nat, NEW hi \in Nat,
         Rising(q, {x}, a, lo, hi), NEW v \in Nat, NEW top \in Nat,
         lo < v, hi < v, v <= top
  PROVE  /\ Rising(Append(q, x), {x}, Append(a, v), lo, top)
         /\ Tags(Append(q, x), {x}, Append(a, v)) \subseteq Tags(q, {x}, a) \cup {v}
<1> DEFINE X == {x}
<1>1. hi <= top /\ (x \in X => lo < v /\ hi < v /\ v <= top) /\ Rising(q, X, a, lo, hi)
  OBVIOUS
<1> HIDE DEF X
<1>2. /\ Rising(Append(q, x), X, Append(a, v), lo, top)
      /\ \A y \in Tags(Append(q, x), X, Append(a, v)) : y \in Tags(q, X, a) \/ (x \in X /\ y = v)
  BY <1>1, RisingAppended
<1> QED BY <1>2 DEF X

LEMMA RisingShifted ==
  ASSUME NEW S, NEW q \in Seq(S), q # <<>>, NEW X, NEW a, NEW lo \in Nat, NEW hi \in Nat,
         Rising(q, X, a, lo, hi)
  PROVE  /\ Rising(Tail(q), X, Tail(a), lo, hi)
         /\ \A y \in Tags(Tail(q), X, Tail(a)) : y \in Tags(q, X, a)
         /\ a[1] \in Nat
         /\ Head(q) \in X => /\ Rising(Tail(q), X, Tail(a), a[1], hi)
                             /\ a[1] \in Tags(q, X, a) /\ lo < a[1] /\ a[1] <= hi
<1> DEFINE r == Tail(q)
           b == Tail(a)
           n == Len(q)
<1>1. /\ n \in Nat /\ Len(r) = n - 1 /\ Head(q) = q[1] /\ 1 \in 1 .. n
      /\ \A i \in 1 .. n - 1 : i + 1 \in 1 .. n /\ r[i] = q[i + 1]
  BY Shifted
<1>2. a \in Seq(Nat) /\ Len(a) = n /\ a # <<>>
  BY <1>1 DEF Rising
<1>3. /\ b \in Seq(Nat) /\ Len(b) = n - 1
      /\ \A i \in 1 .. n - 1 : b[i] = a[i + 1]
  BY <1>2, Shifted
<1>4. \A i \in 1 .. n : a[i] \in Nat
  BY <1>2
<1> HIDE DEF r, b
<1>5. \A i \in 1 .. n : q[i] \in X => lo < a[i] /\ a[i] <= hi
  BY DEF Rising, n
<1>6. \A i, j \in 1 .. n : q[i] \in X /\ q[j] \in X /\ i < j => a[i] < a[j]
  BY DEF Rising, n
<1>7. \A y \in Tags(r, X, b) : y \in Tags(q, X, a)
  <2> TAKE y \in Tags(r, X, b)
  <2>1. PICK i \in 1 .. n - 1 : r[i] \in X /\ y = b[i]
    BY <1>1 DEF Tags
  <2>2. i + 1 \in 1 .. n /\ q[i + 1] \in X /\ y = a[i + 1]
    BY <1>1, <1>3, <2>1
  <2> QED BY <2>2 DEF Tags
<1>8. Head(q) \in X => a[1] \in Tags(q, X, a) /\ lo < a[1] /\ a[1] <= hi
  BY <1>1, <1>5 DEF Tags
<1> HIDE DEF n
<1>9. \A i, j \in 1 .. n - 1 : r[i] \in X /\ r[j] \in X /\ i < j => b[i] < b[j]
  <2> SUFFICES ASSUME NEW i \in 1 .. n - 1, NEW j \in 1 .. n - 1,
                      r[i] \in X, r[j] \in X, i < j
               PROVE  b[i] < b[j]
    OBVIOUS
  <2>1. i + 1 < j + 1 /\ i + 1 \in 1 .. n /\ j + 1 \in 1 .. n
    BY <1>1
  <2>2. a[i + 1] < a[j + 1]
    BY <1>1, <1>6, <2>1
  <2> QED BY <1>3, <2>2
<1>10. \A i \in 1 .. n - 1 : r[i] \in X =>
         lo < b[i] /\ b[i] <= hi /\ (q[1] \in X => a[1] < b[i])
  <2> SUFFICES ASSUME NEW i \in 1 .. n - 1, r[i] \in X
               PROVE  lo < b[i] /\ b[i] <= hi /\ (q[1] \in X => a[1] < b[i])
    OBVIOUS
  <2>1. i + 1 \in 1 .. n /\ 1 < i + 1 /\ q[i + 1] \in X /\ b[i] = a[i + 1]
    BY <1>1, <1>3
  <2> QED BY <1>1, <1>5, <1>6, <2>1
<1>11. Rising(r, X, b, lo, hi)
  BY <1>1, <1>3, <1>9, <1>10 DEF Rising
<1>12. q[1] \in X => Rising(r, X, b, a[1], hi)
  BY <1>1, <1>3, <1>9, <1>10 DEF Rising
<1> QED BY <1>1, <1>4, <1>7, <1>8, <1>11, <1>12 DEF r, b

LEMMA RisingAgain ==
  ASSUME NEW q, NEW X, NEW a, NEW lo, NEW hi, Rising(q, X, a, lo, hi), Len(q) \in Nat,
         lo \in Nat, hi \in Nat, NEW low \in Nat, low <= lo, NEW top \in Nat, hi <= top
  PROVE  Rising(q, X, a, low, top)
<1>1. /\ a \in Seq(Nat) /\ Len(a) = Len(q)
      /\ \A i \in 1 .. Len(q) : q[i] \in X => lo < a[i] /\ a[i] <= hi
      /\ \A i, j \in 1 .. Len(q) : q[i] \in X /\ q[j] \in X /\ i < j => a[i] < a[j]
  BY DEF Rising
<1>2. \A i \in 1 .. Len(q) : a[i] \in Nat
  BY <1>1
<1>3. \A i \in 1 .. Len(q) : q[i] \in X => low < a[i] /\ a[i] <= top
  BY <1>1, <1>2
<1> QED BY <1>1, <1>3 DEF Rising

LEMMA NothingRises ==
  ASSUME NEW X, NEW lo, NEW hi
  PROVE  Rising(<<>>, X, <<>>, lo, hi) /\ Tags(<<>>, X, <<>>) = {}
BY DEF Rising, Tags

LEMMA TagsAre ==
  ASSUME NEW q, NEW X, NEW a, NEW lo, NEW hi, Rising(q, X, a, lo, hi)
  PROVE  \A y \in Tags(q, X, a) : y \in Nat /\ lo < y /\ y <= hi
BY DEF Rising, Tags

LEMMA NoneBelowAppended ==
  ASSUME NEW S, NEW q \in Seq(S), NEW x \in S, NEW y, NoneBelow(q, y), x # ETX => y <= x
  PROVE  NoneBelow(Append(q, x), y)
BY Appended DEF NoneBelow

LEMMA NoneBelowShifted ==
  ASSUME NEW S, NEW q \in Seq(S), q # <<>>, NEW y, NoneBelow(q, y)
  PROVE  NoneBelow(Tail(q), y) /\ (Head(q) # ETX => y <= Head(q))
BY Shifted DEF NoneBelow

LEMMA ApartAppended ==
  ASSUME NEW S, NEW q \in Seq(S), NEW x \in S, NEW d \in Seq(Nat), Len(d) = Len(q), NEW v \in Nat,
         Apart(q, d), x # ETX => \A y \in Tags(q, {ETX}, d) : y <= x
  PROVE  Apart(Append(q, x), Append(d, v))
<1> DEFINE r == Append(q, x)
           b == Append(d, v)
           n == Len(q)
<1>1. /\ n \in Nat /\ Len(r) = n + 1 /\ r[n + 1] = x
      /\ \A i \in 1 .. n : r[i] = q[i]
      /\ \A i \in 1 .. n + 1 : i \in 1 .. n \/ i = n + 1
  BY Appended
<1>2. \A i \in 1 .. n : b[i] = d[i]
  BY Appended
<1> HIDE DEF r, b
<1>3. \A i \in 1 .. n : q[i] = ETX => d[i] \in Tags(q, {ETX}, d)
  BY DEF Tags, n
<1>4. \A i, j \in 1 .. n : q[i] = ETX /\ q[j] # ETX /\ i < j => d[i] <= q[j]
  BY DEF Apart, n
<1> HIDE DEF n
<1>5. ASSUME NEW i \in 1 .. n + 1, NEW j \in 1 .. n + 1, r[i] = ETX, r[j] # ETX, i < j
      PROVE  b[i] <= r[j]
  <2>1. i \in 1 .. n
    BY <1>1, <1>5
  <2>2. CASE j \in 1 .. n
    BY <1>1, <1>2, <1>4, <1>5, <2>1, <2>2
  <2>3. CASE j = n + 1
    BY <1>1, <1>2, <1>3, <1>5, <2>1, <2>3
  <2> QED BY <1>1, <2>2, <2>3
<1> QED BY <1>1, <1>5 DEF Apart, r, b

LEMMA ApartShifted ==
  ASSUME NEW S, NEW q \in Seq(S), q # <<>>, NEW d \in Seq(Nat), Len(d) = Len(q), Apart(q, d)
  PROVE  Apart(Tail(q), Tail(d)) /\ (Head(q) = ETX => NoneBelow(Tail(q), d[1]))
<1> DEFINE r == Tail(q)
           b == Tail(d)
           n == Len(q)
<1>1. /\ n \in Nat /\ Len(r) = n - 1 /\ Head(q) = q[1] /\ 1 \in 1 .. n
      /\ \A i \in 1 .. n - 1 : i + 1 \in 1 .. n /\ r[i] = q[i + 1]
  BY Shifted
<1>2. d # <<>>
  BY <1>1
<1>3. \A i \in 1 .. n - 1 : b[i] = d[i + 1]
  BY <1>2, Shifted
<1> HIDE DEF r, b
<1>4. \A i, j \in 1 .. n : q[i] = ETX /\ q[j] # ETX /\ i < j => d[i] <= q[j]
  BY DEF Apart, n
<1> HIDE DEF n
<1>5. ASSUME NEW i \in 1 .. n - 1, NEW j \in 1 .. n - 1, r[i] = ETX, r[j] # ETX, i < j
      PROVE  b[i] <= r[j]
  <2>1. i + 1 < j + 1
    BY <1>5
  <2> QED BY <1>1, <1>3, <1>4, <1>5, <2>1
<1>6. ASSUME q[1] = ETX, NEW j \in 1 .. n - 1, r[j] # ETX PROVE d[1] <= r[j]
  <2>1. 1 < j + 1
    BY <1>6
  <2> QED BY <1>1, <1>4, <1>6, <2>1
<1> QED BY <1>1, <1>5, <1>6 DEF Apart, NoneBelow, r, b

-----------------------------------------------------------------------------
(* The invariant.                                                          *)

ids == break_notification_id_queue
Serial == {"TX_CW_TEXT", "TX_CW_MARKER"}
TxCmds == [t : {"TX_STATE"}, v : {2, 3}]
            \cup [t : {"TX_BEACON", "TX_MODE"}, v : {0, 1}]
            \cup [t : {"TX_CW_EMPTY"}, v : {0}]

\* Serials rise along CWTX's queue of commands, and lie above the tags it has.
SerialInv ==
  /\ txq \in Seq(TxCmds) /\ ids \in Seq(Serials)
  /\ asked \in SUBSET (1 .. n_text) /\ answered \subseteq asked
  /\ \A i, j \in 1 .. Len(ids) : i < j => ids[i] < ids[j]
  /\ \A i \in 1 .. Len(ids) : ids[i] \in asked \ answered
  /\ \A i \in 1 .. Len(cwq) : cwq[i].t \in Serial =>
       /\ cwq[i].v <= n_text
       /\ \A j \in 1 .. Len(ids) : ids[j] < cwq[i].v
       /\ \A j \in 1 .. Len(cwq) : j < i /\ cwq[j].t \in Serial => cwq[j].v < cwq[i].v
       /\ cwq[i].t = "TX_CW_MARKER" => cwq[i].v \in asked \ answered

\* What has left the text behind it, and what has left the air too.
Sent(x)  == NoneBelow(text_queue, x) /\ NoneBelow(coming, x)
OnAir(x) == Sent(x) /\ NoneBelow(env, x)

\* The stages: reports to CWTX, the flag of USRPTX, requests to it, the text.
Reports(a, low, high) ==
  /\ \A i \in 1 .. Len(cwq) : cwq[i].t \in Serial => high < cwq[i].v
  /\ Rising(cwq, {Empty}, a, 0, low)
  /\ \A x \in Tags(cwq, {Empty}, a) : Holds(ids, x) /\ OnAir(x)

Awaited(low, flag) ==
  /\ waiting_to_run_dry => low < flag /\ Holds(ids, flag) /\ Sent(flag)
  /\ found_dry => waiting_to_run_dry /\ NoneBelow(env, flag)

Requests(c, flag, high) ==
  /\ Rising(txq, {Empty}, c, flag, high)
  /\ \A x \in Tags(txq, {Empty}, c) : Holds(ids, x) /\ Sent(x)

Marked(d, high) ==
  /\ Rising(text_queue, {ETX}, d, high, n_text)
  /\ \A x \in Tags(text_queue, {ETX}, d) : Holds(ids, x)
  /\ Apart(text_queue, d)

Levels(low, flag, high) ==
  /\ low \in Nat /\ flag \in Nat /\ high \in Nat
  /\ low <= flag /\ flag <= high /\ high <= n_text

Tagged(a, c, d, low, flag, high) ==
  /\ Levels(low, flag, high) /\ Reports(a, low, high) /\ Awaited(low, flag)
  /\ Requests(c, flag, high) /\ Marked(d, high)

TagInv ==
  /\ AheadInv /\ SerialInv
  /\ ~asks => \E a, c, d, low, flag, high : Tagged(a, c, d, low, flag, high)

\* The tag that a report takes off is that of the report or an earlier one.
LEMMA TagInvCovers == TagInv /\ Next => (~asks => \A k \in answered' \ answered : ~StillAhead(k))
<1> SUFFICES ASSUME TagInv, Next, ~asks, NEW k \in answered', k \notin answered PROVE ~StillAhead(k)
  OBVIOUS
<1>1. CwtxTakes /\ cwq # <<>> /\ Head(cwq).t = "TX_CW_EMPTY" /\ ids # <<>> /\ k = Head(ids)
  <2>1. answered' # answered
    OBVIOUS
  <2>2. CwtxTakes
    BY <2>1 DEF Next, Client, Cwtx, Usrptx, Type, Mark, Flush, Ask, Key, Carrier, Mode, Radio,
                CwtxStarts, CwtxSends, CwtxPosts, CwtxStops, TxTakes, TxSends, TxFindsDry, TxReports
  <2>3. Head(cwq).t = "TX_CW_EMPTY" /\ ReportMarker
    BY <2>1, <2>2 DEF CwtxTakes, tags
  <2> QED BY <2>1, <2>2, <2>3 DEF CwtxTakes, ReportMarker, ids
<1>2. PICK a, c, d, low, flag, high : Tagged(a, c, d, low, flag, high)
  BY DEF TagInv
<1>3. cwq \in Seq(CwtxCmds) /\ ids \in Seq(Serials) /\ text_queue \in Seq(Serials \cup {ETX})
      /\ coming \in Seq(Serials) /\ env \in Seq(Serials)
  BY DEF TagInv, AheadInv, TextTypes, SerialInv
<1>4. Head(cwq) \in {Empty}
  <2>1. Head(cwq) \in CwtxCmds
    BY <1>1, <1>3, Shifted
  <2> QED BY <1>1, <2>1 DEF CwtxCmds, Empty, Cmd
<1>5. 0 \in Nat /\ low \in Nat /\ Rising(cwq, {Empty}, a, 0, low)
  BY <1>2 DEF Tagged, Levels, Reports
<1>6. PICK x \in Nat : x = a[1] /\ x \in Tags(cwq, {Empty}, a)
  BY <1>1, <1>3, <1>4, <1>5, RisingShifted
<1>7. Holds(ids, x) /\ OnAir(x)
  BY <1>2, <1>6 DEF Tagged, Reports
<1>8. k <= x /\ k \in Nat
  <2>1. PICK j \in 1 .. Len(ids) : ids[j] = x
    BY <1>7 DEF Holds
  <2>2. /\ k = ids[1] /\ 1 \in 1 .. Len(ids) /\ k \in Serials
    BY <1>1, <1>3, Shifted
  <2>3. 1 < j => ids[1] < ids[j]
    BY <2>1, <2>2 DEF TagInv, SerialInv
  <2>4. k \in Nat
    BY <2>2, CWAssumption DEF Serials
  <2> QED BY <1>6, <2>1, <2>2, <2>3, <2>4
<1>9. ASSUME NEW i \in DOMAIN text_queue, text_queue[i] \in 1 .. k - 1 PROVE FALSE
  <2>1. i \in 1 .. Len(text_queue)
    BY <1>3, <1>9
  <2>2. text_queue[i] # ETX /\ text_queue[i] \in Nat
    BY <1>8, <1>9 DEF ETX
  <2>3. x <= text_queue[i]
    BY <1>7, <2>1, <2>2 DEF OnAir, Sent, NoneBelow
  <2> QED BY <1>6, <1>8, <1>9, <2>3
<1>10. ASSUME NEW i \in DOMAIN env, env[i] < k PROVE FALSE
  <2>1. i \in 1 .. Len(env) /\ env[i] \in Serials
    BY <1>3, <1>10
  <2>2. env[i] \in Nat /\ env[i] # ETX
    BY <2>1, CWAssumption DEF Serials, ETX
  <2>3. x <= env[i]
    BY <1>7, <2>1, <2>2 DEF OnAir, NoneBelow
  <2> QED BY <1>6, <1>8, <1>10, <2>2, <2>3
<1>11. ASSUME NEW i \in DOMAIN coming, coming[i] < k PROVE FALSE
  <2>1. i \in 1 .. Len(coming) /\ coming[i] \in Serials
    BY <1>3, <1>11
  <2>2. coming[i] \in Nat /\ coming[i] # ETX
    BY <2>1, CWAssumption DEF Serials, ETX
  <2>3. x <= coming[i]
    BY <1>7, <2>1, <2>2 DEF OnAir, Sent, NoneBelow
  <2> QED BY <1>6, <1>8, <1>11, <2>2, <2>3
<1> QED BY <1>9, <1>10, <1>11 DEF StillAhead

-----------------------------------------------------------------------------
(* The serials.                                                            *)

serials == <<cwq, txq, ids, n_text, asked, answered>>

LEMMA SerialStays == ASSUME SerialInv, UNCHANGED serials PROVE SerialInv'
BY DEF SerialInv, serials, ids

\* Commands without a serial.
LEMMA OtherAppended ==
  ASSUME SerialInv, cwq \in Seq(CwtxCmds), NEW c \in CwtxCmds, c.t \notin Serial,
         cwq' = Append(cwq, c), txq' \in Seq(TxCmds), UNCHANGED <<ids, n_text, asked, answered>>
  PROVE  SerialInv'
<1>1. /\ Len(cwq) \in Nat /\ Len(cwq') = Len(cwq) + 1 /\ cwq'[Len(cwq) + 1] = c
      /\ \A i \in 1 .. Len(cwq) : cwq'[i] = cwq[i]
      /\ \A i \in 1 .. Len(cwq) + 1 : i \in 1 .. Len(cwq) \/ i = Len(cwq) + 1
  BY Appended
<1> DEFINE n == Len(cwq)
<1> HIDE DEF n
<1>2. ASSUME NEW i \in 1 .. Len(cwq'), cwq'[i].t \in Serial
      PROVE  /\ cwq'[i].v <= n_text
             /\ \A j \in 1 .. Len(ids) : ids[j] < cwq'[i].v
             /\ \A j \in 1 .. Len(cwq') : j < i /\ cwq'[j].t \in Serial => cwq'[j].v < cwq'[i].v
             /\ cwq'[i].t = "TX_CW_MARKER" => cwq'[i].v \in asked \ answered
  <2>1. i \in 1 .. Len(cwq) /\ cwq'[i] = cwq[i]
    BY <1>1, <1>2
  <2>2. \A j \in 1 .. Len(cwq') : j < i => j \in 1 .. Len(cwq) /\ cwq'[j] = cwq[j]
    BY <1>1, <2>1
  <2> QED BY <1>2, <2>1, <2>2 DEF SerialInv
<1> QED BY <1>2 DEF SerialInv, ids

\* The client's next character or marker.
LEMMA SerialAppended ==
  ASSUME SerialInv, cwq \in Seq(CwtxCmds), n_text \in Nat, NEW c \in CwtxCmds,
         c.t \in Serial, c.v = n_text + 1, cwq' = Append(cwq, c), n_text' = n_text + 1,
         asked' = (IF c.t = "TX_CW_MARKER" THEN asked \cup {n_text + 1} ELSE asked),
         UNCHANGED <<txq, ids, answered>>
  PROVE  SerialInv'
<1>1. /\ Len(cwq) \in Nat /\ Len(cwq') = Len(cwq) + 1 /\ cwq'[Len(cwq) + 1] = c
      /\ \A i \in 1 .. Len(cwq) : cwq'[i] = cwq[i]
      /\ \A i \in 1 .. Len(cwq) + 1 : i \in 1 .. Len(cwq) \/ i = Len(cwq) + 1
  BY Appended
<1>2. asked' \in SUBSET (1 .. n_text') /\ asked \subseteq asked' /\ answered' \subseteq asked'
  BY DEF SerialInv
<1>3. n_text + 1 \notin answered
  BY DEF SerialInv
<1>4. \A j \in 1 .. Len(ids) : ids[j] \in asked \ answered /\ ids[j] \in 1 .. n_text
  BY DEF SerialInv
<1>5. \A j \in 1 .. Len(cwq) : cwq[j].t \in Serial => cwq[j].v \in Nat /\ cwq[j].v <= n_text
  <2> TAKE j \in 1 .. Len(cwq)
  <2> HAVE cwq[j].t \in Serial
  <2>1. cwq[j] \in CwtxCmds
    OBVIOUS
  <2>2. cwq[j].v \in Nat
    BY <2>1, CWAssumption DEF CwtxCmds, Serials, Serial
  <2> QED BY <2>2 DEF SerialInv
<1>6. ASSUME NEW i \in 1 .. Len(cwq'), cwq'[i].t \in Serial
      PROVE  /\ cwq'[i].v <= n_text'
             /\ \A j \in 1 .. Len(ids) : ids[j] < cwq'[i].v
             /\ \A j \in 1 .. Len(cwq') : j < i /\ cwq'[j].t \in Serial => cwq'[j].v < cwq'[i].v
             /\ cwq'[i].t = "TX_CW_MARKER" => cwq'[i].v \in asked' \ answered
  <2>1. \A j \in 1 .. Len(cwq') : j < i => j \in 1 .. Len(cwq) /\ cwq'[j] = cwq[j]
    BY <1>1, <1>6
  <2>2. CASE i \in 1 .. Len(cwq)
    <3>1. cwq'[i] = cwq[i] /\ cwq[i].v \in Nat /\ cwq[i].v <= n_text
      BY <1>1, <1>5, <1>6, <2>2
    <3> QED BY <1>2, <1>6, <2>1, <2>2, <3>1 DEF SerialInv
  <2>3. CASE i = Len(cwq) + 1
    <3>1. cwq'[i] = c
      BY <1>1, <2>3
    <3>2. \A j \in 1 .. Len(ids) : ids[j] < n_text + 1
      BY <1>4
    <3>3. \A j \in 1 .. Len(cwq) : cwq[j].t \in Serial => cwq[j].v < n_text + 1
      BY <1>5
    <3> QED BY <1>3, <2>1, <3>1, <3>2, <3>3
  <2> QED BY <1>1, <2>2, <2>3
<1>7. \A i \in 1 .. Len(ids) : ids[i] \in asked' \ answered
  BY <1>2, <1>4
<1> QED BY <1>2, <1>6, <1>7 DEF SerialInv, ids

LEMMA TailHas ==
  ASSUME SerialInv, ids # <<>>
  PROVE  /\ Tail(ids) \in Seq(Serials) /\ Head(ids) \in asked \ answered
         /\ \A i, j \in 1 .. Len(Tail(ids)) : i < j => Tail(ids)[i] < Tail(ids)[j]
         /\ \A i \in 1 .. Len(Tail(ids)) : /\ Tail(ids)[i] \in asked \ answered
                                          /\ Tail(ids)[i] # Head(ids)
                                          /\ Holds(ids, Tail(ids)[i])
         /\ \A x : Holds(ids, x) /\ x # Head(ids) => Holds(Tail(ids), x)
         /\ \A x : Holds(ids, x) => Head(ids) <= x
<1> DEFINE q == ids
           r == Tail(ids)
           n == Len(ids)
<1>1. /\ r \in Seq(Serials) /\ n \in Nat /\ Len(r) = n - 1
      /\ Head(q) = q[1] /\ Head(q) \in Serials /\ 1 \in 1 .. n
      /\ \A i \in 1 .. n - 1 : i + 1 \in 1 .. n /\ r[i] = q[i + 1]
      /\ \A i \in 1 .. n : i = 1 \/ (i - 1 \in 1 .. n - 1 /\ r[i - 1] = q[i])
  BY Shifted DEF SerialInv
<1>2. /\ \A i, j \in 1 .. n : i < j => q[i] < q[j]
      /\ \A i \in 1 .. n : q[i] \in asked \ answered /\ q[i] \in Nat
  <2>1. \A i \in 1 .. n : q[i] \in asked \ answered
    BY DEF SerialInv
  <2>2. asked \subseteq Nat
    BY DEF SerialInv
  <2> QED BY <2>1, <2>2 DEF SerialInv
<1> HIDE DEF q, r, n
<1>3. \A i, j \in 1 .. n - 1 : i < j => r[i] < r[j]
  <2> SUFFICES ASSUME NEW i \in 1 .. n - 1, NEW j \in 1 .. n - 1, i < j PROVE r[i] < r[j]
    OBVIOUS
  <2>1. i + 1 < j + 1
    OBVIOUS
  <2> QED BY <1>1, <1>2, <2>1
<1>4. \A i \in 1 .. n - 1 : r[i] \in asked \ answered /\ r[i] # q[1] /\ Holds(q, r[i])
  <2> SUFFICES ASSUME NEW i \in 1 .. n - 1
               PROVE  r[i] \in asked \ answered /\ r[i] # q[1] /\ Holds(q, r[i])
    OBVIOUS
  <2>1. 1 < i + 1 /\ i + 1 \in 1 .. n
    BY <1>1
  <2> QED BY <1>1, <1>2, <2>1 DEF Holds, n, q
<1>5. ASSUME NEW x, Holds(q, x) PROVE q[1] <= x /\ (x # q[1] => Holds(r, x))
  <2>1. PICK i \in 1 .. n : q[i] = x
    BY <1>5 DEF Holds, n, q
  <2>2. CASE i = 1
    BY <1>1, <1>2, <2>1, <2>2
  <2>3. CASE i # 1
    <3>1. q[1] < q[i] /\ q[1] \in Nat /\ q[i] \in Nat
      BY <1>1, <1>2, <2>1, <2>3
    <3>2. i - 1 \in 1 .. Len(r) /\ r[i - 1] = x
      BY <1>1, <2>1, <2>3
    <3> QED BY <2>1, <3>1, <3>2 DEF Holds
  <2> QED BY <2>2, <2>3
<1> QED BY <1>1, <1>2, <1>3, <1>4, <1>5 DEF q, r, n

\* CWTX takes a command: a marker's tag goes behind the others, a report takes
\* the first of them.
LEMMA SerialTaken ==
  ASSUME SerialInv, cwq \in Seq(CwtxCmds), n_text \in Nat, cwq # <<>>, cwq' = Tail(cwq),
         UNCHANGED <<txq, n_text, asked>>,
         \/ UNCHANGED <<ids, answered>>
         \/ /\ Head(cwq).t = "TX_CW_MARKER" /\ ids' = Append(ids, Head(cwq).v)
            /\ UNCHANGED answered
         \/ ids # <<>> /\ ids' = Tail(ids) /\ answered' = answered \cup {Head(ids)}
  PROVE  SerialInv'
<1>1. /\ Len(cwq) \in Nat /\ Len(cwq') = Len(cwq) - 1 /\ Head(cwq) = cwq[1]
      /\ Head(cwq) \in CwtxCmds /\ 1 \in 1 .. Len(cwq)
      /\ \A i \in 1 .. Len(cwq) - 1 : i + 1 \in 1 .. Len(cwq) /\ cwq'[i] = cwq[i + 1]
  BY Shifted
<1>2. \A i \in 1 .. Len(cwq') : i + 1 \in 1 .. Len(cwq) /\ cwq'[i] = cwq[i + 1] /\ 1 < i + 1
  BY <1>1
<1>3. ASSUME NEW i \in 1 .. Len(cwq'), cwq'[i].t \in Serial
      PROVE  /\ cwq'[i].v <= n_text
             /\ \A j \in 1 .. Len(ids) : ids[j] < cwq'[i].v
             /\ \A j \in 1 .. Len(cwq') : j < i /\ cwq'[j].t \in Serial => cwq'[j].v < cwq'[i].v
             /\ cwq'[i].t = "TX_CW_MARKER" => cwq'[i].v \in asked \ answered
             /\ Head(cwq).t \in Serial => Head(cwq).v < cwq'[i].v
  <2>1. \A j \in 1 .. Len(cwq') : j < i => j + 1 < i + 1
    BY <1>1, <1>3
  <2> QED BY <1>1, <1>2, <1>3, <2>1 DEF SerialInv
<1>4. CASE UNCHANGED <<ids, answered>>
  BY <1>3, <1>4 DEF SerialInv, ids
<1>5. CASE /\ Head(cwq).t = "TX_CW_MARKER" /\ ids' = Append(ids, Head(cwq).v)
           /\ UNCHANGED answered
  <2> DEFINE v == Head(cwq).v
  <2>1. /\ v \in asked \ answered /\ v \in Serials /\ \A j \in 1 .. Len(ids) : ids[j] < v
    <3>1. Head(cwq).t \in Serial
      BY <1>5 DEF Serial
    <3>2. v \in Serials
      BY <1>1, <1>5 DEF CwtxCmds
    <3> QED BY <1>1, <1>5, <3>1, <3>2 DEF SerialInv
  <2> HIDE DEF v
  <2>2. /\ ids' \in Seq(Serials) /\ Len(ids) \in Nat /\ Len(ids') = Len(ids) + 1
        /\ ids'[Len(ids) + 1] = v
        /\ \A i \in 1 .. Len(ids) : ids'[i] = ids[i]
        /\ \A i \in 1 .. Len(ids) + 1 : i \in 1 .. Len(ids) \/ i = Len(ids) + 1
    <3>1. ids \in Seq(Serials) /\ ids' = Append(ids, v)
      BY <1>5 DEF SerialInv, v
    <3> QED BY <2>1, <3>1, Appended
  <2>3. \A i \in 1 .. Len(ids') : ids'[i] \in asked \ answered
    BY <2>1, <2>2 DEF SerialInv
  <2>4. ASSUME NEW i \in 1 .. Len(ids'), NEW j \in 1 .. Len(ids'), i < j PROVE ids'[i] < ids'[j]
    <3>1. i \in 1 .. Len(ids)
      BY <2>2, <2>4
    <3>2. CASE j \in 1 .. Len(ids)
      BY <2>2, <2>4, <3>1, <3>2 DEF SerialInv
    <3>3. CASE j = Len(ids) + 1
      BY <2>1, <2>2, <3>1, <3>3
    <3> QED BY <2>2, <3>2, <3>3
  <2>5. ASSUME NEW i \in 1 .. Len(cwq'), cwq'[i].t \in Serial, NEW j \in 1 .. Len(ids')
        PROVE  ids'[j] < cwq'[i].v
    <3>1. v < cwq'[i].v
      BY <1>3, <1>5, <2>5 DEF v, Serial
    <3> QED BY <1>3, <2>2, <2>5, <3>1
  <2> QED BY <1>3, <1>5, <2>2, <2>3, <2>4, <2>5 DEF SerialInv, ids
<1>6. CASE ids # <<>> /\ ids' = Tail(ids) /\ answered' = answered \cup {Head(ids)}
  <2>1. /\ ids' \in Seq(Serials) /\ Head(ids) \in asked \ answered
        /\ \A i, j \in 1 .. Len(ids') : i < j => ids'[i] < ids'[j]
        /\ \A i \in 1 .. Len(ids') : ids'[i] \in asked \ answered' /\ Holds(ids, ids'[i])
    BY <1>6, TailHas
  <2>2. ASSUME NEW i \in 1 .. Len(cwq'), cwq'[i].t \in Serial
        PROVE  /\ \A j \in 1 .. Len(ids') : ids'[j] < cwq'[i].v
               /\ cwq'[i].v # Head(ids)
    <3>1. \A x : Holds(ids, x) => x < cwq'[i].v
      BY <1>3, <2>2 DEF Holds
    <3>2. Holds(ids, Head(ids)) /\ Head(ids) \in Nat
      <4>1. ids \in Seq(Serials)
        BY DEF SerialInv
      <4>2. Head(ids) = ids[1] /\ 1 \in 1 .. Len(ids) /\ Head(ids) \in Serials
        BY <1>6, <4>1, Shifted
      <4> QED BY <4>2, CWAssumption DEF Holds, Serials
    <3> QED BY <2>1, <3>1, <3>2
  <2>3. answered' \subseteq asked
    BY <1>6, <2>1 DEF SerialInv
  <2> QED BY <1>3, <1>6, <2>1, <2>2, <2>3 DEF SerialInv, ids
<1> QED BY <1>4, <1>5, <1>6

-----------------------------------------------------------------------------
(* The tags, from one stage to the next.                                   *)

LEMMA TagTypes ==
  ASSUME TagInv
  PROVE  /\ cwq \in Seq(CwtxCmds) /\ txq \in Seq(TxCmds) /\ ids \in Seq(Serials)
         /\ text_queue \in Seq(Serials \cup {ETX}) /\ coming \in Seq(Serials) /\ env \in Seq(Serials)
         /\ n_text \in 0 .. MaxText /\ n_text \in Nat /\ SerialInv /\ AheadInv
BY CWAssumption DEF TagInv, AheadInv, TextTypes, SerialInv

LEMMA HoldsAppended ==
  ASSUME NEW S, NEW q \in Seq(S), NEW v \in S
  PROVE  Holds(Append(q, v), v) /\ \A x : Holds(q, x) => Holds(Append(q, v), x)
BY Appended DEF Holds

\* What a marker's step in the text leaves as it was.
textside == <<text_queue, coming, ids>>

LEMMA SentStays == ASSUME NEW x, UNCHANGED textside PROVE (Sent(x)' <=> Sent(x)) /\ (Holds(ids, x)' <=> Holds(ids, x))
BY DEF textside, Sent, NoneBelow, Holds, ids

\* The client adds to the queues, and marks nothing as sent.
LEMMA ClientKeepsTags ==
  ASSUME TagInv, Client, AheadInv' PROVE TagInv'
<1>1. /\ UNCHANGED <<text_queue, coming, ids, env, waiting_to_run_dry, found_dry, answered, asks>>
  BY DEF Client, Type, Mark, Flush, Ask, Key, Carrier, Mode, Radio, cwtx, cwgen, usrptx, ids
<1>2. \/ /\ Type \/ Mark
         /\ n_text' = n_text + 1 /\ n_text < MaxText /\ UNCHANGED txq
         /\ \E c \in CwtxCmds : /\ cwq' = Append(cwq, c) /\ c.t \in Serial /\ c.v = n_text + 1
                              /\ asked' = (IF c.t = "TX_CW_MARKER" THEN asked \cup {n_text + 1} ELSE asked)
      \/ /\ UNCHANGED <<n_text, asked>>
         /\ \E c \in CwtxCmds : cwq' = Append(cwq, c) /\ c.t \notin Serial /\ c # Empty
         /\ UNCHANGED txq \/ \E c \in TxCmds : txq' = Append(txq, c) /\ c # Empty
      \/ /\ asks /\ UNCHANGED <<cwq, n_text, asked>> /\ txq' = Append(txq, Empty)
  <2>1. n_text < MaxText => n_text + 1 \in Serials
    BY TagTypes, CWAssumption DEF Serials
  <2>2. CASE Type
    <3>1. /\ cwq' = Append(cwq, Cmd("TX_CW_TEXT", n_text + 1)) /\ n_text < MaxText
          /\ n_text' = n_text + 1 /\ UNCHANGED <<txq, asked>>
      BY <2>2 DEF Type, ToCwtx
    <3> DEFINE c == Cmd("TX_CW_TEXT", n_text + 1)
    <3>2. /\ c.t \in Serial /\ c.t # "TX_CW_MARKER" /\ c.v = n_text + 1
      BY DEF Cmd, Serial
    <3>3. c \in CwtxCmds
      BY <2>1, <3>1 DEF Cmd, CwtxCmds
    <3> QED BY <2>2, <3>1, <3>2, <3>3
  <2>3. CASE Mark
    <3>1. /\ cwq' = Append(cwq, Cmd("TX_CW_MARKER", n_text + 1)) /\ n_text < MaxText
          /\ n_text' = n_text + 1 /\ UNCHANGED txq /\ asked' = asked \cup {n_text + 1}
      BY <2>3 DEF Mark, ToCwtx
    <3> DEFINE c == Cmd("TX_CW_MARKER", n_text + 1)
    <3>2. /\ c.t \in Serial /\ c.t = "TX_CW_MARKER" /\ c.v = n_text + 1
      BY DEF Cmd, Serial
    <3>3. c \in CwtxCmds
      BY <2>1, <3>1 DEF Cmd, CwtxCmds
    <3> QED BY <2>3, <3>1, <3>2, <3>3
  <2>4. CASE Flush
    <3>1. cwq' = Append(cwq, Cmd("TX_CW_FLUSHTEXT", 0)) /\ UNCHANGED <<txq, n_text, asked>>
      BY <2>4 DEF Flush, ToCwtx
    <3>2. /\ Cmd("TX_CW_FLUSHTEXT", 0) \in CwtxCmds /\ Cmd("TX_CW_FLUSHTEXT", 0).t \notin Serial
          /\ Cmd("TX_CW_FLUSHTEXT", 0) # Empty
      BY DEF Cmd, CwtxCmds, Serial, Empty
    <3> QED BY <3>1, <3>2
  <2>5. ASSUME NEW on \in BOOLEAN, Key(on) \/ Carrier(on) \/ Mode(on)
        PROVE  /\ UNCHANGED <<n_text, asked>>
               /\ \E c \in CwtxCmds : cwq' = Append(cwq, c) /\ c.t \notin Serial /\ c # Empty
               /\ \E c \in TxCmds : txq' = Append(txq, c) /\ c # Empty
    <3>1. \A c \in {Cmd("TX_STATE", Flag(on) + 2), Cmd("TX_BEACON", Flag(on)), Cmd("TX_MODE", Flag(on))} :
            c \in CwtxCmds /\ c \in TxCmds /\ c.t \notin Serial /\ c # Empty
      BY DEF Cmd, CwtxCmds, TxCmds, Serial, Empty, Flag
    <3> QED BY <2>5, <3>1 DEF Key, Carrier, Mode, ToBoth
  <2>6. CASE Ask
    BY <2>6 DEF Ask, Empty
  <2> QED BY <2>2, <2>3, <2>4, <2>5, <2>6 DEF Client
<1>3. \A c \in TxCmds : txq' = Append(txq, c) => txq' \in Seq(TxCmds)
  BY TagTypes, Appended
<1>4. SerialInv'
  <2>1. CASE Type \/ Mark
    <3>1. ~(UNCHANGED n_text)
      BY <2>1, TagTypes DEF Type, Mark
    <3> QED BY <1>1, <1>2, <3>1, TagTypes, SerialAppended
  <2>2. CASE UNCHANGED <<n_text, asked>> /\ \E c \in CwtxCmds : cwq' = Append(cwq, c) /\ c.t \notin Serial
    <3>1. txq' \in Seq(TxCmds)
      <4>1. Empty \in TxCmds
        BY DEF Empty, Cmd, TxCmds
      <4> QED BY <1>2, <1>3, <4>1, TagTypes
    <3> QED BY <1>1, <2>2, <3>1, TagTypes, OtherAppended
  <2>3. CASE UNCHANGED <<cwq, n_text, asked>> /\ txq' = Append(txq, Empty)
    <3>1. Empty \in TxCmds
      BY DEF Empty, Cmd, TxCmds
    <3>2. txq' \in Seq(TxCmds)
      BY <1>3, <2>3, <3>1
    <3> QED BY <1>1, <2>3, <3>2, TagTypes DEF SerialInv, ids
  <2> QED BY <1>2, <2>1, <2>2, <2>3
<1>5. ASSUME ~asks' PROVE \E a, c, d, low, flag, high : Tagged(a, c, d, low, flag, high)'
  <2>1. PICK a, c, d, low, flag, high : Tagged(a, c, d, low, flag, high)
    BY <1>1, <1>5 DEF TagInv
  <2>2. Levels(low, flag, high) /\ Reports(a, low, high) /\ Awaited(low, flag)
        /\ Requests(c, flag, high) /\ Marked(d, high)
    BY <2>1 DEF Tagged
  <2>3. /\ low \in Nat /\ flag \in Nat /\ high \in Nat /\ low <= flag /\ flag <= high /\ high <= n_text
        /\ 0 \in Nat /\ n_text \in Nat /\ n_text' \in Nat /\ n_text <= n_text'
    BY <1>2, <2>2, TagTypes DEF Levels
  <2>4. PICK m \in CwtxCmds : /\ cwq' = Append(cwq, m) /\ m \notin {Empty}
                              /\ m.t \in Serial => m.v = n_text + 1
    <3>1. \A m : m.t \in Serial => m # Empty
      BY DEF Empty, Cmd, Serial
    <3> QED BY <1>1, <1>2, <1>5, <3>1
  <2>5. cwq \in Seq(CwtxCmds) /\ txq \in Seq(TxCmds) /\ Len(text_queue) \in Nat /\ low <= low /\ high <= high
    BY <2>3, TagTypes
  <2>6. \A x : /\ (Sent(x)' <=> Sent(x)) /\ (OnAir(x)' <=> OnAir(x)) /\ (Holds(ids, x)' <=> Holds(ids, x))
    BY <1>1, SentStays DEF OnAir, NoneBelow, textside
  <2>7. Reports(Append(a, 0), low, high)'
    <3>1. Rising(cwq, {Empty}, a, 0, low)
      BY <2>2 DEF Reports
    <3>2. /\ Rising(cwq', {Empty}, Append(a, 0), 0, low)
          /\ \A y \in Tags(cwq', {Empty}, Append(a, 0)) : y \in Tags(cwq, {Empty}, a)
      BY <2>3, <2>4, <2>5, <3>1, RisingAppended
    <3>3. ASSUME NEW i \in 1 .. Len(cwq'), cwq'[i].t \in Serial PROVE high < cwq'[i].v
      <4>1. (i \in 1 .. Len(cwq) /\ cwq'[i] = cwq[i]) \/ cwq'[i] = m
        BY <2>4, <2>5, Appended
      <4> QED BY <2>2, <2>3, <2>4, <3>3, <4>1 DEF Reports
    <3> QED BY <2>2, <2>6, <3>2, <3>3 DEF Reports
  <2>8. \E e : Requests(e, flag, high)'
    <3>1. Rising(txq, {Empty}, c, flag, high)
      BY <2>2 DEF Requests
    <3>2. CASE UNCHANGED txq
      <4>1. Requests(c, flag, high)'
        BY <2>2, <2>6, <3>1, <3>2 DEF Requests
      <4> QED BY <4>1
    <3>3. ASSUME NEW r \in TxCmds, txq' = Append(txq, r), r \notin {Empty}
          PROVE  \E e : Requests(e, flag, high)'
      <4>1. /\ Rising(txq', {Empty}, Append(c, 0), flag, high)
            /\ \A y \in Tags(txq', {Empty}, Append(c, 0)) : y \in Tags(txq, {Empty}, c)
        BY <2>3, <2>5, <3>1, <3>3, RisingAppended
      <4>2. Requests(Append(c, 0), flag, high)'
        BY <2>2, <2>6, <4>1 DEF Requests
      <4> QED BY <4>2
    <3> QED BY <1>1, <1>2, <1>5, <3>2, <3>3
  <2>9. Marked(d, high)'
    <3>1. Rising(text_queue, {ETX}, d, high, n_text)
      BY <2>2 DEF Marked
    <3>2. Rising(text_queue, {ETX}, d, high, n_text')
      BY <2>3, <2>5, <3>1, RisingAgain
    <3> QED BY <1>1, <2>2, <2>6, <3>2 DEF Marked
  <2>10. Awaited(low, flag)' /\ Levels(low, flag, high)'
    BY <1>1, <2>2, <2>3, <2>6 DEF Awaited, Levels, NoneBelow
  <2>11. PICK e : Requests(e, flag, high)'
    BY <2>8
  <2>12. Tagged(Append(a, 0), e, d, low, flag, high)'
    BY <2>7, <2>9, <2>10, <2>11 DEF Tagged
  <2> QED BY <2>12
<1> QED BY <1>4, <1>5 DEF TagInv

\* A tag's bound is as tight as one likes above the tags.
LEMMA RisingBelow ==
  ASSUME NEW q, NEW X, NEW a, NEW lo, NEW hi, Rising(q, X, a, lo, hi), Len(q) \in Nat, NEW top,
         \A y \in Tags(q, X, a) : y <= top
  PROVE  Rising(q, X, a, lo, top)
BY DEF Rising, Tags

\* CWTX takes a command.  A report takes off no tag that a later stage stands for.
LEMMA CwtxTakesTags ==
  ASSUME TagInv, CwtxTakes, AheadInv' PROVE TagInv'
<1> DEFINE cmd == Head(cwq)
<1>1. /\ cwq # <<>> /\ cwq' = Tail(cwq)
      /\ UNCHANGED <<txq, coming, env, waiting_to_run_dry, found_dry, n_text, asked, asks>>
  BY DEF CwtxTakes, cwgen, usrptx, client
<1>2. cwq \in Seq(CwtxCmds) /\ txq \in Seq(TxCmds) /\ ids \in Seq(Serials) /\ n_text \in Nat
      /\ text_queue \in Seq(Serials \cup {ETX}) /\ SerialInv
  BY TagTypes
<1>3. /\ Len(cwq) \in Nat /\ Len(cwq') = Len(cwq) - 1 /\ cmd = cwq[1] /\ 1 \in 1 .. Len(cwq)
      /\ cmd \in CwtxCmds
      /\ \A i \in 1 .. Len(cwq) - 1 : i + 1 \in 1 .. Len(cwq) /\ cwq'[i] = cwq[i + 1]
  BY <1>1, <1>2, Shifted
<1>4. \/ /\ cmd \notin {Empty} /\ UNCHANGED <<ids, answered>>
         /\ \/ UNCHANGED text_queue
            \/ text_queue' = <<>>
            \/ cmd.t = "TX_CW_TEXT" /\ text_queue' = Append(text_queue, cmd.v)
      \/ /\ cmd \notin {Empty} /\ cmd.t = "TX_CW_MARKER" /\ UNCHANGED answered
         /\ text_queue' = Append(text_queue, ETX) /\ ids' = Append(ids, cmd.v)
      \/ /\ cmd \in {Empty} /\ UNCHANGED text_queue
         /\ \/ ids = <<>> /\ UNCHANGED <<ids, answered>>
            \/ ids # <<>> /\ ids' = Tail(ids) /\ answered' = answered \cup {Head(ids)}
  <2>1. cmd.t # "TX_CW_EMPTY" => cmd \notin {Empty}
    BY DEF Empty, Cmd
  <2>2. cmd.t = "TX_CW_EMPTY" => cmd \in {Empty}
    BY <1>3 DEF Empty, Cmd, CwtxCmds
  <2>3. CASE cmd.t = "TX_CW_EMPTY"
    BY <2>2, <2>3 DEF CwtxTakes, texts, ReportMarker, ids
  <2>4. CASE cmd.t \in {"TX_STATE", "TX_BEACON", "TX_MODE"}
    BY <2>1, <2>4 DEF CwtxTakes, texts, tags, ids
  <2>5. CASE cmd.t = "TX_CW_TEXT"
    BY <2>1, <2>5 DEF CwtxTakes, tags, ids
  <2>6. CASE cmd.t = "TX_CW_MARKER"
    BY <2>1, <2>6 DEF CwtxTakes, ids
  <2>7. CASE cmd.t = "TX_CW_FLUSHTEXT"
    BY <2>1, <2>7 DEF CwtxTakes, ClearTextQueue, tags, ids
  <2>8. cmd.t \in {"TX_STATE", "TX_BEACON", "TX_MODE", "TX_CW_TEXT", "TX_CW_MARKER",
                   "TX_CW_FLUSHTEXT", "TX_CW_EMPTY"}
    BY <1>3 DEF CwtxCmds
  <2> QED BY <2>3, <2>4, <2>5, <2>6, <2>7, <2>8
<1>5. SerialInv'
  BY <1>1, <1>2, <1>4, SerialTaken
<1>6. ASSUME ~asks' PROVE \E a, c, d, low, flag, high : Tagged(a, c, d, low, flag, high)'
  <2>1. PICK a, c, d, low, flag, high : Tagged(a, c, d, low, flag, high)
    BY <1>1, <1>6 DEF TagInv
  <2>2. Levels(low, flag, high) /\ Reports(a, low, high) /\ Awaited(low, flag)
        /\ Requests(c, flag, high) /\ Marked(d, high)
    BY <2>1 DEF Tagged
  <2>3. /\ low \in Nat /\ flag \in Nat /\ high \in Nat /\ low <= flag /\ flag <= high
        /\ high <= n_text /\ 0 \in Nat
    BY <2>2 DEF Levels
  <2>4. Rising(cwq, {Empty}, a, 0, low) /\ Rising(txq, {Empty}, c, flag, high)
        /\ Rising(text_queue, {ETX}, d, high, n_text) /\ d \in Seq(Nat) /\ Len(d) = Len(text_queue)
    BY <2>2 DEF Reports, Requests, Marked, Rising
  <2>5. /\ Rising(cwq', {Empty}, Tail(a), 0, low)
        /\ \A y \in Tags(cwq', {Empty}, Tail(a)) : y \in Tags(cwq, {Empty}, a)
        /\ a[1] \in Nat
        /\ cmd \in {Empty} => /\ Rising(cwq', {Empty}, Tail(a), a[1], low)
                              /\ a[1] \in Tags(cwq, {Empty}, a) /\ 0 < a[1] /\ a[1] <= low
    BY <1>1, <1>2, <2>3, <2>4, RisingShifted
  <2>6. \A i \in 1 .. Len(cwq') : cwq'[i].t \in Serial => high < cwq'[i].v
    BY <1>3, <2>2 DEF Reports
  <2>7. cmd.t \in Serial => high < cmd.v /\ cmd.v <= n_text /\ cmd.v \in Serials
                            /\ \A j \in 1 .. Len(ids) : ids[j] < cmd.v
    <3>1. cmd.t \in Serial => cmd.v \in Serials
      BY <1>3 DEF CwtxCmds, Serial
    <3> QED BY <1>2, <1>3, <2>2, <3>1 DEF Reports, SerialInv
  <2>8. \A y \in Tags(text_queue, {ETX}, d) : y \in Nat /\ high < y /\ y <= n_text /\ Holds(ids, y)
    BY <2>2, <2>4, TagsAre DEF Marked
  <2> HIDE DEF cmd
  <2>9. \E first \in Nat :
          /\ first <= low /\ Rising(cwq', {Empty}, Tail(a), first, low)
          /\ \A x \in Nat : first < x /\ Holds(ids, x) => Holds(ids', x)
    <3>1. CASE cmd \notin {Empty} /\ UNCHANGED ids
      BY <2>3, <2>5, <3>1
    <3>2. CASE cmd.t = "TX_CW_MARKER" /\ ids' = Append(ids, cmd.v)
      <4>1. cmd.v \in Serials
        BY <2>7, <3>2 DEF Serial
      <4>2. \A x : Holds(ids, x) => Holds(ids', x)
        BY <1>2, <3>2, <4>1, HoldsAppended
      <4> QED BY <2>3, <2>5, <4>2
    <3>3. CASE cmd \in {Empty}
      <4>1. Holds(ids, a[1])
        BY <2>2, <2>5, <3>3 DEF Reports
      <4>2. ids # <<>>
        BY <4>1 DEF Holds
      <4>3. ids' = Tail(ids)
        BY <1>4, <3>3, <4>2
      <4>4. Head(ids) <= a[1] /\ \A x : Holds(ids, x) /\ x # Head(ids) => Holds(ids', x)
        BY <1>2, <4>1, <4>2, <4>3, TailHas
      <4>5. Head(ids) \in Nat
        <5>1. Head(ids) \in Serials
          BY <1>2, <4>2, Shifted
        <5> QED BY <5>1, CWAssumption DEF Serials
      <4>6. \A x \in Nat : a[1] < x /\ Holds(ids, x) => Holds(ids', x)
        BY <2>5, <4>4, <4>5
      <4> QED BY <2>5, <3>3, <4>6
    <3> QED BY <1>4, <3>1, <3>2, <3>3
  <2>10. PICK first \in Nat :
          /\ first <= low /\ Rising(cwq', {Empty}, Tail(a), first, low)
          /\ \A x \in Nat : first < x /\ Holds(ids, x) => Holds(ids', x)
    BY <2>9
  <2>11. ASSUME NEW x \in Nat, x <= high, Sent(x)
         PROVE  Sent(x)' /\ (OnAir(x) => OnAir(x)')
    <3>1. NoneBelow(text_queue', x)
      <4>1. NoneBelow(text_queue, x)
        BY <2>11 DEF Sent
      <4>2. CASE UNCHANGED text_queue
        BY <4>1, <4>2
      <4>3. CASE text_queue' = <<>>
        BY <4>3 DEF NoneBelow
      <4>4. CASE cmd.t = "TX_CW_TEXT" /\ text_queue' = Append(text_queue, cmd.v)
        <5>1. cmd.v \in Serials \cup {ETX} /\ high < cmd.v /\ cmd.v \in Nat
          BY <2>7, <4>4, CWAssumption DEF Serial, Serials
        <5>2. x <= cmd.v
          BY <2>3, <2>11, <5>1
        <5> QED BY <1>2, <4>1, <4>4, <5>1, <5>2, NoneBelowAppended
      <4>5. CASE text_queue' = Append(text_queue, ETX)
        BY <1>2, <4>1, <4>5, NoneBelowAppended
      <4> QED BY <1>4, <4>2, <4>3, <4>4, <4>5
    <3> QED BY <1>1, <2>11, <3>1 DEF Sent, OnAir
  <2>12. \E e : Marked(e, high)'
    <3>1. CASE UNCHANGED text_queue
      <4>1. \A y \in Tags(text_queue, {ETX}, d) : Holds(ids', y)
        BY <2>3, <2>8, <2>10
      <4>2. Marked(d, high)'
        BY <1>1, <2>2, <3>1, <4>1 DEF Marked
      <4> QED BY <4>2
    <3>2. CASE text_queue' = <<>>
      <4>1. Marked(<<>>, high)'
        BY <3>2, NothingRises DEF Marked, Apart
      <4> QED BY <4>1
    <3>3. CASE cmd.t = "TX_CW_TEXT" /\ UNCHANGED ids /\ text_queue' = Append(text_queue, cmd.v)
      <4>1. /\ cmd.v \in Serials \cup {ETX} /\ cmd.v \in Nat /\ cmd.v \notin {ETX} /\ cmd.v # ETX
            /\ n_text <= n_text
        BY <1>2, <2>7, <3>3, CWAssumption DEF Serial, Serials, ETX
      <4>2. /\ Rising(text_queue', {ETX}, Append(d, 0), high, n_text)
            /\ \A y \in Tags(text_queue', {ETX}, Append(d, 0)) : y \in Tags(text_queue, {ETX}, d)
        BY <1>2, <2>3, <2>4, <3>3, <4>1, RisingAppended
      <4>3. \A y \in Tags(text_queue, {ETX}, d) : y <= cmd.v
        <5>1. \A y : Holds(ids, y) => y < cmd.v
          BY <2>7, <3>3 DEF Holds, Serial
        <5> QED BY <2>8, <4>1, <5>1
      <4>4. Apart(text_queue, d)
        BY <2>2 DEF Marked
      <4>5. Apart(text_queue', Append(d, 0))
        BY <1>2, <2>3, <2>4, <3>3, <4>1, <4>3, <4>4, ApartAppended
      <4>6. Marked(Append(d, 0), high)'
        BY <1>1, <2>2, <3>3, <4>2, <4>5 DEF Marked
      <4> QED BY <4>6
    <3>4. CASE cmd.t = "TX_CW_MARKER" /\ ids' = Append(ids, cmd.v) /\ text_queue' = Append(text_queue, ETX)
      <4>1. PICK v \in Nat : v = cmd.v /\ high < v /\ v <= n_text /\ v \in Serials
        BY <2>7, <3>4, CWAssumption DEF Serial, Serials
      <4>w. PICK w \in Nat : w = v - 1 /\ w < v /\ w <= n_text
        BY <1>2, <4>1, CWAssumption DEF Serials
      <4>2. \A y \in Tags(text_queue, {ETX}, d) : y <= w /\ Holds(ids', y)
        <5>1. \A y : Holds(ids, y) => y < v
          BY <2>7, <3>4, <4>1 DEF Holds, Serial
        <5> QED BY <1>2, <2>8, <3>4, <4>1, <4>w, <5>1, HoldsAppended
      <4>3. Len(text_queue) \in Nat /\ ETX \in Serials \cup {ETX} /\ ETX \in {ETX} /\ w <= n_text
            /\ high < v /\ v <= n_text
        BY <1>2, <4>1, <4>w
      <4>4. Rising(text_queue, {ETX}, d, high, w)
        BY <2>4, <4>2, <4>3, RisingBelow
      <4>5. /\ Rising(text_queue', {ETX}, Append(d, v), high, n_text)
            /\ \A y \in Tags(text_queue', {ETX}, Append(d, v)) : y \in Tags(text_queue, {ETX}, d) \/ y = v
        <5> DEFINE S == Serials \cup {ETX}
        <5>1. text_queue \in Seq(S) /\ n_text \in Nat /\ high \in Nat /\ ETX \in S
          BY <1>2, <2>3
        <5> HIDE DEF S
        <5>3. high < v /\ v <= n_text /\ w < v
          BY <4>1, <4>w
        <5>2. /\ Rising(Append(text_queue, ETX), {ETX}, Append(d, v), high, n_text)
              /\ Tags(Append(text_queue, ETX), {ETX}, Append(d, v))
                   \subseteq Tags(text_queue, {ETX}, d) \cup {v}
          BY <4>4, <5>1, <5>3, RisingOn, Zenon
        <5> QED BY <3>4, <5>2
      <4>6. Apart(text_queue, d)
        BY <2>2 DEF Marked
      <4>7. Apart(text_queue', Append(d, v))
        BY <1>2, <2>4, <3>4, <4>1, <4>3, <4>6, ApartAppended
      <4>8. Holds(ids', v)
        BY <1>2, <3>4, <4>1, HoldsAppended
      <4>9. Marked(Append(d, v), high)'
        BY <1>1, <4>2, <4>5, <4>7, <4>8 DEF Marked
      <4> QED BY <4>9
    <3> QED BY <1>4, <3>1, <3>2, <3>3, <3>4
  <2>13. PICK e : Marked(e, high)'
    BY <2>12
  <2>14. Reports(Tail(a), low, high)'
    <3>1. \A y \in Tags(cwq', {Empty}, Tail(a)) : y \in Nat /\ first < y /\ y <= high
      BY <2>3, <2>10, TagsAre
    <3>2. \A y \in Tags(cwq', {Empty}, Tail(a)) : Holds(ids', y) /\ OnAir(y)'
      <4> TAKE y \in Tags(cwq', {Empty}, Tail(a))
      <4>1. Holds(ids, y) /\ OnAir(y) /\ Sent(y)
        BY <2>2, <2>5 DEF Reports, OnAir
      <4> QED BY <2>10, <2>11, <3>1, <4>1
    <3> QED BY <2>5, <2>6, <3>2 DEF Reports
  <2>15. Awaited(low, flag)'
    BY <1>1, <2>2, <2>3, <2>10, <2>11 DEF Awaited
  <2>16. Requests(c, flag, high)'
    <3>1. \A y \in Tags(txq, {Empty}, c) : y \in Nat /\ flag < y /\ y <= high
      BY <2>4, TagsAre
    <3>2. \A y \in Tags(txq, {Empty}, c) : first < y
      BY <2>3, <2>10, <3>1
    <3> QED BY <1>1, <2>2, <2>10, <2>11, <3>1, <3>2 DEF Requests
  <2>17. Levels(low, flag, high)'
    BY <1>1, <2>2 DEF Levels
  <2>18. Tagged(Tail(a), c, e, low, flag, high)'
    BY <2>13, <2>14, <2>15, <2>16, <2>17 DEF Tagged
  <2> QED BY <2>18
<1> QED BY <1>5, <1>6 DEF TagInv

\* What the tags do not depend on may change.
LEMMA TagsStay ==
  ASSUME TagInv, AheadInv',
         UNCHANGED <<serials, text_queue, coming, env, waiting_to_run_dry, asks>>,
         ~found_dry' \/ UNCHANGED found_dry
  PROVE  TagInv'
<1>1. SerialInv'
  BY SerialStays DEF TagInv
<1>2. ASSUME ~asks' PROVE \E a, c, d, low, flag, high : Tagged(a, c, d, low, flag, high)'
  <2>1. PICK a, c, d, low, flag, high : Tagged(a, c, d, low, flag, high)
    BY <1>2 DEF TagInv
  <2>2. Levels(low, flag, high)' /\ Awaited(low, flag)'
    BY <2>1 DEF Tagged, Levels, Awaited, serials, Holds, ids, Sent, NoneBelow
  <2>3. Reports(a, low, high)'
    BY <2>1 DEF Tagged, Reports, serials, Holds, ids, OnAir, Sent, NoneBelow
  <2>4. Requests(c, flag, high)' /\ Marked(d, high)'
    BY <2>1 DEF Tagged, Requests, Marked, serials, Holds, ids, Sent, NoneBelow
  <2>5. Tagged(a, c, d, low, flag, high)'
    BY <2>2, <2>3, <2>4 DEF Tagged
  <2> QED BY <2>5
<1> QED BY <1>1, <1>2 DEF TagInv

\* What goes to the air goes in the order of the text: an ETX that comes first
\* leaves no character behind it that precedes its marker.
LEMMA CwtxSendsTags ==
  ASSUME TagInv, CwtxSends, AheadInv' PROVE TagInv'
<1>1. /\ coming = <<>> /\ text_queue # <<>> /\ text_queue' = Tail(text_queue)
      /\ UNCHANGED <<cwq, ids, env, waiting_to_run_dry, found_dry, n_text, asked, answered, asks>>
  BY DEF CwtxSends, usrptx, client, ids
<1>2. txq \in Seq(TxCmds) /\ text_queue \in Seq(Serials \cup {ETX}) /\ SerialInv /\ n_text \in Nat
      /\ coming \in Seq(Serials) /\ cwq \in Seq(CwtxCmds) /\ ids \in Seq(Serials)
  BY TagTypes
<1>3. \/ Head(text_queue) \in {ETX} /\ txq' = Append(txq, Empty) /\ coming' = <<>>
      \/ /\ Head(text_queue) \notin {ETX} /\ UNCHANGED txq
         /\ \E k \in 0 .. MaxPost : coming' = [i \in 1 .. k |-> Head(text_queue)]
  BY <1>1 DEF CwtxSends, Empty
<1>4. Empty \in TxCmds
  BY DEF Empty, Cmd, TxCmds
<1>5. SerialInv'
  <2>1. txq' \in Seq(TxCmds)
    BY <1>2, <1>3, <1>4, Appended
  <2> QED BY <1>1, <1>2, <2>1 DEF SerialInv, ids
<1>6. ASSUME ~asks' PROVE \E a, c, d, low, flag, high : Tagged(a, c, d, low, flag, high)'
  <2>1. PICK a, c, d, low, flag, high : Tagged(a, c, d, low, flag, high)
    BY <1>1, <1>6 DEF TagInv
  <2>2. Levels(low, flag, high) /\ Reports(a, low, high) /\ Awaited(low, flag)
        /\ Requests(c, flag, high) /\ Marked(d, high)
    BY <2>1 DEF Tagged
  <2>3. /\ low \in Nat /\ flag \in Nat /\ high \in Nat /\ low <= flag /\ flag <= high
        /\ high <= n_text /\ 0 \in Nat
    BY <2>2 DEF Levels
  <2>4. /\ Rising(cwq, {Empty}, a, 0, low) /\ Rising(txq, {Empty}, c, flag, high)
        /\ Rising(text_queue, {ETX}, d, high, n_text) /\ d \in Seq(Nat)
        /\ Len(d) = Len(text_queue) /\ Apart(text_queue, d)
    BY <2>2 DEF Reports, Requests, Marked, Rising
  <2>5. /\ Rising(text_queue', {ETX}, Tail(d), high, n_text)
        /\ \A y \in Tags(text_queue', {ETX}, Tail(d)) : y \in Tags(text_queue, {ETX}, d)
        /\ d[1] \in Nat
        /\ Head(text_queue) \in {ETX} =>
             /\ Rising(text_queue', {ETX}, Tail(d), d[1], n_text)
             /\ d[1] \in Tags(text_queue, {ETX}, d) /\ high < d[1] /\ d[1] <= n_text
    BY <1>1, <1>2, <2>3, <2>4, RisingShifted
  <2>6. /\ Apart(text_queue', Tail(d))
        /\ Head(text_queue) \in {ETX} => NoneBelow(text_queue', d[1])
    BY <1>1, <1>2, <2>4, ApartShifted
  <2>7. \A x \in Tags(text_queue, {ETX}, d) : Holds(ids, x)
    BY <2>2 DEF Marked
  <2>8. \A x : Sent(x) => Sent(x)'
    <3> SUFFICES ASSUME NEW x, Sent(x) PROVE Sent(x)'
      OBVIOUS
    <3>1. NoneBelow(text_queue', x) /\ (Head(text_queue) # ETX => x <= Head(text_queue))
      BY <1>1, <1>2, NoneBelowShifted DEF Sent
    <3>2. NoneBelow(coming', x)
      <4>1. CASE coming' = <<>>
        BY <4>1 DEF NoneBelow
      <4>2. CASE /\ Head(text_queue) \notin {ETX}
                 /\ \E k \in 0 .. MaxPost : coming' = [i \in 1 .. k |-> Head(text_queue)]
        <5>1. PICK k \in 0 .. MaxPost : coming' = [i \in 1 .. k |-> Head(text_queue)]
          BY <4>2
        <5>2. k \in Nat
          BY <5>1, CWAssumption
        <5>3. Len(coming') = k
          BY <5>1, <5>2
        <5> QED BY <3>1, <4>2, <5>1, <5>3 DEF NoneBelow
      <4> QED BY <1>3, <4>1, <4>2
    <3> QED BY <3>1, <3>2 DEF Sent
  <2>9. Awaited(low, flag)' /\ \A x : Holds(ids, x)' <=> Holds(ids, x)
    BY <1>1, <2>2, <2>8 DEF Awaited, Holds, ids, NoneBelow
  <2>10. \A x : OnAir(x) => OnAir(x)'
    BY <1>1, <2>8 DEF OnAir, NoneBelow
  <2>11. CASE Head(text_queue) \notin {ETX}
    <3>1. Reports(a, low, high)'
      BY <1>1, <2>2, <2>9, <2>10 DEF Reports
    <3>2. Requests(c, flag, high)'
      BY <1>3, <2>2, <2>8, <2>9, <2>11 DEF Requests
    <3>3. Marked(Tail(d), high)'
      BY <1>1, <2>5, <2>6, <2>7, <2>9 DEF Marked
    <3>4. Tagged(a, c, Tail(d), low, flag, high)'
      BY <1>1, <2>2, <2>9, <3>1, <3>2, <3>3 DEF Tagged, Levels
    <3> QED BY <3>4
  <2>12. CASE Head(text_queue) \in {ETX}
    <3>1. PICK v \in Nat : v = d[1] /\ high < v /\ v <= n_text /\ flag < v
      BY <1>2, <2>3, <2>5, <2>12
    <3>2. Holds(ids, v) /\ Sent(v)'
      <4>1. Holds(ids, v)
        BY <2>5, <2>7, <2>12, <3>1
      <4>2. NoneBelow(coming', v)
        BY <1>3, <2>12 DEF NoneBelow
      <4> QED BY <2>6, <2>12, <3>1, <4>1, <4>2 DEF Sent
    <3>3. Reports(a, low, v)'
      <4>1. \A i \in 1 .. Len(cwq) : cwq[i].t \in Serial => v < cwq[i].v
        BY <3>2 DEF TagInv, SerialInv, Holds
      <4> QED BY <1>1, <2>2, <2>9, <2>10, <4>1 DEF Reports
    <3>4. Requests(Append(c, v), flag, v)'
      <4>1. v <= v
        BY <3>1
      <4>2. /\ Rising(Append(txq, Empty), {Empty}, Append(c, v), flag, v)
            /\ Tags(Append(txq, Empty), {Empty}, Append(c, v))
                 \subseteq Tags(txq, {Empty}, c) \cup {v}
        BY <1>2, <1>4, <2>3, <2>4, <3>1, <4>1, RisingOn, Zenon
      <4>3. txq' = Append(txq, Empty)
        BY <1>3, <2>12
      <4>4. \A x \in Tags(txq', {Empty}, Append(c, v)) : Holds(ids', x) /\ Sent(x)'
        BY <2>2, <2>8, <2>9, <3>2, <4>2, <4>3 DEF Requests
      <4> QED BY <4>2, <4>3, <4>4 DEF Requests
    <3>5. Marked(Tail(d), v)'
      <4>1. Rising(text_queue', {ETX}, Tail(d), v, n_text)
        BY <2>5, <2>12, <3>1
      <4> QED BY <1>1, <2>5, <2>6, <2>7, <2>9, <4>1 DEF Marked
    <3>6. Levels(low, flag, v)'
      BY <1>1, <2>2, <2>3, <3>1 DEF Levels
    <3>7. Tagged(a, Append(c, v), Tail(d), low, flag, v)'
      BY <2>9, <3>3, <3>4, <3>5, <3>6 DEF Tagged
    <3> QED BY <3>7
  <2> QED BY <2>11, <2>12
<1> QED BY <1>5, <1>6 DEF TagInv

\* Buffers reach the air: what has left the text behind it still has.
LEMMA EnvelopeTags ==
  ASSUME TagInv, CwtxPosts \/ TxSends, AheadInv' PROVE TagInv'
<1>1. UNCHANGED <<serials, text_queue, waiting_to_run_dry, found_dry, asks>>
  BY DEF CwtxPosts, TxSends, mail, cwtx, usrptx, client, serials, ids
<1>2. SerialInv'
  BY <1>1, SerialStays DEF TagInv
<1>3. coming \in Seq(Serials) /\ env \in Seq(Serials)
  BY TagTypes
<1>4. ASSUME NEW x PROVE (Sent(x) => Sent(x)') /\ (OnAir(x) => OnAir(x)')
                         /\ (Sent(x) /\ NoneBelow(env, x) => NoneBelow(env', x))
  <2>1. CASE CwtxPosts
    <3>1. coming # <<>> /\ coming' = Tail(coming) /\ env' = Append(env, Head(coming))
      BY <2>1 DEF CwtxPosts
    <3>2. Head(coming) \in Serials
      BY <1>3, <3>1, Shifted
    <3>3. NoneBelow(coming, x) => NoneBelow(coming', x) /\ (Head(coming) # ETX => x <= Head(coming))
      BY <1>3, <3>1, NoneBelowShifted
    <3>4. NoneBelow(env, x) /\ (Head(coming) # ETX => x <= Head(coming)) => NoneBelow(env', x)
      BY <1>3, <3>1, <3>2, NoneBelowAppended
    <3> QED BY <1>1, <3>3, <3>4 DEF Sent, OnAir
  <2>2. CASE TxSends
    <3>1. env # <<>> /\ env' = Tail(env) /\ UNCHANGED coming
      BY <2>2 DEF TxSends, cwgen
    <3>2. NoneBelow(env, x) => NoneBelow(env', x)
      BY <1>3, <3>1, NoneBelowShifted
    <3> QED BY <1>1, <3>1, <3>2 DEF Sent, OnAir
  <2> QED BY <2>1, <2>2
<1>5. ASSUME ~asks' PROVE \E a, c, d, low, flag, high : Tagged(a, c, d, low, flag, high)'
  <2>1. PICK a, c, d, low, flag, high : Tagged(a, c, d, low, flag, high)
    BY <1>1, <1>5 DEF TagInv
  <2>2. \A x : Holds(ids, x)' <=> Holds(ids, x)
    BY <1>1 DEF serials, Holds, ids
  <2>3. Levels(low, flag, high)' /\ Marked(d, high)'
    BY <1>1, <2>1, <2>2 DEF Tagged, Levels, Marked, serials
  <2>4. Reports(a, low, high)' /\ Requests(c, flag, high)'
    BY <1>1, <1>4, <2>1, <2>2 DEF Tagged, Reports, Requests, serials
  <2>5. Awaited(low, flag)'
    BY <1>1, <1>4, <2>1, <2>2 DEF Tagged, Awaited
  <2>6. Tagged(a, c, d, low, flag, high)'
    BY <2>3, <2>4, <2>5 DEF Tagged
  <2> QED BY <2>6
<1> QED BY <1>2, <1>5 DEF TagInv

\* USRPTX takes a command: it is asked to report, perhaps while it still is.
LEMMA TxTakesTags ==
  ASSUME TagInv, TxTakes, AheadInv' PROVE TagInv'
<1>1. /\ txq # <<>> /\ txq' = Tail(txq) /\ ~found_dry
      /\ UNCHANGED <<cwq, ids, text_queue, coming, env, found_dry, n_text, asked, answered, asks>>
  BY DEF TxTakes, cwtx, cwgen, client, ids
<1>2. txq \in Seq(TxCmds) /\ SerialInv /\ txq' \in Seq(TxCmds)
  BY <1>1, TagTypes, Shifted
<1>3. (waiting_to_run_dry' => waiting_to_run_dry) \/ (waiting_to_run_dry' /\ Head(txq) \in {Empty})
  <2>1. Head(txq) \in TxCmds
    BY <1>1, <1>2, Shifted
  <2>2. Head(txq).t = "TX_CW_EMPTY" => Head(txq) \in {Empty}
    BY <2>1 DEF TxCmds, Empty, Cmd
  <2> QED BY <2>2 DEF TxTakes, TransmitSwitch, TxBeacon
<1>4. SerialInv'
  BY <1>1, <1>2 DEF SerialInv, ids
<1>5. \A x : (Holds(ids, x)' <=> Holds(ids, x)) /\ (Sent(x)' <=> Sent(x)) /\ (OnAir(x)' <=> OnAir(x))
  BY <1>1 DEF Holds, ids, Sent, OnAir, NoneBelow
<1>6. ASSUME ~asks' PROVE \E a, c, d, low, flag, high : Tagged(a, c, d, low, flag, high)'
  <2>1. PICK a, c, d, low, flag, high : Tagged(a, c, d, low, flag, high)
    BY <1>1, <1>6 DEF TagInv
  <2>2. /\ low \in Nat /\ flag \in Nat /\ high \in Nat /\ low <= flag /\ flag <= high
        /\ Rising(txq, {Empty}, c, flag, high) /\ \A x \in Tags(txq, {Empty}, c) : Holds(ids, x) /\ Sent(x)
    BY <2>1 DEF Tagged, Levels, Requests
  <2>3. /\ Rising(txq', {Empty}, Tail(c), flag, high)
        /\ \A y \in Tags(txq', {Empty}, Tail(c)) : y \in Tags(txq, {Empty}, c)
        /\ c[1] \in Nat
        /\ Head(txq) \in {Empty} =>
             /\ Rising(txq', {Empty}, Tail(c), c[1], high)
             /\ c[1] \in Tags(txq, {Empty}, c) /\ flag < c[1] /\ c[1] <= high
    BY <1>1, <1>2, <2>2, RisingShifted
  <2>4. Reports(a, low, high)' /\ Marked(d, high)'
    BY <1>1, <1>5, <2>1 DEF Tagged, Reports, Marked
  <2>5. CASE waiting_to_run_dry' => waiting_to_run_dry
    <3>1. Requests(Tail(c), flag, high)'
      BY <1>5, <2>2, <2>3 DEF Requests
    <3>2. Awaited(low, flag)' /\ Levels(low, flag, high)'
      BY <1>1, <1>5, <2>1, <2>5 DEF Tagged, Awaited, Levels
    <3>3. Tagged(a, Tail(c), d, low, flag, high)'
      BY <2>4, <3>1, <3>2 DEF Tagged
    <3> QED BY <3>3
  <2>6. CASE waiting_to_run_dry' /\ Head(txq) \in {Empty}
    <3>1. PICK v \in Nat : /\ v = c[1] /\ low < v /\ v <= high /\ Holds(ids, v) /\ Sent(v)
                           /\ Rising(txq', {Empty}, Tail(c), v, high)
      BY <2>2, <2>3, <2>6
    <3>2. Requests(Tail(c), v, high)'
      BY <1>5, <2>2, <2>3, <3>1 DEF Requests
    <3>3. Awaited(low, v)' /\ Levels(low, v, high)'
      BY <1>1, <1>5, <2>1, <3>1 DEF Tagged, Awaited, Levels
    <3>4. Tagged(a, Tail(c), d, low, v, high)'
      BY <2>4, <3>2, <3>3 DEF Tagged
    <3> QED BY <3>4
  <2> QED BY <1>3, <2>5, <2>6
<1> QED BY <1>4, <1>6 DEF TagInv

\* It finds no envelope, and reports: what it was asked about is on the air.
LEMMA TxFindsDryTags ==
  ASSUME TagInv, TxFindsDry, AheadInv' PROVE TagInv'
<1>1. /\ waiting_to_run_dry /\ env = <<>>
      /\ UNCHANGED <<serials, text_queue, coming, env, waiting_to_run_dry, asks>>
  BY DEF TxFindsDry, RunDry, mail, cwtx, cwgen, client, serials, ids
<1>2. SerialInv'
  BY <1>1, SerialStays DEF TagInv
<1>3. ASSUME ~asks' PROVE \E a, c, d, low, flag, high : Tagged(a, c, d, low, flag, high)'
  <2>1. PICK a, c, d, low, flag, high : Tagged(a, c, d, low, flag, high)
    BY <1>1, <1>3 DEF TagInv
  <2>2. Levels(low, flag, high)' /\ Awaited(low, flag)'
    BY <1>1, <2>1 DEF Tagged, Levels, Awaited, serials, Holds, ids, Sent, NoneBelow
  <2>3. Reports(a, low, high)'
    BY <1>1, <2>1 DEF Tagged, Reports, serials, Holds, ids, OnAir, Sent, NoneBelow
  <2>4. Requests(c, flag, high)' /\ Marked(d, high)'
    BY <1>1, <2>1 DEF Tagged, Requests, Marked, serials, Holds, ids, Sent, NoneBelow
  <2>5. Tagged(a, c, d, low, flag, high)'
    BY <2>2, <2>3, <2>4 DEF Tagged
  <2> QED BY <2>5
<1> QED BY <1>2, <1>3 DEF TagInv

LEMMA TxReportsTags ==
  ASSUME TagInv, TxReports, AheadInv' PROVE TagInv'
<1>1. /\ found_dry /\ ~found_dry' /\ ~waiting_to_run_dry' /\ cwq' = Append(cwq, Empty)
      /\ UNCHANGED <<txq, ids, text_queue, coming, env, n_text, asked, answered, asks>>
  BY DEF TxReports, Empty, cwtx, cwgen, client, ids
<1>2. cwq \in Seq(CwtxCmds) /\ txq \in Seq(TxCmds) /\ SerialInv
  BY TagTypes
<1>3. Empty \in CwtxCmds /\ Empty.t \notin Serial
  BY DEF Empty, Cmd, CwtxCmds, Serial
<1>4. SerialInv'
  BY <1>1, <1>2, <1>3, OtherAppended
<1>5. \A x : (Holds(ids, x)' <=> Holds(ids, x)) /\ (Sent(x)' <=> Sent(x)) /\ (OnAir(x)' <=> OnAir(x))
  BY <1>1 DEF Holds, ids, Sent, OnAir, NoneBelow
<1>6. ASSUME ~asks' PROVE \E a, c, d, low, flag, high : Tagged(a, c, d, low, flag, high)'
  <2>1. PICK a, c, d, low, flag, high : Tagged(a, c, d, low, flag, high)
    BY <1>1, <1>6 DEF TagInv
  <2>2. /\ low \in Nat /\ flag \in Nat /\ high \in Nat /\ low <= flag /\ flag <= high /\ high <= n_text
        /\ Rising(cwq, {Empty}, a, 0, low) /\ \A x \in Tags(cwq, {Empty}, a) : Holds(ids, x) /\ OnAir(x)
        /\ 0 \in Nat
    BY <2>1 DEF Tagged, Levels, Reports
  <2>3. low < flag /\ Holds(ids, flag) /\ OnAir(flag)
    BY <1>1, <2>1 DEF Tagged, Awaited, OnAir
  <2>4. flag <= flag /\ 0 < flag
    BY <2>2, <2>3
  <2>5. /\ Rising(Append(cwq, Empty), {Empty}, Append(a, flag), 0, flag)
        /\ Tags(Append(cwq, Empty), {Empty}, Append(a, flag)) \subseteq Tags(cwq, {Empty}, a) \cup {flag}
    BY <1>2, <1>3, <2>2, <2>3, <2>4, RisingOn, Zenon
  <2>6. ASSUME NEW i \in 1 .. Len(cwq'), cwq'[i].t \in Serial PROVE high < cwq'[i].v
    <3>1. (i \in 1 .. Len(cwq) /\ cwq'[i] = cwq[i]) \/ cwq'[i] = Empty
      BY <1>1, <1>2, <1>3, Appended
    <3> QED BY <1>3, <2>1, <2>6, <3>1 DEF Tagged, Reports
  <2>7. Reports(Append(a, flag), flag, high)'
    <3>1. \A x \in Tags(cwq', {Empty}, Append(a, flag)) : Holds(ids', x) /\ OnAir(x)'
      BY <1>1, <1>5, <2>2, <2>3, <2>5
    <3> QED BY <1>1, <2>5, <2>6, <3>1 DEF Reports
  <2>8. Requests(c, flag, high)' /\ Marked(d, high)'
    BY <1>1, <1>5, <2>1 DEF Tagged, Requests, Marked
  <2>9. Awaited(flag, flag)' /\ Levels(flag, flag, high)'
    BY <1>1, <2>1, <2>4 DEF Tagged, Awaited, Levels
  <2>10. Tagged(Append(a, flag), c, d, flag, flag, high)'
    BY <2>7, <2>8, <2>9 DEF Tagged
  <2> QED BY <2>10
<1> QED BY <1>4, <1>6 DEF TagInv

LEMMA InitTags == Init => TagInv
<1> SUFFICES ASSUME Init PROVE TagInv
  OBVIOUS
<1>1. AheadInv
  BY InitAhead
<1>2. SerialInv
  BY DEF Init, SerialInv, ids
<1>3. Tagged(<<>>, <<>>, <<>>, 0, 0, 0)
  <2>1. cwq = <<>> /\ txq = <<>> /\ text_queue = <<>> /\ n_text = 0
        /\ ~waiting_to_run_dry /\ ~found_dry
    BY DEF Init
  <2>2. Levels(0, 0, 0) /\ Awaited(0, 0)
    BY <2>1 DEF Levels, Awaited
  <2>3. Reports(<<>>, 0, 0) /\ Requests(<<>>, 0, 0) /\ Marked(<<>>, 0)
    BY <2>1, NothingRises DEF Reports, Requests, Marked, Apart
  <2> QED BY <2>2, <2>3 DEF Tagged
<1> QED BY <1>1, <1>2, <1>3 DEF TagInv

LEMMA StepTags == TagInv /\ [Next]_vars => TagInv'
<1> SUFFICES ASSUME TagInv, [Next]_vars PROVE TagInv'
  OBVIOUS
<1>1. AheadInv'
  BY StepAhead DEF TagInv
<1>2. CASE CwtxStarts \/ CwtxStops \/ UNCHANGED vars
  <2>1. /\ UNCHANGED <<serials, text_queue, coming, env, waiting_to_run_dry, asks, found_dry>>
    BY <1>2 DEF CwtxStarts, CwtxStops, vars, mail, cwtx, cwgen, usrptx, client, serials, ids
  <2> QED BY <1>1, <2>1, TagsStay
<1> QED BY <1>1, <1>2, ClientKeepsTags, CwtxTakesTags, CwtxSendsTags, EnvelopeTags, TxTakesTags,
           TxFindsDryTags, TxReportsTags DEF Next, Cwtx, Usrptx

\* The reports under way, USRPTX's flag, the requests to it and the text stand for
\* markers that rise in this order, each of them still in CWTX's queue of tags
\* (CWTX::processCommand, CWTX::sendAvailChar, USRPTX::run).
THEOREM TagInvariant == Spec => []TagInv
BY InitTags, StepTags, PTL DEF Spec

\* A marker comes back to a client that leaves TX_CW_EMPTY to CWTX only when all
\* the text before it is on the air, for any text and any client (CWTX::reportMarker).
THEOREM MarkersNeverEarly == Spec => MarkerNeverEarly
<1>1. TagInv /\ [Next]_vars => [~asks => \A k \in answered' \ answered : ~StillAhead(k)]_vars
  BY TagInvCovers
<1>2. QED
  BY <1>1, InitTags, StepTags, PTL DEF Spec, MarkerNeverEarly

-----------------------------------------------------------------------------
(* What a queue of commands leads to, and how many of its entries count.   *)

TurnsOn(c) == c.v \in {1, 3}

\* With the commands before n taken, what a command of type T sets is want.
Says(q, n, T, now, want) ==
  \/ \E i \in 1 .. Len(q) : /\ i < n /\ q[i].t = T /\ (TurnsOn(q[i]) <=> want)
                            /\ \A j \in 1 .. Len(q) : i < j /\ j < n => q[j].t # T
  \/ (\A i \in 1 .. Len(q) : i < n => q[i].t # T) /\ (now <=> want)

LEMMA SaysAppended ==
  ASSUME NEW S, NEW q \in Seq(S), NEW x \in S, NEW T, NEW now \in BOOLEAN, NEW want \in BOOLEAN,
         NEW to \in BOOLEAN, Says(q, Len(q) + 1, T, now, want),
         \/ x.t = T /\ (TurnsOn(x) <=> to)
         \/ x.t # T /\ (to <=> want)
  PROVE  Says(Append(q, x), Len(Append(q, x)) + 1, T, now, to)
<1> DEFINE r == Append(q, x)
           n == Len(q)
<1>1. /\ n \in Nat /\ Len(r) = n + 1 /\ r[n + 1] = x
      /\ \A i \in 1 .. n : i \in 1 .. n + 1 /\ r[i] = q[i]
      /\ \A i \in 1 .. n + 1 : i \in 1 .. n \/ i = n + 1
  BY Appended
<1> HIDE DEF r
<1>2. CASE x.t = T /\ (TurnsOn(x) <=> to)
  <2>1. n + 1 \in 1 .. Len(r) /\ n + 1 < Len(r) + 1 /\ ~\E j \in 1 .. Len(r) : n + 1 < j
    BY <1>1
  <2> HIDE DEF n
  <2> QED BY <1>1, <1>2, <2>1 DEF Says
<1>3. CASE x.t # T /\ (to <=> want)
  <2>1. ASSUME NEW i \in 1 .. n, q[i].t = T, TurnsOn(q[i]) <=> want,
               \A j \in 1 .. n : i < j /\ j < n + 1 => q[j].t # T
        PROVE  Says(r, Len(r) + 1, T, now, to)
    <3>1. i \in 1 .. Len(r) /\ i < Len(r) + 1 /\ r[i] = q[i]
      BY <1>1
    <3>2. \A j \in 1 .. Len(r) : i < j => r[j].t # T
      <4> TAKE j \in 1 .. Len(r)
      <4>1. CASE j \in 1 .. n
        BY <1>1, <2>1, <4>1
      <4> QED BY <1>1, <1>3, <4>1
    <3> HIDE DEF n
    <3> QED BY <1>3, <2>1, <3>1, <3>2 DEF Says
  <2>2. ASSUME \A i \in 1 .. n : i < n + 1 => q[i].t # T, now <=> want
        PROVE  Says(r, Len(r) + 1, T, now, to)
    <3>1. \A i \in 1 .. Len(r) : r[i].t # T
      <4> TAKE i \in 1 .. Len(r)
      <4>1. CASE i \in 1 .. n
        BY <1>1, <2>2, <4>1
      <4> QED BY <1>1, <1>3, <4>1
    <3> HIDE DEF n
    <3> QED BY <1>3, <2>2, <3>1 DEF Says
  <2>3. Says(q, n + 1, T, now, want)
    OBVIOUS
  <2> HIDE DEF n
  <2> QED BY <2>1, <2>2, <2>3 DEF Says, n, r
<1> QED BY <1>2, <1>3 DEF r

\* What is said before one of the commands is said whatever comes behind.
LEMMA SaysBefore ==
  ASSUME NEW S, NEW q \in Seq(S), NEW x \in S, NEW T, NEW now, NEW want,
         NEW n \in 1 .. Len(q) + 1, Says(q, n, T, now, want)
  PROVE  Says(Append(q, x), n, T, now, want)
<1> DEFINE r == Append(q, x)
           l == Len(q)
<1>1. /\ l \in Nat /\ Len(r) = l + 1
      /\ \A i \in 1 .. l : i \in 1 .. l + 1 /\ r[i] = q[i]
      /\ \A i \in 1 .. l + 1 : i \in 1 .. l \/ i = l + 1
  BY Appended
<1>2. \A i \in 1 .. l + 1 : i < n => i \in 1 .. l
  BY <1>1
<1> HIDE DEF r, l
<1>3. n \in 1 .. l + 1 /\ Says(q, n, T, now, want)
  BY DEF l
<1>4. CASE \E i \in 1 .. l : /\ i < n /\ q[i].t = T /\ (TurnsOn(q[i]) <=> want)
                             /\ \A j \in 1 .. l : i < j /\ j < n => q[j].t # T
  <2>1. PICK i \in 1 .. l : /\ i < n /\ q[i].t = T /\ (TurnsOn(q[i]) <=> want)
                            /\ \A j \in 1 .. l : i < j /\ j < n => q[j].t # T
    BY <1>4
  <2>2. i \in 1 .. Len(r) /\ r[i] = q[i] /\ \A j \in 1 .. Len(r) : i < j /\ j < n => r[j].t # T
    BY <1>1, <1>2, <2>1
  <2> QED BY <2>1, <2>2 DEF Says, r
<1>5. CASE (\A i \in 1 .. l : i < n => q[i].t # T) /\ (now <=> want)
  <2>1. \A i \in 1 .. Len(r) : i < n => r[i].t # T
    BY <1>1, <1>2, <1>5
  <2> QED BY <1>5, <2>1 DEF Says, r
<1> QED BY <1>3, <1>4, <1>5 DEF Says, l

\* The first command is taken.
LEMMA SaysShifted ==
  ASSUME NEW S, NEW q \in Seq(S), q # <<>>, NEW T, NEW now \in BOOLEAN, NEW want \in BOOLEAN,
         NEW n \in 2 .. Len(q) + 1, Says(q, n, T, now, want), NEW then \in BOOLEAN,
         \/ Head(q).t = T /\ (TurnsOn(Head(q)) <=> then)
         \/ Head(q).t # T /\ (now <=> then)
  PROVE  Says(Tail(q), n - 1, T, then, want)
<1> DEFINE r == Tail(q)
           l == Len(q)
<1>1. /\ l \in Nat /\ Len(r) = l - 1 /\ Head(q) = q[1] /\ 1 \in 1 .. l
      /\ \A i \in 1 .. l - 1 : i + 1 \in 1 .. l /\ r[i] = q[i + 1]
      /\ \A i \in 1 .. l : i = 1 \/ (i - 1 \in 1 .. l - 1 /\ r[i - 1] = q[i])
  BY Shifted
<1>2. n \in 2 .. l + 1
  OBVIOUS
<1> HIDE DEF r, l
<1>3. n \in Nat /\ \A i \in 1 .. l - 1 : i < n - 1 => i + 1 < n
  BY <1>1, <1>2
<1>4. ASSUME NEW i \in 1 .. l, i < n, q[i].t = T, TurnsOn(q[i]) <=> want,
             \A j \in 1 .. l : i < j /\ j < n => q[j].t # T
      PROVE  Says(r, n - 1, T, then, want)
  <2>1. \A j \in 1 .. Len(r) : i - 1 < j /\ j < n - 1 => r[j].t # T
    <3> SUFFICES ASSUME NEW j \in 1 .. Len(r), i - 1 < j, j < n - 1 PROVE r[j].t # T
      OBVIOUS
    <3>1. j + 1 \in 1 .. l /\ r[j] = q[j + 1] /\ i < j + 1 /\ j + 1 < n
      BY <1>1, <1>2
    <3> QED BY <1>4, <3>1
  <2>2. CASE i = 1
    <3>1. \A j \in 1 .. Len(r) : j < n - 1 => r[j].t # T
      BY <1>1, <2>1, <2>2
    <3>2. then <=> want
      BY <1>1, <1>4, <2>2
    <3> QED BY <3>1, <3>2 DEF Says
  <2>3. CASE i # 1
    <3>1. i - 1 \in 1 .. Len(r) /\ r[i - 1] = q[i] /\ i - 1 < n - 1
      BY <1>1, <1>2, <1>4, <2>3
    <3> QED BY <1>4, <2>1, <3>1 DEF Says
  <2> QED BY <2>2, <2>3
<1>5. ASSUME \A i \in 1 .. l : i < n => q[i].t # T, now <=> want
      PROVE  Says(r, n - 1, T, then, want)
  <2>1. 1 < n
    BY <1>2
  <2>2. Head(q).t # T
    BY <1>1, <1>5, <2>1
  <2>3. \A i \in 1 .. Len(r) : i < n - 1 => r[i].t # T
    <3> SUFFICES ASSUME NEW i \in 1 .. Len(r), i < n - 1 PROVE r[i].t # T
      OBVIOUS
    <3>1. i + 1 \in 1 .. l /\ r[i] = q[i + 1] /\ i + 1 < n
      BY <1>1, <1>2
    <3> QED BY <1>5, <3>1
  <2> QED BY <1>5, <2>2, <2>3 DEF Says
<1> QED BY <1>4, <1>5 DEF Says, r, l

LEMMA CountsAppended ==
  ASSUME NEW S, NEW q \in Seq(S), NEW x \in S, NEW X
  PROVE  /\ Count(q, X) \in Nat /\ Count(Append(q, x), X) \in Nat
         /\ Count(Append(q, x), X) = (IF x \in X THEN Count(q, X) + 1 ELSE Count(q, X))
<1> DEFINE r == Append(q, x)
           n == Len(q)
           A == {i \in DOMAIN q : q[i] \in X}
           B == {i \in DOMAIN r : r[i] \in X}
<1>1. /\ n \in Nat /\ Len(r) = n + 1 /\ r[n + 1] = x /\ DOMAIN q = 1 .. n /\ DOMAIN r = 1 .. n + 1
      /\ \A i \in 1 .. n : i \in 1 .. n + 1 /\ r[i] = q[i]
      /\ \A i \in 1 .. n + 1 : i \in 1 .. n \/ i = n + 1
  BY Appended
<1>2. IsFiniteSet(1 .. n)
  <2>1. 1 \in Int /\ n \in Int
    BY <1>1
  <2> HIDE DEF r, n, A, B
  <2> QED BY <2>1, FS_Interval
<1>3. A \in SUBSET (1 .. n)
  BY <1>1
<1>4. IsFiniteSet(A) /\ n + 1 \notin A
  <2>1. n + 1 \notin 1 .. n
    BY <1>1
  <2> HIDE DEF A
  <2> QED BY <1>2, <1>3, <2>1, FS_Subset
<1>5. B = (IF x \in X THEN A \cup {n + 1} ELSE A)
  <2> HIDE DEF r, n
  <2> QED BY <1>1
<1> HIDE DEF A, B, r
<1>6. /\ IsFiniteSet(A \cup {n + 1})
      /\ Cardinality(A \cup {n + 1}) = Cardinality(A) + 1 /\ Cardinality(A) \in Nat
  BY <1>4, FS_AddElement, FS_CardinalityType
<1>7. Count(q, X) = Cardinality(A) /\ Count(r, X) = Cardinality(B)
  BY DEF Count, A, B
<1> QED BY <1>5, <1>6, <1>7 DEF r

LEMMA CountsShifted ==
  ASSUME NEW S, NEW q \in Seq(S), q # <<>>, NEW X
  PROVE  /\ Count(q, X) \in Nat /\ Count(Tail(q), X) \in Nat
         /\ Count(q, X) = (IF Head(q) \in X THEN Count(Tail(q), X) + 1 ELSE Count(Tail(q), X))
<1> DEFINE r == Tail(q)
           n == Len(q)
           A == {i \in DOMAIN q : q[i] \in X}
           B == {i \in DOMAIN r : r[i] \in X}
           C == A \ {1}
           f == [i \in C |-> i - 1]
<1>1. /\ n \in Nat /\ Len(r) = n - 1 /\ Head(q) = q[1] /\ 1 \in 1 .. n
      /\ DOMAIN q = 1 .. n /\ DOMAIN r = 1 .. n - 1
      /\ \A i \in 1 .. n - 1 : i + 1 \in 1 .. n /\ r[i] = q[i + 1]
      /\ \A i \in 1 .. n : i = 1 \/ (i - 1 \in 1 .. n - 1 /\ r[i - 1] = q[i])
  BY Shifted
<1>2. IsFiniteSet(1 .. n)
  BY <1>1, FS_Interval
<1>3. A \in SUBSET (1 .. n)
  BY <1>1
<1>4. IsFiniteSet(A) /\ IsFiniteSet(C) /\ Cardinality(A) \in Nat /\ Cardinality(C) \in Nat
      /\ Cardinality(C) = (IF 1 \in A THEN Cardinality(A) - 1 ELSE Cardinality(A))
  <2>1. IsFiniteSet(A)
    <3> HIDE DEF A
    <3> QED BY <1>2, <1>3, FS_Subset
  <2> HIDE DEF A
  <2> QED BY <2>1, FS_RemoveElement, FS_CardinalityType
<1>5. f \in Bijection(C, B)
  <2>1. \A i \in C : i \in 1 .. n /\ i # 1 /\ q[i] \in X
    BY <1>1
  <2>2. \A i \in C : i - 1 \in B
    <3> HIDE DEF r, n, C
    <3> QED BY <1>1, <2>1
  <2>3. \A j \in B : j + 1 \in C /\ (j + 1) - 1 = j
    <3> HIDE DEF r, n
    <3> QED BY <1>1
  <2>4. f \in [C -> B]
    BY <2>2
  <2>5. \A i, j \in C : f[i] = f[j] => i = j
    <3> SUFFICES ASSUME NEW i \in C, NEW j \in C, f[i] = f[j] PROVE i = j
      OBVIOUS
    <3>1. i \in Int /\ j \in Int /\ i - 1 = j - 1
      BY <1>1, <2>1
    <3> QED BY <3>1
  <2>6. \A j \in B : \E i \in C : f[i] = j
    <3> SUFFICES ASSUME NEW j \in B PROVE \E i \in C : f[i] = j
      OBVIOUS
    <3>1. j + 1 \in C /\ f[j + 1] = j
      BY <2>3
    <3> QED BY <3>1
  <2> HIDE DEF f, C, B
  <2> QED BY <2>4, <2>5, <2>6, Fun_IsBij
<1> HIDE DEF f, B, C, A, r
<1>6. Cardinality(B) = Cardinality(C)
  <2>1. ExistsBijection(C, B)
    BY <1>5 DEF ExistsBijection
  <2> QED BY <1>4, <2>1, FS_Bijection
<1>7. 1 \in A <=> Head(q) \in X
  BY <1>1 DEF A
<1>8. Count(q, X) = Cardinality(A) /\ Count(r, X) = Cardinality(B)
  BY DEF Count, A, B
<1> QED BY <1>4, <1>6, <1>7, <1>8 DEF r

LEMMA AllCount ==
  ASSUME NEW S, NEW q \in Seq(S), NEW X, \A i \in 1 .. Len(q) : q[i] \in X
  PROVE  Count(q, X) = Len(q)
<1>1. Len(q) \in Nat /\ DOMAIN q = 1 .. Len(q)
  OBVIOUS
<1>2. {i \in DOMAIN q : q[i] \in X} = 1 .. Len(q)
  BY <1>1
<1>3. Cardinality(1 .. Len(q)) = Len(q)
  BY <1>1, FS_Interval
<1> QED BY <1>2, <1>3 DEF Count

-----------------------------------------------------------------------------
(* The modes.                                                              *)

\* What CWTX has seen of the carrier: it is lit or not.
CarrierSeen(lit) ==
  /\ Says(cwq, Len(cwq) + 1, "TX_MODE", old_txmode_is_cw, cw)
  /\ ~lit => (txmode_is_cw <=> old_txmode_is_cw)
  /\ Says(cwq, Len(cwq) + 1, "TX_BEACON", lit, carrier)
  /\ \A i \in 1 .. Len(cwq) :
       cwq[i].t = "TX_BEACON" /\ TurnsOn(cwq[i]) => Says(cwq, i, "TX_BEACON", lit, FALSE)

\* USRPTX's members, and what its queue makes of them.
TxModes ==
  /\ tx_enabled \in BOOLEAN /\ tx_cw \in BOOLEAN /\ beacon_mode \in BOOLEAN
  /\ Says(txq, Len(txq) + 1, "TX_STATE", tx_enabled, over)
  /\ Says(txq, Len(txq) + 1, "TX_MODE", tx_cw, cw)
  /\ Says(txq, Len(txq) + 1, "TX_BEACON", beacon_mode, carrier)

\* The same of CWTX; it keeps one mode for the carrier to give back.
CwtxModes ==
  /\ tx_on \in BOOLEAN /\ txmode_is_cw \in BOOLEAN /\ old_txmode_is_cw \in BOOLEAN
  /\ Says(cwq, Len(cwq) + 1, "TX_STATE", tx_on, over)
  /\ careful => \E lit \in BOOLEAN : CarrierSeen(lit)

ModesInv ==
  /\ over \in BOOLEAN /\ cw \in BOOLEAN /\ carrier \in BOOLEAN
  /\ TxModes /\ CwtxModes

LEMMA ModesInvCovers == ModesInv => ModesAgree
<1> SUFFICES ASSUME ModesInv, careful, cwq = <<>>, txq = <<>>
             PROVE  /\ tx_cw = cw /\ beacon_mode = carrier
                    /\ ~carrier => txmode_is_cw = cw
                    /\ tx_on = tx_enabled
  BY DEF ModesAgree
<1>1. PICK lit \in BOOLEAN : CarrierSeen(lit)
  BY DEF ModesInv, CwtxModes
<1>2. \A T, now, want : Says(<<>>, Len(<<>>) + 1, T, now, want) => (now <=> want)
  BY DEF Says
<1>3. \A T, now, want :
        /\ Says(cwq, Len(cwq) + 1, T, now, want) => (now <=> want)
        /\ Says(txq, Len(txq) + 1, T, now, want) => (now <=> want)
  BY <1>2
<1>4. /\ (tx_enabled <=> over) /\ (tx_cw <=> cw) /\ (beacon_mode <=> carrier)
      /\ (tx_on <=> over)
  BY <1>3, Zenon DEF ModesInv, TxModes, CwtxModes
<1>5. (old_txmode_is_cw <=> cw) /\ (lit <=> carrier)
  <2>1. Says(cwq, Len(cwq) + 1, "TX_MODE", old_txmode_is_cw, cw)
    BY <1>1 DEF CarrierSeen
  <2>2. Says(cwq, Len(cwq) + 1, "TX_BEACON", lit, carrier)
    BY <1>1 DEF CarrierSeen
  <2>3. old_txmode_is_cw <=> cw
    BY <1>3, <2>1
  <2>4. lit <=> carrier
    BY <1>3, <2>2
  <2> QED BY <2>3, <2>4
<1>6. ~carrier => (txmode_is_cw <=> cw)
  BY <1>1, <1>5, Zenon DEF CarrierSeen
<1>7. /\ over \in BOOLEAN /\ cw \in BOOLEAN /\ carrier \in BOOLEAN /\ tx_on \in BOOLEAN
      /\ txmode_is_cw \in BOOLEAN /\ tx_enabled \in BOOLEAN /\ tx_cw \in BOOLEAN
      /\ beacon_mode \in BOOLEAN
  BY DEF ModesInv, TxModes, CwtxModes
<1>8. tx_cw = cw /\ beacon_mode = carrier /\ tx_on = tx_enabled
  BY <1>4, <1>7, Zenon
<1>9. ~carrier => txmode_is_cw = cw
  BY <1>6, <1>7, Zenon
<1> QED BY <1>8, <1>9

LEMMA InitModes == Init => ModesInv
<1> SUFFICES ASSUME Init PROVE ModesInv
  OBVIOUS
<1>1. \A T, now, n : Says(<<>>, n, T, now, now)
  BY DEF Says
<1>2. cwq = <<>> /\ txq = <<>> /\ ~carrier /\ ~over /\ ~tx_on /\ ~tx_enabled /\ ~beacon_mode
      /\ carrier = FALSE /\ over = FALSE /\ tx_on = FALSE /\ tx_enabled = FALSE
      /\ beacon_mode = FALSE /\ cw \in BOOLEAN /\ tx_cw = cw /\ txmode_is_cw = cw /\ old_txmode_is_cw = cw
  BY DEF Init
<1>3. CarrierSeen(FALSE)
  BY <1>1, <1>2 DEF CarrierSeen
<1> QED BY <1>1, <1>2, <1>3 DEF ModesInv, TxModes, CwtxModes

\* What the client's command c says of a type, and what the client means.
Means(c, T, was, is) ==
  \/ c.t = T /\ (TurnsOn(c) <=> is)
  \/ c.t # T /\ (is <=> was)

Told(c) ==
  /\ Means(c, "TX_STATE", over, over') /\ Means(c, "TX_MODE", cw, cw')
  /\ Means(c, "TX_BEACON", carrier, carrier')
  /\ careful /\ c.t = "TX_BEACON" => (carrier' <=> ~carrier)

\* What the client does to its own switches, it tells both queues.
LEMMA ClientTells ==
  ASSUME ModesInv, Client, AheadInv
  PROVE  /\ over' \in BOOLEAN /\ cw' \in BOOLEAN /\ carrier' \in BOOLEAN
         /\ \/ UNCHANGED <<cwq, over, cw, carrier>>
            \/ \E c \in CwtxCmds : cwq' = Append(cwq, c) /\ Told(c)
         /\ \/ UNCHANGED <<txq, over, cw, carrier>>
            \/ \E c \in TxCmds : txq' = Append(txq, c) /\ Told(c)
<1>1. over \in BOOLEAN /\ cw \in BOOLEAN /\ carrier \in BOOLEAN
  BY DEF ModesInv
<1>2. n_text \in Nat /\ (n_text < MaxText => n_text + 1 \in Serials)
  BY CWAssumption DEF AheadInv, TextTypes, Serials
<1>3. ASSUME NEW c, c.t \notin {"TX_STATE", "TX_MODE", "TX_BEACON"}, UNCHANGED <<over, cw, carrier>>
      PROVE  Told(c)
  BY <1>3 DEF Told, Means
<1>4. CASE Type \/ Mark \/ Flush
  <2>1. UNCHANGED <<txq, over, cw, carrier>>
    BY <1>4 DEF Type, Mark, Flush, ToCwtx
  <2>2. PICK t \in {"TX_CW_TEXT", "TX_CW_MARKER", "TX_CW_FLUSHTEXT"}, v \in Nat :
          cwq' = Append(cwq, Cmd(t, v)) /\ Cmd(t, v) \in CwtxCmds
    <3>1. CASE Type
      <4>1. n_text < MaxText /\ cwq' = Append(cwq, Cmd("TX_CW_TEXT", n_text + 1))
        BY <3>1 DEF Type, ToCwtx
      <4>2. Cmd("TX_CW_TEXT", n_text + 1) \in CwtxCmds
        BY <1>2, <4>1 DEF Cmd, CwtxCmds
      <4> QED BY <1>2, <4>1, <4>2
    <3>2. CASE Mark
      <4>1. n_text < MaxText /\ cwq' = Append(cwq, Cmd("TX_CW_MARKER", n_text + 1))
        BY <3>2 DEF Mark, ToCwtx
      <4>2. Cmd("TX_CW_MARKER", n_text + 1) \in CwtxCmds
        BY <1>2, <4>1 DEF Cmd, CwtxCmds
      <4> QED BY <1>2, <4>1, <4>2
    <3>3. CASE Flush
      <4>1. cwq' = Append(cwq, Cmd("TX_CW_FLUSHTEXT", 0)) /\ Cmd("TX_CW_FLUSHTEXT", 0) \in CwtxCmds
        BY <3>3 DEF Flush, ToCwtx, Cmd, CwtxCmds
      <4> QED BY <4>1
    <3> QED BY <1>4, <3>1, <3>2, <3>3
  <2>3. Told(Cmd(t, v))
    <3>1. Cmd(t, v).t \notin {"TX_STATE", "TX_MODE", "TX_BEACON"}
      BY DEF Cmd
    <3> QED BY <1>3, <2>1, <3>1
  <2> QED BY <1>1, <2>1, <2>2, <2>3
<1>5. CASE Ask
  <2>1. UNCHANGED <<cwq, over, cw, carrier>> /\ txq' = Append(txq, Empty)
    BY <1>5 DEF Ask, Empty
  <2>2. Empty \in TxCmds /\ Empty.t \notin {"TX_STATE", "TX_MODE", "TX_BEACON"}
    BY DEF Empty, Cmd, TxCmds
  <2> QED BY <1>1, <1>3, <2>1, <2>2
<1>6. ASSUME NEW on \in BOOLEAN, Key(on) \/ Carrier(on) \/ Mode(on)
      PROVE  /\ over' \in BOOLEAN /\ cw' \in BOOLEAN /\ carrier' \in BOOLEAN
             /\ \E c \in CwtxCmds : cwq' = Append(cwq, c) /\ Told(c)
             /\ \E c \in TxCmds : txq' = Append(txq, c) /\ Told(c)
  <2>1. CASE Key(on)
    <3> DEFINE c == Cmd("TX_STATE", Flag(on) + 2)
    <3>1. /\ over' = on /\ UNCHANGED <<cw, carrier>>
          /\ cwq' = Append(cwq, c) /\ txq' = Append(txq, c)
      BY <2>1 DEF Key, ToBoth
    <3>2. c \in CwtxCmds /\ c \in TxCmds /\ c.t = "TX_STATE" /\ (TurnsOn(c) <=> on)
      BY DEF Cmd, CwtxCmds, TxCmds, Flag, TurnsOn
    <3> HIDE DEF c
    <3>3. Told(c)
      BY <3>1, <3>2 DEF Told, Means
    <3> QED BY <1>1, <3>1, <3>2, <3>3
  <2>2. CASE Carrier(on)
    <3> DEFINE c == Cmd("TX_BEACON", Flag(on))
    <3>1. /\ carrier' = on /\ UNCHANGED <<cw, over>> /\ (careful => on # carrier)
          /\ cwq' = Append(cwq, c) /\ txq' = Append(txq, c)
      BY <2>2 DEF Carrier, ToBoth
    <3>2. c \in CwtxCmds /\ c \in TxCmds /\ c.t = "TX_BEACON" /\ (TurnsOn(c) <=> on)
      BY DEF Cmd, CwtxCmds, TxCmds, Flag, TurnsOn
    <3> HIDE DEF c
    <3>3. careful => (carrier' <=> ~carrier)
      BY <1>1, <3>1
    <3>4. Told(c)
      BY <3>1, <3>2, <3>3 DEF Told, Means
    <3> QED BY <1>1, <3>1, <3>2, <3>4
  <2>3. CASE Mode(on)
    <3> DEFINE c == Cmd("TX_MODE", Flag(on))
    <3>1. /\ cw' = on /\ UNCHANGED <<over, carrier>>
          /\ cwq' = Append(cwq, c) /\ txq' = Append(txq, c)
      BY <2>3 DEF Mode, ToBoth
    <3>2. c \in CwtxCmds /\ c \in TxCmds /\ c.t = "TX_MODE" /\ (TurnsOn(c) <=> on)
      BY DEF Cmd, CwtxCmds, TxCmds, Flag, TurnsOn
    <3> HIDE DEF c
    <3>3. Told(c)
      BY <3>1, <3>2 DEF Told, Means
    <3> QED BY <1>1, <3>1, <3>2, <3>3
  <2> QED BY <1>6, <2>1, <2>2, <2>3
<1> QED BY <1>4, <1>5, <1>6 DEF Client

\* A queue that is told leads to what the client means now.
LEMMA QueueTold ==
  ASSUME NEW S, NEW q \in Seq(S), NEW c \in S, NEW T, NEW now \in BOOLEAN, NEW was \in BOOLEAN,
         NEW is \in BOOLEAN, Says(q, Len(q) + 1, T, now, was), Means(c, T, was, is)
  PROVE  Says(Append(q, c), Len(Append(q, c)) + 1, T, now, is)
BY SaysAppended DEF Means

LEMMA ClientKeepsModes ==
  ASSUME TagInv, ModesInv, Client PROVE ModesInv'
<1>1. cwq \in Seq(CwtxCmds) /\ txq \in Seq(TxCmds) /\ AheadInv
  BY TagTypes
<1>2. UNCHANGED <<tx_on, txmode_is_cw, old_txmode_is_cw, tx_enabled, tx_cw, beacon_mode, careful>>
  BY DEF Client, Type, Mark, Flush, Ask, Key, Carrier, Mode, Radio, cwtx, usrptx
<1>3. /\ over' \in BOOLEAN /\ cw' \in BOOLEAN /\ carrier' \in BOOLEAN
      /\ \/ UNCHANGED <<cwq, over, cw, carrier>>
         \/ \E c \in CwtxCmds : cwq' = Append(cwq, c) /\ Told(c)
      /\ \/ UNCHANGED <<txq, over, cw, carrier>>
         \/ \E c \in TxCmds : txq' = Append(txq, c) /\ Told(c)
  BY <1>1, ClientTells
<1>4. over \in BOOLEAN /\ cw \in BOOLEAN /\ carrier \in BOOLEAN /\ TxModes /\ CwtxModes
  BY DEF ModesInv
<1>5. tx_enabled \in BOOLEAN /\ tx_cw \in BOOLEAN /\ beacon_mode \in BOOLEAN
      /\ tx_on \in BOOLEAN /\ txmode_is_cw \in BOOLEAN /\ old_txmode_is_cw \in BOOLEAN
  BY <1>4 DEF TxModes, CwtxModes
<1>6. TxModes'
  <2>1. CASE UNCHANGED <<txq, over, cw, carrier>>
    BY <1>2, <1>4, <2>1 DEF TxModes
  <2>2. ASSUME NEW c \in TxCmds, txq' = Append(txq, c), Told(c) PROVE TxModes'
    <3>1. /\ Says(txq, Len(txq) + 1, "TX_STATE", tx_enabled, over)
          /\ Says(txq, Len(txq) + 1, "TX_MODE", tx_cw, cw)
          /\ Says(txq, Len(txq) + 1, "TX_BEACON", beacon_mode, carrier)
      BY <1>4 DEF TxModes
    <3>2. /\ Means(c, "TX_STATE", over, over') /\ Means(c, "TX_MODE", cw, cw')
          /\ Means(c, "TX_BEACON", carrier, carrier')
      BY <2>2 DEF Told
    <3>3. Says(txq', Len(txq') + 1, "TX_STATE", tx_enabled, over')
      BY <1>1, <1>3, <1>4, <1>5, <2>2, <3>1, <3>2, QueueTold
    <3>4. Says(txq', Len(txq') + 1, "TX_MODE", tx_cw, cw')
      BY <1>1, <1>3, <1>4, <1>5, <2>2, <3>1, <3>2, QueueTold
    <3>5. Says(txq', Len(txq') + 1, "TX_BEACON", beacon_mode, carrier')
      BY <1>1, <1>3, <1>4, <1>5, <2>2, <3>1, <3>2, QueueTold
    <3> QED BY <1>2, <1>5, <3>3, <3>4, <3>5 DEF TxModes
  <2> QED BY <1>3, <2>1, <2>2
<1>7. CwtxModes'
  <2>1. CASE UNCHANGED <<cwq, over, cw, carrier>>
    <3>1. ASSUME NEW lit \in BOOLEAN, CarrierSeen(lit) PROVE CarrierSeen(lit)'
      BY <1>2, <2>1, <3>1 DEF CarrierSeen
    <3> QED BY <1>2, <1>4, <2>1, <3>1 DEF CwtxModes
  <2>2. ASSUME NEW c \in CwtxCmds, cwq' = Append(cwq, c), Told(c) PROVE CwtxModes'
    <3>1. /\ Means(c, "TX_STATE", over, over') /\ Means(c, "TX_MODE", cw, cw')
          /\ Means(c, "TX_BEACON", carrier, carrier')
      BY <2>2 DEF Told
    <3>2. Says(cwq', Len(cwq') + 1, "TX_STATE", tx_on, over')
      <4>1. Says(cwq, Len(cwq) + 1, "TX_STATE", tx_on, over)
        BY <1>4 DEF CwtxModes
      <4> QED BY <1>1, <1>3, <1>4, <1>5, <2>2, <3>1, <4>1, QueueTold
    <3>3. ASSUME careful, NEW lit \in BOOLEAN, CarrierSeen(lit) PROVE CarrierSeen(lit)'
      <4>1. /\ Says(cwq, Len(cwq) + 1, "TX_MODE", old_txmode_is_cw, cw)
            /\ ~lit => (txmode_is_cw <=> old_txmode_is_cw)
            /\ Says(cwq, Len(cwq) + 1, "TX_BEACON", lit, carrier)
            /\ \A i \in 1 .. Len(cwq) :
                 cwq[i].t = "TX_BEACON" /\ TurnsOn(cwq[i]) => Says(cwq, i, "TX_BEACON", lit, FALSE)
        BY <3>3 DEF CarrierSeen
      <4>2. Says(cwq', Len(cwq') + 1, "TX_MODE", old_txmode_is_cw, cw')
        BY <1>1, <1>3, <1>4, <1>5, <2>2, <3>1, <4>1, QueueTold
      <4>3. Says(cwq', Len(cwq') + 1, "TX_BEACON", lit, carrier')
        BY <1>1, <1>3, <1>4, <1>5, <2>2, <3>1, <4>1, QueueTold
      <4>4. /\ Len(cwq) \in Nat /\ Len(cwq') = Len(cwq) + 1 /\ cwq'[Len(cwq) + 1] = c
            /\ \A i \in 1 .. Len(cwq) : i \in 1 .. Len(cwq) + 1 /\ cwq'[i] = cwq[i]
            /\ \A i \in 1 .. Len(cwq) + 1 : i \in 1 .. Len(cwq) \/ i = Len(cwq) + 1
        BY <1>1, <2>2, Appended
      <4>5. \A n \in 1 .. Len(cwq) + 1 :
              Says(cwq, n, "TX_BEACON", lit, FALSE) => Says(cwq', n, "TX_BEACON", lit, FALSE)
        BY <1>1, <2>2, SaysBefore
      <4>6. ASSUME NEW i \in 1 .. Len(cwq'), cwq'[i].t = "TX_BEACON", TurnsOn(cwq'[i])
            PROVE  Says(cwq', i, "TX_BEACON", lit, FALSE)
        <5>1. CASE i \in 1 .. Len(cwq)
          <6>1. Says(cwq, i, "TX_BEACON", lit, FALSE)
            BY <4>1, <4>4, <4>6, <5>1
          <6> QED BY <4>4, <4>5, <5>1, <6>1
        <5>2. CASE i = Len(cwq) + 1
          <6>1. cwq'[i] = c
            BY <4>4, <5>2
          <6>2. c.t = "TX_BEACON" /\ TurnsOn(c)
            BY <4>6, <6>1
          <6>3. carrier' /\ ~carrier
            BY <2>2, <3>1, <3>3, <6>2 DEF Told, Means
          <6>4. carrier = FALSE
            BY <1>4, <6>3, Zenon
          <6>5. Says(cwq, i, "TX_BEACON", lit, FALSE)
            BY <4>1, <5>2, <6>4
          <6>6. i \in 1 .. Len(cwq) + 1
            BY <4>4, <5>2
          <6> QED BY <4>5, <6>5, <6>6
        <5> QED BY <4>4, <5>1, <5>2
      <4> QED BY <1>2, <4>1, <4>2, <4>3, <4>6 DEF CarrierSeen
    <3> QED BY <1>2, <1>4, <1>5, <3>2, <3>3 DEF CwtxModes
  <2> QED BY <1>3, <2>1, <2>2
<1> QED BY <1>3, <1>6, <1>7 DEF ModesInv

\* USRPTX takes a command.
LEMMA TxTakesModes ==
  ASSUME TagInv, ModesInv, TxTakes PROVE ModesInv'
<1> DEFINE c == Head(txq)
<1>1. txq # <<>> /\ txq' = Tail(txq) /\ txq \in Seq(TxCmds) /\ Len(txq) \in Nat
      /\ c \in TxCmds /\ Len(txq') = Len(txq) - 1 /\ 1 \in 1 .. Len(txq)
  <2>1. txq # <<>> /\ txq' = Tail(txq) /\ txq \in Seq(TxCmds)
    BY TagTypes DEF TxTakes
  <2> QED BY <2>1, Shifted
<1>2. UNCHANGED <<cwq, tx_on, txmode_is_cw, old_txmode_is_cw, over, cw, carrier, careful>>
  BY DEF TxTakes, cwtx, client
<1>3. over \in BOOLEAN /\ cw \in BOOLEAN /\ carrier \in BOOLEAN /\ TxModes /\ CwtxModes
  BY DEF ModesInv
<1>4. tx_enabled \in BOOLEAN /\ tx_cw \in BOOLEAN /\ beacon_mode \in BOOLEAN
  BY <1>3 DEF TxModes
<1>5. CwtxModes'
  <2>1. ASSUME NEW lit \in BOOLEAN, CarrierSeen(lit) PROVE CarrierSeen(lit)'
    BY <1>2, <2>1 DEF CarrierSeen
  <2> QED BY <1>2, <1>3, <2>1 DEF CwtxModes
<1>6. /\ tx_enabled' \in BOOLEAN /\ tx_cw' \in BOOLEAN /\ beacon_mode' \in BOOLEAN
      /\ Means(c, "TX_STATE", tx_enabled, tx_enabled') /\ Means(c, "TX_MODE", tx_cw, tx_cw')
      /\ Means(c, "TX_BEACON", beacon_mode, beacon_mode')
  <2>1. CASE c.t = "TX_STATE"
    <3>1. (c.v = 3 <=> TurnsOn(c)) /\ UNCHANGED <<tx_cw, beacon_mode>> /\ tx_enabled' = (c.v = 3)
      BY <1>1, <2>1 DEF TxTakes, TransmitSwitch, TurnsOn, TxCmds
    <3> QED BY <1>4, <2>1, <3>1 DEF Means
  <2>2. CASE c.t = "TX_BEACON"
    <3>1. (c.v # 0 <=> TurnsOn(c)) /\ UNCHANGED <<tx_cw, tx_enabled>> /\ beacon_mode' = (c.v # 0)
      BY <1>1, <2>2 DEF TxTakes, TxBeacon, TurnsOn, TxCmds
    <3> QED BY <1>4, <2>2, <3>1 DEF Means
  <2>3. CASE c.t = "TX_MODE"
    <3>1. (c.v = 1 <=> TurnsOn(c)) /\ UNCHANGED <<beacon_mode, tx_enabled>> /\ tx_cw' = (c.v = 1)
      BY <1>1, <2>3 DEF TxTakes, TurnsOn, TxCmds
    <3> QED BY <1>4, <2>3, <3>1 DEF Means
  <2>4. CASE c.t = "TX_CW_EMPTY"
    <3>1. UNCHANGED <<tx_cw, beacon_mode, tx_enabled>>
      BY <2>4 DEF TxTakes
    <3> QED BY <1>4, <2>4, <3>1 DEF Means
  <2> QED BY <1>1, <2>1, <2>2, <2>3, <2>4 DEF TxCmds
<1>7. ASSUME NEW T, NEW now \in BOOLEAN, NEW then \in BOOLEAN, NEW want \in BOOLEAN,
             Says(txq, Len(txq) + 1, T, now, want), Means(c, T, now, then)
      PROVE  Says(txq', Len(txq') + 1, T, then, want)
  <2>1. /\ \/ Head(txq).t = T /\ (TurnsOn(Head(txq)) <=> then)
           \/ Head(txq).t # T /\ (now <=> then)
    BY <1>7 DEF Means
  <2>2. PICK n \in 2 .. Len(txq) + 1 : n = Len(txq) + 1 /\ n - 1 = Len(txq') + 1
    BY <1>1
  <2>3. Says(txq, n, T, now, want)
    BY <1>7, <2>2
  <2>4. Says(Tail(txq), n - 1, T, then, want)
    BY <1>1, <2>1, <2>3, SaysShifted
  <2> QED BY <1>1, <2>2, <2>4
<1>8. TxModes'
  <2>1. /\ Says(txq, Len(txq) + 1, "TX_STATE", tx_enabled, over)
        /\ Says(txq, Len(txq) + 1, "TX_MODE", tx_cw, cw)
        /\ Says(txq, Len(txq) + 1, "TX_BEACON", beacon_mode, carrier)
    BY <1>3 DEF TxModes
  <2> HIDE DEF c
  <2>2. /\ Says(txq', Len(txq') + 1, "TX_STATE", tx_enabled', over)
        /\ Says(txq', Len(txq') + 1, "TX_MODE", tx_cw', cw)
        /\ Says(txq', Len(txq') + 1, "TX_BEACON", beacon_mode', carrier)
    BY <1>3, <1>4, <1>6, <1>7, <2>1
  <2> QED BY <1>2, <1>6, <2>2 DEF TxModes
<1> QED BY <1>2, <1>3, <1>5, <1>8 DEF ModesInv

\* CWTX takes a command.  A careful client lights the carrier only when CWTX has
\* it dark, so that the mode CWTX keeps aside is the mode.
LEMMA CwtxTakesModes ==
  ASSUME TagInv, ModesInv, CwtxTakes PROVE ModesInv'
<1> DEFINE c == Head(cwq)
<1>1. cwq # <<>> /\ cwq' = Tail(cwq) /\ cwq \in Seq(CwtxCmds) /\ Len(cwq) \in Nat
      /\ c \in CwtxCmds /\ Len(cwq') = Len(cwq) - 1 /\ 1 \in 1 .. Len(cwq) /\ c = cwq[1]
      /\ \A i \in 1 .. Len(cwq) - 1 : i + 1 \in 1 .. Len(cwq) /\ cwq'[i] = cwq[i + 1]
  <2>1. cwq # <<>> /\ cwq' = Tail(cwq) /\ cwq \in Seq(CwtxCmds)
    BY TagTypes DEF CwtxTakes
  <2> QED BY <2>1, Shifted
<1>2. UNCHANGED <<txq, tx_enabled, tx_cw, beacon_mode, over, cw, carrier, careful>>
  BY DEF CwtxTakes, usrptx, client
<1>3. over \in BOOLEAN /\ cw \in BOOLEAN /\ carrier \in BOOLEAN /\ TxModes /\ CwtxModes
  BY DEF ModesInv
<1>4. /\ tx_on \in BOOLEAN /\ txmode_is_cw \in BOOLEAN /\ old_txmode_is_cw \in BOOLEAN
      /\ Says(cwq, Len(cwq) + 1, "TX_STATE", tx_on, over)
  BY <1>3 DEF CwtxModes
<1>5. TxModes'
  BY <1>2, <1>3 DEF TxModes
<1>6. \/ c.t = "TX_STATE" /\ tx_on' = (c.v = 3) /\ UNCHANGED modes
      \/ c.t = "TX_BEACON" /\ UNCHANGED tx_on /\ Beacon(c.v = 1)
      \/ c.t = "TX_MODE" /\ UNCHANGED tx_on /\ txmode_is_cw' = (c.v = 1) /\ old_txmode_is_cw' = (c.v = 1)
      \/ c.t \notin {"TX_STATE", "TX_BEACON", "TX_MODE"} /\ UNCHANGED <<tx_on, modes>>
  BY DEF CwtxTakes
<1>7. /\ c.t = "TX_STATE" => (c.v = 3 <=> TurnsOn(c))
      /\ c.t \in {"TX_BEACON", "TX_MODE"} => (c.v = 1 <=> TurnsOn(c))
  BY <1>1 DEF CwtxCmds, TurnsOn
<1> HIDE DEF c
<1>8. /\ tx_on' \in BOOLEAN /\ txmode_is_cw' \in BOOLEAN /\ old_txmode_is_cw' \in BOOLEAN
      /\ Means(c, "TX_STATE", tx_on, tx_on')
  <2>1. CASE c.t = "TX_STATE"
    BY <1>4, <1>6, <1>7, <2>1 DEF Means, modes
  <2>2. CASE c.t = "TX_BEACON"
    <3>1. /\ UNCHANGED tx_on /\ (txmode_is_cw' = FALSE \/ txmode_is_cw' = old_txmode_is_cw)
          /\ (old_txmode_is_cw' = txmode_is_cw \/ old_txmode_is_cw' = old_txmode_is_cw)
      BY <1>6, <2>2 DEF Beacon
    <3> QED BY <1>4, <2>2, <3>1 DEF Means
  <2>3. CASE c.t = "TX_MODE"
    BY <1>4, <1>6, <2>3 DEF Means
  <2>4. CASE c.t \notin {"TX_STATE", "TX_BEACON", "TX_MODE"}
    BY <1>4, <1>6, <2>4 DEF Means, modes
  <2> QED BY <2>1, <2>2, <2>3, <2>4
<1>9. ASSUME NEW T, NEW now \in BOOLEAN, NEW then \in BOOLEAN, NEW want \in BOOLEAN,
             NEW n \in 2 .. Len(cwq) + 1,
             Says(cwq, n, T, now, want), Means(c, T, now, then)
      PROVE  Says(cwq', n - 1, T, then, want)
  <2>1. /\ \/ Head(cwq).t = T /\ (TurnsOn(Head(cwq)) <=> then)
           \/ Head(cwq).t # T /\ (now <=> then)
    BY <1>9 DEF Means, c
  <2>2. Says(Tail(cwq), n - 1, T, then, want)
    BY <1>1, <1>9, <2>1, SaysShifted
  <2> QED BY <1>1, <2>2
<1>10. PICK last \in 2 .. Len(cwq) + 1 : last = Len(cwq) + 1 /\ last - 1 = Len(cwq') + 1
  BY <1>1
<1>11. Says(cwq', Len(cwq') + 1, "TX_STATE", tx_on', over)
  BY <1>3, <1>4, <1>8, <1>9, <1>10
<1>12. ASSUME careful, NEW lit \in BOOLEAN, CarrierSeen(lit)
       PROVE  \E now \in BOOLEAN : CarrierSeen(now)'
  <2>1. /\ Says(cwq, Len(cwq) + 1, "TX_MODE", old_txmode_is_cw, cw)
        /\ ~lit => (txmode_is_cw <=> old_txmode_is_cw)
        /\ Says(cwq, Len(cwq) + 1, "TX_BEACON", lit, carrier)
        /\ \A i \in 1 .. Len(cwq) :
             cwq[i].t = "TX_BEACON" /\ TurnsOn(cwq[i]) => Says(cwq, i, "TX_BEACON", lit, FALSE)
    BY <1>12 DEF CarrierSeen
  <2>2. c.t = "TX_BEACON" /\ TurnsOn(c) => ~lit
    <3>1. c.t = "TX_BEACON" /\ TurnsOn(c) => Says(cwq, 1, "TX_BEACON", lit, FALSE)
      BY <1>1, <2>1
    <3>2. \A i \in 1 .. Len(cwq) : ~(i < 1)
      BY <1>1
    <3>3. Says(cwq, 1, "TX_BEACON", lit, FALSE) => (lit <=> FALSE)
      BY <3>2 DEF Says
    <3> QED BY <3>1, <3>3
  <2>3. PICK now \in BOOLEAN : Means(c, "TX_BEACON", lit, now)
    <3>1. CASE c.t = "TX_BEACON" /\ TurnsOn(c)
      <4>1. Means(c, "TX_BEACON", lit, TRUE)
        BY <3>1 DEF Means
      <4> QED BY <4>1
    <3>2. CASE c.t = "TX_BEACON" /\ ~TurnsOn(c)
      <4>1. Means(c, "TX_BEACON", lit, FALSE)
        BY <3>2 DEF Means
      <4> QED BY <4>1
    <3>3. CASE c.t # "TX_BEACON"
      <4>1. Means(c, "TX_BEACON", lit, lit)
        BY <3>3 DEF Means
      <4> QED BY <4>1
    <3> QED BY <3>1, <3>2, <3>3
  <2>4. Means(c, "TX_MODE", old_txmode_is_cw, old_txmode_is_cw')
        /\ (~now => (txmode_is_cw' <=> old_txmode_is_cw'))
    <3>1. CASE c.t = "TX_STATE" \/ c.t \notin {"TX_STATE", "TX_BEACON", "TX_MODE"}
      <4>1. UNCHANGED modes /\ (now <=> lit)
        BY <1>6, <2>3, <3>1 DEF Means
      <4> QED BY <2>1, <3>1, <4>1 DEF Means, modes
    <3>2. CASE c.t = "TX_MODE"
      BY <1>6, <1>7, <3>2 DEF Means
    <3>3. CASE c.t = "TX_BEACON" /\ TurnsOn(c)
      <4>1. now /\ old_txmode_is_cw' = txmode_is_cw /\ (txmode_is_cw <=> old_txmode_is_cw)
        BY <1>6, <1>7, <2>1, <2>2, <2>3, <3>3 DEF Means, Beacon
      <4> QED BY <3>3, <4>1 DEF Means
    <3>4. CASE c.t = "TX_BEACON" /\ ~TurnsOn(c)
      <4>1. txmode_is_cw' = old_txmode_is_cw /\ old_txmode_is_cw' = old_txmode_is_cw
        BY <1>6, <1>7, <3>4 DEF Beacon
      <4> QED BY <3>4, <4>1 DEF Means
    <3> QED BY <3>1, <3>2, <3>3, <3>4
  <2>5. Says(cwq', Len(cwq') + 1, "TX_MODE", old_txmode_is_cw', cw)
    <3>1. Says(cwq, last, "TX_MODE", old_txmode_is_cw, cw)
      BY <1>10, <2>1
    <3>2. Says(cwq', last - 1, "TX_MODE", old_txmode_is_cw', cw)
      BY <1>3, <1>4, <1>8, <1>9, <2>4, <3>1
    <3> QED BY <1>10, <3>2
  <2>6. Says(cwq', Len(cwq') + 1, "TX_BEACON", now, carrier)
    BY <1>3, <1>9, <1>10, <2>1, <2>3
  <2>7. ASSUME NEW i \in 1 .. Len(cwq'), cwq'[i].t = "TX_BEACON", TurnsOn(cwq'[i])
        PROVE  Says(cwq', i, "TX_BEACON", now, FALSE)
    <3>1. PICK j \in 2 .. Len(cwq) + 1 : j = i + 1 /\ j - 1 = i /\ j \in 1 .. Len(cwq) /\ cwq'[i] = cwq[j]
      BY <1>1
    <3>2. Says(cwq, j, "TX_BEACON", lit, FALSE)
      BY <2>1, <2>7, <3>1
    <3>3. Says(cwq', j - 1, "TX_BEACON", now, FALSE)
      BY <1>9, <2>3, <3>2
    <3> QED BY <3>1, <3>3
  <2>8. CarrierSeen(now)'
    BY <1>2, <2>4, <2>5, <2>6, <2>7 DEF CarrierSeen
  <2> QED BY <2>8
<1>13. CwtxModes'
  BY <1>2, <1>3, <1>8, <1>11, <1>12 DEF CwtxModes
<1> QED BY <1>2, <1>3, <1>5, <1>13 DEF ModesInv

\* A report in CWTX's queue says nothing of modes.
LEMMA TxReportsModes ==
  ASSUME TagInv, ModesInv, TxReports PROVE ModesInv'
<1>1. /\ cwq \in Seq(CwtxCmds) /\ cwq' = Append(cwq, Empty) /\ Empty \in CwtxCmds
      /\ Empty.t = "TX_CW_EMPTY"
  BY TagTypes DEF TxReports, Empty, Cmd, CwtxCmds
<1>2. UNCHANGED <<txq, tx_on, txmode_is_cw, old_txmode_is_cw, tx_enabled, tx_cw, beacon_mode,
                  over, cw, carrier, careful>>
  BY DEF TxReports, cwtx, client
<1>3. over \in BOOLEAN /\ cw \in BOOLEAN /\ carrier \in BOOLEAN /\ TxModes /\ CwtxModes
  BY DEF ModesInv
<1>4. ASSUME NEW T \in {"TX_STATE", "TX_MODE", "TX_BEACON"}, NEW now \in BOOLEAN,
             NEW want \in BOOLEAN, Says(cwq, Len(cwq) + 1, T, now, want)
      PROVE  Says(cwq', Len(cwq') + 1, T, now, want)
  <2>1. Empty.t # T
    BY <1>1
  <2>2. Says(Append(cwq, Empty), Len(Append(cwq, Empty)) + 1, T, now, want)
    BY <1>1, <1>4, <2>1, SaysAppended
  <2> QED BY <1>1, <2>2
<1>5. TxModes'
  BY <1>2, <1>3 DEF TxModes
<1>6. ASSUME careful, NEW lit \in BOOLEAN, CarrierSeen(lit) PROVE CarrierSeen(lit)'
  <2>1. /\ Len(cwq) \in Nat /\ Len(cwq') = Len(cwq) + 1 /\ cwq'[Len(cwq) + 1] = Empty
        /\ \A i \in 1 .. Len(cwq) : i \in 1 .. Len(cwq) + 1 /\ cwq'[i] = cwq[i]
        /\ \A i \in 1 .. Len(cwq) + 1 : i \in 1 .. Len(cwq) \/ i = Len(cwq) + 1
    BY <1>1, Appended
  <2>2. \A n \in 1 .. Len(cwq) + 1 :
          Says(cwq, n, "TX_BEACON", lit, FALSE) => Says(cwq', n, "TX_BEACON", lit, FALSE)
    BY <1>1, SaysBefore
  <2>3. \A i \in 1 .. Len(cwq') :
          cwq'[i].t = "TX_BEACON" /\ TurnsOn(cwq'[i]) => Says(cwq', i, "TX_BEACON", lit, FALSE)
    BY <1>1, <1>6, <2>1, <2>2 DEF CarrierSeen
  <2>4. /\ Says(cwq', Len(cwq') + 1, "TX_MODE", old_txmode_is_cw, cw)
        /\ Says(cwq', Len(cwq') + 1, "TX_BEACON", lit, carrier)
    <3>1. /\ Says(cwq, Len(cwq) + 1, "TX_MODE", old_txmode_is_cw, cw)
          /\ Says(cwq, Len(cwq) + 1, "TX_BEACON", lit, carrier)
          /\ old_txmode_is_cw \in BOOLEAN
      BY <1>3, <1>6 DEF CarrierSeen, CwtxModes
    <3>2. Says(cwq', Len(cwq') + 1, "TX_MODE", old_txmode_is_cw, cw)
      BY <1>3, <1>4, <3>1
    <3>3. Says(cwq', Len(cwq') + 1, "TX_BEACON", lit, carrier)
      BY <1>3, <1>4, <3>1
    <3> QED BY <3>2, <3>3
  <2> QED BY <1>2, <1>6, <2>3, <2>4 DEF CarrierSeen
<1>7. Says(cwq', Len(cwq') + 1, "TX_STATE", tx_on, over)
  <2>1. Says(cwq, Len(cwq) + 1, "TX_STATE", tx_on, over) /\ tx_on \in BOOLEAN
    BY <1>3 DEF CwtxModes
  <2> QED BY <1>3, <1>4, <2>1
<1>8. CwtxModes'
  BY <1>2, <1>3, <1>6, <1>7 DEF CwtxModes
<1> QED BY <1>2, <1>3, <1>5, <1>8 DEF ModesInv

LEMMA StepModes == TagInv /\ ModesInv /\ [Next]_vars => ModesInv'
<1> SUFFICES ASSUME TagInv, ModesInv, [Next]_vars PROVE ModesInv'
  OBVIOUS
<1>1. CASE UNCHANGED <<mail, tx_on, modes, tx_enabled, tx_cw, beacon_mode, over, cw, carrier, careful>>
  <2>1. ASSUME NEW lit \in BOOLEAN, CarrierSeen(lit) PROVE CarrierSeen(lit)'
    BY <1>1, <2>1 DEF CarrierSeen, mail, modes
  <2>2. CwtxModes'
    BY <1>1, <2>1 DEF ModesInv, CwtxModes, mail, modes
  <2> QED BY <1>1, <2>2 DEF ModesInv, TxModes, mail
<1>2. CASE CwtxStarts \/ CwtxPosts \/ CwtxStops \/ TxSends \/ TxFindsDry \/ UNCHANGED vars
  BY <1>1, <1>2 DEF CwtxStarts, CwtxPosts, CwtxStops, TxSends, TxFindsDry, vars, mail, cwtx, modes,
                    usrptx, client
<1>3. CASE CwtxSends
  <2>1. UNCHANGED <<cwq, tx_on, txmode_is_cw, old_txmode_is_cw, tx_enabled, tx_cw, beacon_mode,
                    over, cw, carrier, careful>>
    BY <1>3 DEF CwtxSends, modes, usrptx, client
  <2>2. UNCHANGED txq \/ txq' = Append(txq, Empty)
    BY <1>3 DEF CwtxSends, Empty
  <2>3. txq \in Seq(TxCmds) /\ Empty \in TxCmds /\ Empty.t = "TX_CW_EMPTY"
    BY TagTypes DEF Empty, Cmd, TxCmds
  <2>4. ASSUME NEW T \in {"TX_STATE", "TX_MODE", "TX_BEACON"}, NEW now \in BOOLEAN,
               NEW want \in BOOLEAN, Says(txq, Len(txq) + 1, T, now, want)
        PROVE  Says(txq', Len(txq') + 1, T, now, want)
    <3>1. Empty.t # T
      BY <2>3
    <3>2. Says(Append(txq, Empty), Len(Append(txq, Empty)) + 1, T, now, want)
      BY <2>3, <2>4, <3>1, SaysAppended
    <3> QED BY <2>2, <2>4, <3>2
  <2>5. ASSUME NEW lit \in BOOLEAN, CarrierSeen(lit) PROVE CarrierSeen(lit)'
    BY <2>1, <2>5 DEF CarrierSeen
  <2>6. CwtxModes'
    BY <2>1, <2>5 DEF ModesInv, CwtxModes
  <2>7. /\ Says(txq', Len(txq') + 1, "TX_STATE", tx_enabled, over)
        /\ Says(txq', Len(txq') + 1, "TX_MODE", tx_cw, cw)
        /\ Says(txq', Len(txq') + 1, "TX_BEACON", beacon_mode, carrier)
    <3>1. /\ Says(txq, Len(txq) + 1, "TX_STATE", tx_enabled, over)
          /\ Says(txq, Len(txq) + 1, "TX_MODE", tx_cw, cw)
          /\ Says(txq, Len(txq) + 1, "TX_BEACON", beacon_mode, carrier)
          /\ tx_enabled \in BOOLEAN /\ tx_cw \in BOOLEAN /\ beacon_mode \in BOOLEAN
          /\ over \in BOOLEAN /\ cw \in BOOLEAN /\ carrier \in BOOLEAN
      BY DEF ModesInv, TxModes
    <3> QED BY <2>4, <3>1
  <2> QED BY <2>1, <2>6, <2>7 DEF ModesInv, TxModes
<1> QED BY <1>2, <1>3, ClientKeepsModes, CwtxTakesModes, TxTakesModes, TxReportsModes
        DEF Next, Cwtx, Usrptx

-----------------------------------------------------------------------------
(* The count of characters.                                                *)

\* A careful client flushes no marker: none waits, and none is on the way
\* before a flush.
CountsInv ==
  /\ sent_char_count \in Nat
  /\ ~(careful /\ asks)
  /\ CountsAgree
  /\ careful => \A i \in 1 .. Len(cwq) : cwq[i].t = "TX_CW_FLUSHTEXT" =>
       /\ \A j \in 1 .. Len(text_queue) : text_queue[j] # ETX
       /\ \A j \in 1 .. Len(cwq) : j < i => cwq[j].t # "TX_CW_MARKER"

Texts == [t : {"TX_CW_TEXT"}, v : Nat]

LEMMA NothingWaits ==
  ASSUME TagInv, CountsInv, careful, Idle
  PROVE  /\ \A j \in 1 .. Len(text_queue) : text_queue[j] # ETX
         /\ \A j \in 1 .. Len(cwq) : cwq[j].t # "TX_CW_MARKER"
<1>1. SerialInv /\ asked \ answered = {}
  BY DEF TagInv, Idle
<1>2. \A j \in 1 .. Len(cwq) : cwq[j].t # "TX_CW_MARKER"
  BY <1>1 DEF SerialInv, Serial
<1>3. \A x : ~Holds(ids, x)
  BY <1>1 DEF SerialInv, Holds
<1>4. PICK a, c, d, low, flag, high : Tagged(a, c, d, low, flag, high)
  BY DEF TagInv, CountsInv
<1>5. \A x \in Tags(text_queue, {ETX}, d) : Holds(ids, x)
  BY <1>4 DEF Tagged, Marked
<1>6. Tags(text_queue, {ETX}, d) = {}
  BY <1>3, <1>5
<1>7. \A j \in 1 .. Len(text_queue) : text_queue[j] # ETX
  BY <1>6 DEF Tags
<1> QED BY <1>2, <1>7

LEMMA InitCounts == Init => CountsInv
<1> SUFFICES ASSUME Init PROVE CountsInv
  OBVIOUS
<1>1. /\ cwq = <<>> /\ text_queue = <<>> /\ sent_char_count = 0 /\ n_text = 0 /\ asked = {}
      /\ ~(careful /\ asks)
  BY DEF Init
<1>2. \A X : Count(<<>>, X) = 0
  <2> TAKE X
  <2>1. {i \in DOMAIN <<>> : <<>>[i] \in X} = {}
    OBVIOUS
  <2> QED BY <2>1, FS_EmptySet DEF Count
<1>3. Cardinality(asked) = 0
  BY <1>1, FS_EmptySet
<1>4. Chars(text_queue) = 0 /\ Typed(cwq) = 0
  BY <1>1, <1>2 DEF Chars, Typed
<1> QED BY <1>1, <1>3, <1>4 DEF CountsInv, CountsAgree

\* The client's next character or marker counts for what it is.
LEMMA ClientKeepsCounts ==
  ASSUME TagInv, CountsInv, Client PROVE CountsInv'
<1>1. UNCHANGED <<text_queue, sent_char_count, careful, asks>>
  BY DEF Client, Type, Mark, Flush, Ask, Key, Carrier, Mode, Radio, cwtx
<1>2. /\ cwq \in Seq(CwtxCmds) /\ n_text \in Nat /\ text_queue \in Seq(Serials \cup {ETX})
      /\ asked \in SUBSET (1 .. n_text) /\ sent_char_count \in Nat /\ ~(careful /\ asks)
  BY TagTypes DEF SerialInv, CountsInv
<1>3. IsFiniteSet(asked) /\ Cardinality(asked) \in Nat /\ n_text + 1 \notin asked
  <2>1. IsFiniteSet(1 .. n_text)
    BY <1>2, FS_Interval
  <2>2. IsFiniteSet(asked)
    BY <1>2, <2>1, FS_Subset
  <2> QED BY <1>2, <2>2, FS_CardinalityType
<1>4. Chars(text_queue) \in Nat /\ Typed(cwq) \in Nat
  <2>2. Count(text_queue, Nat \ {ETX}) \in Nat
    BY <1>2, CountsAppended
  <2>3. Empty \in CwtxCmds
    BY DEF Empty, Cmd, CwtxCmds
  <2>4. Count(cwq, Texts) \in Nat
    BY <1>2, <2>3, CountsAppended
  <2> QED BY <2>2, <2>4 DEF Chars, Typed, Texts
<1>5. ASSUME NEW c \in CwtxCmds, cwq' = Append(cwq, c), careful,
             c.t = "TX_CW_FLUSHTEXT" => Idle,
             c.t = "TX_CW_MARKER" => Idle,
             \/ c.t = "TX_CW_TEXT" /\ n_text' = n_text + 1 /\ UNCHANGED asked
             \/ c.t = "TX_CW_MARKER" /\ n_text' = n_text + 1 /\ asked' = asked \cup {n_text + 1}
             \/ c.t \notin {"TX_CW_TEXT", "TX_CW_MARKER"} /\ UNCHANGED <<n_text, asked>>
      PROVE  CountsInv'
  <2>1. /\ Len(cwq) \in Nat /\ Len(cwq') = Len(cwq) + 1 /\ cwq'[Len(cwq) + 1] = c
        /\ \A i \in 1 .. Len(cwq) : i \in 1 .. Len(cwq) + 1 /\ cwq'[i] = cwq[i]
        /\ \A i \in 1 .. Len(cwq) + 1 : i \in 1 .. Len(cwq) \/ i = Len(cwq) + 1
    BY <1>2, <1>5, Appended
  <2>2. c \in Texts <=> c.t = "TX_CW_TEXT"
    BY CWAssumption DEF CwtxCmds, Texts, Serials
  <2>3. Typed(cwq') = (IF c.t = "TX_CW_TEXT" THEN Typed(cwq) + 1 ELSE Typed(cwq))
    <3>1. Count(Append(cwq, c), Texts) = (IF c \in Texts THEN Count(cwq, Texts) + 1 ELSE Count(cwq, Texts))
      BY <1>2, CountsAppended
    <3> QED BY <1>5, <2>2, <3>1 DEF Typed, Texts
  <2>4. Cardinality(asked \cup {n_text + 1}) = Cardinality(asked) + 1
    BY <1>3, FS_AddElement
  <2>5. sent_char_count + Chars(text_queue) + Typed(cwq) = n_text - Cardinality(asked)
    BY <1>5 DEF CountsInv, CountsAgree
  <2>6. sent_char_count + Chars(text_queue) + Typed(cwq') = n_text' - Cardinality(asked')
    <3>1. CASE c.t = "TX_CW_TEXT"
      <4>1. n_text' = n_text + 1 /\ Cardinality(asked') = Cardinality(asked)
            /\ Typed(cwq') = Typed(cwq) + 1
        BY <1>5, <2>3, <3>1
      <4>2. \A s, h, t, n, k \in Nat : s + h + t = n - k => s + h + (t + 1) = (n + 1) - k
        OBVIOUS
      <4>3. sent_char_count + Chars(text_queue) + (Typed(cwq) + 1)
              = (n_text + 1) - Cardinality(asked)
        BY <1>2, <1>3, <1>4, <2>5, <4>2
      <4> QED BY <4>1, <4>3
    <3>2. CASE c.t = "TX_CW_MARKER"
      <4>1. n_text' = n_text + 1 /\ Cardinality(asked') = Cardinality(asked) + 1
            /\ Typed(cwq') = Typed(cwq)
        BY <1>5, <2>3, <2>4, <3>2
      <4> QED BY <1>2, <1>3, <1>4, <2>5, <4>1
    <3>3. CASE c.t \notin {"TX_CW_TEXT", "TX_CW_MARKER"}
      <4>1. UNCHANGED <<n_text, asked>> /\ Typed(cwq') = Typed(cwq)
        BY <1>5, <2>3, <3>3
      <4> QED BY <2>5, <4>1
    <3> QED BY <3>1, <3>2, <3>3
  <2>7. CountsAgree'
    BY <1>1, <2>6 DEF CountsAgree, Chars, Typed
  <2>8. ASSUME NEW i \in 1 .. Len(cwq'), cwq'[i].t = "TX_CW_FLUSHTEXT"
        PROVE  /\ \A j \in 1 .. Len(text_queue) : text_queue[j] # ETX
               /\ \A j \in 1 .. Len(cwq') : j < i => cwq'[j].t # "TX_CW_MARKER"
    <3>1. \A j \in 1 .. Len(cwq') : j < i => j \in 1 .. Len(cwq) /\ cwq'[j] = cwq[j]
      BY <2>1
    <3>2. CASE i \in 1 .. Len(cwq)
      BY <1>5, <2>1, <2>8, <3>1, <3>2 DEF CountsInv
    <3>3. CASE i = Len(cwq) + 1
      <4>1. Idle
        BY <1>5, <2>1, <2>8, <3>3
      <4> QED BY <1>5, <3>1, <4>1, NothingWaits
    <3> QED BY <2>1, <3>2, <3>3
  <2> QED BY <1>1, <1>2, <2>7, <2>8 DEF CountsInv
<1>6. CASE ~careful
  BY <1>1, <1>2, <1>6 DEF CountsInv, CountsAgree
<1>7. CASE careful
  <2>1. n_text < MaxText => n_text + 1 \in Serials
    BY <1>2, CWAssumption DEF Serials
  <2>2. CASE Type
    <3> DEFINE c == Cmd("TX_CW_TEXT", n_text + 1)
    <3>1. n_text < MaxText /\ n_text' = n_text + 1 /\ cwq' = Append(cwq, c) /\ UNCHANGED asked
      BY <2>2 DEF Type, ToCwtx
    <3>2. c \in CwtxCmds /\ c.t = "TX_CW_TEXT"
      BY <2>1, <3>1 DEF Cmd, CwtxCmds
    <3> HIDE DEF c
    <3> QED BY <1>5, <1>7, <3>1, <3>2
  <2>3. CASE Mark
    <3> DEFINE c == Cmd("TX_CW_MARKER", n_text + 1)
    <3>1. n_text < MaxText /\ n_text' = n_text + 1 /\ cwq' = Append(cwq, c)
          /\ asked' = asked \cup {n_text + 1} /\ Idle
      BY <1>7, <2>3 DEF Mark, ToCwtx
    <3>2. c \in CwtxCmds /\ c.t = "TX_CW_MARKER"
      BY <2>1, <3>1 DEF Cmd, CwtxCmds
    <3> HIDE DEF c
    <3> QED BY <1>5, <1>7, <3>1, <3>2
  <2>4. CASE Flush
    <3> DEFINE c == Cmd("TX_CW_FLUSHTEXT", 0)
    <3>1. UNCHANGED <<n_text, asked>> /\ cwq' = Append(cwq, c) /\ Idle
      BY <1>7, <2>4 DEF Flush, ToCwtx
    <3>2. c \in CwtxCmds /\ c.t = "TX_CW_FLUSHTEXT"
      BY DEF Cmd, CwtxCmds
    <3> HIDE DEF c
    <3> QED BY <1>5, <1>7, <3>1, <3>2
  <2>5. ASSUME NEW on \in BOOLEAN, Key(on) \/ Carrier(on) \/ Mode(on) PROVE CountsInv'
    <3>1. PICK c \in CwtxCmds : /\ cwq' = Append(cwq, c) /\ UNCHANGED <<n_text, asked>>
                                /\ c.t \in {"TX_STATE", "TX_BEACON", "TX_MODE"}
      <4>1. \A c \in {Cmd("TX_STATE", Flag(on) + 2), Cmd("TX_BEACON", Flag(on)), Cmd("TX_MODE", Flag(on))} :
              c \in CwtxCmds /\ c.t \in {"TX_STATE", "TX_BEACON", "TX_MODE"}
        BY DEF Cmd, CwtxCmds, Flag
      <4> QED BY <2>5, <4>1 DEF Key, Carrier, Mode, ToBoth
    <3> QED BY <1>5, <1>7, <3>1
  <2>6. ~Ask
    BY <1>2, <1>7 DEF Ask
  <2> QED BY <2>2, <2>3, <2>4, <2>5, <2>6 DEF Client
<1> QED BY <1>6, <1>7

\* What is taken from the queue or cleared stays in the sum.
LEMMA CwtxTakesCounts ==
  ASSUME TagInv, CountsInv, CwtxTakes PROVE CountsInv'
<1> DEFINE c == Head(cwq)
<1>1. UNCHANGED <<n_text, asked, careful, asks>>
  BY DEF CwtxTakes, client
<1>2. /\ cwq # <<>> /\ cwq' = Tail(cwq) /\ cwq \in Seq(CwtxCmds)
      /\ text_queue \in Seq(Serials \cup {ETX})
      /\ sent_char_count \in Nat /\ ~(careful /\ asks)
  BY TagTypes DEF CwtxTakes, CountsInv
<1>3. /\ Len(cwq) \in Nat /\ Len(cwq') = Len(cwq) - 1 /\ c = cwq[1] /\ 1 \in 1 .. Len(cwq)
      /\ c \in CwtxCmds
      /\ \A i \in 1 .. Len(cwq) - 1 : i + 1 \in 1 .. Len(cwq) /\ cwq'[i] = cwq[i + 1]
  BY <1>2, Shifted
<1>4. \/ c.t = "TX_CW_TEXT" /\ text_queue' = Append(text_queue, c.v) /\ UNCHANGED sent_char_count
      \/ c.t = "TX_CW_MARKER" /\ text_queue' = Append(text_queue, ETX) /\ UNCHANGED sent_char_count
      \/ /\ c.t = "TX_CW_FLUSHTEXT" /\ text_queue' = <<>>
         /\ sent_char_count' = sent_char_count + Len(text_queue)
      \/ c.t \notin {"TX_CW_TEXT", "TX_CW_MARKER"} /\ UNCHANGED <<text_queue, sent_char_count>>
  BY DEF CwtxTakes, texts, ClearTextQueue
<1>5. /\ Typed(cwq) \in Nat /\ Typed(cwq') \in Nat
      /\ Typed(cwq) = (IF c.t = "TX_CW_TEXT" THEN Typed(cwq') + 1 ELSE Typed(cwq'))
  <2>1. c \in Texts <=> c.t = "TX_CW_TEXT"
    BY <1>3, CWAssumption DEF CwtxCmds, Texts, Serials
  <2>2. /\ Count(cwq, Texts) \in Nat /\ Count(Tail(cwq), Texts) \in Nat
        /\ Count(cwq, Texts) = (IF c \in Texts THEN Count(Tail(cwq), Texts) + 1 ELSE Count(Tail(cwq), Texts))
    BY <1>2, CountsShifted
  <2> QED BY <1>2, <2>1, <2>2 DEF Typed, Texts
<1>6. \A x \in Serials \cup {ETX} :
        /\ Chars(text_queue) \in Nat
        /\ Chars(Append(text_queue, x)) = (IF x = ETX THEN Chars(text_queue) ELSE Chars(text_queue) + 1)
  <2> TAKE x \in Serials \cup {ETX}
  <2>1. x \in Nat \ {ETX} <=> x # ETX
    BY CWAssumption DEF Serials
  <2>2. /\ Count(text_queue, Nat \ {ETX}) \in Nat
        /\ Count(Append(text_queue, x), Nat \ {ETX})
             = (IF x \in Nat \ {ETX} THEN Count(text_queue, Nat \ {ETX}) + 1
                ELSE Count(text_queue, Nat \ {ETX}))
    BY <1>2, CountsAppended
  <2> QED BY <2>1, <2>2 DEF Chars
<1>7. Len(text_queue) \in Nat /\ ETX \in Serials \cup {ETX} /\ Chars(text_queue) \in Nat
  BY <1>2, <1>6
<1>8. ASSUME careful PROVE /\ sent_char_count' \in Nat
                           /\ sent_char_count' + Chars(text_queue') + Typed(cwq') = n_text - Cardinality(asked)
  <2>1. sent_char_count + Chars(text_queue) + Typed(cwq) = n_text - Cardinality(asked)
    BY <1>8 DEF CountsInv, CountsAgree
  <2>2. CASE c.t = "TX_CW_TEXT"
    <3>1. c.v \in Serials \cup {ETX} /\ c.v # ETX
      BY <1>3, <2>2, CWAssumption DEF CwtxCmds, Serials, ETX
    <3>2. text_queue' = Append(text_queue, c.v) /\ UNCHANGED sent_char_count
      BY <1>4, <2>2
    <3>3. Chars(text_queue') = Chars(text_queue) + 1 /\ Typed(cwq) = Typed(cwq') + 1
      BY <1>5, <1>6, <2>2, <3>1, <3>2
    <3> QED BY <1>2, <1>5, <1>7, <2>1, <3>2, <3>3
  <2>3. CASE c.t = "TX_CW_MARKER"
    <3>1. text_queue' = Append(text_queue, ETX) /\ UNCHANGED sent_char_count
      BY <1>4, <2>3
    <3>2. Chars(text_queue') = Chars(text_queue) /\ Typed(cwq) = Typed(cwq')
      BY <1>5, <1>6, <1>7, <2>3, <3>1
    <3> QED BY <1>2, <1>5, <1>7, <2>1, <3>1, <3>2
  <2>4. CASE c.t = "TX_CW_FLUSHTEXT" /\ ~UNCHANGED text_queue
    <3>1. text_queue' = <<>> /\ sent_char_count' = sent_char_count + Len(text_queue)
      BY <1>4, <2>4
    <3>2. \A j \in 1 .. Len(text_queue) : text_queue[j] # ETX
      BY <1>3, <1>8, <2>4 DEF CountsInv
    <3>3. \A j \in 1 .. Len(text_queue) : text_queue[j] \in Nat \ {ETX}
      BY <1>2, <3>2, CWAssumption DEF Serials
    <3>4. Chars(text_queue) = Len(text_queue)
      BY <1>2, <3>3, AllCount DEF Chars
    <3>5. Chars(text_queue') = 0
      <4>1. {i \in DOMAIN <<>> : <<>>[i] \in Nat \ {ETX}} = {}
        OBVIOUS
      <4> QED BY <3>1, <4>1, FS_EmptySet DEF Chars, Count
    <3>6. Typed(cwq) = Typed(cwq')
      BY <1>5, <2>4
    <3> QED BY <1>2, <1>5, <1>7, <2>1, <3>1, <3>4, <3>5, <3>6
  <2>5. CASE c.t \notin {"TX_CW_TEXT", "TX_CW_MARKER"} /\ UNCHANGED <<text_queue, sent_char_count>>
    BY <1>2, <1>5, <2>1, <2>5
  <2>6. CASE c.t = "TX_CW_FLUSHTEXT" /\ UNCHANGED text_queue /\ text_queue' = <<>>
             /\ sent_char_count' = sent_char_count + Len(text_queue)
    <3>1. Len(text_queue) = 0 /\ Typed(cwq) = Typed(cwq')
      BY <1>5, <2>6
    <3> QED BY <1>2, <1>7, <2>1, <2>6, <3>1
  <2> QED BY <1>4, <2>2, <2>3, <2>4, <2>5, <2>6
<1>9. CountsAgree'
  BY <1>1, <1>8 DEF CountsAgree
<1>10. ASSUME careful, NEW i \in 1 .. Len(cwq'), cwq'[i].t = "TX_CW_FLUSHTEXT"
       PROVE  /\ \A j \in 1 .. Len(text_queue') : text_queue'[j] # ETX
              /\ \A j \in 1 .. Len(cwq') : j < i => cwq'[j].t # "TX_CW_MARKER"
  <2>1. /\ i + 1 \in 1 .. Len(cwq) /\ cwq[i + 1].t = "TX_CW_FLUSHTEXT" /\ 1 < i + 1
        /\ \A j \in 1 .. Len(cwq') : j < i => j + 1 \in 1 .. Len(cwq) /\ j + 1 < i + 1 /\ cwq'[j] = cwq[j + 1]
    BY <1>3, <1>10
  <2>2. /\ \A j \in 1 .. Len(text_queue) : text_queue[j] # ETX
        /\ \A j \in 1 .. Len(cwq) : j < i + 1 => cwq[j].t # "TX_CW_MARKER"
    BY <1>10, <2>1 DEF CountsInv
  <2>3. c.t # "TX_CW_MARKER"
    BY <1>3, <2>1, <2>2
  <2>4. \A j \in 1 .. Len(text_queue') : text_queue'[j] # ETX
    <3>1. CASE c.t = "TX_CW_TEXT"
      <4>1. text_queue' = Append(text_queue, c.v) /\ c.v \in Serials \cup {ETX} /\ c.v # ETX
        BY <1>3, <1>4, <3>1, CWAssumption DEF CwtxCmds, Serials, ETX
      <4> QED BY <1>2, <2>2, <4>1, Appended
    <3>2. CASE UNCHANGED text_queue \/ text_queue' = <<>>
      BY <2>2, <3>2
    <3> QED BY <1>4, <2>3, <3>1, <3>2
  <2>5. \A j \in 1 .. Len(cwq') : j < i => cwq'[j].t # "TX_CW_MARKER"
    BY <2>1, <2>2
  <2> QED BY <2>4, <2>5
<1>11. sent_char_count' \in Nat
  BY <1>2, <1>4, <1>7
<1> QED BY <1>1, <1>2, <1>9, <1>10, <1>11 DEF CountsInv

\* A character that is sent is counted, an ETX is not.
LEMMA CwtxSendsCounts ==
  ASSUME TagInv, CountsInv, CwtxSends PROVE CountsInv'
<1>1. /\ UNCHANGED <<cwq, n_text, asked, careful, asks>>
      /\ text_queue # <<>> /\ text_queue' = Tail(text_queue) /\ text_queue \in Seq(Serials \cup {ETX})
      /\ sent_char_count \in Nat /\ ~(careful /\ asks) /\ cwq \in Seq(CwtxCmds)
      /\ sent_char_count' = (IF Head(text_queue) = ETX THEN sent_char_count ELSE sent_char_count + 1)
  BY TagTypes DEF CwtxSends, client, CountsInv
<1>2. /\ Len(text_queue) \in Nat /\ Len(text_queue') = Len(text_queue) - 1
      /\ Head(text_queue) \in Serials \cup {ETX}
      /\ \A i \in 1 .. Len(text_queue) - 1 :
           i + 1 \in 1 .. Len(text_queue) /\ text_queue'[i] = text_queue[i + 1]
  BY <1>1, Shifted
<1>3. /\ Chars(text_queue) \in Nat /\ Chars(text_queue') \in Nat
      /\ Chars(text_queue) = (IF Head(text_queue) = ETX THEN Chars(text_queue') ELSE Chars(text_queue') + 1)
  <2> DEFINE X == Nat \ {ETX}
  <2>1. Head(text_queue) \in X <=> Head(text_queue) # ETX
    BY <1>2, CWAssumption DEF Serials
  <2> HIDE DEF X
  <2>2. /\ Count(text_queue, X) \in Nat /\ Count(Tail(text_queue), X) \in Nat
        /\ Count(text_queue, X) = (IF Head(text_queue) \in X THEN Count(Tail(text_queue), X) + 1
                                   ELSE Count(Tail(text_queue), X))
    BY <1>1, CountsShifted
  <2> QED BY <1>1, <2>1, <2>2 DEF Chars, X
<1>4. Typed(cwq) \in Nat
  <2>1. Empty \in CwtxCmds
    BY DEF Empty, Cmd, CwtxCmds
  <2>2. Count(cwq, Texts) \in Nat
    BY <1>1, <2>1, CountsAppended
  <2> QED BY <2>2 DEF Typed, Texts
<1>5. careful => sent_char_count' + Chars(text_queue') + Typed(cwq) = n_text - Cardinality(asked)
  <2> HAVE careful
  <2>1. sent_char_count + Chars(text_queue) + Typed(cwq) = n_text - Cardinality(asked)
    BY DEF CountsInv, CountsAgree
  <2> QED BY <1>1, <1>3, <1>4, <2>1
<1>6. CountsAgree'
  BY <1>1, <1>5 DEF CountsAgree, Typed
<1>7. sent_char_count' \in Nat
  BY <1>1
<1>8. careful => \A i \in 1 .. Len(cwq) : cwq[i].t = "TX_CW_FLUSHTEXT" =>
        \A j \in 1 .. Len(text_queue') : text_queue'[j] # ETX
  BY <1>1, <1>2 DEF CountsInv
<1> QED BY <1>1, <1>6, <1>7, <1>8 DEF CountsInv

LEMMA StepCounts == TagInv /\ CountsInv /\ [Next]_vars => CountsInv'
<1> SUFFICES ASSUME TagInv, CountsInv, [Next]_vars PROVE CountsInv'
  OBVIOUS
<1>1. CASE UNCHANGED <<cwq, text_queue, sent_char_count, n_text, asked, careful, asks>>
  BY <1>1 DEF CountsInv, CountsAgree, Chars, Typed
<1>2. CASE CwtxStarts \/ CwtxPosts \/ CwtxStops \/ TxTakes \/ TxSends \/ TxFindsDry \/ UNCHANGED vars
  BY <1>1, <1>2 DEF CwtxStarts, CwtxPosts, CwtxStops, TxTakes, TxSends, TxFindsDry, vars, mail, cwtx,
                    client
<1>3. CASE TxReports
  <2>1. /\ UNCHANGED <<text_queue, sent_char_count, n_text, asked, careful, asks>>
        /\ cwq' = Append(cwq, Empty)
    BY <1>3 DEF TxReports, Empty, cwtx, client
  <2>2. cwq \in Seq(CwtxCmds) /\ Empty \in CwtxCmds /\ Empty.t = "TX_CW_EMPTY" /\ Empty \notin Texts
    BY TagTypes DEF Empty, Cmd, CwtxCmds, Texts
  <2>3. Typed(cwq') = Typed(cwq)
    <3>1. Count(Append(cwq, Empty), Texts) = Count(cwq, Texts)
      BY <2>2, CountsAppended
    <3> QED BY <2>1, <3>1 DEF Typed, Texts
  <2>4. CountsAgree'
    BY <2>1, <2>3 DEF CountsInv, CountsAgree, Chars
  <2>5. /\ Len(cwq) \in Nat /\ Len(cwq') = Len(cwq) + 1 /\ cwq'[Len(cwq) + 1] = Empty
        /\ \A i \in 1 .. Len(cwq) : i \in 1 .. Len(cwq) + 1 /\ cwq'[i] = cwq[i]
        /\ \A i \in 1 .. Len(cwq) + 1 : i \in 1 .. Len(cwq) \/ i = Len(cwq) + 1
    BY <2>1, <2>2, Appended
  <2>6. ASSUME careful, NEW i \in 1 .. Len(cwq'), cwq'[i].t = "TX_CW_FLUSHTEXT"
        PROVE  /\ \A j \in 1 .. Len(text_queue) : text_queue[j] # ETX
               /\ \A j \in 1 .. Len(cwq') : j < i => cwq'[j].t # "TX_CW_MARKER"
    <3>1. i \in 1 .. Len(cwq) /\ cwq'[i] = cwq[i]
      BY <2>2, <2>5, <2>6
    <3>2. \A j \in 1 .. Len(cwq') : j < i => j \in 1 .. Len(cwq) /\ cwq'[j] = cwq[j]
      BY <2>5, <3>1
    <3> QED BY <2>6, <3>1, <3>2 DEF CountsInv
  <2> QED BY <2>1, <2>4, <2>6 DEF CountsInv
<1> QED BY <1>2, <1>3, ClientKeepsCounts, CwtxTakesCounts, CwtxSendsCounts DEF Next, Cwtx, Usrptx

\* A careful client finds CWTX and USRPTX in the mode it set, and CWTX's count
\* of characters its own (CWTX::processCommand, CWTX::clearTextQueue, USRPTX::set).
THEOREM ThreadsDoAgree == Spec => []ThreadsAgree
<1>1. Init => TagInv /\ ModesInv /\ CountsInv
  BY InitTags, InitModes, InitCounts
<1>2. TagInv /\ ModesInv /\ CountsInv /\ [Next]_vars => TagInv' /\ ModesInv' /\ CountsInv'
  BY StepTags, StepModes, StepCounts
<1>3. ModesInv /\ CountsInv => ThreadsAgree
  BY ModesInvCovers DEF ThreadsAgree, CountsInv
<1>4. QED
  BY <1>1, <1>2, <1>3, PTL DEF Spec

-----------------------------------------------------------------------------
(* The keyer: what the buffers hold, laid end to end.  First the order of  *)
(* the numbers, and by it what FlattenSeq computes.                        *)

LEMMA NatMinimum == ASSUME NEW T \in SUBSET Nat, T # {}
                    PROVE  \E x \in T : \A y \in T : x <= y
<1> DEFINE R == OpToRel(<, Nat)
<1>1. IsWellFoundedOn(R, Nat)
  BY NatLessThanWellFounded
<1>2. \A x, y \in Nat : <<y, x>> \in R <=> y < x
  BY DEF OpToRel
<1> HIDE DEF R
<1>3. \E x \in T : \A y \in T : ~ (<<y, x>> \in R)
  BY <1>1, WFMin
<1>4. PICK x \in T : \A y \in T : ~ (<<y, x>> \in R)
  BY <1>3
<1>5. ASSUME NEW y \in T PROVE x <= y
  <2>1. x \in Nat /\ y \in Nat /\ ~ (y < x)
    BY <1>2, <1>4
  <2> QED BY <2>1
<1> QED BY <1>5

\* What FlattenSeq computes on the way.
FlatUpTo(s, f, n) == f = [i \in 1 .. n |-> IF i = 1 THEN s[i] ELSE f[i - 1] \o s[i]]
Flat(s) == CHOOSE f : f = [i \in 1 .. Len(s) |-> IF i = 1 THEN s[i] ELSE f[i - 1] \o s[i]]

LEMMA FlatExists == ASSUME NEW s, NEW n \in Nat PROVE \E f : FlatUpTo(s, f, n)
<1> DEFINE Has(k) == \E f : FlatUpTo(s, f, k)
           T == {k \in Nat : ~ Has(k)}
<1>1. T = {}
  <2> SUFFICES ASSUME T # {} PROVE FALSE
    OBVIOUS
  <2>1. PICK k \in T : \A y \in T : k <= y
    <3>1. T \in SUBSET Nat
      OBVIOUS
    <3> HIDE DEF T
    <3> QED BY <3>1, NatMinimum
  <2>2. CASE k = 0
    <3>1. 1 .. 0 = {}
      OBVIOUS
    <3>2. FlatUpTo(s, [i \in {} |-> s], 0)
      BY <3>1 DEF FlatUpTo
    <3> QED BY <2>1, <2>2, <3>2
  <2>3. CASE k # 0
    <3>0. k \in Nat /\ k - 1 \in Nat /\ ~ (k <= k - 1)
      BY <2>3
    <3>1. k - 1 \notin T
      <4> HIDE DEF T
      <4> QED BY <2>1, <3>0
    <3>2. PICK f : FlatUpTo(s, f, k - 1)
      BY <3>0, <3>1
    <3> DEFINE g == [i \in 1 .. k |-> IF i < k THEN f[i] ELSE
                                       IF i = 1 THEN s[i] ELSE f[i - 1] \o s[i]]
    <3>3. ASSUME NEW i \in 1 .. k
          PROVE  g[i] = IF i = 1 THEN s[i] ELSE g[i - 1] \o s[i]
      <4>1. CASE i < k
        <5>1. i \in 1 .. k - 1
          BY <3>0, <4>1
        <5>2. f[i] = IF i = 1 THEN s[i] ELSE f[i - 1] \o s[i]
          BY <3>2, <5>1 DEF FlatUpTo
        <5>3. i # 1 => i - 1 \in 1 .. k /\ i - 1 < k
          BY <3>0, <4>1
        <5> QED BY <4>1, <5>2, <5>3
      <4>2. CASE ~(i < k)
        <5>1. i = k /\ (i # 1 => i - 1 \in 1 .. k /\ i - 1 < k)
          BY <3>0, <4>2
        <5> QED BY <4>2, <5>1
      <4> QED BY <4>1, <4>2
    <3>4. g = [i \in 1 .. k |-> g[i]]
      OBVIOUS
    <3> HIDE DEF g
    <3>5. FlatUpTo(s, g, k)
      BY <3>3, <3>4 DEF FlatUpTo
    <3> QED BY <2>1, <3>5
  <2> QED BY <2>2, <2>3
<1> QED BY <1>1

LEMMA FlatIs ==
  ASSUME NEW S, NEW s \in Seq(Seq(S)), s # <<>>
  PROVE  FlatUpTo(s, Flat(s), Len(s)) /\ FlattenSeq(s) = Flat(s)[Len(s)]
<1>1. Len(s) \in Nat /\ Len(s) # 0
  OBVIOUS
<1>2. FlatUpTo(s, Flat(s), Len(s))
  BY <1>1, FlatExists DEF FlatUpTo, Flat
<1>3. FlattenSeq(s) = Flat(s)[Len(s)]
  BY <1>1 DEF FlattenSeq, Flat
<1> QED BY <1>2, <1>3

\* Induction: a set of numbers from one on in which none is the first is empty.
LEMMA NoFirst ==
  ASSUME NEW B \in SUBSET (Nat \ {0}), \A k \in B : k # 1 /\ k - 1 \in B
  PROVE  B = {}
<1> SUFFICES ASSUME B # {} PROVE FALSE
  OBVIOUS
<1>1. PICK k \in B : \A y \in B : k <= y
  <2>1. B \in SUBSET Nat
    OBVIOUS
  <2> QED BY <2>1, NatMinimum
<1>2. k \in Nat /\ k - 1 \in B /\ ~(k <= k - 1)
  OBVIOUS
<1> QED BY <1>1, <1>2

LEMMA Associative == \A S : \A a, b, c \in Seq(S) : (a \o b) \o c = a \o (b \o c)
  BY ConcatAssociative, Zenon

LEMMA FlatTurns ==
  ASSUME NEW S, NEW s \in Seq(Seq(S)), s # <<>>
  PROVE  /\ Len(s) \in Nat \ {0} /\ Flat(s)[1] = s[1]
         /\ \A i \in 1 .. Len(s) : i # 1 => Flat(s)[i] = Flat(s)[i - 1] \o s[i]
         /\ \A i \in 1 .. Len(s) : Flat(s)[i] \in Seq(S)
<1>1. Len(s) \in Nat \ {0} /\ \A i \in 1 .. Len(s) : s[i] \in Seq(S)
  OBVIOUS
<1>2. \A i \in 1 .. Len(s) : Flat(s)[i] = IF i = 1 THEN s[i] ELSE Flat(s)[i - 1] \o s[i]
  <2>1. FlatUpTo(s, Flat(s), Len(s))
    BY FlatIs
  <2> QED BY <2>1 DEF FlatUpTo
<1>3. Flat(s)[1] = s[1]
  BY <1>1, <1>2
<1> DEFINE Q == Seq(S)
           B == {i \in 1 .. Len(s) : Flat(s)[i] \notin Q}
<1>4. B = {}
  <2>1. ASSUME NEW k \in B PROVE k # 1 /\ k - 1 \in B
    <3>1. k \in 1 .. Len(s) /\ k # 1
      BY <1>1, <1>3
    <3>2. k - 1 \in 1 .. Len(s)
      BY <1>1, <3>1
    <3>3. Flat(s)[k - 1] \in Q => Flat(s)[k - 1] \o s[k] \in Q
      BY <1>1, <3>1, ConcatProperties
    <3>4. Flat(s)[k] = Flat(s)[k - 1] \o s[k]
      BY <1>2, <3>1
    <3> HIDE DEF Q
    <3> QED BY <3>1, <3>2, <3>3, <3>4
  <2>2. B \in SUBSET (Nat \ {0})
    BY <1>1
  <2> HIDE DEF B
  <2> QED BY <2>1, <2>2, NoFirst
<1> QED BY <1>1, <1>2, <1>3, <1>4

LEMMA FlattenType ==
  ASSUME NEW S, NEW s \in Seq(Seq(S)) PROVE FlattenSeq(s) \in Seq(S)
<1>1. CASE s = <<>>
  BY <1>1 DEF FlattenSeq
<1>2. CASE s # <<>>
  <2>1. Len(s) \in 1 .. Len(s)
    BY <1>2
  <2>2. Flat(s)[Len(s)] \in Seq(S)
    BY <1>2, <2>1, FlatTurns
  <2>3. FlattenSeq(s) = Flat(s)[Len(s)]
    BY <1>2, FlatIs
  <2> QED BY <2>2, <2>3
<1> QED BY <1>1, <1>2

LEMMA FlattenOne == ASSUME NEW S, NEW v \in Seq(S) PROVE FlattenSeq(<<v>>) = v
<1> DEFINE s == <<v>>
<1>1. s \in Seq(Seq(S)) /\ s # <<>> /\ Len(s) = 1 /\ s[1] = v
  OBVIOUS
<1> HIDE DEF s
<1>2. FlattenSeq(s) = v
  BY <1>1, FlatTurns, FlatIs
<1> QED BY <1>2 DEF s

\* One piece more at the end.
LEMMA FlattenAppend ==
  ASSUME NEW S, NEW s \in Seq(Seq(S)), NEW v \in Seq(S)
  PROVE  FlattenSeq(Append(s, v)) = FlattenSeq(s) \o v
<1> DEFINE Q == Seq(S)
           t == Append(s, v)
           n == Len(s)
<1>1. /\ t \in Seq(Q) /\ t # <<>> /\ Len(t) = n + 1 /\ n \in Nat
      /\ \A i \in 1 .. n : t[i] = s[i]
      /\ t[n + 1] = v
  <2> HIDE DEF Q
  <2>1. s \in Seq(Q) /\ v \in Q
    BY DEF Q
  <2> QED BY <2>1, AppendProperties
<1> HIDE DEF t
<1>2. CASE s = <<>>
  <2>1. FlattenSeq(s) = <<>> /\ <<>> \o v = v
    BY <1>2 DEF FlattenSeq
  <2>2. n = 0
    BY <1>2
  <2>3. FlattenSeq(t) = v
    <3>1. FlattenSeq(t) = Flat(t)[Len(t)] /\ Flat(t)[1] = t[1]
      BY <1>1, FlatTurns, FlatIs
    <3>2. Len(t) = 1 /\ t[1] = v
      BY <1>1, <2>2
    <3> QED BY <3>1, <3>2
  <2> QED BY <2>1, <2>3 DEF t
<1>3. CASE s # <<>>
  <2>1. n # 0
    BY <1>3
  <2>2. /\ Flat(s)[1] = s[1] /\ FlattenSeq(s) = Flat(s)[n]
        /\ \A i \in 1 .. n : i # 1 => Flat(s)[i] = Flat(s)[i - 1] \o s[i]
    BY <1>3, FlatTurns, FlatIs
  <2>3. /\ Flat(t)[1] = t[1] /\ FlattenSeq(t) = Flat(t)[n + 1]
        /\ \A i \in 1 .. n + 1 : i # 1 => Flat(t)[i] = Flat(t)[i - 1] \o t[i]
    BY <1>1, FlatTurns, FlatIs
  <2> DEFINE B == {i \in 1 .. n : Flat(t)[i] # Flat(s)[i]}
  <2>4. B = {}
    <3>1. ASSUME NEW k \in B PROVE k # 1 /\ k - 1 \in B
      <4>1. k \in 1 .. n /\ k \in 1 .. n + 1 /\ 1 \in 1 .. n
        BY <1>1, <2>1
      <4>2. k # 1
        BY <1>1, <2>2, <2>3, <4>1
      <4>3. k - 1 \in 1 .. n
        BY <1>1, <4>1, <4>2
      <4> QED BY <1>1, <2>2, <2>3, <4>1, <4>2, <4>3
    <3>2. B \in SUBSET (Nat \ {0})
      BY <1>1
    <3> HIDE DEF B
    <3> QED BY <3>1, <3>2, NoFirst
  <2>5. n \in 1 .. n /\ n + 1 \in 1 .. n + 1 /\ n + 1 # 1 /\ (n + 1) - 1 = n
    BY <1>1, <2>1
  <2>6. FlattenSeq(t) = Flat(t)[n] \o v
    BY <1>1, <2>3, <2>5
  <2>7. Flat(t)[n] = Flat(s)[n]
    BY <2>4, <2>5
  <2> QED BY <2>2, <2>6, <2>7 DEF t
<1> QED BY <1>2, <1>3

\* The first piece and the others.
LEMMA FlattenHead ==
  ASSUME NEW S, NEW s \in Seq(Seq(S)), s # <<>>
  PROVE  FlattenSeq(s) = Head(s) \o FlattenSeq(Tail(s))
<1>0. \A a, b, c \in Seq(S) : (a \o b) \o c = a \o (b \o c)
  BY Associative
<1> DEFINE Q == Seq(S)
           r == Tail(s)
           n == Len(r)
           v == Head(s)
<1>1. /\ r \in Seq(Q) /\ n \in Nat /\ Len(s) = n + 1 /\ v \in Q /\ v = s[1]
      /\ \A i \in 1 .. n : r[i] = s[i + 1] /\ r[i] \in Q
  <2> HIDE DEF Q
  <2>1. s \in Seq(Q)
    BY DEF Q
  <2>2. r \in Seq(Q) /\ n \in Nat /\ Len(s) = n + 1
    BY <2>1
  <2>3. v \in Q /\ v = s[1]
    BY <2>1
  <2>4. \A i \in 1 .. n : r[i] = s[i + 1]
    BY <2>1
  <2>5. \A i \in 1 .. n : r[i] \in Q
    <3> HIDE DEF r
    <3> QED BY <2>2
  <2> QED BY <2>2, <2>3, <2>4, <2>5
<1>2. /\ Flat(s)[1] = v /\ FlattenSeq(s) = Flat(s)[n + 1]
      /\ \A i \in 1 .. n + 1 : i # 1 => Flat(s)[i] = Flat(s)[i - 1] \o s[i]
  BY <1>1, FlatTurns, FlatIs
<1> HIDE DEF r, v
<1>3. CASE r = <<>>
  <2>1. n = 0 /\ FlattenSeq(r) = <<>>
    BY <1>3 DEF FlattenSeq
  <2>2. v \o <<>> = v
    BY <1>1
  <2>3. n + 1 = 1
    BY <2>1
  <2>4. FlattenSeq(s) = v
    BY <1>2, <2>3
  <2> QED BY <2>1, <2>2, <2>4 DEF v, r
<1>4. CASE r # <<>>
  <2>0. n # 0
    BY <1>1, <1>4
  <2>1. /\ Flat(r)[1] = r[1] /\ FlattenSeq(r) = Flat(r)[n]
        /\ \A i \in 1 .. n : i # 1 => Flat(r)[i] = Flat(r)[i - 1] \o r[i]
        /\ \A i \in 1 .. n : Flat(r)[i] \in Q
    BY <1>1, <1>4, FlatTurns, FlatIs
  <2> DEFINE B == {i \in 1 .. n : Flat(s)[i + 1] # v \o Flat(r)[i]}
  <2>2. B = {}
    <3>1. ASSUME NEW k \in B PROVE k # 1 /\ k - 1 \in B
      <4>1. k \in 1 .. n /\ k + 1 \in 1 .. n + 1 /\ k + 1 # 1 /\ (k + 1) - 1 = k
        BY <1>1
      <4>2. Flat(s)[k + 1] = Flat(s)[k] \o r[k]
        BY <1>1, <1>2, <4>1
      <4>3. k # 1
        BY <1>2, <2>1, <4>1, <4>2
      <4>4. k - 1 \in 1 .. n /\ (k - 1) + 1 = k
        BY <1>1, <4>1, <4>3
      <4>5. CASE Flat(s)[(k - 1) + 1] = v \o Flat(r)[k - 1]
        <5>1. Flat(s)[k + 1] = (v \o Flat(r)[k - 1]) \o r[k]
          BY <4>2, <4>4, <4>5
        <5> DEFINE x == Flat(r)[k - 1]
                   y == r[k]
        <5>a. v \in Q /\ x \in Q /\ y \in Q
          BY <1>1, <2>1, <4>1, <4>4
        <5> HIDE DEF x, y
        <5>b. (v \o x) \o y = v \o (x \o y)
          <6> HIDE DEF Q, B
          <6> QED BY <5>a, <1>0
        <5>2. (v \o Flat(r)[k - 1]) \o r[k] = v \o (Flat(r)[k - 1] \o r[k])
          BY <5>b DEF x, y
        <5>3. Flat(r)[k] = Flat(r)[k - 1] \o r[k]
          BY <2>1, <4>1, <4>3
        <5> QED BY <5>1, <5>2, <5>3
      <4> QED BY <4>3, <4>4, <4>5
    <3>2. B \in SUBSET (Nat \ {0})
      <4>1. B \subseteq 1 .. n
        OBVIOUS
      <4>2. 1 .. n \subseteq Nat \ {0}
        BY <1>1
      <4> HIDE DEF B
      <4> QED BY <4>1, <4>2
    <3> HIDE DEF B
    <3> QED BY <3>1, <3>2, NoFirst
  <2>3. n \in 1 .. n
    BY <1>1, <2>0
  <2>4. Flat(s)[n + 1] = v \o Flat(r)[n]
    BY <2>2, <2>3
  <2> QED BY <1>2, <2>1, <2>4 DEF v, r
<1> QED BY <1>3, <1>4

-----------------------------------------------------------------------------
(* Lengths of time.                                                        *)

\* No speed has shorter dots than the fastest.
LEMMA DotsLast ==
  ASSUME NEW wpm \in Int
  PROVE  DotSamples(wpm) \in Nat /\ DotSamples(50) \in Nat /\ DotSamples(50) <= DotSamples(wpm)
<1> DEFINE s == Speed(wpm)
           R == SampleRate
           num(u) == 12 * R + 5 * u
<1>1. s \in 1 .. 50 /\ Speed(50) = 50 /\ R \in Nat
  BY KeyerAssumption DEF Speed
<1> HIDE DEF s, R
<1>2. \A d \in Nat \ {0}, m \in Nat :
        m \div d \in Nat /\ d * (m \div d) <= m
        /\ \A q \in Nat : d * q <= m => q <= m \div d
  <2> TAKE d \in Nat \ {0}, m \in Nat
  <2>1. m \div d \in Nat /\ d * (m \div d) <= m /\ m < d * (m \div d) + d
    OBVIOUS
  <2> DEFINE h == m \div d
  <2> HIDE DEF h
  <2>2. ASSUME NEW q \in Nat, d * q <= m PROVE q <= h
    <3>1. h \in Nat /\ d * q < d * h + d
      BY <2>1, <2>2 DEF h
    <3>2. d * q < d * (h + 1)
      BY <3>1
    <3> QED BY <3>1, <3>2
  <2> QED BY <2>1, <2>2 DEF h
<1> DEFINE q == num(50) \div 500
<1>3. q \in Nat /\ 500 * q <= num(50)
  <2>1. num(50) \in Nat /\ 500 \in Nat \ {0}
    BY <1>1
  <2> HIDE DEF num
  <2> QED BY <1>2, <2>1
<1> HIDE DEF q
<1>4. (10 * s) * q <= num(s)
  <2>1. 500 * q <= 12 * R + 250
    BY <1>3
  <2>3. s * (500 * q) <= s * (12 * R + 250)
    BY <1>1, <1>3, <2>1
  <2>4. s * (12 * R) <= 50 * (12 * R)
    BY <1>1
  <2>5. s * (12 * R + 250) = s * (12 * R) + 250 * s
    BY <1>1
  <2>6. s * (500 * q) = 50 * ((10 * s) * q)
    BY <1>1, <1>3
  <2>7. 50 * ((10 * s) * q) <= 50 * (12 * R) + 250 * s
    BY <1>1, <1>3, <2>3, <2>4, <2>5, <2>6
  <2> DEFINE z == (10 * s) * q
  <2>8. z \in Nat
    BY <1>1, <1>3
  <2> HIDE DEF z
  <2>9. z <= 12 * R + 5 * s
    BY <1>1, <2>7, <2>8 DEF z
  <2> QED BY <2>9 DEF z
<1>5. q <= num(s) \div (10 * s)
  <2>1. 10 * s \in Nat \ {0} /\ num(s) \in Nat
    BY <1>1
  <2> HIDE DEF num
  <2> QED BY <1>2, <1>3, <1>4, <2>1
<1>6. num(s) \div (10 * s) \in Nat
  <2>1. 10 * s \in Nat \ {0} /\ num(s) \in Nat
    BY <1>1
  <2> HIDE DEF num
  <2> QED BY <1>2, <2>1
<1>7. DotSamples(wpm) = num(s) \div (10 * s) /\ DotSamples(50) = q
  BY <1>1 DEF DotSamples, s, R, q
<1> QED BY <1>3, <1>5, <1>6, <1>7

-----------------------------------------------------------------------------
(* Marks and silence.                                                      *)

LEMMA OnOffType == ASSUME NEW n \in Nat
  PROVE  /\ On(n) \in Seq(BOOLEAN) /\ Len(On(n)) = n
         /\ Off(n) \in Seq(BOOLEAN) /\ Len(Off(n)) = n
         /\ \A i \in 1 .. n : On(n)[i] = TRUE /\ Off(n)[i] = FALSE
  BY DEF On, Off

\* A sequence whose places all hold the same.
LEMMA Constantly ==
  ASSUME NEW s \in Seq(BOOLEAN), NEW n \in Nat, Len(s) = n
  PROVE  /\ (\A i \in 1 .. n : s[i] = TRUE) => s = On(n)
         /\ (\A i \in 1 .. n : s[i] = FALSE) => s = Off(n)
<1>1. s = [i \in 1 .. n |-> s[i]]
  OBVIOUS
<1> QED BY <1>1 DEF On, Off

LEMMA OnJoins ==
  ASSUME NEW m \in Nat, NEW n \in Nat
  PROVE  On(m) \o On(n) = On(m + n) /\ Off(m) \o Off(n) = Off(m + n)
<1> DEFINE a == On(m)
           b == On(n)
           c == Off(m)
           d == Off(n)
<1>1. /\ a \in Seq(BOOLEAN) /\ Len(a) = m /\ \A i \in 1 .. m : a[i] = TRUE
      /\ b \in Seq(BOOLEAN) /\ Len(b) = n /\ \A i \in 1 .. n : b[i] = TRUE
      /\ c \in Seq(BOOLEAN) /\ Len(c) = m /\ \A i \in 1 .. m : c[i] = FALSE
      /\ d \in Seq(BOOLEAN) /\ Len(d) = n /\ \A i \in 1 .. n : d[i] = FALSE
  BY OnOffType
<1> HIDE DEF a, b, c, d
<1>2. \A i \in 1 .. m + n : (i <= m => i \in 1 .. m) /\ (~(i <= m) => i - m \in 1 .. n)
  OBVIOUS
<1>3. /\ a \o b \in Seq(BOOLEAN) /\ Len(a \o b) = m + n
      /\ \A i \in 1 .. m + n : (a \o b)[i] = IF i <= m THEN a[i] ELSE b[i - m]
  <2>0. a \in Seq(BOOLEAN) /\ b \in Seq(BOOLEAN)
    BY <1>1
  <2>1. /\ a \o b \in Seq(BOOLEAN) /\ Len(a \o b) = Len(a) + Len(b)
        /\ \A i \in 1 .. Len(a) + Len(b) :
             (a \o b)[i] = IF i <= Len(a) THEN a[i] ELSE b[i - Len(a)]
    BY <2>0, ConcatProperties
  <2> QED BY <1>1, <2>1
<1>4. /\ c \o d \in Seq(BOOLEAN) /\ Len(c \o d) = m + n
      /\ \A i \in 1 .. m + n : (c \o d)[i] = IF i <= m THEN c[i] ELSE d[i - m]
  <2>0. c \in Seq(BOOLEAN) /\ d \in Seq(BOOLEAN)
    BY <1>1
  <2>1. /\ c \o d \in Seq(BOOLEAN) /\ Len(c \o d) = Len(c) + Len(d)
        /\ \A i \in 1 .. Len(c) + Len(d) :
             (c \o d)[i] = IF i <= Len(c) THEN c[i] ELSE d[i - Len(c)]
    BY <2>0, ConcatProperties
  <2> QED BY <1>1, <2>1
<1>5. \A i \in 1 .. m + n : (a \o b)[i] = TRUE /\ (c \o d)[i] = FALSE
  BY <1>1, <1>2, <1>3, <1>4
<1>6. m + n \in Nat
  OBVIOUS
<1> DEFINE ab == a \o b
           cd == c \o d
<1> HIDE DEF ab, cd
<1>7. ab = On(m + n) /\ cd = Off(m + n)
  BY <1>3, <1>4, <1>5, <1>6, Constantly DEF ab, cd
<1> QED BY <1>7 DEF ab, cd, a, b, c, d

\* Keyed samples, and what is known of pieces of them.
Bits == Seq(BOOLEAN)

LEMMA PieceJoins == \A x, y \in Bits : x \o y \in Bits
  BY ConcatProperties DEF Bits

LEMMA PieceRegroups == \A x, y, z \in Bits : (x \o y) \o z = x \o (y \o z)
  BY Associative DEF Bits

LEMMA PieceAlone == \A x \in Bits : FlattenSeq(<<x>>) = x
  BY FlattenOne DEF Bits

LEMMA PieceBehind ==
  \A s \in Seq(Bits), x \in Bits : FlattenSeq(Append(s, x)) = FlattenSeq(s) \o x
  BY FlattenAppend DEF Bits

LEMMA FlattenTwo == \A a, b \in Bits : FlattenSeq(<<a, b>>) = a \o b
<1> TAKE a, b \in Bits
<1>1. <<a>> \in Seq(Bits) /\ <<a, b>> = Append(<<a>>, b)
  OBVIOUS
<1>2. FlattenSeq(<<a>>) = a
  BY PieceAlone
<1>3. FlattenSeq(Append(<<a>>, b)) = FlattenSeq(<<a>>) \o b
  BY <1>1, PieceBehind
<1> QED BY <1>1, <1>2, <1>3

LEMMA FlattenFour ==
  \A a, b, c, d \in Bits : FlattenSeq(<<a, b, c, d>>) = ((a \o b) \o c) \o d
<1> TAKE a, b, c, d \in Bits
<1>1. /\ <<a, b>> \in Seq(Bits) /\ <<a, b, c>> \in Seq(Bits)
      /\ <<a, b, c>> = Append(<<a, b>>, c) /\ <<a, b, c, d>> = Append(<<a, b, c>>, d)
  OBVIOUS
<1>2. FlattenSeq(<<a, b>>) = a \o b
  BY FlattenTwo
<1>3. FlattenSeq(Append(<<a, b>>, c)) = FlattenSeq(<<a, b>>) \o c
  BY <1>1, PieceBehind
<1>4. FlattenSeq(Append(<<a, b, c>>, d)) = FlattenSeq(<<a, b, c>>) \o d
  BY <1>1, PieceBehind
<1> QED BY <1>1, <1>2, <1>3, <1>4

LEMMA FlattenSix ==
  \A u, v \in Bits :
    /\ FlattenSeq(<<u, v, u, u, u>>) = (((u \o v) \o u) \o u) \o u
    /\ FlattenSeq(<<u, v, u, u, u, v>>) = ((((u \o v) \o u) \o u) \o u) \o v
<1> TAKE u, v \in Bits
<1> DEFINE two == <<u, v>>
           three == <<u, v, u>>
           four == <<u, v, u, u>>
           five == <<u, v, u, u, u>>
           six == <<u, v, u, u, u, v>>
<1>1. two \in Seq(Bits) /\ three \in Seq(Bits) /\ four \in Seq(Bits) /\ five \in Seq(Bits)
  OBVIOUS
<1>2. three = Append(two, u) /\ four = Append(three, u)
  OBVIOUS
<1>3. five = Append(four, u)
  OBVIOUS
<1>4. six = Append(five, v)
  OBVIOUS
<1>5. FlattenSeq(two) = u \o v
  BY FlattenTwo
<1> HIDE DEF two, three, four, five, six
<1>6. FlattenSeq(three) = FlattenSeq(two) \o u
  BY <1>1, <1>2, PieceBehind
<1>7. FlattenSeq(four) = FlattenSeq(three) \o u
  BY <1>1, <1>2, PieceBehind
<1>8. FlattenSeq(five) = FlattenSeq(four) \o u
  BY <1>1, <1>3, PieceBehind
<1>9. FlattenSeq(six) = FlattenSeq(five) \o v
  BY <1>1, <1>4, PieceBehind
<1>a. /\ FlattenSeq(five) = (((u \o v) \o u) \o u) \o u
      /\ FlattenSeq(six) = ((((u \o v) \o u) \o u) \o u) \o v
  BY <1>5, <1>6, <1>7, <1>8, <1>9
<1> QED BY <1>a DEF five, six

\* The keying of a letter is that of its elements, and ends with a dot of silence.
LEMMA LetterIs ==
  ASSUME dot \in Nat, NEW c \in DOMAIN Letters
  PROVE  LET f == [i \in 1 .. Len(Letters[c]) |-> Element(Letters[c][i])]
         IN  /\ f \in Seq(Bits) /\ FlattenSeq(f) = Units(Chart[c])
             /\ \E x \in Bits : Units(Chart[c]) = x \o Off(dot)
<1> DEFINE on == On(dot)
           off == Off(dot)
           f == [i \in 1 .. Len(Letters[c]) |-> Element(Letters[c][i])]
           dit == on \o off
           dah == On(3 * dot) \o off
<1>1. on \in Bits /\ off \in Bits /\ On(3 * dot) \in Bits
  <2>1. 3 * dot \in Nat
    OBVIOUS
  <2> QED BY <2>1, OnOffType DEF Bits
<1>2. dit \in Bits /\ dah \in Bits
  BY <1>1, PieceJoins
<1>3. On(3 * dot) = (on \o on) \o on
  <2>1. on \o on = On(dot + dot)
    BY OnJoins
  <2>2. On(dot + dot) \o on = On((dot + dot) + dot)
    <3>1. dot + dot \in Nat
      OBVIOUS
    <3> QED BY <3>1, OnJoins
  <2>3. (dot + dot) + dot = 3 * dot
    OBVIOUS
  <2> QED BY <2>1, <2>2, <2>3
<1>4. Element(".") = dit /\ Element("-") = dah
  BY DEF Element
<1>a. \A x, y, z \in Bits : (x \o y) \o z = x \o (y \o z)
  BY PieceRegroups
<1>b. \A x, y \in Bits : x \o y \in Bits
  BY PieceJoins
<1> HIDE DEF on, off, dit, dah
<1>5. CASE c = "e"
  <2>1. f = <<dit>> /\ Units(Chart[c]) = FlattenSeq(<<on, off>>)
    <3>1. Letters[c] = <<".">> /\ Chart[c] = <<1, 0>>
      BY <1>5 DEF Letters, Chart
    <3>2. f = <<dit>>
      BY <1>4, <3>1
    <3>3. [i \in 1 .. Len(Chart[c]) |-> IF Chart[c][i] = 1 THEN on ELSE off] = <<on, off>>
      BY <3>1
    <3> QED BY <3>2, <3>3 DEF Units, on, off
  <2>2. f \in Seq(Bits)
    BY <1>2, <2>1
  <2>3. FlattenSeq(f) = dit
    BY <1>2, <2>1, PieceAlone
  <2>4. FlattenSeq(<<on, off>>) = on \o off
    BY <1>1, FlattenTwo
  <2> QED BY <1>1, <2>1, <2>2, <2>3, <2>4 DEF dit, off
<1>6. CASE c = "t"
  <2>1. f = <<dah>> /\ Units(Chart[c]) = FlattenSeq(<<on, on, on, off>>)
    <3>1. Letters[c] = <<"-">> /\ Chart[c] = <<1, 1, 1, 0>>
      BY <1>6 DEF Letters, Chart
    <3>2. f = <<dah>>
      BY <1>4, <3>1
    <3>3. [i \in 1 .. Len(Chart[c]) |-> IF Chart[c][i] = 1 THEN on ELSE off]
            = <<on, on, on, off>>
      BY <3>1
    <3> QED BY <3>2, <3>3 DEF Units, on, off
  <2>2. f \in Seq(Bits)
    BY <1>2, <2>1
  <2>3. FlattenSeq(f) = dah
    BY <1>2, <2>1, PieceAlone
  <2>4. FlattenSeq(<<on, on, on, off>>) = ((on \o on) \o on) \o off
    BY <1>1, FlattenFour, Zenon
  <2> QED BY <1>1, <1>3, <2>1, <2>2, <2>3, <2>4 DEF dah, off
<1>7. CASE c = "a"
  <2>1. f = <<dit, dah>> /\ Units(Chart[c]) = FlattenSeq(<<on, off, on, on, on, off>>)
    <3>1. Letters[c] = <<".", "-">> /\ Chart[c] = <<1, 0, 1, 1, 1, 0>>
      BY <1>7 DEF Letters, Chart
    <3>2. f = <<dit, dah>>
      BY <1>4, <3>1
    <3>3. [i \in 1 .. Len(Chart[c]) |-> IF Chart[c][i] = 1 THEN on ELSE off]
            = <<on, off, on, on, on, off>>
      BY <3>1
    <3> QED BY <3>2, <3>3 DEF Units, on, off
  <2>2. f \in Seq(Bits)
    BY <1>2, <2>1
  <2>3. FlattenSeq(f) = dit \o dah
    BY <1>2, <2>1, FlattenTwo
  <2>4. FlattenSeq(<<on, off, on, on, on, off>>)
          = ((((on \o off) \o on) \o on) \o on) \o off
    BY <1>1, FlattenSix
  <2>5. ((((on \o off) \o on) \o on) \o on) \o off = (dit \o ((on \o on) \o on)) \o off
    <3>1. ((dit \o on) \o on) \o on = dit \o ((on \o on) \o on)
      <4>1. (dit \o on) \o on = dit \o (on \o on)
        BY <1>1, <1>2, <1>a
      <4>2. (dit \o (on \o on)) \o on = dit \o ((on \o on) \o on)
        BY <1>1, <1>2, <1>a, <1>b, SMTT(30)
      <4> QED BY <4>1, <4>2
    <3> QED BY <3>1 DEF dit
  <2>6. (dit \o ((on \o on) \o on)) \o off = dit \o dah
    <3>1. ((on \o on) \o on) \in Bits
      BY <1>1, <1>3
    <3>2. (dit \o ((on \o on) \o on)) \o off = dit \o (((on \o on) \o on) \o off)
      BY <1>1, <1>2, <1>a, <3>1, SMTT(30)
    <3> QED BY <1>3, <3>2 DEF dah
  <2>7. dit \o ((on \o on) \o on) \in Bits
    BY <1>1, <1>2, <1>3, <1>b
  <2> QED BY <2>1, <2>2, <2>3, <2>4, <2>5, <2>6, <2>7 DEF off
<1> QED BY <1>5, <1>6, <1>7 DEF Letters

-----------------------------------------------------------------------------
(* The buffers and the keying of the text.                                 *)

\* The last n samples, as far as there are as many, are off.
EndsOff(s, n) == \A i \in 1 .. Len(s) : i > Len(s) - n => s[i] = FALSE

KyTypeOK ==
  /\ dot \in Nat /\ DotSamples(50) <= dot
  /\ elements \in Seq(Bits) /\ posted \in Seq(Bits) /\ cur_buf \in Bits /\ keyed \in Bits
  /\ in_digraph \in BOOLEAN /\ last_was_space \in BOOLEAN /\ joined \in BOOLEAN
  /\ chars \in Int /\ speeds \in Int

KyInv ==
  /\ KyTypeOK
  /\ Len(cur_buf) < BufLen
  /\ \A i \in 1 .. Len(posted) : Len(posted[i]) = BufLen
  /\ FlattenSeq(posted) \o cur_buf \o FlattenSeq(elements) = keyed
  /\ ~joined => EndsOff(keyed, 3 * DotSamples(50))

LEMMA BitsType == \A x \in Bits : Len(x) \in Nat /\ \A i \in 1 .. Len(x) : x[i] \in BOOLEAN
  BY DEF Bits

\* What ends with silence of m samples ends off for every n up to m.
LEMMA SilenceEndsOff ==
  ASSUME NEW x \in Bits, NEW m \in Nat, NEW n \in Nat, n <= m
  PROVE  EndsOff(x \o Off(m), n)
<1> DEFINE y == Off(m)
           k == Len(x)
           z == x \o y
<1>1. y \in Seq(BOOLEAN) /\ Len(y) = m /\ \A i \in 1 .. m : y[i] = FALSE
  BY OnOffType
<1>2. x \in Seq(BOOLEAN) /\ k \in Nat
  BY DEF Bits
<1> HIDE DEF y
<1>3. /\ Len(x \o y) = Len(x) + Len(y)
      /\ \A i \in 1 .. Len(x) + Len(y) :
             (x \o y)[i] = IF i <= Len(x) THEN x[i] ELSE y[i - Len(x)]
  BY <1>1, <1>2, ConcatProperties
<1>4. Len(z) = k + m /\ \A i \in 1 .. k + m : ~(i <= k) => z[i] = y[i - k]
  BY <1>1, <1>3
<1> HIDE DEF z, k
<1>5. ASSUME NEW i \in 1 .. Len(z), i > Len(z) - n PROVE z[i] = FALSE
  <2>1. i \in 1 .. k + m /\ ~(i <= k) /\ i - k \in 1 .. m
    BY <1>2, <1>4, <1>5
  <2> QED BY <1>1, <1>4, <2>1
<1>6. EndsOff(z, n)
  BY <1>5 DEF EndsOff
<1> QED BY <1>6 DEF z, y

\* The end of what ends off.
LEMMA EndIsOff ==
  ASSUME NEW x \in Bits, NEW y \in Bits, NEW n \in Nat, EndsOff(x \o y, n), Len(y) <= n
  PROVE  \A i \in 1 .. Len(y) : y[i] = FALSE
<1> DEFINE k == Len(x)
           m == Len(y)
           z == x \o y
<1>1. x \in Seq(BOOLEAN) /\ k \in Nat /\ y \in Seq(BOOLEAN) /\ m \in Nat
  BY DEF Bits
<1>2. /\ Len(x \o y) = Len(x) + Len(y)
      /\ \A i \in 1 .. Len(x) + Len(y) :
             (x \o y)[i] = IF i <= Len(x) THEN x[i] ELSE y[i - Len(x)]
  BY <1>1, ConcatProperties
<1>3. Len(z) = k + m /\ \A i \in 1 .. k + m : ~(i <= k) => z[i] = y[i - k]
  BY <1>2
<1>4. m <= n /\ \A i \in 1 .. Len(z) : i > Len(z) - n => z[i] = FALSE
  BY DEF EndsOff
<1> HIDE DEF z, k, m
<1>5. ASSUME NEW i \in 1 .. m PROVE y[i] = FALSE
  <2>1. /\ i + k \in 1 .. k + m /\ ~(i + k <= k) /\ (i + k) - k = i
        /\ i + k > (k + m) - n
    BY <1>1, <1>4
  <2>2. z[i + k] = y[i]
    BY <1>3, <2>1
  <2>3. z[i + k] = FALSE
    BY <1>3, <1>4, <2>1
  <2> QED BY <2>2, <2>3
<1> QED BY <1>5 DEF m

\* A character is keyed: what is to be appended, and the keying.
LEMMA CharKeyed ==
  ASSUME KyInv, elements = <<>>, NEW E \in Seq(Bits), elements' = E,
         NEW x, keyed' = keyed \o x, FlattenSeq(E) = x,
         UNCHANGED <<dot, cur_buf, posted>>
  PROVE  /\ keyed' \in Bits
         /\ FlattenSeq(posted') \o cur_buf' \o FlattenSeq(elements') = keyed'
<1> DEFINE P == FlattenSeq(posted)
<1>1. x \in Bits /\ P \in Bits /\ cur_buf \in Bits /\ keyed \in Bits
  <2>1. posted \in Seq(Seq(BOOLEAN)) /\ E \in Seq(Seq(BOOLEAN))
    BY DEF KyInv, KyTypeOK, Bits
  <2>2. FlattenSeq(posted) \in Seq(BOOLEAN) /\ FlattenSeq(E) \in Seq(BOOLEAN)
    BY <2>1, FlattenType
  <2> QED BY <2>2 DEF KyInv, KyTypeOK, Bits
<1>2. FlattenSeq(<<>>) = <<>>
  BY DEF FlattenSeq
<1>3. (P \o cur_buf) \o <<>> = keyed
  BY <1>2 DEF KyInv
<1> HIDE DEF P
<1>4. P \o cur_buf \in Bits
  BY <1>1, PieceJoins
<1>5. \A y \in Bits : y \o <<>> = y
  BY DEF Bits
<1>6. P \o cur_buf = keyed
  BY <1>3, <1>4, <1>5
<1> QED BY <1>1, <1>6, PieceJoins DEF P

LEMMA KyTypeKept ==
  ASSUME KyInv, elements' \in Seq(Bits), posted' \in Seq(Bits), cur_buf' \in Bits, keyed' \in Bits,
         in_digraph' \in BOOLEAN, last_was_space' \in BOOLEAN, joined' \in BOOLEAN,
         chars' \in Int, speeds' \in Int, dot' = dot
  PROVE  KyTypeOK'
<1>1. dot' \in Nat /\ DotSamples(50) <= dot'
  BY DEF KyInv, KyTypeOK
<1> QED BY <1>1, Zenon DEF KyTypeOK

LEMMA CountsKept == ASSUME KyInv, chars' = chars + 1, speeds' = speeds
                    PROVE  chars' \in Int /\ speeds' \in Int
<1>1. chars \in Int /\ speeds \in Int
  BY Zenon DEF KyInv, KyTypeOK
<1> QED BY <1>1

LEMMA KyBlank == ASSUME KyInv, Blank PROVE KyInv'
<1> DEFINE off == Off(dot)
           n == IF last_was_space THEN 6 * dot ELSE 5 * dot
           x == InterWord
           D == 3 * DotSamples(50)
<1>1. dot \in Nat /\ DotSamples(50) \in Nat /\ DotSamples(50) <= dot
  <2>1. DotSamples(50) \in Nat
    BY DotsLast
  <2> QED BY <2>1 DEF KyInv, KyTypeOK
<1>2. n \in Nat /\ D \in Nat /\ D <= n /\ x = Off(n)
  <2>1. 6 * dot - 0 = 6 * dot /\ 6 * dot - dot = 5 * dot
    BY <1>1
  <2> QED BY <1>1, <2>1 DEF InterWord
<1> HIDE DEF x, n, D
<1>3. off \in Bits /\ x \in Bits
  BY <1>1, <1>2, OnOffType DEF Bits
<1>4. Units(IF last_was_space THEN <<0, 0, 0, 0, 0, 0>> ELSE <<0, 0, 0, 0, 0>>) = x
  <2>1. off \o off = Off(2 * dot)
    <3>1. dot + dot = 2 * dot
      BY <1>1
    <3> QED BY <1>1, <3>1, OnJoins
  <2>2. Off(2 * dot) \o off = Off(3 * dot)
    <3>1. 2 * dot + dot = 3 * dot /\ 2 * dot \in Nat
      BY <1>1
    <3> QED BY <1>1, <3>1, OnJoins
  <2>3. Off(3 * dot) \o off = Off(4 * dot)
    <3>1. 3 * dot + dot = 4 * dot /\ 3 * dot \in Nat
      BY <1>1
    <3> QED BY <1>1, <3>1, OnJoins
  <2>4. Off(4 * dot) \o off = Off(5 * dot)
    <3>1. 4 * dot + dot = 5 * dot /\ 4 * dot \in Nat
      BY <1>1
    <3> QED BY <1>1, <3>1, OnJoins
  <2>5. Off(5 * dot) \o off = Off(6 * dot)
    <3>1. 5 * dot + dot = 6 * dot /\ 5 * dot \in Nat
      BY <1>1
    <3> QED BY <1>1, <3>1, OnJoins
  <2> HIDE DEF off
  <2>6. /\ FlattenSeq(<<off, off, off, off, off>>) = Off(5 * dot)
        /\ FlattenSeq(<<off, off, off, off, off, off>>) = Off(6 * dot)
    <3>1. off \in Bits
      BY <1>3
    <3>2. /\ FlattenSeq(<<off, off, off, off, off>>) = (((off \o off) \o off) \o off) \o off
          /\ FlattenSeq(<<off, off, off, off, off, off>>)
               = ((((off \o off) \o off) \o off) \o off) \o off
      BY <3>1, FlattenSix
    <3> QED BY <2>1, <2>2, <2>3, <2>4, <2>5, <3>2, Zenon
  <2>7. CASE last_was_space
    <3> DEFINE w == <<0, 0, 0, 0, 0, 0>>
    <3>1. [i \in 1 .. Len(w) |-> IF w[i] = 1 THEN On(dot) ELSE off]
            = <<off, off, off, off, off, off>>
      OBVIOUS
    <3>2. Units(w) = Off(6 * dot)
      BY <2>6, <3>1 DEF Units, off
    <3> QED BY <1>2, <2>7, <3>2 DEF n
  <2>8. CASE ~last_was_space
    <3> DEFINE w == <<0, 0, 0, 0, 0>>
    <3>1. [i \in 1 .. Len(w) |-> IF w[i] = 1 THEN On(dot) ELSE off]
            = <<off, off, off, off, off>>
      OBVIOUS
    <3>2. Units(w) = Off(5 * dot)
      BY <2>6, <3>1 DEF Units, off
    <3> QED BY <1>2, <2>8, <3>2 DEF n
  <2> QED BY <2>7, <2>8
<1>5. keyed' = keyed \o x
  BY <1>4 DEF Blank
<1>6. elements = <<>> /\ elements' = <<x>> /\ UNCHANGED <<dot, cur_buf, posted>>
  BY DEF Blank, Counted, x
<1>7. <<x>> \in Seq(Bits) /\ FlattenSeq(<<x>>) = x
  <2>1. <<x>> \in Seq(Bits)
    BY <1>3
  <2> QED BY <1>3, <2>1, PieceAlone
<1>8. /\ keyed' \in Bits
      /\ FlattenSeq(posted') \o cur_buf' \o FlattenSeq(elements') = keyed'
  BY <1>5, <1>6, <1>7, CharKeyed
<1>9. EndsOff(keyed', D)
  <2>1. keyed \in Bits
    BY DEF KyInv, KyTypeOK
  <2> QED BY <1>2, <1>5, <2>1, SilenceEndsOff
<1>a. KyTypeOK'
  <2>1. /\ in_digraph' = FALSE /\ last_was_space' = TRUE /\ joined' = FALSE
        /\ chars' = chars + 1 /\ speeds' = speeds
    BY DEF Blank, Counted
  <2>2. /\ in_digraph' \in BOOLEAN /\ last_was_space' \in BOOLEAN
          /\ joined' \in BOOLEAN /\ chars' \in Int /\ speeds' \in Int
    <3>1. in_digraph \in BOOLEAN
      BY Zenon DEF KyInv, KyTypeOK
    <3>2. chars' \in Int /\ speeds' \in Int
      BY <2>1, CountsKept
    <3> QED BY <2>1, <3>1, <3>2, Zenon
  <2>3. elements' \in Seq(Bits) /\ posted' \in Seq(Bits) /\ cur_buf' \in Bits /\ dot' = dot
    BY <1>6, <1>7 DEF KyInv, KyTypeOK
  <2> QED BY <1>8, <2>2, <2>3, KyTypeKept
<1> QED BY <1>6, <1>8, <1>9, <1>a DEF KyInv, D

LEMMA KyLetter == ASSUME KyInv, NEW c \in DOMAIN Letters, Letter(c) PROVE KyInv'
<1> DEFINE f == [i \in 1 .. Len(Letters[c]) |-> Element(Letters[c][i])]
           u == Units(Chart[c])
           off == Off(dot)
           gap == Off(2 * dot)
           D == 3 * DotSamples(50)
<1>1. dot \in Nat /\ DotSamples(50) \in Nat /\ DotSamples(50) <= dot
  <2>1. DotSamples(50) \in Nat
    BY DotsLast
  <2> QED BY <2>1 DEF KyInv, KyTypeOK
<1>2. /\ 2 * dot \in Nat /\ 3 * dot \in Nat /\ dot + 2 * dot = 3 * dot /\ dot + dot = 2 * dot
      /\ D \in Nat /\ D <= 3 * dot
  BY <1>1
<1> HIDE DEF D
<1>3. off \in Bits /\ gap \in Bits
  BY <1>1, <1>2, OnOffType DEF Bits
<1>4. f \in Seq(Bits) /\ FlattenSeq(f) = u /\ \E x \in Bits : u = x \o off
  BY <1>1, LetterIs
<1>5. PICK x \in Bits : u = x \o off
  BY <1>4
<1>6. Units(<<0, 0>>) = gap
  <2>1. off \o off = gap
    BY <1>1, <1>2, OnJoins
  <2> DEFINE w == <<0, 0>>
  <2> HIDE DEF off
  <2>2. [i \in 1 .. Len(w) |-> IF w[i] = 1 THEN On(dot) ELSE off] = <<off, off>>
    OBVIOUS
  <2>3. FlattenSeq(<<off, off>>) = gap
    BY <1>3, <2>1, FlattenTwo
  <2> QED BY <2>2, <2>3 DEF Units, off
<1>7. /\ elements = <<>> /\ UNCHANGED <<dot, cur_buf, posted, speeds>> /\ chars' = chars + 1
      /\ last_was_space' = FALSE /\ in_digraph' = FALSE /\ joined' = in_digraph
      /\ elements' = f \o (IF in_digraph THEN <<>> ELSE <<gap>>)
      /\ keyed' = (keyed \o u) \o (IF in_digraph THEN <<>> ELSE gap)
  BY <1>6 DEF Letter, Counted, InterChar
<1> HIDE DEF f, u, off, gap
<1>8. u \in Bits /\ keyed \in Bits /\ keyed \o u \in Bits
  <2>1. u \in Bits
    BY <1>3, <1>5, PieceJoins
  <2> QED BY <2>1, PieceJoins DEF KyInv, KyTypeOK
<1>9. CASE in_digraph
  <2>1. elements' = f
    <3>1. f \o <<>> = f
      BY <1>4
    <3> QED BY <1>7, <1>9, <3>1
  <2>2. keyed' = keyed \o u
    <3>1. \A y \in Bits : y \o <<>> = y
      BY DEF Bits
    <3> QED BY <1>7, <1>8, <1>9, <3>1
  <2>3. /\ keyed' \in Bits
        /\ FlattenSeq(posted') \o cur_buf' \o FlattenSeq(elements') = keyed'
    BY <1>4, <1>7, <2>1, <2>2, CharKeyed
  <2>4. KyTypeOK'
    <3>1. /\ in_digraph' \in BOOLEAN /\ last_was_space' \in BOOLEAN
            /\ joined' \in BOOLEAN /\ chars' \in Int /\ speeds' \in Int
      <4>1. in_digraph \in BOOLEAN
        BY Zenon DEF KyInv, KyTypeOK
      <4>2. chars' \in Int /\ speeds' \in Int
        BY <1>7, CountsKept
      <4> QED BY <1>7, <4>1, <4>2, Zenon
    <3>2. elements' \in Seq(Bits) /\ posted' \in Seq(Bits) /\ cur_buf' \in Bits /\ dot' = dot
      BY <1>4, <1>7, <2>1 DEF KyInv, KyTypeOK
    <3> QED BY <2>3, <3>1, <3>2, KyTypeKept
  <2>5. joined'
    BY <1>7, <1>9
  <2> QED BY <1>7, <2>3, <2>4, <2>5 DEF KyInv
<1>a. CASE ~in_digraph
  <2> DEFINE E == Append(f, gap)
             y == u \o gap
  <2>1. elements' = E /\ E \in Seq(Bits)
    <3>1. f \o <<gap>> = Append(f, gap)
      BY <1>4
    <3>2. Append(f, gap) \in Seq(Bits)
      BY <1>3, <1>4
    <3> QED BY <1>7, <1>a, <3>1, <3>2
  <2>2. FlattenSeq(E) = y
    BY <1>3, <1>4, PieceBehind
  <2>3. keyed' = keyed \o y
    <3>1. (keyed \o u) \o gap = keyed \o (u \o gap)
      BY <1>3, <1>8, PieceRegroups
    <3> QED BY <1>7, <1>a, <3>1
  <2> HIDE DEF E, y
  <2>4. /\ keyed' \in Bits
        /\ FlattenSeq(posted') \o cur_buf' \o FlattenSeq(elements') = keyed'
    BY <1>7, <2>1, <2>2, <2>3, CharKeyed
  <2>5. KyTypeOK'
    <3>1. /\ in_digraph' \in BOOLEAN /\ last_was_space' \in BOOLEAN
            /\ joined' \in BOOLEAN /\ chars' \in Int /\ speeds' \in Int
      <4>1. in_digraph \in BOOLEAN
        BY Zenon DEF KyInv, KyTypeOK
      <4>2. chars' \in Int /\ speeds' \in Int
        BY <1>7, CountsKept
      <4> QED BY <1>7, <4>1, <4>2, Zenon
    <3>2. elements' \in Seq(Bits) /\ posted' \in Seq(Bits) /\ cur_buf' \in Bits /\ dot' = dot
      BY <1>7, <2>1 DEF KyInv, KyTypeOK
    <3> QED BY <2>4, <3>1, <3>2, KyTypeKept
  <2>6. EndsOff(keyed', D)
    <3>1. u \o gap = x \o (off \o gap)
      BY <1>3, <1>5, PieceRegroups
    <3>2. off \o gap = Off(3 * dot)
      <4>1. Off(dot) \o Off(2 * dot) = Off(dot + 2 * dot)
        BY <1>1, <1>2, OnJoins
      <4> QED BY <1>2, <4>1 DEF off, gap
    <3>3. Off(3 * dot) \in Bits
      BY <1>2, OnOffType DEF Bits
    <3>4. keyed' = (keyed \o x) \o Off(3 * dot)
      <4>1. keyed' = keyed \o (x \o Off(3 * dot))
        BY <2>3, <3>1, <3>2 DEF y
      <4> QED BY <1>8, <3>3, <4>1, PieceRegroups
    <3>5. keyed \o x \in Bits
      BY <1>8, PieceJoins
    <3> QED BY <1>2, <3>4, <3>5, SilenceEndsOff
  <2> QED BY <1>7, <2>4, <2>5, <2>6 DEF KyInv, D
<1> QED BY <1>9, <1>a

\* A piece in two.
LEMMA PieceCut ==
  ASSUME NEW v \in Bits, NEW n \in 0 .. Len(v)
  PROVE  /\ SubSeq(v, 1, n) \in Bits /\ Behind(v, n) \in Bits /\ Len(SubSeq(v, 1, n)) = n
         /\ v = SubSeq(v, 1, n) \o Behind(v, n)
<1> DEFINE a == SubSeq(v, 1, n)
           b == SubSeq(v, n + 1, Len(v))
           k == Len(v)
<1>1. v \in Seq(BOOLEAN) /\ k \in Nat /\ n \in 0 .. k
  BY DEF Bits
<1>2. a \in Seq(BOOLEAN) /\ Len(a) = n /\ \A i \in 1 .. n : a[i] = v[i]
  BY <1>1, SubSeqProperties
<1>3. b \in Seq(BOOLEAN) /\ Len(b) = k - n /\ \A i \in 1 .. k - n : b[i] = v[n + i]
  BY <1>1, SubSeqProperties
<1> HIDE DEF a, b, k
<1>4. /\ a \o b \in Seq(BOOLEAN) /\ Len(a \o b) = Len(a) + Len(b)
      /\ \A i \in 1 .. Len(a) + Len(b) :
             (a \o b)[i] = IF i <= Len(a) THEN a[i] ELSE b[i - Len(a)]
  BY <1>2, <1>3, ConcatProperties
<1>5. Len(a) + Len(b) = k
  BY <1>1, <1>2, <1>3
<1>6. ASSUME NEW i \in 1 .. k PROVE (a \o b)[i] = v[i]
  <2>1. CASE i <= n
    BY <1>1, <1>2, <1>4, <1>5, <2>1
  <2>2. CASE ~(i <= n)
    <3>1. i - n \in 1 .. k - n /\ n + (i - n) = i
      BY <1>1, <2>2
    <3> QED BY <1>2, <1>3, <1>4, <1>5, <2>2, <3>1
  <2> QED BY <2>1, <2>2
<1>7. a \o b = v
  <2> DEFINE z == a \o b
  <2>1. z \in Seq(BOOLEAN) /\ Len(z) = Len(v) /\ \A i \in 1 .. Len(v) : z[i] = v[i]
    BY <1>4, <1>5, <1>6 DEF k
  <2> HIDE DEF z
  <2>2. z = v
    BY <1>1, <2>1, SeqEqual
  <2> QED BY <2>2 DEF z
<1> QED BY <1>2, <1>3, <1>7 DEF a, b, Behind, Bits

LEMMA KyAppend == ASSUME KyInv, AppendToOut PROVE KyInv'
<1> DEFINE v == Head(elements)
           k == Len(cur_buf)
           n == IF Len(v) <= BufLen - (k + 1) THEN Len(v) ELSE BufLen - k
           p == SubSeq(v, 1, n)
           b == Behind(v, n)
           filled == cur_buf \o p
           P == FlattenSeq(posted)
           R == FlattenSeq(Tail(elements))
           D == 3 * DotSamples(50)
<1>0. /\ elements \in Seq(Bits) /\ posted \in Seq(Bits) /\ cur_buf \in Bits /\ keyed \in Bits
      /\ BufLen \in Nat /\ elements # <<>> /\ k < BufLen
  <2>1. BufLen \in Nat
    <3>1. DotSamples(50) \in Nat
      BY DotsLast
    <3> HIDE DEF D
    <3> QED BY <3>1, KeyerAssumption
  <2> QED BY <2>1 DEF KyInv, KyTypeOK, AppendToOut
<1>1. v \in Bits /\ Tail(elements) \in Seq(Bits)
  <2> DEFINE Q == Bits
  <2> HIDE DEF Q
  <2>1. elements \in Seq(Q) /\ elements # <<>>
    BY <1>0 DEF Q
  <2>2. Head(elements) \in Q /\ Tail(elements) \in Seq(Q)
    BY <2>1, HeadTailProperties
  <2> QED BY <2>2 DEF Q
<1>2. k \in Nat /\ Len(v) \in Nat
  BY <1>0, <1>1, BitsType
<1>3. /\ n \in 0 .. Len(v) /\ k + n <= BufLen
      /\ k + n < BufLen => n = Len(v)
  BY <1>0, <1>2
<1>4. p \in Bits /\ b \in Bits /\ Len(p) = n /\ v = p \o b
  BY <1>1, <1>3, PieceCut
<1>5. P \in Bits /\ R \in Bits /\ FlattenSeq(elements) = v \o R
  <2>1. elements \in Seq(Seq(BOOLEAN)) /\ posted \in Seq(Seq(BOOLEAN))
        /\ Tail(elements) \in Seq(Seq(BOOLEAN))
    BY <1>0, <1>1 DEF Bits
  <2>2. P \in Seq(BOOLEAN)
    BY <2>1, FlattenType
  <2>3. R \in Seq(BOOLEAN)
    BY <2>1, FlattenType
  <2>4. FlattenSeq(elements) = v \o R
    BY <1>0, <2>1, FlattenHead
  <2> QED BY <2>2, <2>3, <2>4 DEF Bits
<1>6. filled \in Bits /\ Len(filled) = k + n
  <2>1. filled \in Bits
    BY <1>0, <1>4, PieceJoins
  <2>2. Len(filled) = Len(cur_buf) + Len(p)
    <3> HIDE DEF p
    <3>1. cur_buf \in Seq(BOOLEAN) /\ p \in Seq(BOOLEAN)
      BY <1>0, <1>4 DEF Bits
    <3> QED BY <3>1, ConcatProperties
  <2> QED BY <1>4, <2>1, <2>2
<1>7. /\ elements' = IF n = Len(v) THEN Tail(elements) ELSE [elements EXCEPT ![1] = b]
      /\ IF Len(filled) >= BufLen
           THEN posted' = Append(posted, filled) /\ cur_buf' = <<>>
           ELSE cur_buf' = filled /\ UNCHANGED posted
      /\ UNCHANGED <<dot, in_digraph, last_was_space, keyed, joined, chars, speeds>>
  BY DEF AppendToOut
<1> HIDE DEF v, k, n, p, b, filled, P, R, D
<1>8. elements' \in Seq(Bits) /\ FlattenSeq(elements') = b \o R
  <2>1. CASE n = Len(v)
    <3>1. b \o R = R
      <4>1. b = <<>>
        BY <1>2, <2>1, SubSeqEmpty DEF b, Behind
      <4>2. \A y \in Bits : <<>> \o y = y
        BY DEF Bits
      <4> QED BY <1>5, <4>1, <4>2
    <3> QED BY <1>1, <1>7, <2>1, <3>1 DEF R
  <2>2. CASE n # Len(v)
    <3> DEFINE Q == Bits
               e == [elements EXCEPT ![1] = b]
    <3>1. elements \in Seq(Q) /\ elements # <<>> /\ b \in Q
      BY <1>0, <1>4
    <3>2. e \in Seq(Q) /\ e # <<>> /\ Head(e) = b /\ Tail(e) = Tail(elements)
      <4> HIDE DEF Q
      <4>1. Len(elements) \in Nat \ {0}
        BY <3>1
      <4>2. e \in Seq(Q) /\ Len(e) = Len(elements) /\ e[1] = b
            /\ \A i \in 1 .. Len(e) : i # 1 => e[i] = elements[i]
        BY <3>1, <4>1
      <4> HIDE DEF e
      <4>3. e # <<>> /\ Head(e) = b
        BY <4>1, <4>2
      <4>4. Tail(e) = Tail(elements)
        <5>1. Tail(e) \in Seq(Q) /\ Tail(elements) \in Seq(Q)
              /\ Len(Tail(e)) = Len(e) - 1 /\ Len(Tail(elements)) = Len(e) - 1
          BY <3>1, <4>2, <4>3
        <5>2. ASSUME NEW i \in 1 .. Len(e) - 1 PROVE Tail(e)[i] = Tail(elements)[i]
          <6>1. i + 1 \in 1 .. Len(e) /\ i + 1 # 1
            BY <4>1, <4>2
          <6>2. Tail(e)[i] = e[i + 1] /\ Tail(elements)[i] = elements[i + 1]
            BY <3>1, <4>2, <4>3
          <6> QED BY <4>2, <6>1, <6>2
        <5> QED BY <5>1, <5>2, SeqEqual
      <4> QED BY <4>2, <4>3, <4>4
    <3>3. e \in Seq(Seq(BOOLEAN))
      BY <3>2 DEF Bits
    <3>4. FlattenSeq(e) = Head(e) \o FlattenSeq(Tail(e))
      <4> HIDE DEF e
      <4> QED BY <3>2, <3>3, FlattenHead
    <3> QED BY <1>7, <2>2, <3>2, <3>4 DEF R
  <2> QED BY <2>1, <2>2
<1>9. (P \o filled) \o (b \o R) = keyed
  <2>1. (P \o cur_buf) \o (v \o R) = keyed
    BY <1>5 DEF KyInv, P
  <2>2. v \o R = p \o (b \o R)
    <3>1. (p \o b) \o R = p \o (b \o R)
      BY <1>4, <1>5, PieceRegroups
    <3> QED BY <1>4, <3>1
  <2> DEFINE z == b \o R
  <2>3. z \in Bits
    BY <1>4, <1>5, PieceJoins
  <2> HIDE DEF z
  <2>4. P \o filled = (P \o cur_buf) \o p
    BY <1>0, <1>4, <1>5, PieceRegroups DEF filled
  <2>5. ((P \o cur_buf) \o p) \o z = (P \o cur_buf) \o (p \o z)
    <3>1. P \o cur_buf \in Bits
      BY <1>0, <1>5, PieceJoins
    <3> QED BY <1>4, <2>3, <3>1, PieceRegroups
  <2> QED BY <2>1, <2>2, <2>4, <2>5 DEF z
<1>a. /\ posted' \in Seq(Bits) /\ cur_buf' \in Bits
      /\ FlattenSeq(posted') \o cur_buf' = P \o filled
      /\ Len(cur_buf') < BufLen
      /\ \A i \in 1 .. Len(posted') : Len(posted'[i]) = BufLen
  <2>1. CASE Len(filled) >= BufLen
    <3>1. posted' = Append(posted, filled) /\ cur_buf' = <<>> /\ Len(filled) = BufLen
      BY <1>0, <1>2, <1>3, <1>6, <1>7, <2>1
    <3>2. FlattenSeq(posted') = P \o filled
      BY <1>0, <1>6, <3>1, PieceBehind DEF P
    <3>3. (P \o filled) \o <<>> = P \o filled
      <4>1. \A y \in Bits : y \o <<>> = y
        BY DEF Bits
      <4> QED BY <1>5, <1>6, <4>1, PieceJoins
    <3>4. posted' \in Seq(Bits) /\ \A i \in 1 .. Len(posted') : Len(posted'[i]) = BufLen
      <4> DEFINE Q == Bits
      <4>1. posted \in Seq(Q) /\ filled \in Q
        BY <1>0, <1>6
      <4> HIDE DEF Q
      <4>2. \A i \in 1 .. Len(posted) : Len(posted[i]) = BufLen
        BY DEF KyInv
      <4>3. Append(posted, filled) \in Seq(Q)
            /\ \A i \in 1 .. Len(Append(posted, filled)) :
                 IF i <= Len(posted) THEN i \in 1 .. Len(posted)
                                          /\ Append(posted, filled)[i] = posted[i]
                 ELSE Append(posted, filled)[i] = filled
        BY <4>1
      <4> QED BY <3>1, <4>2, <4>3 DEF Q
    <3>5. <<>> \in Bits /\ Len(<<>>) < BufLen
      BY <1>0, <1>2 DEF Bits, k
    <3> QED BY <3>1, <3>2, <3>3, <3>4, <3>5
  <2>2. CASE ~(Len(filled) >= BufLen)
    <3>1. cur_buf' = filled /\ posted' = posted /\ Len(filled) < BufLen
      BY <1>0, <1>2, <1>3, <1>6, <1>7, <2>2
    <3> QED BY <1>0, <1>6, <3>1 DEF KyInv, P
  <2> QED BY <2>1, <2>2
<1>b. FlattenSeq(posted') \o cur_buf' \o FlattenSeq(elements') = keyed'
  BY <1>7, <1>8, <1>9, <1>a
<1>c. KyTypeOK'
  <2>1. /\ in_digraph' \in BOOLEAN /\ last_was_space' \in BOOLEAN /\ joined' \in BOOLEAN
        /\ chars' \in Int /\ speeds' \in Int /\ keyed' \in Bits /\ dot' = dot
    BY <1>7, Zenon DEF KyInv, KyTypeOK
  <2> QED BY <1>8, <1>a, <2>1, KyTypeKept
<1>d. joined' = joined /\ keyed' = keyed
  BY <1>7
<1> QED BY <1>a, <1>b, <1>c, <1>d DEF KyInv

LEMMA KyStarts == KyInit => KyInv
<1> SUFFICES ASSUME KyInit PROVE KyInv
  OBVIOUS
<1>1. /\ dot = DotSamples(10) /\ elements = <<>> /\ cur_buf = <<>> /\ posted = <<>>
      /\ in_digraph = FALSE /\ last_was_space \in BOOLEAN
      /\ keyed = <<>> /\ joined = FALSE /\ chars = MaxChars - MaxChars /\ speeds = 0
  BY DEF KyInit, KyBegin
<1>2. DotSamples(10) \in Nat /\ DotSamples(50) \in Nat /\ DotSamples(50) <= DotSamples(10)
  BY DotsLast
<1>3. BufLen >= 1 /\ MaxChars \in Int
  <2> DEFINE D == DotSamples(50)
  <2>1. D \in Nat
    BY <1>2
  <2>2. BufLen \in 1 .. 3 * D + 1 /\ MaxChars \in Nat
    BY KeyerAssumption
  <2> HIDE DEF D
  <2> QED BY <2>1, <2>2
<1>4. <<>> \in Seq(Bits) /\ <<>> \in Bits /\ Len(<<>>) = 0 /\ <<>> \o <<>> \o <<>> = <<>>
  BY DEF Bits
<1>5. FlattenSeq(<<>>) = <<>>
  BY DEF FlattenSeq
<1>6. KyTypeOK
  <2>1. chars \in Int /\ speeds \in Int
    BY <1>1, <1>3
  <2>2. dot \in Nat /\ DotSamples(50) <= dot
    BY <1>1, <1>2
  <2> QED BY <1>1, <1>4, <2>1, <2>2, Zenon DEF KyTypeOK
<1>7. FlattenSeq(posted) \o cur_buf \o FlattenSeq(elements) = keyed
  BY <1>1, <1>4, <1>5
<1>8. Len(cur_buf) < BufLen /\ \A i \in 1 .. Len(posted) : Len(posted[i]) = BufLen
  <2>1. BufLen \in Int
    <3> DEFINE D == 3 * DotSamples(50) + 1
    <3>1. 1 .. D \subseteq Int
      OBVIOUS
    <3> QED BY <3>1, KeyerAssumption
  <2>2. Len(cur_buf) = 0 /\ Len(posted) = 0 /\ 1 .. 0 = {}
    BY <1>1, <1>4
  <2> QED BY <1>3, <2>1, <2>2
<1>9. EndsOff(keyed, 3 * DotSamples(50))
  BY <1>1, <1>4 DEF EndsOff
<1> QED BY <1>6, <1>7, <1>8, <1>9 DEF KyInv

\* Nothing is keyed.
LEMMA KyNothing ==
  ASSUME KyInv, UNCHANGED <<elements, cur_buf, posted, keyed, joined>>,
         dot' \in Nat, DotSamples(50) <= dot',
         in_digraph' \in BOOLEAN, last_was_space' \in BOOLEAN, chars' \in Int, speeds' \in Int
  PROVE  KyInv'
<1>1. KyTypeOK'
  BY Zenon DEF KyInv, KyTypeOK
<1> QED BY <1>1 DEF KyInv

LEMMA KyOthers ==
  ASSUME KyInv, Underscore \/ Unknown \/ (\E wpm \in Speeds : SetCWSpeed(wpm)) \/ UNCHANGED kyVars
  PROVE  KyInv'
<1>1. /\ dot \in Nat /\ DotSamples(50) <= dot /\ in_digraph \in BOOLEAN
      /\ last_was_space \in BOOLEAN /\ chars \in Int /\ speeds \in Int
  BY Zenon DEF KyInv, KyTypeOK
<1>2. chars + 1 \in Int /\ speeds + 1 \in Int
  BY <1>1
<1>3. CASE Underscore
  BY <1>1, <1>2, <1>3, KyNothing, Zenon DEF Underscore, Counted
<1>4. CASE Unknown
  BY <1>1, <1>2, <1>4, KyNothing, Zenon DEF Unknown, Counted
<1>5. CASE \E wpm \in Speeds : SetCWSpeed(wpm)
  <2>1. PICK wpm \in Speeds : SetCWSpeed(wpm)
    BY <1>5
  <2>2. DotSamples(wpm) \in Nat /\ DotSamples(50) <= DotSamples(wpm)
    <3>1. wpm \in Int
      BY KeyerAssumption
    <3> QED BY <3>1, DotsLast
  <2> QED BY <1>1, <1>2, <2>1, <2>2, KyNothing, Zenon DEF SetCWSpeed
<1>6. CASE UNCHANGED kyVars
  BY <1>1, <1>6, KyNothing, Zenon DEF kyVars
<1> QED BY <1>3, <1>4, <1>5, <1>6

LEMMA KyShows == KyInv => KeyedAsTyped
<1> SUFFICES ASSUME KyInv PROVE KeyedAsTyped
  OBVIOUS
<1> DEFINE D == DotSamples(50)
           P == FlattenSeq(posted)
<1>1. /\ elements \in Seq(Bits) /\ posted \in Seq(Bits) /\ cur_buf \in Bits /\ keyed \in Bits
      /\ Len(cur_buf) < BufLen /\ \A i \in 1 .. Len(posted) : Len(posted[i]) = BufLen
      /\ P \o cur_buf \o FlattenSeq(elements) = keyed
      /\ ~joined => EndsOff(keyed, 3 * D)
  BY DEF KyInv, KyTypeOK
<1>2. ASSUME elements = <<>>, ~joined, NEW i \in DOMAIN cur_buf PROVE cur_buf[i] = FALSE
  <2>1. D \in Nat /\ 3 * D \in Nat /\ BufLen \in 1 .. 3 * D + 1
    <3>1. D \in Nat
      BY DotsLast
    <3>2. BufLen \in 1 .. 3 * D + 1
      BY KeyerAssumption
    <3> HIDE DEF D
    <3> QED BY <3>1, <3>2
  <2> HIDE DEF D
  <2>2. Len(cur_buf) \in Nat /\ DOMAIN cur_buf = 1 .. Len(cur_buf)
    BY <1>1 DEF Bits
  <2>3. Len(cur_buf) <= 3 * D
    BY <1>1, <2>1, <2>2
  <2>4. P \in Bits
    <3>1. posted \in Seq(Seq(BOOLEAN))
      BY <1>1 DEF Bits
    <3>2. P \in Seq(BOOLEAN)
      BY <3>1, FlattenType
    <3> QED BY <3>2 DEF Bits
  <2> HIDE DEF P
  <2>5. P \o cur_buf = keyed
    <3>1. FlattenSeq(elements) = <<>>
      BY <1>2 DEF FlattenSeq
    <3>2. P \o cur_buf \in Bits
      BY <1>1, <2>4, PieceJoins
    <3>3. \A y \in Bits : y \o <<>> = y
      BY DEF Bits
    <3> QED BY <1>1, <3>1, <3>2, <3>3
  <2>6. EndsOff(P \o cur_buf, 3 * D)
    BY <1>1, <1>2, <2>5
  <2> QED BY <1>1, <2>1, <2>2, <2>3, <2>4, <2>6, EndIsOff
<1>3. \A i \in DOMAIN posted : Len(posted[i]) = BufLen
  BY <1>1
<1> QED BY <1>1, <1>2, <1>3 DEF KeyedAsTyped

\* At every step: the buffers, the one being filled and the elements that wait
\* are the keying of the text, in order, and a text that does not end in a
\* digraph ends in more silence than a buffer holds back
\* (CWGenerator::sendChar, CWGenerator::appendToOut).
THEOREM KeyerInvariant == KySpec => []KyInv
<1>1. KyInv /\ [KyNext]_kyVars => KyInv'
  <2> SUFFICES ASSUME KyInv, [KyNext]_kyVars PROVE KyInv'
    OBVIOUS
  <2>1. CASE AppendToOut
    BY <2>1, KyAppend
  <2>2. CASE Blank
    BY <2>2, KyBlank
  <2>3. CASE \E c \in DOMAIN Letters : Letter(c)
    BY <2>3, KyLetter
  <2>4. CASE Underscore \/ Unknown \/ (\E wpm \in Speeds : SetCWSpeed(wpm)) \/ UNCHANGED kyVars
    BY <2>4, KyOthers
  <2> QED BY <2>1, <2>2, <2>3, <2>4 DEF KyNext
<1> QED BY <1>1, KyStarts, PTL DEF KySpec

\* What is posted is what was typed, in whole buffers, and what stays behind in an
\* unfinished buffer is silence (CWGenerator::sendChar, CWGenerator::appendToOut).
THEOREM TextIsKeyed == KySpec => []KeyedAsTyped
  BY KeyerInvariant, KyShows, PTL
=============================================================================
