-------------------------- MODULE MultiMBoxProofs --------------------------
(***************************************************************************)
(* MultiMBox is memory safe for every number of subscribers, producers and *)
(* messages, although reader_count is read and decremented with no lock.   *)
(*                                                                         *)
(* The argument: reader_count[m], and any copy of it a reader has loaded,  *)
(* is never below the number of subscribers that still have a claim on m.  *)
(* A lost decrement only leaves the count too high.  So the reader that    *)
(* sees 1 is the last owner, and nobody else ever sees 1 for this posting. *)
(***************************************************************************)
EXTENDS MultiMBox, FiniteSetTheorems, TLAPS

\* No two producers have the same message in hand.
OneProducerEach ==
  \A p, q \in Producers : pmsg[p] = pmsg[q] /\ pmsg[p] # NoMsg => p = q

\* A subscriber has one claim at most: queued once, in hand, or still to come.
OneClaimEach ==
  /\ \A s \in Subs : \A i, j \in 1 .. Len(posted_list[s]) :
       posted_list[s][i] = posted_list[s][j] => i = j
  /\ \A s \in Subs, m \in Msgs :
       /\ ~(Queued(s, m) /\ Held(s, m))
       /\ ~(Queued(s, m) /\ Coming(s, m))
       /\ ~(Held(s, m) /\ Coming(s, m))

\* No count, in the message or loaded by a reader, is below the owners left.
CountCovers ==
  /\ \A m \in Msgs : Cardinality(Owners(m)) <= reader_count[m]
  /\ \A s \in Subs : rpc[s] = "store" => Cardinality(Owners(rmsg[s])) <= rtmp[s]

\* The reader that is about to give storage back is its only owner.
LastReader ==
  \A s \in Subs : rpc[s] = "recycle" =>
    reader_count[rmsg[s]] = 1 /\ Owners(rmsg[s]) = {s}

IInv == TypeOK /\ SafeRecycle /\ OneProducerEach /\ OneClaimEach /\ CountCovers /\ LastReader

-----------------------------------------------------------------------------
LEMMA AppendFacts ==
  ASSUME NEW S, NEW q \in Seq(S), NEW e \in S
  PROVE  /\ Append(q, e) \in Seq(S)
         /\ Len(Append(q, e)) = Len(q) + 1
         /\ Append(q, e)[Len(q) + 1] = e
         /\ \A i \in 1 .. Len(q) : Append(q, e)[i] = q[i]
  OBVIOUS

LEMMA TailFacts ==
  ASSUME NEW S, NEW q \in Seq(S), q # <<>>
  PROVE  /\ Tail(q) \in Seq(S)
         /\ Len(q) >= 1 /\ Len(q) \in Nat
         /\ Len(Tail(q)) = Len(q) - 1
         /\ Head(q) = q[1] /\ Head(q) \in S
         /\ \A i \in 1 .. Len(Tail(q)) : Tail(q)[i] = q[i + 1]
  OBVIOUS

LEMMA SubsFinite == IsFiniteSet(Subs) /\ Cardinality(Subs) = NumSubs
  <1>1. 0 \in Int /\ NumSubs - 1 \in Int
    BY MBoxAssumption
  <1>2. QED
    BY <1>1, FS_Interval, MBoxAssumption DEF Subs

\* Owners(m) is a finite set of subscribers, so its size can be compared.
LEMMA OwnersFinite ==
  ASSUME NEW m
  PROVE  /\ IsFiniteSet(Owners(m))
         /\ Cardinality(Owners(m)) \in Nat
         /\ Cardinality(Owners(m)) <= NumSubs
  <1>1. Owners(m) \subseteq Subs
    BY DEF Owners
  <1>2. QED
    BY <1>1, SubsFinite, FS_Subset, FS_CardinalityType

LEMMA OwnerCounted ==
  ASSUME NEW m, NEW s \in Subs, Claims(s, m)
  PROVE  /\ Cardinality(Owners(m)) >= 1
         /\ Cardinality(Owners(m)) = 1 => Owners(m) = {s}
         /\ Cardinality(Owners(m) \ {s}) = Cardinality(Owners(m)) - 1
  <1>1. s \in Owners(m)
    BY DEF Owners
  <1>2. Cardinality(Owners(m) \ {s}) = Cardinality(Owners(m)) - 1
    BY <1>1, OwnersFinite, FS_RemoveElement
  <1>3. IsFiniteSet(Owners(m) \ {s}) /\ Cardinality(Owners(m) \ {s}) \in Nat
    BY OwnersFinite, FS_Subset, FS_CardinalityType, Owners(m) \ {s} \subseteq Owners(m)
  <1>4. Cardinality(Owners(m)) >= 1
    BY <1>2, <1>3, OwnersFinite
  <1>5. ASSUME Cardinality(Owners(m)) = 1 PROVE Owners(m) = {s}
    <2>1. Cardinality(Owners(m) \ {s}) = 0
      BY <1>2, <1>5
    <2>2. Owners(m) \ {s} = {}
      BY <2>1, <1>3, FS_EmptySet
    <2>3. QED
      BY <2>2, <1>1
  <1>6. QED
    BY <1>2, <1>4, <1>5

-----------------------------------------------------------------------------
LEMMA InitIInv == Init => IInv
  <1> SUFFICES ASSUME Init PROVE IInv
    OBVIOUS
  <1> USE MBoxAssumption DEF Init
  <1>1. TypeOK
    BY DEF TypeOK, Subs, PhasesP, PhasesR
  <1>2. \A m \in Msgs, s \in Subs : ~Claims(s, m)
    BY DEF Claims, Queued, Held, Coming
  <1>3. SafeRecycle
    BY <1>2 DEF SafeRecycle, Filling, Posting
  <1>4. OneProducerEach /\ LastReader
    BY DEF OneProducerEach, LastReader
  <1>5. OneClaimEach
    BY DEF OneClaimEach, Queued, Held, Coming
  <1>6. CountCovers
    <2>1. \A m \in Msgs : Owners(m) = {}
      BY <1>2 DEF Owners
    <2>2. Cardinality({}) = 0
      BY FS_EmptySet
    <2>3. ASSUME NEW m \in Msgs PROVE Cardinality(Owners(m)) <= reader_count[m]
      <3>1. Cardinality(Owners(m)) = 0 /\ reader_count[m] = 0
        BY <2>1, <2>2
      <3>2. QED
        BY <3>1
    <2>4. \A s \in Subs : rpc[s] # "store"
      OBVIOUS
    <2>5. QED
      BY <2>3, <2>4 DEF CountCovers
  <1>7. QED
    BY <1>1, <1>3, <1>4, <1>5, <1>6 DEF IInv

-----------------------------------------------------------------------------
(* How each step changes the claims.                                       *)

\* Claims depend on the queues, the readers' hands and the posts under way.
LEMMA ClaimsKept ==
  ASSUME UNCHANGED <<posted_list, rpc, rmsg>>,
         \A s \in Subs, m \in Msgs : Coming(s, m)' <=> Coming(s, m)
  PROVE  \A m \in Msgs : /\ Owners(m)' = Owners(m)
                         /\ \A s \in Subs : Claims(s, m)' <=> Claims(s, m)
  BY DEF Owners, Claims, Queued, Held

\* Filling a message, by alloc() or new, posts nothing.
LEMMA FillKeepsClaims ==
  ASSUME TypeOK, NEW p \in Producers, NEW m \in Msgs, ppc[p] = "idle",
         Fill(p, m), UNCHANGED rvars
  PROVE  /\ \A n \in Msgs : Owners(n)' = Owners(n)
         /\ \A s \in Subs, n \in Msgs : Claims(s, n)' <=> Claims(s, n)
         /\ \A s \in Subs, n \in Msgs : Coming(s, n)' <=> Coming(s, n)
         /\ \A n \in Msgs : Posting(n)' <=> Posting(n)
         /\ \A n \in Msgs : Filling(n)' <=> Filling(n) \/ n = m
  <1>1. \A s \in Subs, n \in Msgs : Coming(s, n)' <=> Coming(s, n)
    BY DEF Fill, Coming, TypeOK
  <1>2. \A n \in Msgs : Posting(n)' <=> Posting(n)
    BY DEF Fill, Posting, TypeOK
  <1>3. \A n \in Msgs : Filling(n)' <=> Filling(n) \/ n = m
    BY DEF Fill, Filling, TypeOK
  <1>4. UNCHANGED <<posted_list, rpc, rmsg>>
    BY DEF Fill, rvars
  <1>5. QED
    BY <1>1, <1>2, <1>3, <1>4, ClaimsKept

\* Shared by the two ways to get storage.
LEMMA FillPreserves ==
  ASSUME IInv, NEW p \in Producers, NEW m \in Msgs, ppc[p] = "idle",
         Fill(p, m), UNCHANGED rvars,
         Reclaimed(m), TypeOK', ~Reclaimed(m)',
         \A n \in Msgs : Reclaimed(n)' => Reclaimed(n),
         \A i, j \in 1 .. Len(free_list') : free_list'[i] = free_list'[j] => i = j,
         \A i \in 1 .. Len(free_list') : free_list'[i] \notin heap'
  PROVE  IInv'
  <1> USE DEF IInv
  <1> USE FillKeepsClaims
  <1>1. \A n \in Msgs : /\ Posting(n)' <=> Posting(n)
                        /\ Filling(n)' <=> Filling(n) \/ n = m
                        /\ Owners(n)' = Owners(n)
                        /\ \A s \in Subs : Claims(s, n)' <=> Claims(s, n)
    OBVIOUS
  <1>2. UNCHANGED <<posted_list, reader_count, rpc, rmsg, rtmp>>
    BY DEF Fill, rvars
  <1>3. SafeRecycle'
    <2>1. ASSUME NEW n \in Msgs, (Reclaimed(n) \/ Filling(n))'
          PROVE  (~Posting(n) /\ \A s \in Subs : ~Claims(s, n))'
      BY <2>1, <1>1 DEF SafeRecycle
    <2>2. ASSUME NEW n \in Msgs, Filling(n)' PROVE ~Reclaimed(n)'
      BY <2>2, <1>1 DEF SafeRecycle
    <2>3. QED
      BY <2>1, <2>2 DEF SafeRecycle
  <1>4. OneProducerEach'
    <2>1. ~Filling(m) /\ ~Posting(m)
      BY DEF SafeRecycle
    <2>2. \A q \in Producers : pmsg[q] # m
      BY <2>1, MBoxAssumption DEF Filling, Posting, TypeOK, PhasesP
    <2>3. QED
      BY <2>2 DEF OneProducerEach, Fill, TypeOK
  <1>5. OneClaimEach'
    BY <1>2 DEF OneClaimEach, Queued, Held
  <1>6. CountCovers'
    BY <1>1, <1>2 DEF CountCovers, TypeOK
  <1>7. LastReader'
    BY <1>1, <1>2 DEF LastReader, TypeOK
  <1>8. QED
    BY <1>3, <1>4, <1>5, <1>6, <1>7

LEMMA AllocPooledPreserves ==
  ASSUME IInv, NEW p \in Producers, AllocPooled(p)
  PROVE  IInv'
  <1> USE DEF IInv
  <1>0. free_list \in Seq(Msgs) /\ free_list # <<>>
    BY DEF AllocPooled, TypeOK
  <1>a. PICK m \in Msgs : m = Head(free_list)
    BY <1>0, TailFacts
  <1>1. m = free_list[1] /\ Len(free_list) \in Nat /\ Len(free_list) >= 1
    BY <1>0, <1>a, TailFacts
  <1>2. /\ free_list' \in Seq(Msgs) /\ Len(free_list') = Len(free_list) - 1
        /\ \A i \in 1 .. Len(free_list') : free_list'[i] = free_list[i + 1]
    BY <1>0, TailFacts DEF AllocPooled
  <1>3. TypeOK'
    BY <1>a, <1>1, <1>2, MBoxAssumption DEF AllocPooled, Fill, rvars, TypeOK, PhasesP
  <1>4. Reclaimed(m)
    BY <1>1 DEF Reclaimed, Pooled
  <1>5. \A n \in Msgs : Reclaimed(n)' => Reclaimed(n)
    BY <1>1, <1>2 DEF Reclaimed, Pooled, AllocPooled
  <1>6. \A i, j \in 1 .. Len(free_list') : free_list'[i] = free_list'[j] => i = j
    BY <1>1, <1>2 DEF SafeRecycle
  <1>7. \A i \in 1 .. Len(free_list') : free_list'[i] \notin heap'
    BY <1>1, <1>2 DEF SafeRecycle, AllocPooled
  <1>8. ~Reclaimed(m)'
    <2>1. m \notin heap'
      BY <1>1 DEF SafeRecycle, AllocPooled
    <2>2. ASSUME NEW i \in 1 .. Len(free_list') PROVE free_list'[i] # m
      <3>1. i + 1 \in 1 .. Len(free_list) /\ 1 \in 1 .. Len(free_list) /\ i + 1 # 1
        BY <1>1, <1>2
      <3>2. QED
        BY <3>1, <1>1, <1>2 DEF SafeRecycle
    <2>3. ~Pooled(m)'
      BY <2>2 DEF Pooled
    <2>4. QED
      BY <2>1, <2>3 DEF Reclaimed
  <1>9. ppc[p] = "idle" /\ Fill(p, m) /\ UNCHANGED rvars
    BY <1>a DEF AllocPooled, Fill
  <1>10. QED
    BY <1>1, <1>3, <1>4, <1>5, <1>6, <1>7, <1>8, <1>9, FillPreserves

LEMMA AllocNewPreserves ==
  ASSUME IInv, NEW p \in Producers, NEW m \in Msgs, AllocNew(p, m)
  PROVE  IInv'
  <1> USE DEF IInv
  <1>3. TypeOK'
    BY MBoxAssumption DEF AllocNew, Fill, rvars, TypeOK, PhasesP
  <1>4. Reclaimed(m)
    BY DEF Reclaimed, AllocNew
  <1>5. \A n \in Msgs : Reclaimed(n)' => Reclaimed(n)
    BY DEF Reclaimed, Pooled, AllocNew
  <1>6. \A i, j \in 1 .. Len(free_list') : free_list'[i] = free_list'[j] => i = j
    BY DEF SafeRecycle, AllocNew
  <1>7. \A i \in 1 .. Len(free_list') : free_list'[i] \notin heap'
    BY DEF SafeRecycle, AllocNew
  <1>8. ~Reclaimed(m)'
    BY DEF SafeRecycle, AllocNew, Reclaimed, Pooled
  <1>9. ppc[p] = "idle" /\ Fill(p, m) /\ UNCHANGED rvars
    BY DEF AllocNew, Fill
  <1>10. QED
    BY <1>3, <1>4, <1>5, <1>6, <1>7, <1>8, <1>9, FillPreserves

LEMMA BeginPutMoves ==
  ASSUME IInv, NEW p \in Producers, BeginPut(p), NEW m \in Msgs, m = pmsg[p]
  PROVE  /\ \A s \in Subs : ~Claims(s, m)
         /\ \A s \in Subs, n \in Msgs : Coming(s, n)' <=> Coming(s, n) \/ n = m
         /\ UNCHANGED <<posted_list, rpc, rmsg>>
  <1> USE DEF IInv
  <1>0. m # NoMsg /\ Filling(m)
    BY MBoxAssumption DEF BeginPut, TypeOK, Filling
  <1>1. UNCHANGED <<posted_list, free_list, heap, pmsg, rpc, rmsg, rtmp>>
    BY DEF BeginPut, rvars
  <1>7. ~Reclaimed(m) /\ \A s \in Subs : ~Claims(s, m)
    BY <1>0 DEF SafeRecycle
  <1>8. \A s \in Subs, n \in Msgs : Coming(s, n)' <=> Coming(s, n) \/ n = m
    <2>1. ASSUME NEW s \in Subs PROVE Coming(s, m)'
      <3>1. 0 <= s
        BY DEF Subs
      <3>2. QED
        BY <1>0, <1>1, <3>1 DEF BeginPut, Coming, TypeOK
    <2>2. ASSUME NEW s \in Subs, NEW n \in Msgs, n # m PROVE Coming(s, n)' <=> Coming(s, n)
      BY <1>0, <1>1, <2>2 DEF BeginPut, Coming, TypeOK
    <2>3. ASSUME NEW s \in Subs, NEW n \in Msgs PROVE Coming(s, n)' <=> Coming(s, n) \/ n = m
      <3>1. CASE n = m
        BY <3>1, <2>1
      <3>2. CASE n # m
        BY <3>2, <2>2
      <3>3. QED
        BY <3>1, <3>2
    <2>4. QED
      BY <2>3
  <1>9. QED
    BY <1>1, <1>7, <1>8

LEMMA BeginPutPreserves ==
  ASSUME IInv, NEW p \in Producers, BeginPut(p)
  PROVE  IInv'
  <1> USE DEF IInv
  <1>a. PICK m \in Msgs : m = pmsg[p]
    BY DEF BeginPut, TypeOK
  <1>0. m = pmsg[p] /\ m # NoMsg /\ Filling(m)
    BY <1>a, MBoxAssumption DEF BeginPut, TypeOK, Filling
  <1>1. UNCHANGED <<posted_list, free_list, heap, pmsg, rpc, rmsg, rtmp>>
    BY DEF BeginPut, rvars
  <1>2. reader_count' = [reader_count EXCEPT ![m] = NumSubs]
    BY <1>0 DEF BeginPut
  <1>3. TypeOK'
    <2>1. 0 \in Subs
      BY MBoxAssumption DEF Subs
    <2>2. ppc' \in [Producers -> PhasesP] /\ pnext' \in [Producers -> Subs]
      BY <2>1 DEF BeginPut, TypeOK, PhasesP
    <2>3. reader_count' \in [Msgs -> 0 .. NumSubs]
      <3>1. NumSubs \in 0 .. NumSubs
        BY MBoxAssumption
      <3>2. QED
        BY <1>2, <3>1 DEF TypeOK
    <2>4. \A q \in Producers : ppc'[q] = "idle" <=> pmsg[q] = NoMsg
      BY <1>0 DEF BeginPut, TypeOK
    <2>5. QED
      BY <1>1, <2>2, <2>3, <2>4 DEF TypeOK
  <1>4. \A q \in Producers : pmsg[q] = m => q = p
    BY <1>0 DEF OneProducerEach
  <1>5. \A n \in Msgs : /\ n # m => (Filling(n)' <=> Filling(n)) /\ (Posting(n)' <=> Posting(n))
                        /\ Reclaimed(n)' <=> Reclaimed(n)
    BY <1>0, <1>1 DEF BeginPut, Filling, Posting, Reclaimed, Pooled, TypeOK
  <1>6. ~Filling(m)'
    BY <1>0, <1>1, <1>4 DEF BeginPut, Filling, TypeOK
  <1>7. ~Reclaimed(m) /\ \A s \in Subs : ~Claims(s, m)
    BY <1>0 DEF SafeRecycle
  <1>8. \A s \in Subs, n \in Msgs : Coming(s, n)' <=> Coming(s, n) \/ n = m
    BY <1>0, BeginPutMoves
  <1>9. \A s \in Subs, n \in Msgs : n # m => (Claims(s, n)' <=> Claims(s, n))
    BY <1>1, <1>8 DEF Claims, Queued, Held
  <1>10. \A n \in Msgs : n # m => Owners(n)' = Owners(n)
    BY <1>9 DEF Owners
  <1>11. SafeRecycle'
    <2>1. ASSUME NEW n \in Msgs, (Reclaimed(n) \/ Filling(n))'
          PROVE  (~Posting(n) /\ \A s \in Subs : ~Claims(s, n))' /\ (Filling(n) => ~Reclaimed(n))'
      <3>1. n # m
        BY <2>1, <1>5, <1>6, <1>7
      <3>2. Reclaimed(n) \/ Filling(n)
        BY <2>1, <3>1, <1>5
      <3>3. ~Posting(n) /\ (\A s \in Subs : ~Claims(s, n)) /\ (Filling(n) => ~Reclaimed(n))
        BY <3>2 DEF SafeRecycle
      <3>4. QED
        BY <3>1, <3>3, <1>5, <1>9
    <2>2. QED
      BY <2>1, <1>1 DEF SafeRecycle
  <1>12. OneProducerEach'
    BY <1>1 DEF OneProducerEach
  <1>13. OneClaimEach'
    BY <1>1, <1>7, <1>8 DEF OneClaimEach, Claims, Queued, Held
  <1>14. \A s \in Subs : rmsg[s] # m \/ rpc[s] = "idle"
    BY <1>7 DEF Claims, Held
  <1>15. CountCovers'
    <2>1. \A n \in Msgs : Cardinality(Owners(n))' <= reader_count'[n]
      <3>1. Cardinality(Owners(m)') <= NumSubs
        BY OwnersFinite, SubsFinite, FS_Subset, Owners(m)' \subseteq Subs DEF Owners
      <3>2. reader_count'[m] = NumSubs
        BY <1>0, <1>2 DEF TypeOK
      <3>3. ASSUME NEW n \in Msgs, n # m PROVE Cardinality(Owners(n)') <= reader_count'[n]
        BY <3>3, <1>2, <1>10 DEF CountCovers, TypeOK
      <3>4. QED
        BY <3>1, <3>2, <3>3
    <2>2. ASSUME NEW s \in Subs, rpc'[s] = "store"
          PROVE  Cardinality(Owners(rmsg[s]))' <= rtmp'[s]
      BY <2>2, <1>1, <1>10, <1>14 DEF CountCovers, TypeOK
    <2>3. QED
      BY <2>1, <2>2, <1>1 DEF CountCovers
  <1>16. LastReader'
    BY <1>1, <1>2, <1>10, <1>14 DEF LastReader, TypeOK
  <1>17. QED
    BY <1>3, <1>11, <1>12, <1>13, <1>15, <1>16

\* Shared by the steps that move a claim from one form to another.
LEMMA SameOwnersPreserve ==
  ASSUME IInv, TypeOK', OneProducerEach', OneClaimEach',
         UNCHANGED <<free_list, heap, reader_count>>,
         \A n \in Msgs : /\ Owners(n)' = Owners(n)
                         /\ \A t \in Subs : Claims(t, n)' <=> Claims(t, n)
                         /\ Posting(n)' => Posting(n)
                         /\ Filling(n)' <=> Filling(n),
         \A t \in Subs : rpc'[t] \in {"store", "recycle"} =>
            rpc'[t] = rpc[t] /\ rmsg'[t] = rmsg[t] /\ rtmp'[t] = rtmp[t]
  PROVE  IInv'
  <1> USE DEF IInv
  <1>1. \A n \in Msgs : Reclaimed(n)' <=> Reclaimed(n)
    BY DEF Reclaimed, Pooled
  <1>2. SafeRecycle'
    BY <1>1 DEF SafeRecycle
  <1>3. \A t \in Subs : rpc'[t] \in {"store", "recycle"} => rmsg'[t] \in Msgs
    BY DEF TypeOK
  <1>4. CountCovers'
    <2>1. ASSUME NEW t \in Subs, rpc'[t] = "store"
          PROVE  Cardinality(Owners(rmsg[t]))' <= rtmp'[t]
      <3>1. PICK n \in Msgs : n = rmsg'[t]
        BY <2>1, <1>3
      <3>2. n = rmsg[t] /\ rpc[t] = "store" /\ rtmp'[t] = rtmp[t]
        BY <2>1, <3>1
      <3>3. Cardinality(Owners(n)) <= rtmp[t]
        BY <3>2 DEF CountCovers
      <3>4. QED
        BY <3>1, <3>2, <3>3
    <2>2. \A n \in Msgs : (Cardinality(Owners(n)) <= reader_count[n])'
      BY DEF CountCovers
    <2>3. QED
      BY <2>1, <2>2 DEF CountCovers
  <1>5. LastReader'
    <2>1. ASSUME NEW t \in Subs, rpc'[t] = "recycle"
          PROVE  (reader_count[rmsg[t]] = 1 /\ Owners(rmsg[t]) = {t})'
      <3>1. PICK n \in Msgs : n = rmsg'[t]
        BY <2>1, <1>3
      <3>2. n = rmsg[t] /\ rpc[t] = "recycle"
        BY <2>1, <3>1
      <3>3. reader_count[n] = 1 /\ Owners(n) = {t}
        BY <3>2 DEF LastReader
      <3>4. QED
        BY <3>1, <3>3
    <2>2. QED
      BY <2>1 DEF LastReader
  <1>6. QED
    BY <1>2, <1>4, <1>5

LEMMA PostNextMoves ==
  ASSUME IInv, NEW p \in Producers, PostNext(p),
         NEW m \in Msgs, NEW k \in Subs, m = pmsg[p], k = pnext[p]
  PROVE  /\ posted_list'[k] \in Seq(Msgs)
         /\ Len(posted_list[k]) \in Nat
         /\ Len(posted_list'[k]) = Len(posted_list[k]) + 1
         /\ posted_list'[k][Len(posted_list[k]) + 1] = m
         /\ \A i \in 1 .. Len(posted_list[k]) : posted_list'[k][i] = posted_list[k][i]
         /\ \A t \in Subs : t # k => posted_list'[t] = posted_list[t]
         /\ \A t \in Subs, n \in Msgs : Queued(t, n)' <=> Queued(t, n) \/ (t = k /\ n = m)
         /\ \A t \in Subs, n \in Msgs : Coming(t, n)' <=> Coming(t, n) /\ ~(t = k /\ n = m)
         /\ Coming(k, m) /\ ~Queued(k, m)
         /\ \A n \in Msgs : Owners(n)' = Owners(n)
         /\ \A t \in Subs, n \in Msgs : Claims(t, n)' <=> Claims(t, n)
  <1> USE DEF IInv
  <1>1. m = pmsg[p] /\ k = pnext[p]
    OBVIOUS
  <1>2. m # NoMsg /\ k \in Nat /\ k <= NumSubs - 1
    BY MBoxAssumption DEF Subs
  <1>3. \A q \in Producers : pmsg[q] = m => q = p
    BY <1>1, <1>2 DEF OneProducerEach
  <1>4. UNCHANGED <<free_list, heap, reader_count, rpc, rmsg, rtmp>>
    BY DEF PostNext, rvars
  <1>5. /\ posted_list'[k] \in Seq(Msgs)
        /\ Len(posted_list[k]) \in Nat
        /\ Len(posted_list'[k]) = Len(posted_list[k]) + 1
        /\ posted_list'[k][Len(posted_list[k]) + 1] = m
        /\ \A i \in 1 .. Len(posted_list[k]) : posted_list'[k][i] = posted_list[k][i]
    <2>1. posted_list[k] \in Seq(Msgs) /\ posted_list'[k] = Append(posted_list[k], m)
      BY <1>1 DEF PostNext, TypeOK
    <2>2. QED
      BY <2>1, AppendFacts
  <1>6. \A t \in Subs : t # k => posted_list'[t] = posted_list[t]
    BY <1>1 DEF PostNext, TypeOK
  <1>8. Coming(k, m)
    BY <1>1, <1>2 DEF PostNext, Coming
  <1>9. ~Queued(k, m) /\ ~Held(k, m)
    BY <1>8 DEF OneClaimEach
  <1>10. \A t \in Subs, n \in Msgs : Queued(t, n)' <=> Queued(t, n) \/ (t = k /\ n = m)
    <2>1. ASSUME NEW t \in Subs, NEW n \in Msgs, t # k
          PROVE  Queued(t, n)' <=> Queued(t, n)
      BY <1>6, <2>1 DEF Queued
    <2>2. ASSUME NEW n \in Msgs
          PROVE  Queued(k, n)' <=> Queued(k, n) \/ n = m
      BY <1>5, SMTT(30) DEF Queued
    <2>3. QED
      BY <2>1, <2>2
  <1>11. \A t \in Subs, n \in Msgs : Held(t, n)' <=> Held(t, n)
    BY <1>4 DEF Held
  <1>12. \A t \in Subs, n \in Msgs : Coming(t, n)' <=> Coming(t, n) /\ ~(t = k /\ n = m)
    <2>1. ASSUME NEW t \in Subs, NEW n \in Msgs, n # m PROVE Coming(t, n)' <=> Coming(t, n)
      BY <2>1, <1>1, MBoxAssumption DEF PostNext, Coming, TypeOK
    <2>2. ASSUME NEW t \in Subs PROVE Coming(t, m)' <=> Coming(t, m) /\ t # k
      <3>0. t \in Nat /\ t <= NumSubs - 1
        BY MBoxAssumption DEF Subs
      <3>1. Coming(t, m) <=> k <= t
        BY <1>1, <1>3 DEF PostNext, Coming
      <3>2. CASE pnext[p] + 1 = NumSubs
        <4>1. ~Coming(t, m)'
          BY <3>2, <1>2, <1>3 DEF PostNext, Coming, TypeOK
        <4>2. t = k \/ ~(k <= t)
          BY <3>0, <3>2, <1>1, <1>2, MBoxAssumption
        <4>3. QED
          BY <3>1, <4>1, <4>2
      <3>3. CASE pnext[p] + 1 # NumSubs
        <4>1. Coming(t, m)' <=> k + 1 <= t
          BY <3>3, <1>1, <1>3 DEF PostNext, Coming, TypeOK
        <4>2. QED
          BY <3>0, <3>1, <4>1, <1>2
      <3>4. QED
        BY <3>2, <3>3
    <2>3. ASSUME NEW t \in Subs, NEW n \in Msgs
          PROVE  Coming(t, n)' <=> Coming(t, n) /\ ~(t = k /\ n = m)
      <3>1. CASE n = m
        BY <3>1, <2>2
      <3>2. CASE n # m
        BY <3>2, <2>1
      <3>3. QED
        BY <3>1, <3>2
    <2>4. QED
      BY <2>3
  <1>13. \A t \in Subs, n \in Msgs : Claims(t, n)' <=> Claims(t, n)
    BY <1>8, <1>10, <1>11, <1>12 DEF Claims
  <1>14. \A n \in Msgs : Owners(n)' = Owners(n)
    BY <1>13 DEF Owners
  <1>15. QED
    BY <1>5, <1>6, <1>8, <1>9, <1>10, <1>12, <1>13, <1>14

LEMMA PostNextPreserves ==
  ASSUME IInv, NEW p \in Producers, PostNext(p)
  PROVE  IInv'
  <1> USE DEF IInv
  <1>1. PICK m \in Msgs, k \in Subs : m = pmsg[p] /\ k = pnext[p]
    BY DEF PostNext, TypeOK
  <1>2. m # NoMsg /\ k \in Nat /\ k <= NumSubs - 1
    BY MBoxAssumption DEF Subs
  <1>3. \A q \in Producers : pmsg[q] = m => q = p
    BY <1>1, <1>2 DEF OneProducerEach
  <1>4. UNCHANGED <<free_list, heap, reader_count, rpc, rmsg, rtmp>>
    BY DEF PostNext, rvars
  <1>5. /\ posted_list'[k] \in Seq(Msgs)
        /\ Len(posted_list[k]) \in Nat
        /\ Len(posted_list'[k]) = Len(posted_list[k]) + 1
        /\ posted_list'[k][Len(posted_list[k]) + 1] = m
        /\ \A i \in 1 .. Len(posted_list[k]) : posted_list'[k][i] = posted_list[k][i]
    BY <1>1, PostNextMoves
  <1>6. \A t \in Subs : t # k => posted_list'[t] = posted_list[t]
    BY <1>1, PostNextMoves
  <1>7. TypeOK'
    <2>1. posted_list' \in [Subs -> Seq(Msgs)]
      BY <1>5, <1>6 DEF PostNext, TypeOK
    <2>2. CASE pnext[p] + 1 = NumSubs
      <3>1. 0 \in Subs
        BY MBoxAssumption DEF Subs
      <3>2. /\ ppc' = [ppc EXCEPT ![p] = "idle"]
            /\ pmsg' = [pmsg EXCEPT ![p] = NoMsg]
            /\ pnext' = [pnext EXCEPT ![p] = 0]
        BY <2>2 DEF PostNext
      <3>3. QED
        BY <2>1, <3>1, <3>2, <1>4 DEF TypeOK, PhasesP
    <2>3. CASE pnext[p] + 1 # NumSubs
      <3>1. k + 1 \in Subs
        BY <1>1, <1>2, <2>3, MBoxAssumption DEF Subs
      <3>2. ppc' = ppc /\ pmsg' = pmsg /\ pnext' = [pnext EXCEPT ![p] = k + 1]
        BY <1>1, <2>3 DEF PostNext
      <3>3. QED
        BY <2>1, <3>1, <3>2, <1>4 DEF TypeOK
    <2>4. QED
      BY <2>2, <2>3
  <1>8. Coming(k, m)
    BY <1>1, <1>2 DEF PostNext, Coming
  <1>9. ~Queued(k, m) /\ ~Held(k, m)
    BY <1>8 DEF OneClaimEach
  <1>10. \A t \in Subs, n \in Msgs : Queued(t, n)' <=> Queued(t, n) \/ (t = k /\ n = m)
    BY <1>1, PostNextMoves
  <1>11. \A t \in Subs, n \in Msgs : Held(t, n)' <=> Held(t, n)
    BY <1>4 DEF Held
  <1>12. \A t \in Subs, n \in Msgs : Coming(t, n)' <=> Coming(t, n) /\ ~(t = k /\ n = m)
    BY <1>1, PostNextMoves
  <1>13. \A t \in Subs, n \in Msgs : Claims(t, n)' <=> Claims(t, n)
    BY <1>1, PostNextMoves
  <1>14. \A n \in Msgs : Owners(n)' = Owners(n)
    BY <1>1, PostNextMoves
  <1>15. \A n \in Msgs : (Posting(n)' => Posting(n)) /\ (Filling(n)' <=> Filling(n))
    BY MBoxAssumption DEF PostNext, Posting, Filling, TypeOK, PhasesP
  <1>16. OneProducerEach'
    BY DEF OneProducerEach, PostNext, TypeOK
  <1>17. OneClaimEach'
    <2>1. ASSUME NEW t \in Subs, NEW i \in 1 .. Len(posted_list'[t]), NEW j \in 1 .. Len(posted_list'[t]),
                 posted_list'[t][i] = posted_list'[t][j]
          PROVE  i = j
      <3>1. CASE t # k
        BY <2>1, <3>1, <1>6 DEF OneClaimEach
      <3>2. CASE t = k
        <4>1. \A h \in 1 .. Len(posted_list[k]) : posted_list[k][h] # m
          BY <1>9 DEF Queued
        <4>2. QED
          BY <2>1, <3>2, <4>1, <1>5, SMTT(30) DEF OneClaimEach
      <3>3. QED
        BY <3>1, <3>2
    <2>2. \A t \in Subs, n \in Msgs :
            (~(Queued(t, n) /\ Held(t, n)) /\ ~(Queued(t, n) /\ Coming(t, n)) /\ ~(Held(t, n) /\ Coming(t, n)))'
      BY <1>9, <1>10, <1>11, <1>12 DEF OneClaimEach
    <2>3. QED
      BY <2>1, <2>2 DEF OneClaimEach
  <1>18. QED
    BY <1>4, <1>7, <1>13, <1>14, <1>15, <1>16, <1>17, SameOwnersPreserve

LEMMA GetMoves ==
  ASSUME IInv, NEW s \in Subs, Get(s), NEW m \in Msgs, m = Head(posted_list[s])
  PROVE  /\ m = posted_list[s][1]
         /\ Len(posted_list[s]) \in Nat /\ Len(posted_list[s]) >= 1
         /\ posted_list'[s] \in Seq(Msgs)
         /\ Len(posted_list'[s]) = Len(posted_list[s]) - 1
         /\ \A i \in 1 .. Len(posted_list'[s]) : posted_list'[s][i] = posted_list[s][i + 1]
         /\ \A t \in Subs : t # s => /\ posted_list'[t] = posted_list[t]
                                    /\ rmsg'[t] = rmsg[t] /\ rpc'[t] = rpc[t]
         /\ Queued(s, m)
         /\ \A t \in Subs, n \in Msgs : Queued(t, n)' <=> Queued(t, n) /\ ~(t = s /\ n = m)
         /\ \A t \in Subs, n \in Msgs : Coming(t, n)' <=> Coming(t, n)
         /\ \A t \in Subs, n \in Msgs : Claims(t, n)' <=> Claims(t, n)
         /\ \A n \in Msgs : Owners(n)' = Owners(n)
  <1> USE DEF IInv
  <1>0. posted_list[s] \in Seq(Msgs) /\ posted_list[s] # <<>>
    BY DEF Get, TypeOK
  <1>1. m = Head(posted_list[s])
    OBVIOUS
  <1>2. /\ m = posted_list[s][1]
        /\ Len(posted_list[s]) \in Nat /\ Len(posted_list[s]) >= 1
        /\ posted_list'[s] \in Seq(Msgs)
        /\ Len(posted_list'[s]) = Len(posted_list[s]) - 1
        /\ \A i \in 1 .. Len(posted_list'[s]) : posted_list'[s][i] = posted_list[s][i + 1]
    <2>1. posted_list'[s] = Tail(posted_list[s])
      BY DEF Get, TypeOK
    <2>2. QED
      BY <2>1, <1>0, <1>1, TailFacts
  <1>3. \A t \in Subs : t # s => posted_list'[t] = posted_list[t] /\ rmsg'[t] = rmsg[t] /\ rpc'[t] = rpc[t]
    BY DEF Get, TypeOK
  <1>4. rpc[s] = "idle" /\ rpc'[s] = "using" /\ rmsg'[s] = m /\ rtmp' = rtmp
    BY <1>1 DEF Get, TypeOK
  <1>5. UNCHANGED <<free_list, heap, reader_count, ppc, pmsg, pnext>>
    BY DEF Get, pvars
  <1>7. Queued(s, m)
    BY <1>2 DEF Queued
  <1>9. \A t \in Subs, n \in Msgs : Queued(t, n)' <=> Queued(t, n) /\ ~(t = s /\ n = m)
    <2>1. ASSUME NEW t \in Subs, NEW n \in Msgs, t # s PROVE Queued(t, n)' <=> Queued(t, n)
      BY <2>1, <1>3 DEF Queued
    <2>2. ASSUME NEW n \in Msgs, Queued(s, n)' PROVE Queued(s, n) /\ n # m
      <3>1. PICK i \in 1 .. Len(posted_list'[s]) : posted_list'[s][i] = n
        BY <2>2 DEF Queued
      <3>2. i + 1 \in 1 .. Len(posted_list[s]) /\ 1 \in 1 .. Len(posted_list[s])
            /\ i + 1 # 1 /\ posted_list[s][i + 1] = n
        BY <3>1, <1>2
      <3>3. QED
        BY <3>2, <1>2 DEF Queued, OneClaimEach
    <2>3. ASSUME NEW n \in Msgs, Queued(s, n), n # m PROVE Queued(s, n)'
      <3>1. PICK i \in 1 .. Len(posted_list[s]) : posted_list[s][i] = n
        BY <2>3 DEF Queued
      <3>2. i - 1 \in 1 .. Len(posted_list'[s]) /\ posted_list'[s][i - 1] = n
        <4>1. i # 1
          BY <3>1, <2>3, <1>2
        <4>2. i - 1 \in 1 .. Len(posted_list'[s])
          BY <4>1, <1>2
        <4>3. posted_list'[s][i - 1] = posted_list[s][(i - 1) + 1] /\ (i - 1) + 1 = i
          BY <4>2, <1>2
        <4>4. QED
          BY <4>2, <4>3, <3>1
      <3>3. QED
        BY <3>2 DEF Queued
    <2>4. QED
      BY <2>1, <2>2, <2>3
  <1>10. \A t \in Subs, n \in Msgs : Held(t, n)' <=> Held(t, n) \/ (t = s /\ n = m)
    BY <1>3, <1>4 DEF Held
  <1>11. \A t \in Subs, n \in Msgs : Coming(t, n)' <=> Coming(t, n)
    BY <1>5 DEF Coming
  <1>12. \A t \in Subs, n \in Msgs : Claims(t, n)' <=> Claims(t, n)
    BY <1>7, <1>9, <1>10, <1>11 DEF Claims
  <1>13. \A n \in Msgs : Owners(n)' = Owners(n)
    BY <1>12 DEF Owners
  <1>14. QED
    BY <1>2, <1>3, <1>7, <1>9, <1>11, <1>12, <1>13

LEMMA GetPreserves ==
  ASSUME IInv, NEW s \in Subs, Get(s)
  PROVE  IInv'
  <1> USE DEF IInv
  <1>0. posted_list[s] \in Seq(Msgs) /\ posted_list[s] # <<>>
    BY DEF Get, TypeOK
  <1>1. PICK m \in Msgs : m = Head(posted_list[s])
    BY <1>0, TailFacts
  <1>2. /\ m = posted_list[s][1]
        /\ Len(posted_list[s]) \in Nat /\ Len(posted_list[s]) >= 1
        /\ posted_list'[s] \in Seq(Msgs)
        /\ Len(posted_list'[s]) = Len(posted_list[s]) - 1
        /\ \A i \in 1 .. Len(posted_list'[s]) : posted_list'[s][i] = posted_list[s][i + 1]
    BY <1>1, GetMoves
  <1>3. \A t \in Subs : t # s => posted_list'[t] = posted_list[t] /\ rmsg'[t] = rmsg[t] /\ rpc'[t] = rpc[t]
    BY <1>1, GetMoves
  <1>4. rpc[s] = "idle" /\ rpc'[s] = "using" /\ rmsg'[s] = m /\ rtmp' = rtmp
    BY <1>1 DEF Get, TypeOK
  <1>5. UNCHANGED <<free_list, heap, reader_count, ppc, pmsg, pnext>>
    BY DEF Get, pvars
  <1>6. TypeOK'
    <2>1. posted_list' \in [Subs -> Seq(Msgs)]
      BY <1>2, <1>3 DEF Get, TypeOK
    <2>2. rpc' \in [Subs -> PhasesR] /\ rmsg' \in [Subs -> Msgs \cup {NoMsg}]
      BY <1>1 DEF Get, TypeOK, PhasesR
    <2>3. \A t \in Subs : rpc'[t] = "idle" <=> rmsg'[t] = NoMsg
      BY <1>3, <1>4, MBoxAssumption DEF TypeOK
    <2>4. QED
      BY <1>4, <1>5, <2>1, <2>2, <2>3 DEF TypeOK
  <1>7. Queued(s, m)
    BY <1>2 DEF Queued
  <1>8. ~Held(s, m)' => FALSE
    BY <1>4 DEF Held
  <1>9. \A t \in Subs, n \in Msgs : Queued(t, n)' <=> Queued(t, n) /\ ~(t = s /\ n = m)
    BY <1>1, GetMoves
  <1>10. \A t \in Subs, n \in Msgs : Held(t, n)' <=> Held(t, n) \/ (t = s /\ n = m)
    BY <1>3, <1>4 DEF Held
  <1>11. \A t \in Subs, n \in Msgs : Coming(t, n)' <=> Coming(t, n)
    BY <1>5 DEF Coming
  <1>12. \A t \in Subs, n \in Msgs : Claims(t, n)' <=> Claims(t, n)
    BY <1>1, GetMoves
  <1>13. \A n \in Msgs : Owners(n)' = Owners(n)
    BY <1>1, GetMoves
  <1>14. \A n \in Msgs : (Posting(n)' <=> Posting(n)) /\ (Filling(n)' <=> Filling(n))
    BY <1>5 DEF Posting, Filling
  <1>15. OneProducerEach'
    BY <1>5 DEF OneProducerEach
  <1>16. OneClaimEach'
    <2>1. ASSUME NEW t \in Subs, NEW i \in 1 .. Len(posted_list'[t]), NEW j \in 1 .. Len(posted_list'[t]),
                 posted_list'[t][i] = posted_list'[t][j]
          PROVE  i = j
      <3>1. CASE t # s
        BY <2>1, <3>1, <1>3 DEF OneClaimEach
      <3>2. CASE t = s
        <4>1. i + 1 \in 1 .. Len(posted_list[s]) /\ j + 1 \in 1 .. Len(posted_list[s])
              /\ posted_list[s][i + 1] = posted_list[s][j + 1]
          BY <2>1, <3>2, <1>2
        <4>2. i + 1 = j + 1
          BY <4>1 DEF OneClaimEach
        <4>3. QED
          BY <4>2
      <3>3. QED
        BY <3>1, <3>2
    <2>2. ~Coming(s, m)
      BY <1>7 DEF OneClaimEach
    <2>3. \A n \in Msgs : ~Held(s, n)
      BY <1>4 DEF Held
    <2>4. \A t \in Subs, n \in Msgs :
            (~(Queued(t, n) /\ Held(t, n)) /\ ~(Queued(t, n) /\ Coming(t, n)) /\ ~(Held(t, n) /\ Coming(t, n)))'
      BY <2>2, <2>3, <1>9, <1>10, <1>11 DEF OneClaimEach
    <2>5. QED
      BY <2>1, <2>4 DEF OneClaimEach
  <1>17. QED
    BY <1>3, <1>4, <1>5, <1>6, <1>12, <1>13, <1>14, <1>15, <1>16, SameOwnersPreserve

\* A reader that looks at reader_count keeps its claim.
LEMMA LookKeepsClaims ==
  ASSUME IInv, NEW s \in Subs, rpc[s] # "idle", rpc'[s] # "idle",
         \A t \in Subs : t # s => rpc'[t] = rpc[t],
         UNCHANGED <<rmsg, posted_list, reader_count, free_list, heap, pvars>>
  PROVE  /\ \A t \in Subs, n \in Msgs : Claims(t, n)' <=> Claims(t, n)
         /\ \A n \in Msgs : Owners(n)' = Owners(n)
         /\ SafeRecycle' /\ OneProducerEach' /\ OneClaimEach'
  <1> USE DEF IInv
  <1>1. \A t \in Subs, n \in Msgs : Held(t, n)' <=> Held(t, n)
    BY DEF Held
  <1>2. \A t \in Subs, n \in Msgs : (Queued(t, n)' <=> Queued(t, n)) /\ (Coming(t, n)' <=> Coming(t, n))
    BY DEF Queued, Coming, pvars
  <1>3. \A t \in Subs, n \in Msgs : Claims(t, n)' <=> Claims(t, n)
    BY <1>1, <1>2 DEF Claims
  <1>4. \A n \in Msgs : Owners(n)' = Owners(n)
    BY <1>3 DEF Owners
  <1>5. \A n \in Msgs : (Posting(n)' <=> Posting(n)) /\ (Filling(n)' <=> Filling(n)) /\ (Reclaimed(n)' <=> Reclaimed(n))
    BY DEF Posting, Filling, Reclaimed, Pooled, pvars
  <1>6. SafeRecycle'
    BY <1>3, <1>5 DEF SafeRecycle
  <1>7. OneProducerEach'
    BY DEF OneProducerEach, pvars
  <1>8. OneClaimEach'
    BY <1>1, <1>2 DEF OneClaimEach
  <1>9. QED
    BY <1>3, <1>4, <1>6, <1>7, <1>8

LEMMA ReadyToDiePreserves ==
  ASSUME IInv, NEW s \in Subs, ReadyToDie(s)
  PROVE  IInv'
  <1> USE DEF IInv
  <1>1. PICK m \in Msgs : m = rmsg[s]
    BY DEF ReadyToDie, TypeOK
  <1>2. /\ rpc[s] = "using"
        /\ rpc'[s] = IF reader_count[m] = 1 THEN "recycle" ELSE "dec"
        /\ \A t \in Subs : t # s => rpc'[t] = rpc[t]
        /\ UNCHANGED <<rmsg, posted_list, reader_count, free_list, heap, pvars, rtmp>>
    BY <1>1 DEF ReadyToDie, TypeOK
  <1>3. Claims(s, m)
    BY <1>1, <1>2 DEF Claims, Held
  <1>4. \A n \in Msgs : Owners(n)' = Owners(n)
    BY <1>2, LookKeepsClaims
  <1>5. SafeRecycle' /\ OneProducerEach' /\ OneClaimEach'
    BY <1>2, LookKeepsClaims
  <1>6. TypeOK'
    <2>1. rpc' \in [Subs -> PhasesR]
      BY DEF ReadyToDie, TypeOK, PhasesR
    <2>2. \A t \in Subs : rpc'[t] = "idle" <=> rmsg'[t] = NoMsg
      BY <1>2 DEF TypeOK
    <2>3. QED
      BY <2>1, <2>2, <1>2 DEF TypeOK, pvars
  <1>7. CountCovers'
    <2>1. ASSUME NEW t \in Subs, rpc'[t] = "store" PROVE (Cardinality(Owners(rmsg[t])) <= rtmp[t])'
      <3>1. PICK n \in Msgs : n = rmsg[t]
        BY <2>1, <1>2 DEF TypeOK
      <3>2. Cardinality(Owners(n)) <= rtmp[t]
        BY <2>1, <3>1, <1>2 DEF CountCovers
      <3>3. QED
        BY <3>1, <3>2, <1>2, <1>4
    <2>2. QED
      BY <2>1, <1>2, <1>4 DEF CountCovers
  <1>8. LastReader'
    <2>1. ASSUME NEW t \in Subs, rpc'[t] = "recycle"
          PROVE  (reader_count[rmsg[t]] = 1 /\ Owners(rmsg[t]) = {t})'
      <3>1. PICK n \in Msgs : n = rmsg[t]
        BY <2>1, <1>2 DEF TypeOK
      <3>2. reader_count[n] = 1 /\ Owners(n) = {t}
        <4>1. CASE t # s
          BY <4>1, <2>1, <3>1, <1>2 DEF LastReader
        <4>2. CASE t = s
          <5>1. n = m /\ reader_count[m] = 1
            BY <4>2, <3>1, <1>1, <1>2, <2>1
          <5>2. Cardinality(Owners(m)) <= 1 /\ Cardinality(Owners(m)) \in Nat
            BY <5>1, OwnersFinite DEF CountCovers
          <5>3. Cardinality(Owners(m)) = 1
            <6>1. Cardinality(Owners(m)) >= 1
              BY <1>3, OwnerCounted
            <6>2. QED
              BY <5>2, <6>1
          <5>4. QED
            BY <4>2, <5>1, <5>3, <1>3, OwnerCounted
        <4>3. QED
          BY <4>1, <4>2
      <3>3. QED
        BY <3>1, <3>2, <1>2, <1>4
    <2>2. QED
      BY <2>1 DEF LastReader
  <1>9. QED
    BY <1>5, <1>6, <1>7, <1>8

LEMMA DecLoadPreserves ==
  ASSUME IInv, NEW s \in Subs, DecLoad(s)
  PROVE  IInv'
  <1> USE DEF IInv
  <1>1. PICK m \in Msgs : m = rmsg[s]
    BY DEF DecLoad, TypeOK
  <1>2. /\ rpc[s] = "dec" /\ rpc'[s] = "store" /\ rtmp'[s] = reader_count[m]
        /\ \A t \in Subs : t # s => rpc'[t] = rpc[t] /\ rtmp'[t] = rtmp[t]
        /\ UNCHANGED <<rmsg, posted_list, reader_count, free_list, heap, pvars>>
    BY <1>1 DEF DecLoad, TypeOK
  <1>4. \A n \in Msgs : Owners(n)' = Owners(n)
    BY <1>2, LookKeepsClaims
  <1>5. SafeRecycle' /\ OneProducerEach' /\ OneClaimEach'
    BY <1>2, LookKeepsClaims
  <1>6. TypeOK'
    <2>1. rpc' \in [Subs -> PhasesR] /\ rtmp' \in [Subs -> 0 .. NumSubs]
      BY <1>1 DEF DecLoad, TypeOK, PhasesR
    <2>2. \A t \in Subs : rpc'[t] = "idle" <=> rmsg'[t] = NoMsg
      BY <1>2 DEF TypeOK
    <2>3. QED
      BY <2>1, <2>2, <1>2 DEF TypeOK, pvars
  <1>7. CountCovers'
    <2>1. ASSUME NEW t \in Subs, rpc'[t] = "store" PROVE (Cardinality(Owners(rmsg[t])) <= rtmp[t])'
      <3>1. PICK n \in Msgs : n = rmsg[t]
        BY <2>1, <1>2 DEF TypeOK
      <3>2. Cardinality(Owners(n)) <= rtmp'[t]
        BY <2>1, <3>1, <1>1, <1>2 DEF CountCovers
      <3>3. QED
        BY <3>1, <3>2, <1>2, <1>4
    <2>2. QED
      BY <2>1, <1>2, <1>4 DEF CountCovers
  <1>8. LastReader'
    <2>1. ASSUME NEW t \in Subs, rpc'[t] = "recycle"
          PROVE  (reader_count[rmsg[t]] = 1 /\ Owners(rmsg[t]) = {t})'
      <3>1. PICK n \in Msgs : n = rmsg[t]
        BY <2>1, <1>2 DEF TypeOK
      <3>2. reader_count[n] = 1 /\ Owners(n) = {t}
        BY <2>1, <3>1, <1>2 DEF LastReader
      <3>3. QED
        BY <3>1, <3>2, <1>2, <1>4
    <2>2. QED
      BY <2>1 DEF LastReader
  <1>9. QED
    BY <1>5, <1>6, <1>7, <1>8

-----------------------------------------------------------------------------
(* Steps that end a reader's claim.                                        *)

LEMMA LetGoFacts ==
  ASSUME IInv, NEW s \in Subs, NEW m \in Msgs, rpc[s] # "idle", m = rmsg[s], LetGo(s)
  PROVE  /\ Claims(s, m)
         /\ \A t \in Subs, n \in Msgs : Claims(t, n)' <=> Claims(t, n) /\ ~(t = s /\ n = m)
         /\ Owners(m)' = Owners(m) \ {s}
         /\ \A n \in Msgs : n # m => Owners(n)' = Owners(n)
         /\ \A n \in Msgs : (Posting(n)' <=> Posting(n)) /\ (Filling(n)' <=> Filling(n))
         /\ OneProducerEach' /\ OneClaimEach'
         /\ rpc'[s] = "idle" /\ rpc' \in [Subs -> PhasesR]
         /\ rmsg' \in [Subs -> Msgs \cup {NoMsg}] /\ rtmp' \in [Subs -> 0 .. NumSubs]
         /\ \A t \in Subs : rpc'[t] = "idle" <=> rmsg'[t] = NoMsg
         /\ \A t \in Subs : t # s => rpc'[t] = rpc[t] /\ rmsg'[t] = rmsg[t] /\ rtmp'[t] = rtmp[t]
         /\ UNCHANGED <<posted_list, ppc, pmsg, pnext>>
  <1> USE DEF IInv
  <1>1. UNCHANGED <<posted_list, ppc, pmsg, pnext>>
    BY DEF LetGo, pvars
  <1>2. /\ rpc'[s] = "idle" /\ rpc' \in [Subs -> PhasesR]
        /\ rmsg'[s] = NoMsg /\ rmsg' \in [Subs -> Msgs \cup {NoMsg}]
        /\ \A t \in Subs : t # s => rpc'[t] = rpc[t] /\ rmsg'[t] = rmsg[t] /\ rtmp'[t] = rtmp[t]
    BY DEF LetGo, TypeOK, PhasesR
  <1>3. rtmp' \in [Subs -> 0 .. NumSubs]
    <2>1. 0 \in 0 .. NumSubs
      BY MBoxAssumption
    <2>2. QED
      BY <2>1 DEF LetGo, TypeOK
  <1>4. \A t \in Subs : rpc'[t] = "idle" <=> rmsg'[t] = NoMsg
    BY <1>2 DEF TypeOK
  <1>5. Held(s, m) /\ Claims(s, m)
    BY DEF Held, Claims
  <1>6. ~Queued(s, m) /\ ~Coming(s, m)
    BY <1>5 DEF OneClaimEach
  <1>7. \A t \in Subs, n \in Msgs : (Queued(t, n)' <=> Queued(t, n)) /\ (Coming(t, n)' <=> Coming(t, n))
    BY <1>1 DEF Queued, Coming
  <1>8. \A t \in Subs, n \in Msgs : Held(t, n)' <=> Held(t, n) /\ ~(t = s /\ n = m)
    BY <1>2 DEF Held
  <1>9. \A t \in Subs, n \in Msgs : Claims(t, n)' <=> Claims(t, n) /\ ~(t = s /\ n = m)
    BY <1>6, <1>7, <1>8 DEF Claims
  <1>10. Owners(m)' = Owners(m) \ {s} /\ \A n \in Msgs : n # m => Owners(n)' = Owners(n)
    BY <1>9 DEF Owners
  <1>11. \A n \in Msgs : (Posting(n)' <=> Posting(n)) /\ (Filling(n)' <=> Filling(n))
    BY <1>1 DEF Posting, Filling
  <1>12. OneProducerEach'
    BY <1>1 DEF OneProducerEach
  <1>13. OneClaimEach'
    BY <1>1, <1>7, <1>8 DEF OneClaimEach
  <1>14. QED
    BY <1>1, <1>2, <1>3, <1>4, <1>5, <1>9, <1>10, <1>11, <1>12, <1>13

\* After s lets go of m, what was true of the other readers and messages stays so.
LEMMA LetGoCounts ==
  ASSUME IInv, NEW s \in Subs, NEW m \in Msgs, rpc[s] # "idle", m = rmsg[s], LetGo(s),
         \A n \in Msgs : n # m => reader_count'[n] = reader_count[n],
         Cardinality(Owners(m) \ {s}) <= reader_count'[m]
  PROVE  CountCovers' /\ LastReader'
  <1> USE DEF IInv
  <1>1. /\ Claims(s, m)
        /\ Owners(m)' = Owners(m) \ {s}
        /\ \A n \in Msgs : n # m => Owners(n)' = Owners(n)
        /\ rpc'[s] = "idle"
        /\ \A t \in Subs : t # s => rpc'[t] = rpc[t] /\ rmsg'[t] = rmsg[t] /\ rtmp'[t] = rtmp[t]
    BY LetGoFacts
  <1>2. Cardinality(Owners(m) \ {s}) = Cardinality(Owners(m)) - 1 /\ Cardinality(Owners(m)) \in Nat
    BY <1>1, OwnerCounted, OwnersFinite
  <1>3. ASSUME NEW t \in Subs, rpc'[t] \in {"store", "recycle"}
        PROVE  /\ t # s /\ rpc[t] = rpc'[t] /\ rmsg'[t] = rmsg[t] /\ rtmp'[t] = rtmp[t]
               /\ rmsg[t] \in Msgs
    BY <1>1, <1>3 DEF TypeOK
  <1>4. CountCovers'
    <2>1. ASSUME NEW t \in Subs, rpc'[t] = "store" PROVE (Cardinality(Owners(rmsg[t])) <= rtmp[t])'
      <3>1. PICK n \in Msgs : n = rmsg[t]
        BY <2>1, <1>3
      <3>2. Cardinality(Owners(n)) <= rtmp[t] /\ rtmp[t] \in Int
        BY <2>1, <3>1, <1>3 DEF CountCovers, TypeOK
      <3>3. Cardinality(Owners(n)') <= rtmp[t]
        <4>1. CASE n = m
          <5>1. Cardinality(Owners(n)') = Cardinality(Owners(m)) - 1
            BY <4>1, <1>1, <1>2
          <5>2. QED
            BY <4>1, <5>1, <3>2, <1>2
        <4>2. CASE n # m
          BY <4>2, <3>2, <1>1
        <4>3. QED
          BY <4>1, <4>2
      <3>4. QED
        BY <2>1, <3>1, <3>3, <1>3
    <2>2. \A n \in Msgs : (Cardinality(Owners(n)) <= reader_count[n])'
      BY <1>1 DEF CountCovers
    <2>3. QED
      BY <2>1, <2>2 DEF CountCovers
  <1>5. LastReader'
    <2>1. ASSUME NEW t \in Subs, rpc'[t] = "recycle"
          PROVE  (reader_count[rmsg[t]] = 1 /\ Owners(rmsg[t]) = {t})'
      <3>1. PICK n \in Msgs : n = rmsg[t]
        BY <2>1, <1>3
      <3>2. reader_count[n] = 1 /\ Owners(n) = {t}
        BY <2>1, <3>1, <1>3 DEF LastReader
      <3>3. n # m
        <4>1. s \in Owners(m)
          BY <1>1 DEF Owners
        <4>2. QED
          BY <4>1, <3>2, <2>1, <1>3
      <3>4. QED
        BY <2>1, <3>1, <3>2, <3>3, <1>1, <1>3
    <2>2. QED
      BY <2>1 DEF LastReader
  <1>6. QED
    BY <1>4, <1>5

LEMMA DecStorePreserves ==
  ASSUME IInv, NEW s \in Subs, DecStore(s)
  PROVE  IInv'
  <1> USE DEF IInv
  <1>1. PICK m \in Msgs : m = rmsg[s]
    BY DEF DecStore, TypeOK
  <1>2. rpc[s] = "store" /\ LetGo(s) /\ UNCHANGED <<free_list, heap>>
    BY DEF DecStore
  <1>3. Claims(s, m)
    BY <1>1, <1>2, LetGoFacts
  <1>4. /\ Cardinality(Owners(m)) \in Nat /\ Cardinality(Owners(m)) >= 1
        /\ Cardinality(Owners(m) \ {s}) = Cardinality(Owners(m)) - 1
        /\ Cardinality(Owners(m)) <= rtmp[s]
        /\ rtmp[s] \in 0 .. NumSubs
    BY <1>1, <1>2, <1>3, OwnerCounted, OwnersFinite DEF CountCovers, TypeOK
  <1>5. reader_count'[m] = rtmp[s] - 1 /\ \A n \in Msgs : n # m => reader_count'[n] = reader_count[n]
    BY <1>1 DEF DecStore, TypeOK
  <1>6. CountCovers' /\ LastReader'
    <2>1. Cardinality(Owners(m) \ {s}) <= reader_count'[m]
      BY <1>4, <1>5
    <2>2. QED
      BY <2>1, <1>1, <1>2, <1>5, LetGoCounts
  <1>7. TypeOK'
    <2>1. rtmp[s] - 1 \in 0 .. NumSubs
      BY <1>4, MBoxAssumption
    <2>2. reader_count' \in [Msgs -> 0 .. NumSubs]
      BY <2>1, <1>1 DEF DecStore, TypeOK
    <2>3. /\ rpc' \in [Subs -> PhasesR] /\ rmsg' \in [Subs -> Msgs \cup {NoMsg}]
          /\ rtmp' \in [Subs -> 0 .. NumSubs]
          /\ \A t \in Subs : rpc'[t] = "idle" <=> rmsg'[t] = NoMsg
          /\ UNCHANGED <<posted_list, ppc, pmsg, pnext>>
      BY <1>1, <1>2, LetGoFacts
    <2>4. QED
      BY <1>2, <2>2, <2>3 DEF TypeOK
  <1>8. SafeRecycle'
    <2>1. \A n \in Msgs : Reclaimed(n)' <=> Reclaimed(n)
      BY <1>2 DEF Reclaimed, Pooled
    <2>2. \A t \in Subs, n \in Msgs : Claims(t, n)' => Claims(t, n)
      BY <1>1, <1>2, LetGoFacts
    <2>3. \A n \in Msgs : (Posting(n)' <=> Posting(n)) /\ (Filling(n)' <=> Filling(n))
      BY <1>1, <1>2, LetGoFacts
    <2>4. QED
      BY <1>2, <2>1, <2>2, <2>3 DEF SafeRecycle
  <1>9. OneProducerEach' /\ OneClaimEach'
    BY <1>1, <1>2, LetGoFacts
  <1>10. QED
    BY <1>6, <1>7, <1>8, <1>9

\* The last owner's claim ends: the storage is nobody's.
LEMMA LastLetGo ==
  ASSUME IInv, NEW s \in Subs, NEW m \in Msgs, rpc[s] = "recycle", m = rmsg[s], LetGo(s)
  PROVE  /\ reader_count[m] = 1 /\ Owners(m)' = {}
         /\ \A t \in Subs : ~Claims(t, m)'
         /\ ~Reclaimed(m) /\ ~Posting(m)' /\ ~Filling(m)'
  <1> USE DEF IInv
  <1>1. reader_count[m] = 1 /\ Owners(m) = {s}
    BY DEF LastReader
  <1>2. /\ Claims(s, m) /\ Owners(m)' = Owners(m) \ {s}
        /\ \A n \in Msgs : (Posting(n)' <=> Posting(n)) /\ (Filling(n)' <=> Filling(n))
    BY LetGoFacts
  <1>3. Owners(m)' = {}
    BY <1>1, <1>2
  <1>4. \A t \in Subs : ~Claims(t, m)'
    BY <1>3 DEF Owners
  <1>5. ~Reclaimed(m) /\ ~Filling(m)
    BY <1>2 DEF SafeRecycle
  <1>6. ~Posting(m)
    <2>1. SUFFICES ASSUME NEW p \in Producers, ppc[p] = "posting", pmsg[p] = m PROVE FALSE
      BY DEF Posting
    <2>2. PICK k \in Subs : k = pnext[p]
      BY DEF TypeOK
    <2>3. Coming(k, m)
      BY <2>1, <2>2, MBoxAssumption DEF Coming, Subs
    <2>4. k \in Owners(m)
      BY <2>3 DEF Owners, Claims
    <2>5. Coming(s, m) /\ Held(s, m)
      BY <2>3, <2>4, <1>1 DEF Held
    <2>6. QED
      BY <2>5 DEF OneClaimEach
  <1>7. QED
    BY <1>1, <1>2, <1>3, <1>4, <1>5, <1>6

LEMMA RecycleBufPreserves ==
  ASSUME IInv, NEW s \in Subs, RecycleBuf(s)
  PROVE  IInv'
  <1> USE DEF IInv
  <1>1. PICK m \in Msgs : m = rmsg[s]
    BY DEF RecycleBuf, TypeOK
  <1>2. rpc[s] = "recycle" /\ LetGo(s) /\ heap' = heap
    BY DEF RecycleBuf
  <1>3. /\ reader_count[m] = 1 /\ Owners(m)' = {}
        /\ \A t \in Subs : ~Claims(t, m)'
        /\ ~Reclaimed(m) /\ ~Posting(m)' /\ ~Filling(m)'
    BY <1>1, <1>2, LastLetGo
  <1>4. reader_count' = [reader_count EXCEPT ![m] = 0] /\ free_list' = Append(free_list, m)
    BY <1>1, <1>3 DEF RecycleBuf
  <1>5. /\ free_list \in Seq(Msgs) /\ free_list' \in Seq(Msgs) /\ Len(free_list) \in Nat
        /\ Len(free_list') = Len(free_list) + 1
        /\ free_list'[Len(free_list) + 1] = m
        /\ \A i \in 1 .. Len(free_list) : free_list'[i] = free_list[i]
    BY <1>4, AppendFacts DEF TypeOK
  <1>6. /\ Claims(s, m) /\ Owners(m)' = Owners(m) \ {s}
        /\ \A t \in Subs, n \in Msgs : Claims(t, n)' <=> Claims(t, n) /\ ~(t = s /\ n = m)
        /\ \A n \in Msgs : (Posting(n)' <=> Posting(n)) /\ (Filling(n)' <=> Filling(n))
        /\ OneProducerEach' /\ OneClaimEach'
    BY <1>1, <1>2, LetGoFacts
  <1>7. CountCovers' /\ LastReader'
    <2>1. Cardinality(Owners(m) \ {s}) = 0
      BY <1>3, <1>6, FS_EmptySet
    <2>2. /\ \A n \in Msgs : n # m => reader_count'[n] = reader_count[n]
          /\ Cardinality(Owners(m) \ {s}) <= reader_count'[m]
      BY <2>1, <1>4 DEF TypeOK
    <2>3. QED
      BY <2>2, <1>1, <1>2, LetGoCounts
  <1>8. TypeOK'
    <2>1. reader_count' \in [Msgs -> 0 .. NumSubs]
      <3>1. 0 \in 0 .. NumSubs
        BY MBoxAssumption
      <3>2. QED
        BY <3>1, <1>4 DEF TypeOK
    <2>2. /\ rpc' \in [Subs -> PhasesR] /\ rmsg' \in [Subs -> Msgs \cup {NoMsg}]
          /\ rtmp' \in [Subs -> 0 .. NumSubs]
          /\ \A t \in Subs : rpc'[t] = "idle" <=> rmsg'[t] = NoMsg
          /\ UNCHANGED <<posted_list, ppc, pmsg, pnext>>
      BY <1>1, <1>2, LetGoFacts
    <2>3. QED
      BY <2>1, <2>2, <1>2, <1>5 DEF TypeOK
  <1>9. \A n \in Msgs : Reclaimed(n)' <=> Reclaimed(n) \/ n = m
    BY <1>2, <1>5 DEF Reclaimed, Pooled
  <1>10. SafeRecycle'
    <2>1. ASSUME NEW n \in Msgs, (Reclaimed(n) \/ Filling(n))'
          PROVE  (~Posting(n) /\ \A t \in Subs : ~Claims(t, n))' /\ (Filling(n) => ~Reclaimed(n))'
      <3>1. CASE n = m
        BY <3>1, <1>3
      <3>2. CASE n # m
        BY <2>1, <3>2, <1>6, <1>9 DEF SafeRecycle
      <3>3. QED
        BY <3>1, <3>2
    <2>2. \A i \in 1 .. Len(free_list) : free_list[i] # m
      BY <1>3 DEF Reclaimed, Pooled
    <2>3. \A i, j \in 1 .. Len(free_list') : free_list'[i] = free_list'[j] => i = j
      BY <2>2, <1>5 DEF SafeRecycle
    <2>4. \A i \in 1 .. Len(free_list') : free_list'[i] \notin heap'
      <3>1. m \notin heap
        BY <1>3 DEF Reclaimed
      <3>2. QED
        BY <3>1, <1>2, <1>5 DEF SafeRecycle
    <2>5. QED
      BY <2>1, <2>3, <2>4 DEF SafeRecycle
  <1>11. QED
    BY <1>6, <1>7, <1>8, <1>10

LEMMA DeleteMsgPreserves ==
  ASSUME IInv, NEW s \in Subs, DeleteMsg(s)
  PROVE  IInv'
  <1> USE DEF IInv
  <1>1. PICK m \in Msgs : m = rmsg[s]
    BY DEF DeleteMsg, TypeOK
  <1>2. rpc[s] = "recycle" /\ LetGo(s) /\ heap' = heap \cup {m} /\ UNCHANGED <<free_list, reader_count>>
    BY <1>1 DEF DeleteMsg
  <1>3. /\ reader_count[m] = 1 /\ Owners(m)' = {}
        /\ \A t \in Subs : ~Claims(t, m)'
        /\ ~Reclaimed(m) /\ ~Posting(m)' /\ ~Filling(m)'
    BY <1>1, <1>2, LastLetGo
  <1>6. /\ Owners(m)' = Owners(m) \ {s}
        /\ \A t \in Subs, n \in Msgs : Claims(t, n)' <=> Claims(t, n) /\ ~(t = s /\ n = m)
        /\ \A n \in Msgs : (Posting(n)' <=> Posting(n)) /\ (Filling(n)' <=> Filling(n))
        /\ OneProducerEach' /\ OneClaimEach'
    BY <1>1, <1>2, LetGoFacts
  <1>7. CountCovers' /\ LastReader'
    <2>1. Cardinality(Owners(m) \ {s}) = 0
      BY <1>3, <1>6, FS_EmptySet
    <2>2. Cardinality(Owners(m) \ {s}) <= reader_count'[m]
      BY <2>1, <1>2, <1>3
    <2>3. QED
      BY <2>2, <1>1, <1>2, LetGoCounts
  <1>8. TypeOK'
    <2>1. /\ rpc' \in [Subs -> PhasesR] /\ rmsg' \in [Subs -> Msgs \cup {NoMsg}]
          /\ rtmp' \in [Subs -> 0 .. NumSubs]
          /\ \A t \in Subs : rpc'[t] = "idle" <=> rmsg'[t] = NoMsg
          /\ UNCHANGED <<posted_list, ppc, pmsg, pnext>>
      BY <1>1, <1>2, LetGoFacts
    <2>2. QED
      BY <2>1, <1>2 DEF TypeOK
  <1>9. \A n \in Msgs : Reclaimed(n)' <=> Reclaimed(n) \/ n = m
    BY <1>2 DEF Reclaimed, Pooled
  <1>10. SafeRecycle'
    <2>1. ASSUME NEW n \in Msgs, (Reclaimed(n) \/ Filling(n))'
          PROVE  (~Posting(n) /\ \A t \in Subs : ~Claims(t, n))' /\ (Filling(n) => ~Reclaimed(n))'
      <3>1. CASE n = m
        BY <3>1, <1>3
      <3>2. CASE n # m
        BY <2>1, <3>2, <1>6, <1>9 DEF SafeRecycle
      <3>3. QED
        BY <3>1, <3>2
    <2>2. \A i \in 1 .. Len(free_list) : free_list[i] # m
      BY <1>3 DEF Reclaimed, Pooled
    <2>3. QED
      BY <2>1, <2>2, <1>2 DEF SafeRecycle
  <1>11. QED
    BY <1>6, <1>7, <1>8, <1>10

-----------------------------------------------------------------------------
LEMMA StepIInv == IInv /\ [Next]_vars => IInv'
  <1> SUFFICES ASSUME IInv, [Next]_vars PROVE IInv'
    OBVIOUS
  <1>1. ASSUME NEW p \in Producers, ProducerStep(p) PROVE IInv'
    BY <1>1, AllocPooledPreserves, AllocNewPreserves, BeginPutPreserves, PostNextPreserves
       DEF ProducerStep
  <1>2. ASSUME NEW s \in Subs, ReaderStep(s) PROVE IInv'
    BY <1>2, GetPreserves, ReadyToDiePreserves, DecLoadPreserves, DecStorePreserves,
       RecycleBufPreserves, DeleteMsgPreserves DEF ReaderStep
  <1>3. CASE UNCHANGED vars
    <2>1. UNCHANGED <<posted_list, reader_count, free_list, heap, ppc, pmsg, pnext, rpc, rmsg, rtmp>>
      BY <1>3 DEF vars, pvars, rvars
    <2>2. TypeOK'
      BY <2>1 DEF IInv, TypeOK
    <2>3. OneProducerEach' /\ OneClaimEach'
      BY <2>1 DEF IInv, OneProducerEach, OneClaimEach, Queued, Held, Coming
    <2>4. \A s \in Subs, m \in Msgs : Coming(s, m)' <=> Coming(s, m)
      BY <2>1 DEF Coming
    <2>5. \A m \in Msgs : Owners(m)' = Owners(m) /\ \A s \in Subs : Claims(s, m)' <=> Claims(s, m)
      BY <2>1, <2>4, ClaimsKept
    <2>6. \A m \in Msgs : (Posting(m)' <=> Posting(m)) /\ (Filling(m)' <=> Filling(m))
      BY <2>1 DEF Posting, Filling
    <2>7. QED
      BY <2>1, <2>2, <2>3, <2>5, <2>6, SameOwnersPreserve
  <1>4. QED
    BY <1>1, <1>2, <1>3 DEF Next

\* The inductive invariant holds of every run of the mailbox, whatever the
\* number of subscribers and producers, with a free list or without.
THEOREM MailboxInvariant == Spec => []IInv
  <1>1. Init => IInv
    BY InitIInv
  <1>2. IInv /\ [Next]_vars => IInv'
    BY StepIInv
  <1>3. QED
    BY <1>1, <1>2, PTL DEF Spec

\* reader_count stays between 0 and the number of subscribers: the unsigned
\* counter of MBoxMessage never wraps.
THEOREM TypesCorrect == Spec => []TypeOK
  <1>1. IInv => TypeOK
    BY DEF IInv
  <1>2. QED
    BY <1>1, MailboxInvariant, PTL

\* free() and alloc() never hand out, or give back, storage that a subscriber
\* can still read: the unlocked reader_count loses storage, never safety.
THEOREM RecyclingIsSafe == Spec => []SafeRecycle
  <1>1. IInv => SafeRecycle
    BY DEF IInv
  <1>2. QED
    BY <1>1, MailboxInvariant, PTL
-----------------------------------------------------------------------------
(* The mailbox keeps its promise, step by step.                            *)

\* The poster that the mapping goes by is the thread that posts, or did.
PosterKnown ==
  /\ poster \in [Msgs -> Producers \cup {NoMsg}]
  /\ \A p \in Producers : ppc[p] = "posting" => poster[pmsg[p]] = p
  /\ \A s \in Subs, m \in Msgs : Queued(s, m) => poster[m] \in Producers

\* The steps that leave poster alone; they may start no post and queue only what
\* is being posted.
LEMMA PosterStays ==
  ASSUME PosterKnown, UNCHANGED poster,
         \A p \in Producers : ppc'[p] = "posting" => ppc[p] = "posting" /\ pmsg'[p] = pmsg[p],
         \A s \in Subs, m \in Msgs :
           Queued(s, m)' => Queued(s, m) \/ \E p \in Producers : ppc[p] = "posting" /\ m = pmsg[p]
  PROVE  PosterKnown'
  BY DEF PosterKnown

\* Who comes, or is queued, was posted by somebody; what is coming for p is what p
\* posts.
LEMMA ComingFrom ==
  ASSUME PosterKnown, NEW s \in Subs, NEW m \in Msgs, Coming(s, m)
  PROVE  \E p \in Producers : /\ ppc[p] = "posting" /\ pmsg[p] = m /\ poster[m] = p
  BY DEF PosterKnown, Coming

\* Steps that move no message and end no claim are no step of the promise.
LEMMA NothingPromised ==
  ASSUME UNCHANGED <<posted_list, rmsg, poster>>,
         \A s \in Subs, m \in Msgs : Coming(s, m)' <=> Coming(s, m),
         \A m \in Msgs : Owners(m)' = Owners(m)
  PROVE  UNCHANGED Promise!vars
  <1>1. \A s \in Subs, m \in Msgs : Queued(s, m)' <=> Queued(s, m)
    BY DEF Queued
  <1>2. \A s \in Subs, x, m \in Msgs : Before(s, x, m)' <=> Before(s, x, m)
    BY <1>1 DEF Before
  <1>3. \A p \in Producers, s \in Subs : Pending(p, s)' = Pending(p, s)
    BY <1>1 DEF Pending
  <1>4. \A s \in Subs : InOrder(s)' = InOrder(s)
    BY <1>2 DEF InOrder
  <1>5. /\ [p \in Producers |-> [s \in Subs |-> Pending(p, s)]]'
             = [p \in Producers |-> [s \in Subs |-> Pending(p, s)]]
        /\ [s \in Subs |-> InOrder(s)]' = [s \in Subs |-> InOrder(s)]
        /\ [m \in Msgs |-> Owners(m)]' = [m \in Msgs |-> Owners(m)]
    BY <1>3, <1>4
  <1>6. QED
    BY <1>5 DEF Promise!vars

\* Getting storage, and filling it.
LEMMA FillPromises ==
  ASSUME IInv, PosterKnown, NEW p \in Producers,
         AllocPooled(p) \/ \E m \in Msgs : AllocNew(p, m)
  PROVE  PosterKnown' /\ UNCHANGED Promise!vars
  <1>1. PICK m \in Msgs : ppc[p] = "idle" /\ Fill(p, m)
    <2>1. CASE AllocPooled(p)
      <3>1. Head(free_list) \in Msgs
        BY <2>1, TailFacts DEF AllocPooled, IInv, TypeOK
      <3>2. QED
        BY <2>1, <3>1 DEF AllocPooled
    <2>2. CASE \E m \in Msgs : AllocNew(p, m)
      BY <2>2 DEF AllocNew
    <2>3. QED
      BY <2>1, <2>2
  <1>2. UNCHANGED <<posted_list, rmsg, poster, rvars>>
    BY <1>1 DEF Fill, rvars
  <1>3. /\ \A n \in Msgs : Owners(n)' = Owners(n)
        /\ \A s \in Subs, n \in Msgs : Coming(s, n)' <=> Coming(s, n)
    BY <1>1, <1>2, FillKeepsClaims DEF IInv
  <1>4. \A q \in Producers : ppc'[q] = "posting" => ppc[q] = "posting" /\ pmsg'[q] = pmsg[q]
    BY <1>1 DEF Fill, IInv, TypeOK
  <1>5. \A s \in Subs, n \in Msgs : Queued(s, n)' => Queued(s, n)
    BY <1>2 DEF Queued
  <1>6. PosterKnown'
    BY <1>2, <1>4, <1>5, PosterStays
  <1>7. QED
    BY <1>2, <1>3, <1>6, NothingPromised

\* setReaderCount is where a message is posted.
LEMMA BeginPutPromises ==
  ASSUME IInv, PosterKnown, NEW p \in Producers, BeginPut(p)
  PROVE  PosterKnown' /\ \E m \in Msgs : Promise!Post(p, m)
  <1>1. PICK m \in Msgs : m = pmsg[p]
    BY DEF BeginPut, IInv, TypeOK
  <1>2. /\ \A s \in Subs : ~Claims(s, m)
        /\ \A s \in Subs, n \in Msgs : Coming(s, n)' <=> Coming(s, n) \/ n = m
        /\ UNCHANGED <<posted_list, rpc, rmsg>>
    BY <1>1, BeginPutMoves
  <1>3. /\ \A s \in Subs, n \in Msgs : Queued(s, n)' <=> Queued(s, n)
        /\ \A s \in Subs, n \in Msgs : Held(s, n)' <=> Held(s, n)
    BY <1>2 DEF Queued, Held
  <1>4. /\ poster'[m] = p
        /\ \A n \in Msgs : n # m => poster'[n] = poster[n]
        /\ poster' \in [Msgs -> Producers \cup {NoMsg}]
    BY <1>1 DEF BeginPut, PosterKnown
  <1>5. \A s \in Subs : ~Queued(s, m) /\ ~Coming(s, m)
    BY <1>2 DEF Claims
  <1>6. /\ ppc[p] = "filling" /\ UNCHANGED pmsg
        /\ \A q \in Producers : q # p => ppc'[q] = ppc[q]
    BY DEF BeginPut, IInv, TypeOK
  <1>7. PosterKnown'
    <2>1. ASSUME NEW q \in Producers, ppc'[q] = "posting"
          PROVE  poster'[pmsg'[q]] = q
      <3>1. CASE q = p
        BY <1>1, <1>4, <1>6, <3>1
      <3>2. CASE q # p
        <4>1. ppc[q] = "posting" /\ pmsg[q] # m /\ pmsg[q] \in Msgs
          BY <1>1, <1>6, <2>1, <3>2, MBoxAssumption DEF IInv, TypeOK, OneProducerEach
        <4>2. QED
          BY <1>4, <1>6, <4>1 DEF PosterKnown
      <3>3. QED
        BY <3>1, <3>2
    <2>2. ASSUME NEW s \in Subs, NEW n \in Msgs, Queued(s, n)'
          PROVE  poster'[n] \in Producers
      <3>1. Queued(s, n) /\ n # m
        BY <1>3, <1>5, <2>2
      <3>2. QED
        BY <1>4, <3>1 DEF PosterKnown
    <2>3. QED
      BY <1>4, <2>1, <2>2 DEF PosterKnown
  <1>8. /\ \A s \in Subs : Pending(p, s)' = Pending(p, s) \cup {m}
        /\ \A q \in Producers, s \in Subs : q # p => Pending(q, s)' = Pending(q, s)
    BY <1>2, <1>3, <1>4, <1>5 DEF Pending
  <1>9. ASSUME NEW s \in Subs
        PROVE  InOrder(s)' = InOrder(s) \cup (Pending(p, s) \X {m})
    <2>1. ASSUME NEW x \in Msgs, NEW n \in Msgs
          PROVE  Before(s, x, n)' <=> Before(s, x, n) \/ (Queued(s, x) /\ n = m)
      BY <1>2, <1>3 DEF Before
    <2>2. ASSUME NEW x \in Msgs, NEW n \in Msgs, Before(s, x, n)
          PROVE  x # m /\ n # m
      <3>1. Queued(s, x) /\ (Queued(s, n) \/ Coming(s, n))
        BY <2>2 DEF Before, Queued
      <3>2. QED
        BY <1>5, <3>1
    <2>3. ASSUME NEW x \in Msgs
          PROVE  x \in Pending(p, s) <=> Queued(s, x) /\ poster[x] = p
      <3>1. ASSUME Coming(s, x), poster[x] = p PROVE FALSE
        BY <1>6, <3>1, ComingFrom
      <3>2. QED
        BY <3>1 DEF Pending
    <2>4. ASSUME NEW x \in Msgs, NEW n \in Msgs
          PROVE  <<x, n>> \in InOrder(s)' <=> <<x, n>> \in InOrder(s) \/ (x \in Pending(p, s) /\ n = m)
      <3>1. <<x, n>> \in InOrder(s)' <=> poster'[x] = poster'[n] /\ Before(s, x, n)'
        BY DEF InOrder
      <3>2. <<x, n>> \in InOrder(s) <=> poster[x] = poster[n] /\ Before(s, x, n)
        BY DEF InOrder
      <3>3. Queued(s, x) => x # m
        BY <1>5
      <3>4. QED
        BY <1>4, <2>1, <2>2, <2>3, <3>1, <3>2, <3>3
    <2>5. InOrder(s)' \subseteq Msgs \X Msgs /\ InOrder(s) \subseteq Msgs \X Msgs
          /\ Pending(p, s) \subseteq Msgs
      BY DEF InOrder, Pending
    <2>6. ASSUME NEW e \in Msgs \X Msgs
          PROVE  e \in InOrder(s)' <=> e \in InOrder(s) \/ e \in Pending(p, s) \X {m}
      <3>1. PICK x \in Msgs, n \in Msgs : e = <<x, n>>
        OBVIOUS
      <3>2. QED
        BY <2>4, <3>1
    <2>7. QED
      BY <2>5, <2>6
  <1>10. /\ Owners(m) = {} /\ Owners(m)' = Subs
         /\ \A n \in Msgs : n # m => Owners(n)' = Owners(n)
    <2>1. \A s \in Subs, n \in Msgs : Claims(s, n)' <=> Claims(s, n) \/ n = m
      BY <1>2, <1>3 DEF Claims
    <2>2. QED
      BY <1>2, <2>1 DEF Owners
  <1>11. Promise!Post(p, m)
    <2> DEFINE P == [q \in Producers |-> [s \in Subs |-> Pending(q, s)]]
               C == [n \in Msgs |-> Owners(n)]
    <2>1. P' = [P EXCEPT ![p] = [s \in Subs |-> @[s] \cup {m}]]
      BY <1>8
    <2>2. [s \in Subs |-> InOrder(s)]' = [s \in Subs |-> InOrder(s) \cup (P[p][s] \X {m})]
      BY <1>9
    <2>3. C[m] = {} /\ C' = [C EXCEPT ![m] = Subs]
      BY <1>10
    <2>4. QED
      BY <1>2, <2>1, <2>2, <2>3 DEF Promise!Post
  <1>12. QED
    BY <1>7, <1>11

\* A push changes nothing that was promised.
LEMMA PostNextPromises ==
  ASSUME IInv, PosterKnown, NEW p \in Producers, PostNext(p)
  PROVE  PosterKnown' /\ UNCHANGED Promise!vars
  <1>1. PICK m \in Msgs, k \in Subs : m = pmsg[p] /\ k = pnext[p]
    BY DEF PostNext, IInv, TypeOK
  <1>2. /\ Len(posted_list[k]) \in Nat
        /\ Len(posted_list'[k]) = Len(posted_list[k]) + 1
        /\ posted_list'[k][Len(posted_list[k]) + 1] = m
        /\ \A i \in 1 .. Len(posted_list[k]) : posted_list'[k][i] = posted_list[k][i]
        /\ \A t \in Subs : t # k => posted_list'[t] = posted_list[t]
        /\ \A t \in Subs, n \in Msgs : Queued(t, n)' <=> Queued(t, n) \/ (t = k /\ n = m)
        /\ \A t \in Subs, n \in Msgs : Coming(t, n)' <=> Coming(t, n) /\ ~(t = k /\ n = m)
        /\ Coming(k, m) /\ ~Queued(k, m)
        /\ \A n \in Msgs : Owners(n)' = Owners(n)
    BY <1>1, PostNextMoves
  <1>3. UNCHANGED <<poster, rmsg>> /\ ppc[p] = "posting"
    BY DEF PostNext, rvars
  <1>4. PosterKnown'
    <2>1. \A q \in Producers : ppc'[q] = "posting" => ppc[q] = "posting" /\ pmsg'[q] = pmsg[q]
      BY DEF PostNext, IInv, TypeOK
    <2>2. QED
      BY <1>1, <1>2, <1>3, <2>1, PosterStays
  <1>5. \A q \in Producers, s \in Subs : Pending(q, s)' = Pending(q, s)
    BY <1>2, <1>3 DEF Pending
  <1>6. ASSUME NEW s \in Subs, NEW x \in Msgs, NEW n \in Msgs, poster[x] = poster[n]
        PROVE  Before(s, x, n)' <=> Before(s, x, n)
    <2>1. CASE s # k
      BY <1>2, <2>1 DEF Before
    <2>2. CASE s = k
      <3> DEFINE Ahead == \E i, j \in 1 .. Len(posted_list[k]) :
                            i < j /\ posted_list[k][i] = x /\ posted_list[k][j] = n
                 AheadNow == \E i, j \in 1 .. Len(posted_list'[k]) :
                               i < j /\ posted_list'[k][i] = x /\ posted_list'[k][j] = n
      <3>1. AheadNow <=> Ahead \/ (Queued(k, x) /\ n = m)
        <4>1. ASSUME AheadNow PROVE Ahead \/ (Queued(k, x) /\ n = m)
          <5>1. PICK i, j \in 1 .. Len(posted_list'[k]) :
                     i < j /\ posted_list'[k][i] = x /\ posted_list'[k][j] = n
            BY <4>1
          <5>2. i \in 1 .. Len(posted_list[k]) /\ posted_list[k][i] = x
            BY <1>2, <5>1
          <5>3. CASE j = Len(posted_list[k]) + 1
            BY <1>2, <5>1, <5>2, <5>3 DEF Queued
          <5>4. CASE j # Len(posted_list[k]) + 1
            <6>1. j \in 1 .. Len(posted_list[k]) /\ posted_list[k][j] = n
              BY <1>2, <5>1, <5>4
            <6>2. QED
              BY <5>1, <5>2, <6>1
          <5>5. QED
            BY <5>3, <5>4
        <4>2. ASSUME Ahead PROVE AheadNow
          <5>1. PICK i, j \in 1 .. Len(posted_list[k]) :
                     i < j /\ posted_list[k][i] = x /\ posted_list[k][j] = n
            BY <4>2
          <5>2. i \in 1 .. Len(posted_list'[k]) /\ j \in 1 .. Len(posted_list'[k])
            BY <1>2, <5>1
          <5>3. QED
            BY <1>2, <5>1, <5>2
        <4>3. ASSUME Queued(k, x), n = m PROVE AheadNow
          <5>1. PICK i \in 1 .. Len(posted_list[k]) : posted_list[k][i] = x
            BY <4>3 DEF Queued
          <5>2. /\ i \in 1 .. Len(posted_list'[k]) /\ posted_list'[k][i] = x
                /\ Len(posted_list[k]) + 1 \in 1 .. Len(posted_list'[k])
                /\ i < Len(posted_list[k]) + 1
            BY <1>2, <5>1
          <5>3. QED
            BY <1>2, <4>3, <5>2
        <4>4. QED
          BY <4>1, <4>2, <4>3
      <3>2. Before(k, x, n) <=> Ahead \/ (Queued(k, x) /\ Coming(k, n))
        BY DEF Before
      <3>3. Before(k, x, n)' <=> AheadNow \/ (Queued(k, x)' /\ Coming(k, n)')
        BY DEF Before
      <3>4. ASSUME x = m, Coming(k, n)' PROVE FALSE
        <4>1. n # m /\ Coming(k, n)
          BY <1>2, <3>4
        <4>2. PICK q \in Producers : ppc[q] = "posting" /\ pmsg[q] = n /\ poster[n] = q
          BY <4>1, ComingFrom
        <4>3. poster[m] = p
          BY <1>1, <1>3 DEF PosterKnown
        <4>4. q = p
          BY <1>6, <3>4, <4>2, <4>3
        <4>5. QED
          BY <1>1, <4>1, <4>2, <4>4
      <3> HIDE DEF Ahead, AheadNow
      <3>5. QED
        BY <1>2, <2>2, <3>1, <3>2, <3>3, <3>4
    <2>3. QED
      BY <2>1, <2>2
  <1>7. \A s \in Subs : InOrder(s)' = InOrder(s)
    BY <1>3, <1>6 DEF InOrder
  <1>8. /\ [q \in Producers |-> [s \in Subs |-> Pending(q, s)]]'
             = [q \in Producers |-> [s \in Subs |-> Pending(q, s)]]
        /\ [s \in Subs |-> InOrder(s)]' = [s \in Subs |-> InOrder(s)]
        /\ [n \in Msgs |-> Owners(n)]' = [n \in Msgs |-> Owners(n)]
    BY <1>2, <1>5, <1>7
  <1>9. QED
    BY <1>3, <1>4, <1>8 DEF Promise!vars

\* get() takes what its poster posted first.
LEMMA GetPromises ==
  ASSUME IInv, PosterKnown, NEW s \in Subs, Get(s)
  PROVE  PosterKnown' /\ \E p \in Producers, m \in Msgs : Promise!Take(p, s, m)
  <1>1. PICK m \in Msgs : m = Head(posted_list[s])
    BY TailFacts DEF Get, IInv, TypeOK
  <1>2. /\ m = posted_list[s][1]
        /\ Len(posted_list[s]) \in Nat /\ Len(posted_list[s]) >= 1
        /\ Len(posted_list'[s]) = Len(posted_list[s]) - 1
        /\ \A i \in 1 .. Len(posted_list'[s]) : posted_list'[s][i] = posted_list[s][i + 1]
        /\ \A t \in Subs : t # s => posted_list'[t] = posted_list[t]
        /\ Queued(s, m)
        /\ \A t \in Subs, n \in Msgs : Queued(t, n)' <=> Queued(t, n) /\ ~(t = s /\ n = m)
        /\ \A t \in Subs, n \in Msgs : Coming(t, n)' <=> Coming(t, n)
        /\ \A n \in Msgs : Owners(n)' = Owners(n)
    BY <1>1, GetMoves
  <1>3. /\ UNCHANGED <<poster, ppc, pmsg>> /\ rmsg[s] = NoMsg
        /\ rmsg' = [rmsg EXCEPT ![s] = m]
    BY <1>1 DEF Get, pvars, IInv, TypeOK
  <1>4. PosterKnown'
    BY <1>2, <1>3, PosterStays
  <1>5. PICK p \in Producers : poster[m] = p
    BY <1>2 DEF PosterKnown
  <1>6. ~Coming(s, m)
    BY <1>2 DEF IInv, OneClaimEach
  <1>7. ASSUME NEW x \in Msgs PROVE ~Before(s, x, m)
    <2>1. ASSUME NEW i \in 1 .. Len(posted_list[s]), NEW j \in 1 .. Len(posted_list[s]),
                 i < j, posted_list[s][j] = m
          PROVE  FALSE
      <3>1. 1 \in 1 .. Len(posted_list[s]) /\ j # 1
        BY <1>2, <2>1
      <3>2. QED
        BY <1>2, <2>1, <3>1 DEF IInv, OneClaimEach
    <2>2. QED
      BY <1>6, <2>1 DEF Before
  <1>8. ASSUME NEW x \in Msgs, NEW n \in Msgs
        PROVE  Before(s, x, n)' <=> Before(s, x, n) /\ x # m /\ n # m
    <2>1. ASSUME NEW i \in 1 .. Len(posted_list'[s]), NEW j \in 1 .. Len(posted_list'[s]), i < j,
                 posted_list'[s][i] = x, posted_list'[s][j] = n
          PROVE  Before(s, x, n)
      <3>1. /\ i + 1 \in 1 .. Len(posted_list[s]) /\ j + 1 \in 1 .. Len(posted_list[s])
            /\ i + 1 < j + 1 /\ posted_list[s][i + 1] = x /\ posted_list[s][j + 1] = n
        BY <1>2, <2>1
      <3>2. QED
        BY <3>1 DEF Before
    <2>2. ASSUME Before(s, x, n)' PROVE Before(s, x, n)
      <3>1. CASE Queued(s, x)' /\ Coming(s, n)'
        BY <1>2, <3>1 DEF Before
      <3>2. QED
        BY <2>1, <2>2, <3>1 DEF Before
    <2>3. ASSUME Before(s, x, n)' PROVE x # m /\ n # m
      <3>1. Queued(s, x)' /\ (Queued(s, n)' \/ Coming(s, n)')
        BY <2>3 DEF Before, Queued
      <3>2. QED
        BY <1>2, <1>6, <3>1
    <2>4. ASSUME NEW i \in 1 .. Len(posted_list[s]), NEW j \in 1 .. Len(posted_list[s]), i < j,
                 posted_list[s][i] = x, posted_list[s][j] = n, x # m
          PROVE  Before(s, x, n)'
      <3>1. i # 1
        BY <1>2, <2>4
      <3>2. /\ i - 1 \in 1 .. Len(posted_list'[s]) /\ j - 1 \in 1 .. Len(posted_list'[s])
            /\ i - 1 < j - 1
        BY <1>2, <2>4, <3>1
      <3>3. /\ posted_list'[s][i - 1] = posted_list[s][(i - 1) + 1] /\ (i - 1) + 1 = i
            /\ posted_list'[s][j - 1] = posted_list[s][(j - 1) + 1] /\ (j - 1) + 1 = j
        BY <1>2, <3>2
      <3>4. posted_list'[s][i - 1] = x /\ posted_list'[s][j - 1] = n
        BY <2>4, <3>3
      <3>5. QED
        BY <3>2, <3>4 DEF Before
    <2>5. ASSUME Before(s, x, n), x # m, n # m PROVE Before(s, x, n)'
      <3>1. CASE Queued(s, x) /\ Coming(s, n)
        BY <1>2, <2>5, <3>1 DEF Before
      <3>2. QED
        BY <2>4, <2>5, <3>1 DEF Before
    <2>6. QED
      BY <2>2, <2>3, <2>5
  <1>9. \A t \in Subs, x, n \in Msgs : t # s => (Before(t, x, n)' <=> Before(t, x, n))
    BY <1>2 DEF Before
  <1>10. /\ Pending(p, s)' = Pending(p, s) \ {m} /\ m \in Pending(p, s)
         /\ \A q \in Producers, t \in Subs :
              ~(q = p /\ t = s) => Pending(q, t)' = Pending(q, t)
    BY <1>2, <1>3, <1>5, <1>6 DEF Pending
  <1>11. /\ InOrder(s)' = {e \in InOrder(s) : m \notin {e[1], e[2]}}
         /\ \A t \in Subs : t # s => InOrder(t)' = InOrder(t)
         /\ \A x \in Pending(p, s) : <<x, m>> \notin InOrder(s)
    <2>1. ASSUME NEW e \in Msgs \X Msgs
          PROVE  e \in InOrder(s)' <=> e \in InOrder(s) /\ m \notin {e[1], e[2]}
      BY <1>3, <1>8 DEF InOrder
    <2>2. InOrder(s)' \subseteq Msgs \X Msgs /\ InOrder(s) \subseteq Msgs \X Msgs
      BY DEF InOrder
    <2>3. \A t \in Subs : t # s => InOrder(t)' = InOrder(t)
      BY <1>3, <1>9 DEF InOrder
    <2>4. \A x \in Pending(p, s) : <<x, m>> \notin InOrder(s)
      BY <1>7 DEF InOrder, Pending
    <2>5. QED
      BY <2>1, <2>2, <2>3, <2>4
  <1>12. Promise!Take(p, s, m)
    <2> DEFINE P == [q \in Producers |-> [t \in Subs |-> Pending(q, t)]]
               O == [t \in Subs |-> InOrder(t)]
               C == [n \in Msgs |-> Owners(n)]
    <2>1. P' = [P EXCEPT ![p][s] = @ \ {m}] /\ m \in P[p][s]
      BY <1>10
    <2>2. O' = [O EXCEPT ![s] = {e \in @ : m \notin {e[1], e[2]}}]
          /\ \A x \in P[p][s] : <<x, m>> \notin O[s]
      BY <1>11
    <2>3. C' = C
      BY <1>2
    <2>4. QED
      BY <1>3, <2>1, <2>2, <2>3 DEF Promise!Take
  <1>13. QED
    BY <1>4, <1>12

\* free() looks at the count, or loads it.
LEMMA LookPromises ==
  ASSUME IInv, PosterKnown, NEW s \in Subs, ReadyToDie(s) \/ DecLoad(s)
  PROVE  PosterKnown' /\ UNCHANGED Promise!vars
  <1>1. /\ rpc[s] # "idle" /\ rpc'[s] # "idle"
        /\ \A t \in Subs : t # s => rpc'[t] = rpc[t]
        /\ UNCHANGED <<rmsg, posted_list, reader_count, free_list, heap, pvars, poster>>
    BY DEF ReadyToDie, DecLoad, IInv, TypeOK
  <1>2. \A n \in Msgs : Owners(n)' = Owners(n)
    BY <1>1, LookKeepsClaims
  <1>3. /\ \A t \in Subs, n \in Msgs : Coming(t, n)' <=> Coming(t, n)
        /\ \A t \in Subs, n \in Msgs : Queued(t, n)' <=> Queued(t, n)
        /\ UNCHANGED <<ppc, pmsg>>
    BY <1>1 DEF Coming, Queued, pvars
  <1>4. PosterKnown'
    BY <1>1, <1>3, PosterStays
  <1>5. QED
    BY <1>1, <1>2, <1>3, <1>4, NothingPromised

\* A reader lets go, in one of three ways.
LEMMA LetGoPromises ==
  ASSUME IInv, PosterKnown, NEW s \in Subs, rpc[s] # "idle", LetGo(s)
  PROVE  PosterKnown' /\ Promise!Release(s)
  <1>1. PICK m \in Msgs : m = rmsg[s]
    BY DEF IInv, TypeOK
  <1>2. /\ Owners(m)' = Owners(m) \ {s}
        /\ \A n \in Msgs : n # m => Owners(n)' = Owners(n)
        /\ UNCHANGED <<posted_list, ppc, pmsg, pnext>>
    BY <1>1, LetGoFacts
  <1>3. UNCHANGED poster /\ rmsg' = [rmsg EXCEPT ![s] = NoMsg] /\ rmsg[s] # NoMsg
    BY <1>1, MBoxAssumption DEF LetGo
  <1>4. /\ \A t \in Subs, n \in Msgs : Coming(t, n)' <=> Coming(t, n)
        /\ \A t \in Subs, n \in Msgs : Queued(t, n)' <=> Queued(t, n)
        /\ \A t \in Subs, x, n \in Msgs : Before(t, x, n)' <=> Before(t, x, n)
    BY <1>2 DEF Coming, Queued, Before
  <1>5. PosterKnown'
    BY <1>2, <1>3, <1>4, PosterStays
  <1>6. /\ \A q \in Producers, t \in Subs : Pending(q, t)' = Pending(q, t)
        /\ \A t \in Subs : InOrder(t)' = InOrder(t)
    BY <1>3, <1>4 DEF Pending, InOrder
  <1>7. Promise!Release(s)
    <2> DEFINE C == [n \in Msgs |-> Owners(n)]
    <2>1. C' = [C EXCEPT ![rmsg[s]] = @ \ {s}]
      BY <1>1, <1>2
    <2>2. /\ [q \in Producers |-> [t \in Subs |-> Pending(q, t)]]'
               = [q \in Producers |-> [t \in Subs |-> Pending(q, t)]]
          /\ [t \in Subs |-> InOrder(t)]' = [t \in Subs |-> InOrder(t)]
      BY <1>6
    <2>3. QED
      BY <1>3, <2>1, <2>2 DEF Promise!Release
  <1>8. QED
    BY <1>5, <1>7

LEMMA PromiseStarts == Init => PosterKnown /\ Promise!Init
  <1> SUFFICES ASSUME Init PROVE PosterKnown /\ Promise!Init
    OBVIOUS
  <1>1. /\ \A s \in Subs, m \in Msgs : ~Queued(s, m) /\ ~Coming(s, m) /\ ~Held(s, m)
        /\ \A s \in Subs : Len(posted_list[s]) = 0
    BY DEF Init, Queued, Coming, Held
  <1>2. PosterKnown
    BY <1>1 DEF Init, PosterKnown
  <1>3. \A s \in Subs, x, m \in Msgs : ~Before(s, x, m)
    BY <1>1 DEF Before
  <1>4. /\ \A p \in Producers, s \in Subs : Pending(p, s) = {}
        /\ \A s \in Subs : InOrder(s) = {}
        /\ \A m \in Msgs : Owners(m) = {}
    BY <1>1, <1>3 DEF Pending, InOrder, Owners, Claims
  <1>5. rmsg = [s \in Subs |-> NoMsg]
    BY DEF Init
  <1>6. Promise!Init
    BY <1>4, <1>5 DEF Promise!Init
  <1>7. QED
    BY <1>2, <1>6

LEMMA PromiseStep ==
  ASSUME IInv, PosterKnown, [Next]_vars
  PROVE  PosterKnown' /\ [Promise!Next]_(Promise!vars)
  <1>1. ASSUME NEW p \in Producers, ProducerStep(p)
        PROVE  PosterKnown' /\ [Promise!Next]_(Promise!vars)
    <2>1. CASE AllocPooled(p) \/ \E m \in Msgs : AllocNew(p, m)
      BY <2>1, FillPromises
    <2>2. CASE BeginPut(p)
      BY <2>2, BeginPutPromises DEF Promise!Next
    <2>3. CASE PostNext(p)
      BY <2>3, PostNextPromises
    <2>4. QED
      BY <1>1, <2>1, <2>2, <2>3 DEF ProducerStep
  <1>2. ASSUME NEW s \in Subs, ReaderStep(s)
        PROVE  PosterKnown' /\ [Promise!Next]_(Promise!vars)
    <2>1. CASE Get(s)
      BY <2>1, GetPromises DEF Promise!Next
    <2>2. CASE ReadyToDie(s) \/ DecLoad(s)
      BY <2>2, LookPromises
    <2>3. CASE DecStore(s) \/ RecycleBuf(s) \/ DeleteMsg(s)
      <3>1. rpc[s] # "idle" /\ LetGo(s)
        BY <2>3 DEF DecStore, RecycleBuf, DeleteMsg
      <3>2. QED
        BY <3>1, LetGoPromises DEF Promise!Next
    <2>4. QED
      BY <1>2, <2>1, <2>2, <2>3 DEF ReaderStep
  <1>3. CASE UNCHANGED vars
    <2>1. UNCHANGED <<posted_list, rmsg, poster, ppc, pmsg, pnext, rpc>>
      BY <1>3 DEF vars, pvars, rvars
    <2>2. /\ \A s \in Subs, m \in Msgs : Coming(s, m)' <=> Coming(s, m)
          /\ \A s \in Subs, m \in Msgs : Queued(s, m)' <=> Queued(s, m)
      BY <2>1 DEF Coming, Queued
    <2>3. \A m \in Msgs : Owners(m)' = Owners(m)
      BY <2>1, <2>2, ClaimsKept
    <2>4. PosterKnown'
      BY <2>1, <2>2, PosterStays
    <2>5. QED
      BY <2>1, <2>2, <2>3, <2>4, NothingPromised
  <1>4. QED
    BY <1>1, <1>2, <1>3 DEF Next

\* The mailbox implements the broadcast it promises: put() posts where it sets the
\* count, get() takes the oldest of its poster, free() ends the claim.
THEOREM MailboxKeepsPromise == Spec => ImplementsPromise
  <1>1. Init => PosterKnown /\ Promise!Init
    BY PromiseStarts
  <1>2. IInv /\ PosterKnown /\ [Next]_vars => PosterKnown' /\ [Promise!Next]_(Promise!vars)
    BY PromiseStep
  <1>3. QED
    BY <1>1, <1>2, MailboxInvariant, PTL DEF Spec, ImplementsPromise, Promise!Spec
=============================================================================
