----------------------------- MODULE SampleFifo -----------------------------
(***************************************************************************)
(* What a SoDa::CircularBuffer is for: a queue of samples that takes       *)
(* whatever arrives and forgets the oldest when it is full, so that a      *)
(* reader gets samples in order, without repetition, and misses only the   *)
(* oldest.  Samples are numbered as they arrive.  AudioPlayer implements   *)
(* this, for the sound device and for the recorder.                        *)
(***************************************************************************)
EXTENDS Integers, Sequences

CONSTANTS Cap,       \* samples the queue can hold
          MaxOffer   \* most samples that arrive at once

VARIABLES q,         \* the queue
          last       \* the number of the latest sample to arrive

vars == <<q, last>>

Init == q = <<>> /\ last = 0

New(n) == [i \in 1 .. n |-> last + i]
Newest(s) == IF Len(s) <= Cap THEN s ELSE SubSeq(s, Len(s) - Cap + 1, Len(s))

\* n samples arrive, behind those in the queue.
Offer(n) == q' = Newest(q \o New(n)) /\ last' = last + n

\* n samples arrive, and those in the queue are given up.
Renew(n) == q' = Newest(New(n)) /\ last' = last + n

\* The reader takes all there is, and n samples go past the queue.
Bypass(n) == q' = <<>> /\ last' = last + n

\* The reader takes n samples.
Take(n) == q' = SubSeq(q, n + 1, Len(q)) /\ UNCHANGED last

Next == \/ \E n \in 1 .. MaxOffer : Offer(n) \/ Renew(n) \/ Bypass(n)
        \/ \E n \in 1 .. Len(q) : Take(n)

Spec == Init /\ [][Next]_vars
=============================================================================
