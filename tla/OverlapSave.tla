---------------------------- MODULE OverlapSave -----------------------------
(***************************************************************************)
(* The filters and resamplers of the signal path.  Each takes a stream in  *)
(* blocks and convolves it with an impulse response by way of the FFT: the *)
(* block goes behind what was saved of the one before, the product of the  *)
(* transforms is a circular convolution, and the outputs that wrapped      *)
(* around are thrown away.  A sample is its number in the stream, and an   *)
(* output the set of <<tap, sample>> products that it sums.                *)
(*                                                                         *)
(* Gains, the taps' values and rounding are left out, and so is            *)
(* HilbertTransformer's second path, the delay that it equalises.          *)
(***************************************************************************)
EXTENDS Integers, FiniteSetsExt

CONSTANTS Lengths,    \* filter lengths asked for
          Blocks,     \* block lengths of the filters
          RfBlocks, AudioBlocks,  \* buffer sizes given to the two resampler chains
          MaxBlocks   \* bound: blocks filtered

\* No length is beyond the transforms that guessN and the doubling find.
ASSUME OverlapAssumption ==
  /\ Lengths \cup Blocks \cup RfBlocks \cup AudioBlocks \subseteq Nat \ {0}
  /\ \A len \in Lengths \cup Blocks \cup RfBlocks \cup AudioBlocks : len <= 2^15
  /\ MaxBlocks \in Nat

VARIABLES filter,  \* the filter: what its constructor computed
          input,   \* fft_input, inbuf: 0 .. N-1 -> sample
          out,     \* the caller's output buffer after apply()
          blocks   \* blocks filtered

osVars == <<filter, input, out, blocks>>

Zero == -1  \* a sample that was written as 0.0
Junk == -2  \* memory that was never written

-----------------------------------------------------------------------------
(* The dimensions: N of the transform, M of a block, Q of the overlap.     *)

\* Multiples of few primes, of which guessN takes the least that is enough.
Multiple(a, b, c) == 2^a * 3^b * 5^c
Smooth == {Multiple(a, b, c) : a \in 0 .. 15, b \in 0 .. 3, c \in 0 .. 3} \ {1}

GuessN(M, L) == Min({g \in Smooth : g >= M + L - 1})

\* The windowed OSFilter; the response is cut back to Q taps after the window.
OSFilter(M, L) ==
  LET N == GuessN(M, L)
      Q == N - M
  IN  [N |-> N, M |-> M, Q |-> Q, iM |-> 1, dN |-> 1, taps |-> 0 .. Q - 1,
       zeroed |-> 0 .. Q - 2]

\* The length doubles from 4 * L; the odd taps about Q/2 are the transform's.
HilbertTransformer(M, L) ==
  LET N == Min({n \in {4 * L * 2^d : d \in 0 .. 15} : n >= M + L})
      Q == N - M + 1
      odd == {i \in 0 .. (Q \div 2) - 1 : i % 2 = 1}
  IN  [N |-> N, M |-> M, Q |-> Q, iM |-> 1, dN |-> 1,
       taps |-> {(Q \div 2) + i : i \in odd} \cup {(Q \div 2) - i : i \in odd},
       zeroed |-> 0 .. Q - 1]

\* The low-pass response is shifted to be symmetric about Q/2 and cut there.
LowPassTaps(Q) == 0 .. 2 * (Q \div 2) - 1

\* iM samples out for dN in.
ReSampler(iM, dN, M, L) ==
  LET N == GuessN(M, L)
      Q == N - M
  IN  [N |-> N, M |-> M, Q |-> Q, iM |-> iM, dN |-> dN,
       taps |-> LowPassTaps(Q), zeroed |-> 0 .. N - 1]

\* The constructor throws unless the buffer is a multiple of its ratio's side.
Divides(size, unit) == size % unit = 0

\* The stages of the two chains, 48 to 625 ks/s and back.
ReSample48to625(M, L) ==
  LET s2 == (M * 5) \div 4
      s3 == (s2 * 5) \div 4
      s4 == (s3 * 5) \div 3
  IN  IF Divides(M, 48)
        THEN {ReSampler(5, 4, M, L), ReSampler(5, 4, s2, L),
              ReSampler(5, 3, s3, L), ReSampler(5, 1, s4, L)}
        ELSE {}

ReSample625to48(M, L) ==
  LET s2 == M \div 5
      s3 == (s2 * 3) \div 5
      s4 == (s3 * 4) \div 5
  IN  IF Divides(M, 625)
        THEN {ReSampler(1, 5, M, L), ReSampler(3, 5, s2, L),
              ReSampler(4, 5, s3, L), ReSampler(4, 5, s4, L)}
        ELSE {}

Filters ==
  (UNION {{OSFilter(M, L), HilbertTransformer(M, L)} : M \in Blocks, L \in Lengths})
    \cup (UNION {ReSample48to625(M, L) : M \in AudioBlocks, L \in Lengths})
    \cup (UNION {ReSample625to48(M, L) : M \in RfBlocks, L \in Lengths})

-----------------------------------------------------------------------------
(* One block.                                                              *)

\* The samples behind the saved ones; f.Q - 1 is where the block begins.
Filled(f, buf) ==
  [n \in 0 .. f.N - 1 |->
     IF n \in f.Q - 1 .. f.Q + f.M - 2 THEN buf[n - (f.Q - 1)] ELSE input[n]]

\* What the inverse transform leaves at index u of its iM interleaved results:
\* phase u % iM of the filter, every iM-th tap, at time u \div iM.
Convolved(f, in, u) ==
  LET term(t) == <<t, in[((u \div f.iM) - (t \div f.iM)) % f.N]>>
  IN  {p \in {term(t) : t \in {t \in f.taps : t % f.iM = u % f.iM}} : p[2] # Zero}

First(f) == f.Q - 1

\* Slip: the saved samples end one short of the block's end.
TailShort(f) == f.M - f.Q
TailIndex(f) == f.M - (f.Q - 1)

Saved(f, filled, buf) ==
  LET read(i) == IF i \in DOMAIN buf THEN buf[i] ELSE Junk
  IN  [n \in 0 .. f.N - 1 |-> IF n < f.Q - 1 THEN read(TailIndex(f) + n) ELSE filled[n]]

\* The first Q - 1 results are discarded, and every dN-th of the others is kept.
Kept(f, filled) ==
  [j \in 0 .. ((f.M * f.iM) \div f.dN) - 1 |-> Convolved(f, filled, First(f) + j * f.dN)]

\* The tail is saved before the outputs are written: inbuf may be outbuf.
Apply ==
  LET f == filter
      buf == [i \in 0 .. f.M - 1 |-> blocks * f.M + i]
      filled == Filled(f, buf)
  IN  /\ blocks < MaxBlocks
      /\ out' = Kept(f, filled)
      /\ input' = Saved(f, filled, buf)
      /\ blocks' = blocks + 1
      /\ UNCHANGED filter

\* A filter longer than its blocks has no tail to save; the radio has none.
OsInit ==
  /\ filter \in {f \in Filters : f.Q - 1 <= f.M}
  /\ input = [n \in 0 .. filter.N - 1 |-> IF n \in filter.zeroed THEN Zero ELSE Junk]
  /\ out = <<>>
  /\ blocks = 0

\* No filter in use.
OsIdle == filter = ReSampler(1, 1, 1, 1) /\ input = <<>> /\ out = <<>> /\ blocks = MaxBlocks

OsNext == Apply

OsSpec == OsInit /\ [][OsNext]_osVars

-----------------------------------------------------------------------------
\* Output number J of the stream: the taps that meet a sample when zeros are
\* stuffed between the samples and every dN-th result is kept.
Wanted(f, J) ==
  LET meets(t) == J * f.dN - (f.iM - 1) * (f.Q - 1) - t
  IN  {<<t, meets(t) \div f.iM>> :
         t \in {t \in f.taps : meets(t) >= 0 /\ meets(t) % f.iM = 0}}

\* A stream filtered block by block is the stream filtered in one piece: at every
\* boundary no product is missing, repeated, taken from the wrapped end of the
\* transform or from memory nobody wrote, and the resamplers neither lose nor
\* gain a sample however long they run.
Seamless ==
  \A j \in DOMAIN out :
    out[j] = Wanted(filter,
                    ((blocks - 1) * filter.M * filter.iM) \div filter.dN + j)
=============================================================================
