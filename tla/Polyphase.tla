------------------------------ MODULE Polyphase ------------------------------
(***************************************************************************)
(* The receiver's resampler, TDResampler625x48: four stages, each of which *)
(* makes L samples of M by taking every output from one of L interleaved   *)
(* filters.  k says which, and n where in the buffer its newest sample is; *)
(* both go on from one buffer to the next, and so does a copy of the last  *)
(* samples, for the first outputs of the next buffer.                      *)
(*                                                                         *)
(* As in OverlapSave a sample is its number and an output the set of the   *)
(* <<coefficient, sample>> products that it sums; gain is left out.        *)
(***************************************************************************)
EXTENDS Integers, FiniteSetsExt

CONSTANTS InLens,     \* lengths of the buffers resampled
          MaxBuffers  \* bound: buffers resampled

VARIABLES td,          \* the stage: [M, L, taps]
          k, n,        \* phase, and index of the newest sample of the next output
          prefix_buf,  \* 0 .. 2 * taps - 1 -> sample
          td_out,      \* what the last apply() wrote
          made,        \* outputs before that
          fed,         \* samples resampled
          buffers

tdVars == <<td, k, n, prefix_buf, td_out, made, fed, buffers>>

Silence == -1   \* T(0)
Outside == -2   \* memory beyond the two buffers

-----------------------------------------------------------------------------
RationalResampler(M, L, filter_len) == [M |-> M, L |-> L, taps |-> filter_len \div L]

Stages == {RationalResampler(5, 1, 35), RationalResampler(5, 3, 30),
           RationalResampler(5, 4, 32), RationalResampler(5, 4, 40)}

ASSUME PolyphaseAssumption ==
  /\ InLens \subseteq Nat
  /\ \A len \in InLens, r \in Stages : len >= r.taps

\* Room for the output: between the stages a few samples more than the share of
\* the input, behind the last none, where the lengths divide.
Rooms(len) == {3 + (len * td.L) \div td.M}
                \cup IF (len * td.L) % td.M = 0 THEN {(len * td.L) \div td.M} ELSE {}

\* bumpCounters(), m times.
PhaseAt(m) == (k + m * td.M) % td.L
NewestAt(m) == n + (k + m * td.M) \div td.L

\* Slip: the input alone is used one output too soon.
PastPrefixEarly(at) == at > td.taps - 3

\* The first output comes out of the prefix buffer in any case.
PastPrefix(at) == at > td.taps - 2

Sample(m, i, prefix, in) ==
  LET x == NewestAt(m) - i
      there == m > 0 /\ PastPrefix(NewestAt(m))
  IN  CASE there /\ x \in DOMAIN in -> in[x]
        [] ~there /\ td.taps + x \in DOMAIN prefix -> prefix[td.taps + x]
        [] OTHER -> Outside

TdApply(len, max_outlen) ==
  LET in == [i \in 0 .. len - 1 |-> fed + i]
      prefix == [i \in DOMAIN prefix_buf |->
                   IF i < td.taps THEN prefix_buf[i] ELSE in[i - td.taps]]
      steps == 0 .. max_outlen - 1
      count == Cardinality({m \in steps : NewestAt(m) < len})
      sum(m) == {<<i * td.L + PhaseAt(m), Sample(m, i, prefix, in)>> :
                   i \in 0 .. td.taps - 1}
  IN  /\ buffers < MaxBuffers
      /\ td_out' = [m \in 0 .. count - 1 |-> {p \in sum(m) : p[2] # Silence}]
      /\ prefix_buf' = [i \in DOMAIN prefix |->
                          IF i < td.taps THEN in[i + len - td.taps] ELSE prefix[i]]
      /\ k' = PhaseAt(count)
      /\ n' = NewestAt(count) - len
      /\ made' = made + Cardinality(DOMAIN td_out)
      /\ fed' = fed + len
      /\ buffers' = buffers + 1
      /\ UNCHANGED td

TdInit ==
  /\ td \in Stages
  /\ k = 0 /\ n = 0
  /\ prefix_buf = [i \in 0 .. 2 * td.taps - 1 |-> Silence]
  /\ td_out = <<>> /\ made = 0 /\ fed = 0 /\ buffers = 0

\* No resampler in use.
TdIdle ==
  /\ td = RationalResampler(1, 1, 1)
  /\ k = 0 /\ n = 0 /\ prefix_buf = <<>> /\ td_out = <<>> /\ made = 0 /\ fed = 0
  /\ buffers = MaxBuffers

TdNext == \E len \in InLens : \E max_outlen \in Rooms(len) : TdApply(len, max_outlen)

TdSpec == TdInit /\ [][TdNext]_tdVars

-----------------------------------------------------------------------------
\* However a stream is cut into buffers, the resampled stream is that of one
\* long buffer: the phase, the position and the copied samples carry over, no
\* product is read beside the buffers, and no output is left for later.
CutAnywhere ==
  LET all == made + Cardinality(DOMAIN td_out) IN
  /\ \A j \in DOMAIN td_out :
       LET J == (made + j) * td.M IN
       td_out[j] = {p \in {<<i * td.L + (J % td.L), J \div td.L - i>> :
                             i \in 0 .. td.taps - 1} : p[2] >= 0}
  /\ (all * td.M) \div td.L >= fed
  /\ all > 0 => ((all - 1) * td.M) \div td.L < fed
=============================================================================
