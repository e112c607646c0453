---------------------------- MODULE MCMultiMBox ----------------------------
(* TLC instances of MultiMBox. *)
EXTENDS MultiMBox, TLC
CONSTANTS p1, p2, m1, m2, m3
TwoProducers == {p1, p2}
OneProducer == {p1}
TwoMsgs == {m1, m2}
ThreeMsgs == {m1, m2, m3}

\* Producers and storage are interchangeable; subscribers, posted to in id
\* order, are not.
Symmetry == Permutations(TwoProducers) \cup Permutations(ThreeMsgs)
=============================================================================
