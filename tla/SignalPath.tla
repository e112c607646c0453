----------------------------- MODULE SignalPath -----------------------------
(* The blocks of the signal path: the receiver's resampler in front, and   *)
(* the filters and resamplers of the audio behind it.                      *)
EXTENDS OverlapSave, Polyphase

SpSpec == OsSpec /\ TdSpec

\* A stream that the server's filters or resamplers take block by block comes out
\* as if it had been taken in one piece, wherever it is cut.
Continuous == Seamless /\ CutAnywhere
=============================================================================
