----------------------------- MODULE MCTRSwitch -----------------------------
(* Values for checking TRSwitch with TLC. *)
EXTENDS TRSwitch

\* The threads that carry an over out.
Switching == {"CTRL", "RX", "TX", "UI"}
Everyone == Switching \cup {"BBRX", "BBTX", "CWTX"}

\* Gain commands that reach past both ends of the range, and inside it.
SomeKnobs == {-3, -1, 1}
NoKnobs == {}

\* Both modes (TRUE is CW) or voice alone; both duplexes or half duplex alone.
Both == BOOLEAN
Neither == {FALSE}
=============================================================================
