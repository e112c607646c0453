---------------------------- MODULE MCFrontPanel ----------------------------
(* The GUI's memories, and its plots.  Of the panel, two bands, one with a *)
(* satellite offset that is stored and not enabled, and a third that the   *)
(* operator may create, between them in the order.  Of the log, a table so *)
(* small that its rows run out.  Of the plots, a centre on the data and    *)
(* another band to go to.  Of the hamlib text, lines of several commands.  *)
(* Init chooses between them.                                              *)
EXTENDS FrontPanel, LogBook, Display, Rigctl

MCOrder == <<"2m", "4m", "6m">>

Entry(lo, hi, rx, tx, mode, off, ena) ==
  [lo |-> lo, hi |-> hi, rx |-> rx, tx |-> tx, mode |-> mode, off |-> off, ena |-> ena]

MCFileBands == [n \in {"2m", "6m"} |->
                  IF n = "2m" THEN Entry(1, 6, 4, 5, "USB", 1, TRUE)
                  ELSE Entry(10, 15, 11, 14, "CW", 2, FALSE)]

MCNewLimits == [n \in {"4m"} |-> <<5, 8>>]

MCShapes == {<<0, 1>>, <<-1, 1>>}

MCStartNames == <<"first", "second">>

SetTo(cmd, args) == [set |-> TRUE, cmd |-> cmd, args |-> args]
GetOf(cmd) == [set |-> FALSE, cmd |-> cmd, args |-> <<>>]
Asking(text, means) == [text |-> text, means |-> means]

MCRequests ==
  {Asking(<<"F", " ", "7">>, <<SetTo("freq", <<"7">>)>>),
   Asking(<<"f", "T", " ", "1">>, <<GetOf("freq"), SetTo("ptt", <<"1">>)>>),
   Asking(<<"V", " ", "VFOB", " ", " ", "set_freq", " ", "9">>,
          <<SetTo("vfo", <<"VFOB">>), SetTo("freq", <<"9">>)>>),
   Asking(<<"S", " ", "0", " ", "VFOA", " ", "s", " ", "z", "i">>,
          <<SetTo("split_vfo", <<"0", "VFOA">>), GetOf("split_vfo"), GetOf("none"),
            GetOf("split_freq")>>),
   Asking(<<"M", "t", " ", "?", " ", "m">>,
          <<SetTo("mode", <<"?">>), GetOf("ptt"), GetOf("mode")>>),
   Asking(<<"I", " ", "8", " ", "M", "v", " ", "FMS", " ", "2400">>,
          <<SetTo("split_freq", <<"8">>), SetTo("mode", <<"FMS", "2400">>), GetOf("vfo")>>)}

VARIABLE part

MCInit == /\ part \in {"panel", "log", "display", "text"}
          /\ Init /\ LbInit /\ DisplayInit /\ RcInit
          /\ part # "display" => wfall.marker = CHOOSE g \in Unset : TRUE
          /\ part # "panel" => panel.offset = CHOOSE g \in Garbage : TRUE

MCNext ==
  /\ UNCHANGED part
  /\ \/ part = "panel" /\ Next /\ UNCHANGED <<lbVars, displayVars, rcVars>>
     \/ part = "log" /\ LbNext /\ UNCHANGED <<vars, displayVars, rcVars>>
     \/ part = "display" /\ DisplayNext /\ UNCHANGED <<vars, lbVars, rcVars>>
     \/ part = "text" /\ RcNext /\ UNCHANGED <<vars, lbVars, displayVars>>

MCSpec == MCInit /\ [][MCNext]_<<vars, lbVars, displayVars, rcVars, part>>
=============================================================================
