------------------------------- MODULE Rigctl -------------------------------
(***************************************************************************)
(* The text protocol of the hamlib server.  A client writes lines, TCP     *)
(* hands them over in pieces cut anywhere, and the client's thread puts    *)
(* each line together again.  A line is split into words.  A word is the   *)
(* long name of a command, or its letters are commands one by one; a       *)
(* command that sets something reads its arguments from the words behind.  *)
(* All clients share one handler, its state and the GUI's reports to it.   *)
(* What becomes of the signals it emits is in FrontPanel, and how two      *)
(* threads interfere in the middle of a command.                           *)
(*                                                                         *)
(* A character of the text stands for itself, a name or a number for one   *)
(* character.                                                              *)
(***************************************************************************)
EXTENDS Integers, Sequences, FiniteSets, SequencesExt

CONSTANTS Users,    \* the clients
          Requests, \* lines: the text, and the commands that it means
          Told,     \* frequencies that the GUI reports
          VFOs, Numbers,  \* what the handler's members may hold
          MaxLines  \* bound: lines and reports

VARIABLES wire,             \* client -> characters on their way to the server
          current_command,  \* client's thread -> the line so far
          rig,              \* the handler's members
          replies,          \* client -> what it has been answered
          written,          \* client -> requests whose end has not been read
          done,             \* requests read to their end, reports: in order
          n_lines           \* bound

rcVars == <<wire, current_command, rig, replies, written, done, n_lines>>

Newline == "\n"

-----------------------------------------------------------------------------
(* The commands.                                                           *)

SetCommands == [V |-> "vfo", F |-> "freq", I |-> "split_freq", M |-> "mode", X |-> "mode",
  T |-> "ptt", S |-> "split_vfo", set_vfo |-> "vfo", set_freq |-> "freq",
  set_mode |-> "mode", set_ptt |-> "ptt", set_split_vfo |-> "split_vfo"]

GetCommands == [v |-> "vfo", f |-> "freq", i |-> "split_freq", m |-> "mode", x |-> "mode",
  t |-> "ptt", s |-> "split_vfo", q |-> "quit", Q |-> "quit", get_vfo |-> "vfo",
  get_freq |-> "freq", get_mode |-> "mode", get_ptt |-> "ptt", get_split_vfo |-> "split_vfo"]

\* Words that begin with g, s or a backslash are taken whole.
Whole == {k \in DOMAIN SetCommands \cup DOMAIN GetCommands : Len(k) > 1} \cup {"s"}

\* How many words a set command reads.
Arguments(cmd, in) ==
  CASE cmd = "mode" -> IF in # <<>> /\ in[1] = <<"?">> THEN 1 ELSE 2
    [] cmd = "split_vfo" -> 2
    [] OTHER -> 1

\* What it changes; for PTT and the frequencies it emits a signal as well, for the
\* mode nothing else (and that signal is not connected).
Obey(r, cmd, a) ==
  CASE cmd = "vfo" -> [r EXCEPT !.current_VFO = a[1]]
    [] cmd = "freq" -> IF ~r.split_enabled \/ r.current_VFO = "VFOA"
                         THEN [r EXCEPT !.rx_freq = a[1]] ELSE [r EXCEPT !.tx_freq = a[1]]
    [] cmd = "split_freq" -> [r EXCEPT !.tx_freq = a[1]]
    [] cmd = "ptt" -> [r EXCEPT !.tx_on = a[1] # "0"]
    [] cmd = "split_vfo" -> [r EXCEPT !.split_enabled = a[1] = "1", !.tx_VFO = a[2]]
    [] cmd = "mode" -> r

Modes4Hamlib == {"LSB", "USB", "AMS", "FM", "CW", "CWR"}
SetReplies(cmd, a) ==
  CASE cmd = "mode" /\ a[1] = "?" -> <<"modes", "RPRT 0">>
    [] cmd = "mode" /\ a[1] \notin Modes4Hamlib -> <<"RPRT EINVAL">>
    [] OTHER -> <<"RPRT 0">>

Bit(b) == IF b THEN "1" ELSE "0"
GetReplies(r, cmd) ==
  CASE cmd = "vfo" -> <<r.current_VFO>>
    [] cmd = "freq" -> <<r.rx_freq>>
    [] cmd = "split_freq" -> <<r.tx_freq>>
    [] cmd = "mode" -> <<"mode", "6000">>
    [] cmd = "ptt" -> <<Bit(r.tx_on), "RPRT 0">>
    [] cmd = "split_vfo" -> <<Bit(r.split_enabled), r.tx_VFO, "RPRT 0">>
    [] cmd = "quit" -> <<"q">>

-----------------------------------------------------------------------------
(* A line.  State of its reading: the handler, the words left, the answers.*)

\* A command whose name is key.
Execute(s, key) ==
  IF key \in DOMAIN SetCommands
    THEN LET cmd == SetCommands[key]
             n   == Arguments(cmd, s.in)
             a   == [k \in 1 .. n |-> IF k <= Len(s.in) THEN s.in[k][1] ELSE ""]
         IN  [rig |-> Obey(s.rig, cmd, a), in |-> SubSeq(s.in, n + 1, Len(s.in)),
              out |-> s.out \o SetReplies(cmd, a)]
  ELSE IF key \in DOMAIN GetCommands
    THEN [s EXCEPT !.out = @ \o GetReplies(s.rig, GetCommands[key])]
  ELSE [s EXCEPT !.out = Append(@, "RPRT EINVAL")]

NextWord(s) ==
  LET word == Head(s.in)
      t    == [s EXCEPT !.in = Tail(@)]
  IN  IF word[1] \notin Whole THEN FoldLeft(Execute, t, word)
      ELSE IF Len(word) = 1 THEN Execute(t, word[1])
      ELSE [t EXCEPT !.out = Append(@, "RPRT EINVAL")]

\* Until no word is left: no more rounds than there are words.
Process(s) ==
  FoldLeft(LAMBDA t, word : IF t.in = <<>> THEN t ELSE NextWord(t), s, s.in)

Words(line) ==
  SelectSeq(FoldLeft(LAMBDA ws, x : IF x = " " THEN Append(ws, <<>>)
                                    ELSE [ws EXCEPT ![Len(ws)] = Append(@, x)],
                     << <<>> >>, line),
            LAMBDA w : w # <<>>)

ProcessCommand(r, line) == Process([rig |-> r, in |-> Words(line), out |-> <<>>])

-----------------------------------------------------------------------------
\* Slip: what has come of a line is forgotten at the end of a piece.
FirstOfPieceAfresh(line) == <<>>
FirstOfPiece(line) == line

\* One character of a piece, in readyRead's loop.
Feed(s, x) ==
  IF x # Newline THEN [s EXCEPT !.line = Append(@, x)]
  ELSE LET p == ProcessCommand(s.rig, s.line)
       IN  [line |-> <<>>, rig |-> p.rig, out |-> s.out \o p.out]

Fed(s, text) ==
  LET upTo[i \in 0 .. Len(text)] == IF i = 0 THEN s ELSE Feed(upTo[i - 1], text[i])
  IN  upTo

ReadyRead(c) ==
  \E n \in 1 .. Len(wire[c]) :
    LET ends == Cardinality({i \in 1 .. n : wire[c][i] = Newline})
        s == Fed([line |-> FirstOfPiece(current_command[c]), rig |-> rig, out |-> <<>>],
                 wire[c])[n]
    IN  /\ wire' = [wire EXCEPT ![c] = SubSeq(@, n + 1, Len(@))]
        /\ current_command' = [current_command EXCEPT ![c] = s.line]
        /\ rig' = s.rig
        /\ replies' = [replies EXCEPT ![c] = @ \o s.out]
        /\ written' = [written EXCEPT ![c] = SubSeq(@, ends + 1, Len(@))]
        /\ done' = done \o [k \in 1 .. ends |-> [by |-> c, means |-> written[c][k].means]]
        /\ UNCHANGED n_lines

Counted == n_lines < MaxLines /\ n_lines' = n_lines + 1

Writes(c, req) ==
  /\ Counted
  /\ wire' = [wire EXCEPT ![c] = @ \o Append(req.text, Newline)]
  /\ written' = [written EXCEPT ![c] = Append(@, req)]
  /\ UNCHANGED <<current_command, rig, replies, done>>

\* reportRXFreq, on the GUI's thread.
ReportRXFreq(f) ==
  /\ Counted
  /\ rig' = [rig EXCEPT !.rx_freq = f]
  /\ done' = Append(done, [by |-> "gui", means |-> f])
  /\ UNCHANGED <<wire, current_command, replies, written>>

NewRig == [current_VFO |-> "VFOA", tx_VFO |-> "VFOB", split_enabled |-> TRUE,
           rx_freq |-> "1e9", tx_freq |-> "1e9", tx_on |-> FALSE]

RcInit == /\ wire = [c \in Users |-> <<>>] /\ current_command = wire
          /\ replies = wire /\ written = wire
          /\ rig = NewRig
          /\ done = <<>> /\ n_lines = 0

RcNext == \/ \E c \in Users : ReadyRead(c) \/ \E req \in Requests : Writes(c, req)
          \/ \E f \in Told : ReportRXFreq(f)

RcSpec == RcInit /\ [][RcNext]_rcVars

-----------------------------------------------------------------------------
\* What a command that is given, not written, does.
Given(s, c) ==
  IF c.set THEN [rig |-> Obey(s.rig, c.cmd, c.args), out |-> s.out \o SetReplies(c.cmd, c.args)]
  ELSE [s EXCEPT !.out = @ \o IF c.cmd = "none" THEN <<"RPRT EINVAL">>
                                ELSE GetReplies(s.rig, c.cmd)]

Obeyed(r, means) == FoldLeft(Given, [rig |-> r, out |-> <<>>], means)

InTurn(s, d) ==
  IF d.by = "gui" THEN [s EXCEPT !.rig.rx_freq = d.means]
  ELSE LET o == Obeyed(s.rig, d.means)
       IN  [rig |-> o.rig, replies |-> [s.replies EXCEPT ![d.by] = @ \o o.out]]

\* All that was asked for, in turn.
AllInTurn(asks) ==
  LET upTo[i \in 0 .. Len(asks)] ==
        IF i = 0 THEN [rig |-> NewRig, replies |-> [c \in Users |-> <<>>]]
        ELSE InTurn(upTo[i - 1], asks[i])
  IN  upTo[Len(asks)]

Rigs == [current_VFO : VFOs, tx_VFO : VFOs, split_enabled : BOOLEAN,
         rx_freq : Numbers, tx_freq : Numbers, tx_on : BOOLEAN]

\* A request is one line, and that line, alone and in one piece, is understood by
\* any handler.
ASSUME RigctlAssumption ==
  /\ "gui" \notin Users
  /\ NewRig \in Rigs /\ Told \subseteq Numbers
  /\ \A req \in Requests :
       /\ req.text \in Seq(STRING \ {Newline})
       /\ \A r \in Rigs :
            LET p == ProcessCommand(r, req.text)
                o == Obeyed(r, req.means)
            IN  p.rig = o.rig /\ p.out = o.out /\ o.rig \in Rigs /\ o.out \in Seq(STRING)

\* The text is no more than a way to give commands: wherever TCP cuts it, however
\* commands are joined into words and lines, and whatever other clients write
\* meanwhile, the handler and every client's answers are those of the commands
\* themselves, in the order in which the lines were read to their end.
TextObeyed ==
  LET s == AllInTurn(done) IN rig = s.rig /\ replies = s.replies
=============================================================================
