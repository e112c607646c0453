------------------------------ MODULE LogBook ------------------------------
(***************************************************************************)
(* The contact log of the GUI: a table on the screen, and a file to which  *)
(* every change of a cell is appended at once, so that reading the file    *)
(* again brings the table back after a crash.  A new file is begun at each *)
(* start; the operator may save the table to another, which the changes    *)
(* go to from then on, and read any file in, behind what there is.         *)
(* Reading a file that is being written to never ends; it is left out.     *)
(***************************************************************************)
EXTENDS Integers, Sequences, SequencesExt, FiniteSetsExt

CONSTANTS LastCol,      \* columns are 0 .. LastCol
          Texts,
          StartRows,    \* rowCount of the form
          Margin, Grow, \* rows kept in hand, and rows added
          StartNames,   \* the file of the first start, of the second, ...
          SaveNames,    \* what the operator may call a file
          MaxOps        \* bound: what the operator does

ASSUME LogAssumption == /\ LastCol \in Nat /\ StartRows \in Nat /\ MaxOps \in Nat
                        /\ Margin \in Nat /\ Grow \in Nat \ {0}
                        /\ Margin < StartRows
                        /\ SaveNames \cap ToSet(StartNames) = {}

VARIABLES
  items,         \* <<row, column>> -> text, for the cells that have an item
  rowCount, next_used_row,
  files,         \* name -> lines, for the files there are
  log_file_out,  \* the name of the open file, or "none"
  todo,          \* the steps the slot at work has still to take
  starts,        \* of the program; it runs or it does not
  running,
  logged,        \* rows that logContact or readLogReport has filled
  blank_read,    \* a file without a line has been read
  n_ops

lbTable == <<items, rowCount, next_used_row, logged, blank_read>>
lbVars == <<lbTable, files, log_file_out, todo, starts, running, n_ops>>

With(f, x, v) == [y \in DOMAIN f \cup {x} |-> IF y = x THEN v ELSE f[y]]

Line(row, col, text) == [row |-> row, col |-> col, text |-> text]
NoItems == [at \in {} |-> ""]
Written(f, lines) ==
  IF f = "none" THEN files ELSE [files EXCEPT ![f] = @ \o lines]

\* The table that lines bring back, from nothing.
Replay(lines) ==
  [at \in {<<l.row, l.col>> : l \in ToSet(lines)} |->
     lines[Max({i \in DOMAIN lines : <<lines[i].row, lines[i].col>> = at})].text]

-----------------------------------------------------------------------------
(* The steps of the slots.                                                 *)

Step(op) == running /\ todo # <<>> /\ Head(todo).op = op /\ todo' = Tail(todo)

Set(row, col, text) == [op |-> "set", line |-> Line(row, col, text)]
Load(l, row) == [op |-> "load", line |-> Line(row, l.col, l.text)]
NeedRow(row) == [op |-> "need", row |-> row]
NextRow(row) == [op |-> "next", row |-> row]
DumpCell(row, col) == [op |-> "dump", at |-> <<row, col>>]

\* setItem, and recordChange, which cellChanged calls.  A row that is not there
\* is not made.
PutItem(l, rows) ==
  IF l.row >= rows THEN UNCHANGED <<items, files, logged>>
  ELSE /\ items' = With(items, <<l.row, l.col>>, l.text)
       /\ files' = Written(log_file_out, <<l>>)
       /\ logged' = logged \cup {l.row}

\* Rows in hand run out: more are added, once.
Enough(row) == IF row + Margin > rowCount THEN rowCount + Grow ELSE rowCount

SetItem ==
  /\ Step("set")
  /\ PutItem(Head(todo).line, rowCount)
  /\ UNCHANGED <<rowCount, next_used_row, blank_read, log_file_out, starts, running, n_ops>>

\* A line of a file that is read in.
LoadItem ==
  /\ Step("load")
  /\ rowCount' = Enough(Head(todo).line.row)
  /\ PutItem(Head(todo).line, rowCount')
  /\ UNCHANGED <<next_used_row, blank_read, log_file_out, starts, running, n_ops>>

AddRows ==
  /\ Step("need")
  /\ rowCount' = Enough(Head(todo).row)
  /\ UNCHANGED <<items, next_used_row, logged, blank_read, files, log_file_out,
                 starts, running, n_ops>>

MoveOn ==
  /\ Step("next")
  /\ next_used_row' = Head(todo).row
  /\ UNCHANGED <<items, rowCount, logged, blank_read, files, log_file_out,
                 starts, running, n_ops>>

\* Slip: a row without a date counts as an empty one.
FilledByDate == {at \in DOMAIN items : <<at[1], 0>> \in DOMAIN items}
Filled == DOMAIN items

\* A turn of writeLogReport's loops, into the file that setLogFile has emptied.
Dump ==
  /\ Step("dump")
  /\ LET at == Head(todo).at
     IN  files' = IF at \in Filled THEN Written(log_file_out, <<Line(at[1], at[2], items[at])>>)
                  ELSE files
  /\ UNCHANGED <<lbTable, log_file_out, starts, running, n_ops>>

-----------------------------------------------------------------------------
(* What the operator does.                                                 *)

Operates == /\ running /\ todo = <<>>
            /\ n_ops < MaxOps /\ n_ops' = n_ops + 1
            /\ UNCHANGED <<starts, running>>

LogContact(text) ==
  /\ Operates
  /\ todo' = [i \in 1 .. LastCol + 1 |-> Set(next_used_row, i - 1, text)]
               \o <<NextRow(next_used_row + 1), NeedRow(next_used_row + 1)>>
  /\ UNCHANGED <<lbTable, files, log_file_out>>

\* A cell is edited in place.
Edit(row, col, text) ==
  /\ Operates /\ row < rowCount
  /\ items' = With(items, <<row, col>>, text)
  /\ files' = Written(log_file_out, <<Line(row, col, text)>>)
  /\ UNCHANGED <<rowCount, next_used_row, logged, blank_read, log_file_out, todo>>

\* Each line behind the rows in use, which end with the last row of the file; of
\* a file without lines that is the row before the first of all.
ReadLogReport(name) ==
  /\ Operates /\ name \in DOMAIN files /\ name # log_file_out
  /\ LET lines == files[name]
         row(l) == l.row + next_used_row
         last == Max({-1} \cup {row(l) : l \in ToSet(lines)})
     IN  /\ todo' = Append([i \in DOMAIN lines |-> Load(lines[i], row(lines[i]))],
                           NextRow(last + 1))
         /\ blank_read' = (blank_read \/ lines = <<>>)
  /\ UNCHANGED <<items, rowCount, next_used_row, logged, files, log_file_out>>

\* setLogFile: the file is made, or emptied, if it can be opened.
SetLogFile(name, opens) ==
  IF opens THEN files' = With(files, name, <<>>) /\ log_file_out' = name
  ELSE log_file_out' = "none" /\ UNCHANGED files

WriteLogReport(name, opens) ==
  /\ Operates
  /\ SetLogFile(name, opens)
  /\ LET cols == LastCol + 1
     IN  todo' = [k \in 1 .. rowCount * cols |-> DumpCell((k - 1) \div cols, (k - 1) % cols)]
  /\ UNCHANGED lbTable

Start ==
  /\ ~running /\ starts < Len(StartNames)
  /\ starts' = starts + 1 /\ running' = TRUE
  /\ items' = NoItems /\ rowCount' = StartRows /\ next_used_row' = 0
  /\ logged' = {} /\ blank_read' = FALSE
  /\ \E opens \in BOOLEAN : SetLogFile(StartNames[starts'], opens)
  /\ UNCHANGED <<todo, n_ops>>

\* The program is killed, in the middle of a slot or not.
Killed ==
  /\ running /\ running' = FALSE /\ todo' = <<>> /\ log_file_out' = "none"
  /\ UNCHANGED <<lbTable, files, starts, n_ops>>

\* ~LogTable: an empty file is removed.
Quit ==
  /\ running /\ todo = <<>> /\ running' = FALSE /\ log_file_out' = "none"
  /\ files' = [f \in {g \in DOMAIN files : g = log_file_out => files[g] # <<>>} |-> files[f]]
  /\ UNCHANGED <<lbTable, todo, starts, n_ops>>

-----------------------------------------------------------------------------
LbInit == /\ items = NoItems /\ rowCount = StartRows /\ next_used_row = 0
          /\ logged = {} /\ blank_read = FALSE
          /\ files = [f \in {} |-> <<>>] /\ log_file_out = "none" /\ todo = <<>>
          /\ starts = 0 /\ running = FALSE /\ n_ops = 0

LbNext ==
  \/ SetItem \/ LoadItem \/ AddRows \/ MoveOn \/ Dump
  \/ \E text \in Texts : LogContact(text)
  \/ \E row \in 0 .. rowCount - 1, col \in 0 .. LastCol, text \in Texts :
       Edit(row, col, text)
  \/ \E name \in DOMAIN files : ReadLogReport(name)
  \/ \E name \in SaveNames, opens \in BOOLEAN : WriteLogReport(name, opens)
  \/ Start \/ Killed \/ Quit

LbSpec == LbInit /\ [][LbNext]_lbVars

-----------------------------------------------------------------------------
\* The log survives a crash: at every moment but the one in which another file is
\* begun, the open file, read from nothing, is the table, in the middle of a
\* contact or of another file that is read in; whatever was edited by hand, read,
\* saved over an older file, or not saved because that could not be opened.  And
\* no contact overwrites an older one, whose row is one that logContact or
\* readLogReport has filled, unless a file without a line has been read: that
\* sets the log back to its first row.
LogKept ==
  /\ running /\ log_file_out # "none" /\ (todo = <<>> \/ Head(todo).op # "dump")
       => Replay(files[log_file_out]) = items
  /\ running /\ todo = <<>> /\ ~blank_read
       => \A row \in logged : row < next_used_row
=============================================================================
