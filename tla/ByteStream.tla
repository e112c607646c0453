----------------------------- MODULE ByteStream -----------------------------
(***************************************************************************)
(* How a message crosses the command socket: as a length and that many     *)
(* bytes, over a stream that takes and gives as many as it likes and holds *)
(* so many at a time.  At one end UI, in UDSockets' put() and get(), which *)
(* go round until all is written or read; at the other the GUI's Listener, *)
(* whose QLocalSocket keeps buffers of its own and moves them in the event *)
(* loop.  Session has what the messages mean and who connects when; here   *)
(* one client is connected, and may leave.                                 *)
(*                                                                         *)
(* Messages are numbered per direction.  The four bytes of a length travel *)
(* together, as one unit: writes that small are taken whole or not at all. *)
(***************************************************************************)
EXTENDS Integers, Sequences, SequencesExt

CONSTANTS Size,    \* units of a Command behind its length
          Pipe,    \* units the socket holds per direction
          MaxMsg   \* bound: messages per direction

ASSUME StreamAssumption == {Size, Pipe, MaxMsg} \subseteq Nat \ {0}

VARIABLES
  to_server, to_client,  \* units in the socket
  told, left,            \* server: messages it has put, units loopWrite has to go
  partial, want,         \* server: what get() has read of a message, and has yet to
  heard,                 \* server: messages got
  serving,               \* server: ready
  asked, write_buf,      \* client: messages it has put, QLocalSocket's write buffer
  read_buf, seen,        \* client: QLocalSocket's read buffer, messages got
  gone                   \* client: it has closed

server == <<told, left, partial, want, heard, serving>>
guest  == <<asked, write_buf, read_buf, seen, gone>>
bsVars == <<to_server, to_client, server, guest>>

Frame(msg) == <<<<"length", msg>>>> \o [i \in 1 .. Size |-> <<"byte", msg, i>>]

\* The message in a piece of the stream, or 0.
Message(units) ==
  IF \E msg \in 1 .. MaxMsg : units = Frame(msg)
    THEN CHOOSE msg \in 1 .. MaxMsg : units = Frame(msg)
    ELSE 0

-----------------------------------------------------------------------------
(* UI.                                                                     *)

InLoop == left = <<>> /\ want = 0

ServerPut ==
  /\ serving /\ InLoop /\ told < MaxMsg
  /\ told' = told + 1
  /\ left' = Frame(told')
  /\ UNCHANGED <<to_server, to_client, partial, want, heard, serving, guest>>

\* Slip: what the first write() of the message did not take is forgotten.
ForgetsRest(units, n) == IF Head(units)[1] = "length" THEN Tail(units) ELSE <<>>
Rest(units, n) == SubSeq(units, n + 1, Len(units))

\* A turn of loopWrite(): the length, then as much of the message as is taken;
\* a full socket is tried again.
LoopWrite(n) ==
  /\ left # <<>> /\ ~gone
  /\ n <= (IF Head(left)[1] = "length" THEN 1 ELSE Len(left))
  /\ Len(to_client) + n <= Pipe
  /\ to_client' = to_client \o SubSeq(left, 1, n)
  /\ left' = Rest(left, n)
  /\ UNCHANGED <<to_server, told, partial, want, heard, serving, guest>>

\* The write fails, without SIGPIPE; put() returns at once.
WriteFails ==
  /\ left # <<>> /\ gone
  /\ left' = <<>>
  /\ serving' = FALSE
  /\ UNCHANGED <<to_server, to_client, told, partial, want, heard, guest>>

\* get() finds a length; with nothing there it returns 0, and UI goes on.
GetLength ==
  /\ serving /\ InLoop /\ to_server # <<>>
  /\ partial' = <<Head(to_server)>>
  /\ want' = Size
  /\ to_server' = Tail(to_server)
  /\ UNCHANGED <<to_client, told, left, heard, serving, guest>>

\* A turn of get()'s loop: what there is of the rest.
GetBytes ==
  LET n == IF Len(to_server) < want THEN Len(to_server) ELSE want
      read == partial \o SubSeq(to_server, 1, n)
  IN  /\ want > 0 /\ n > 0
      /\ want' = want - n
      /\ to_server' = SubSeq(to_server, n + 1, Len(to_server))
      /\ partial' = IF want' = 0 THEN <<>> ELSE read
      /\ heard' = IF want' = 0 THEN Append(heard, Message(read)) ELSE heard
      /\ UNCHANGED <<to_client, told, left, serving, guest>>

\* isReady(): the end of the stream is seen by peeking only, since get()
\* returns 0 for it as it does for an empty one.
PeekEnd ==
  /\ serving /\ InLoop /\ gone /\ to_server = <<>>
  /\ serving' = FALSE
  /\ UNCHANGED <<to_server, to_client, told, left, partial, want, heard, guest>>

UiStep == \/ \E n \in 1 .. Size : LoopWrite(n)
          \/ WriteFails \/ GetLength \/ GetBytes \/ PeekEnd

-----------------------------------------------------------------------------
(* The GUI.                                                                *)

\* Listener::put: both writes go to the buffer, however full the socket.
ClientPut ==
  /\ ~gone /\ asked < MaxMsg
  /\ asked' = asked + 1
  /\ write_buf' = write_buf \o Frame(asked')
  /\ UNCHANGED <<to_server, to_client, server, read_buf, seen, gone>>

\* flush() and the event loop: as much as is taken.
Flush(n) ==
  /\ ~gone /\ n <= Len(write_buf) /\ Len(to_server) + n <= Pipe
  /\ to_server' = to_server \o SubSeq(write_buf, 1, n)
  /\ write_buf' = SubSeq(write_buf, n + 1, Len(write_buf))
  /\ UNCHANGED <<to_client, server, asked, read_buf, seen, gone>>

\* Slip: a client that, like the server, writes all before it reads.
WrittenAll == write_buf = <<>>
MayRead == TRUE

ReadNotification ==
  /\ ~gone /\ to_client # <<>> /\ MayRead
  /\ read_buf' = read_buf \o to_client
  /\ to_client' = <<>>
  /\ UNCHANGED <<to_server, server, asked, write_buf, seen, gone>>

\* A turn of the loop in processCmd(): more than a Command is there.
ProcessCmd ==
  /\ ~gone /\ Len(read_buf) > Size
  /\ seen' = Append(seen, Message(SubSeq(read_buf, 1, Size + 1)))
  /\ read_buf' = SubSeq(read_buf, Size + 2, Len(read_buf))
  /\ UNCHANGED <<to_server, to_client, server, asked, write_buf, gone>>

\* The process ends; all that it has put is in the socket by then.
Close ==
  /\ ~gone /\ write_buf = <<>>
  /\ gone' = TRUE
  /\ to_client' = <<>>
  /\ UNCHANGED <<to_server, server, asked, write_buf, read_buf, seen>>

-----------------------------------------------------------------------------
BsBegin(there) ==
  /\ to_server = <<>> /\ to_client = <<>>
  /\ told = 0 /\ left = <<>> /\ partial = <<>> /\ want = 0 /\ heard = <<>>
  /\ serving = there
  /\ asked = 0 /\ write_buf = <<>> /\ read_buf = <<>> /\ seen = <<>>
  /\ gone = ~there

BsInit == BsBegin(TRUE)

\* Nobody has connected.
BsIdle == BsBegin(FALSE)

BsNext == \/ UiStep \/ ServerPut
          \/ ClientPut \/ ReadNotification \/ ProcessCmd \/ Close
          \/ \E n \in 1 .. Pipe : Flush(n)

\* UI's loop and the GUI's event loop go round.
BsFairness ==
  /\ WF_bsVars(UiStep)
  /\ WF_bsVars(ReadNotification) /\ WF_bsVars(ProcessCmd)
  /\ WF_bsVars(\E n \in 1 .. Pipe : Flush(n))

BsSpec == BsInit /\ [][BsNext]_bsVars /\ BsFairness

-----------------------------------------------------------------------------
\* However the stream is cut by full sockets and short reads, at both ends, the
\* messages got are the messages put, whole, in order and once: no reader ever
\* takes bytes of a message for a length.
FramesKept ==
  /\ heard = [i \in 1 .. Len(heard) |-> i] /\ Len(heard) <= asked
  /\ seen = [i \in 1 .. Len(seen) |-> i] /\ Len(seen) <= told

\* While UI spins in a full socket it reads nothing.  Both ends get through all
\* the same, even with both directions full, since the GUI's writes never wait;
\* and UI finds out that the client has gone.
BothGetThrough ==
  /\ \A n \in 1 .. MaxMsg :
       /\ asked >= n ~> (Len(heard) >= n \/ ~serving)
       /\ told >= n ~> (Len(seen) >= n \/ gone)
  /\ gone ~> ~serving
=============================================================================
