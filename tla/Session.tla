------------------------------- MODULE Session -------------------------------
(***************************************************************************)
(* The life of a SoDaServer process and of the clients it serves: how a    *)
(* GUI finds that no server runs and starts one, how the server comes up   *)
(* and goes down, how UI accepts one client after the other on its two     *)
(* sockets, and how STOP reaches every thread.                             *)
(*                                                                         *)
(* Of the server's threads, UI and USRPRX, whose loops may keep a command  *)
(* waiting, are followed step by step.  USRPCtrl answers the client's GET, *)
(* GPSmon stops by a mailbox of its own (its fixes are left out); USRPTX,  *)
(* BaseBandRX, BaseBandTX, CWTX and IFRecorder end on STOP as USRPCtrl     *)
(* does and are left out, as is the order of put()'s pushes (MultiMBox).   *)
(* A client reads all that it is sent.                                     *)
(***************************************************************************)
EXTENDS Integers, Sequences, SequencesExt

CONSTANTS Clients,    \* GUIs and other clients, each of which runs once
          BrokenPipe, \* what a write to a client that is gone may do: "kill"
                      \* the server (SIGPIPE) or give an "error" (EPIPE)
          Turn,       \* IF buffers UI takes before it looks at its clients, 4
          MaxBuf,     \* bound: IF buffers waiting for UI
          MaxGet      \* bound: GETs of a client

None == "none"

ASSUME SessionAssumption ==
  /\ None \notin Clients
  /\ BrokenPipe \subseteq {"kill", "error"}
  /\ {Turn, MaxBuf, MaxGet} \subseteq Nat

CmdReaders == {"CTRL", "RX", "UI"}      \* subscribers of CMD
Threads == CmdReaders \cup {"GPS"}
Sockets == {"cmd", "wfall"}

VARIABLES
  lock, files,        \* the lock file exists; the socket files: "none", "dead"
                      \* (no server behind them) or "live"
  srv, running,       \* main(): how far it is; the threads in their run loops
  client, sent, up,   \* per client: what it does, the GETs it has sent,
                      \* what it wrote to the command socket and UI has not read
  got,                \* per client: what it has been sent on "cmd"
  backlog, conn, ready,     \* per ServerSocket: connections not yet accepted,
                            \* conn_socket's client, ready
  cmdq, gpsq, ifq,    \* CMD per reader, GPSmon's queue, length of the IF queue
  upc, new_connection, bcount,  \* UI::run: the next step, its locals
  collecting          \* USRPRX is in its recv loop

process == <<lock, files, srv, running>>
peers   == <<client, sent, up>>
sockets == <<got, backlog, conn, ready>>
boxes   == <<cmdq, gpsq, ifq>>
ui      == <<upc, new_connection, bcount>>
vars == <<process, peers, sockets, boxes, ui, collecting>>

Open(c) == c \in Clients /\ client[c] \in {"up", "closing"}

-----------------------------------------------------------------------------
(* The server process.                                                     *)

Off == /\ backlog' = [s \in Sockets |-> <<>>]
       /\ conn' = [s \in Sockets |-> None]
       /\ ready' = [s \in Sockets |-> FALSE]
       /\ cmdq' = [r \in CmdReaders |-> <<>>]
       /\ gpsq' = <<>> /\ ifq' = 0
       /\ upc' = "top" /\ new_connection' = TRUE /\ bcount' = 0
       /\ collecting' = FALSE

\* A signal ends the process; the lock and the socket files stay.
Killed == srv' = "killed" /\ running' = {} /\ files' = "dead"
Bury ==
  /\ srv = "killed"
  /\ srv' = "off"
  /\ Off
  /\ UNCHANGED <<lock, files, running, peers, got>>

CreateLock ==
  /\ srv = "launched"
  /\ srv' = "locked"
  /\ lock' = TRUE
  /\ UNCHANGED <<files, running, peers, sockets, boxes, ui, collecting>>

\* USRPCtrl's constructor finds no radio: UHD's exception, which main() does
\* not catch, ends the process there; SoDa's own, after main() has unlocked.
NoRadio(caught) ==
  /\ srv = "locked"
  /\ srv' = "off"
  /\ lock' = ~caught
  /\ UNCHANGED <<files, running, peers, sockets, boxes, ui, collecting>>

\* UI's constructor unlinks the socket files, binds and listens.
BindSockets ==
  /\ srv = "locked"
  /\ srv' = "bound"
  /\ files' = "live"
  /\ UNCHANGED <<lock, running, peers, sockets, boxes, ui, collecting>>

\* The threads start; UI's first put()s include updateSpectrumState's.
StartThreads ==
  /\ srv = "bound"
  /\ srv' = "up"
  /\ running' = Threads
  /\ cmdq' = [cmdq EXCEPT !["UI"] = <<[k |-> "SPEC_DIMS"]>>]
  /\ UNCHANGED <<lock, files, peers, sockets, gpsq, ifq, ui, collecting>>

\* joinThreads waits for the threads one after the other.
JoinedUIOnly == "UI" \notin running
Joined == running = {}

\* joinThreads returns; UI's destructor closes and unlinks the sockets.
CloseSockets ==
  /\ srv = "up" /\ Joined
  /\ srv' = "closed"
  /\ files' = "none"
  /\ Off
  /\ UNCHANGED <<lock, running, peers, got>>

DeleteLock ==
  /\ srv = "closed"
  /\ srv' = "off"
  /\ lock' = FALSE
  /\ UNCHANGED <<files, running, peers, sockets, boxes, ui, collecting>>

-----------------------------------------------------------------------------
(* Clients.                                                                *)

\* main() of the GUI: checkForZombies, then startupServer.  Two GUIs started
\* so close together that neither sees the other's lock are left out.
Launch(c) ==
  /\ client[c] = "idle" /\ srv # "launched"
  /\ client' = [client EXCEPT ![c] = IF lock THEN "gone" ELSE "waiting"]
  /\ srv' = IF lock THEN srv ELSE "launched"
  /\ UNCHANGED <<lock, files, running, sent, up, sockets, boxes, ui,
                 collecting>>

\* Listener::init waits for the file and connects once.  A client that is not
\* the GUI may connect to the server it finds.
Connect(c) ==
  /\ \/ client[c] = "waiting" /\ files # "none"
     \/ client[c] = "idle" /\ files = "live"
  /\ client' = [client EXCEPT ![c] = IF files = "live" THEN "up" ELSE "stuck"]
  /\ backlog' = IF files = "live"
                THEN [s \in Sockets |-> Append(backlog[s], c)] ELSE backlog
  /\ UNCHANGED <<process, sent, up, got, conn, ready, boxes, ui, collecting>>

\* Listener::start asks for the set-up.
Ask(c) ==
  /\ client[c] = "up" /\ sent[c] < MaxGet
  /\ sent' = [sent EXCEPT ![c] = @ + 1]
  /\ up' = [up EXCEPT ![c] = Append(@, [k |-> "GET", by |-> c])]
  /\ UNCHANGED <<process, client, sockets, boxes, ui, collecting>>

\* closeEvent sends STOP, and the process ends soon after.
CloseRadio(c) ==
  /\ client[c] = "up"
  /\ client' = [client EXCEPT ![c] = "closing"]
  /\ up' = [up EXCEPT ![c] = Append(@, [k |-> "STOP", by |-> c])]
  /\ UNCHANGED <<process, sent, sockets, boxes, ui, collecting>>

\* The client ends: after STOP, without it (a fatal error), or having waited
\* too long for the socket file.
Leave(c) ==
  /\ \/ Open(c)
     \/ client[c] = "waiting" /\ files = "none"
  /\ client' = [client EXCEPT ![c] = "gone"]
  /\ sent' = [sent EXCEPT ![c] = 0]
  /\ got' = [got EXCEPT ![c] = {}]
  /\ UNCHANGED <<process, up, backlog, conn, ready, boxes, ui, collecting>>

\* The operator does what the GUI's message asks, once no server runs.
CleanUp ==
  /\ srv = "off" /\ lock
  /\ lock' = FALSE
  /\ files' = "none"
  /\ UNCHANGED <<srv, running, peers, sockets, boxes, ui, collecting>>

-----------------------------------------------------------------------------
(* ServerSocket: one client at a time.                                     *)

\* recv() peeks at an end of file: closed, and nothing left to read.
AtEnd(s) == ~Open(conn[s]) /\ (s = "cmd" => up[conn[s]] = <<>>)
Comes(s) == ~ready[s] /\ backlog[s] # <<>>
IsReady(s) == IF ready[s] THEN ~AtEnd(s) ELSE Comes(s)

\* The state change of isReady().
Look(s) ==
  /\ ready' = [ready EXCEPT ![s] = IsReady(s)]
  /\ conn' = IF Comes(s) THEN [conn EXCEPT ![s] = Head(backlog[s])] ELSE conn
  /\ backlog' = IF Comes(s) THEN [backlog EXCEPT ![s] = Tail(@)] ELSE backlog

\* put(): with nobody connected it looks for a client and else drops m.
Put(s, m) ==
  LET to == IF ready[s] THEN conn[s]
            ELSE IF Comes(s) THEN Head(backlog[s]) ELSE None
      broken == to # None /\ ~Open(to)
  IN  /\ conn' = IF Comes(s) THEN [conn EXCEPT ![s] = to] ELSE conn
      /\ backlog' = IF Comes(s) THEN [backlog EXCEPT ![s] = Tail(@)] ELSE backlog
      /\ got' = IF s = "cmd" /\ Open(to) THEN [got EXCEPT ![to] = @ \cup {m}]
                ELSE got
      /\ \/ /\ ~broken
            /\ ready' = [ready EXCEPT ![s] = to # None]
            /\ UNCHANGED <<srv, running, files>>
         \/ /\ broken /\ "error" \in BrokenPipe
            /\ ready' = [ready EXCEPT ![s] = FALSE]
            /\ UNCHANGED <<srv, running, files>>
         \/ /\ broken /\ "kill" \in BrokenPipe
            /\ ready' = [ready EXCEPT ![s] = TRUE]
            /\ Killed
      /\ UNCHANGED lock

-----------------------------------------------------------------------------
(* UI::run, one turn of its loop: look, greet, get, ring, if, fft.         *)

UiAt(p) == "UI" \in running /\ upc = p

GreetOnce == new_connection
GreetNext == new_connection \/ ~IsReady("cmd")

UiLooks ==
  /\ UiAt("top")
  /\ Look("cmd")
  /\ upc' = IF ~IsReady("cmd") THEN "ring"
            ELSE IF new_connection THEN "greet" ELSE "get"
  /\ new_connection' = GreetNext
  /\ UNCHANGED <<process, peers, got, boxes, bcount, collecting>>

\* The spectrum's dimensions take the way over the CMD mailbox.
UiGreets ==
  /\ UiAt("greet")
  /\ cmdq' = [cmdq EXCEPT !["UI"] = Append(@, [k |-> "SPEC_DIMS"])]
  /\ Put("cmd", [k |-> "SDR_VERSION"])
  /\ new_connection' = FALSE
  /\ upc' = "get"
  /\ UNCHANGED <<peers, gpsq, ifq, bcount, collecting>>

RelayNothing(m) == gpsq
RelayStop(m) == IF m.k = "STOP" THEN Append(gpsq, m) ELSE gpsq

\* UI leaves its loop on STOP, after it has put it in both mailboxes.
UiGets ==
  /\ UiAt("get")
  /\ upc' = "ring"
  /\ IF up[conn["cmd"]] = <<>> THEN UNCHANGED <<up, cmdq, gpsq, running>>
     ELSE LET m == Head(up[conn["cmd"]])
          IN  /\ up' = [up EXCEPT ![conn["cmd"]] = Tail(@)]
              /\ cmdq' = [r \in CmdReaders |-> Append(cmdq[r], m)]
              /\ gpsq' = RelayStop(m)
              /\ running' = IF m.k = "STOP" THEN running \ {"UI"} ELSE running
  /\ UNCHANGED <<lock, files, srv, client, sent, sockets, ifq, new_connection,
                 bcount, collecting>>

Reports == {"SPEC_DIMS", "entry", "INIT_SETUP_COMPLETE"}

\* Reports go out to the client; what UI executes itself changes no state here.
UiRelays ==
  /\ UiAt("ring") /\ cmdq["UI"] # <<>>
  /\ cmdq' = [cmdq EXCEPT !["UI"] = Tail(@)]
  /\ LET m == Head(cmdq["UI"])
     IN  IF m.k \in Reports THEN Put("cmd", m)
         ELSE UNCHANGED <<process, sockets>>
  /\ UNCHANGED <<peers, gpsq, ifq, ui, collecting>>

\* Up to Turn IF buffers.  Each is dropped if nobody watches the
\* waterfall, and else transformed, which takes a while, and then sent.
UiTakesBuffer ==
  /\ UiAt("if") /\ ifq > 0 /\ bcount < Turn
  /\ Look("wfall")
  /\ ifq' = ifq - 1
  /\ bcount' = bcount + 1
  /\ upc' = IF IsReady("wfall") THEN "fft" ELSE "if"
  /\ UNCHANGED <<process, peers, got, cmdq, gpsq, new_connection, collecting>>

UiSendsSpectrum ==
  /\ UiAt("fft")
  /\ Put("wfall", [k |-> "spectrum"])
  /\ upc' = "if"
  /\ UNCHANGED <<peers, boxes, new_connection, bcount, collecting>>

\* One of the inner loops is done.
UiMovesOn ==
  /\ \/ UiAt("ring") /\ cmdq["UI"] = <<>> /\ upc' = "if"
     \/ UiAt("if") /\ (ifq = 0 \/ bcount = Turn) /\ upc' = "top"
  /\ bcount' = 0
  /\ UNCHANGED <<process, peers, sockets, boxes, new_connection, collecting>>

UiSteps == \/ UiLooks \/ UiGreets \/ UiGets \/ UiRelays
           \/ UiTakesBuffer \/ UiSendsSpectrum \/ UiMovesOn

-----------------------------------------------------------------------------
(* The other threads.                                                      *)

Takes(t) ==
  /\ t \in running /\ cmdq[t] # <<>>
  /\ running' = IF Head(cmdq[t]).k = "STOP" THEN running \ {t} ELSE running
  /\ UNCHANGED <<lock, files, srv, peers, sockets, gpsq, ifq, ui>>

\* USRPCtrl answers GET HWMB_REP: the entries of the GUI's menus, then the end.
CtrlTakes ==
  /\ Takes("CTRL")
  /\ LET m == Head(cmdq["CTRL"])
         answer == IF m.k # "GET" THEN <<>>
                   ELSE <<[k |-> "entry", by |-> m.by],
                          [k |-> "INIT_SETUP_COMPLETE", by |-> m.by]>>
     IN  cmdq' = [cmdq EXCEPT !["CTRL"] = Tail(@), !["UI"] = @ \o answer]
  /\ UNCHANGED <<collecting>>

\* USRPRX looks at its commands between two buffers only.
RxTakes ==
  /\ ~collecting
  /\ Takes("RX")
  /\ cmdq' = [cmdq EXCEPT !["RX"] = Tail(@)]
  /\ UNCHANGED <<collecting>>

RxCollects ==
  /\ "RX" \in running /\ ~collecting /\ cmdq["RX"] = <<>> /\ ifq < MaxBuf
  /\ collecting' = TRUE
  /\ UNCHANGED <<process, peers, sockets, boxes, ui>>

\* The radio has delivered the buffer; a copy goes on the IF stream.
RxCollected ==
  /\ "RX" \in running /\ collecting
  /\ collecting' = FALSE
  /\ ifq' = ifq + 1
  /\ UNCHANGED <<process, peers, sockets, cmdq, gpsq, ui>>

GpsTakes ==
  /\ "GPS" \in running /\ gpsq # <<>>
  /\ gpsq' = Tail(gpsq)
  /\ running' = running \ {"GPS"}
  /\ UNCHANGED <<lock, files, srv, peers, sockets, cmdq, ifq, ui, collecting>>

-----------------------------------------------------------------------------
Init ==
  /\ lock = FALSE /\ files = "none" /\ srv = "off" /\ running = {}
  /\ client = [c \in Clients |-> "idle"]
  /\ sent = [c \in Clients |-> 0]
  /\ up = [c \in Clients |-> <<>>]
  /\ got = [c \in Clients |-> {}]
  /\ backlog = [s \in Sockets |-> <<>>]
  /\ conn = [s \in Sockets |-> None]
  /\ ready = [s \in Sockets |-> FALSE]
  /\ cmdq = [r \in CmdReaders |-> <<>>]
  /\ gpsq = <<>> /\ ifq = 0
  /\ upc = "top" /\ new_connection = TRUE /\ bcount = 0
  /\ collecting = FALSE

MainSteps == CreateLock \/ BindSockets \/ StartThreads \/ CloseSockets
               \/ DeleteLock \/ Bury

Next ==
  \/ MainSteps \/ UiSteps
  \/ \E caught \in BOOLEAN : NoRadio(caught)
  \/ \E c \in Clients : Launch(c) \/ Connect(c) \/ CloseRadio(c) \/ Leave(c)
  \/ \E c \in Clients : Ask(c)
  \/ CleanUp
  \/ CtrlTakes \/ RxTakes \/ RxCollects \/ RxCollected \/ GpsTakes

\* The scheduler runs every thread, and the radio delivers what it is asked for.
Fairness ==
  /\ WF_vars(MainSteps) /\ WF_vars(UiSteps)
  /\ WF_vars(CtrlTakes) /\ WF_vars(RxTakes) /\ WF_vars(RxCollected)
  /\ WF_vars(GpsTakes)

Spec == Init /\ [][Next]_vars /\ Fairness

-----------------------------------------------------------------------------
(* Properties.                                                             *)

\* A GUI that finds no lock file starts a second server on the same radio and
\* the same sockets.  So from its creation on the lock stays until every
\* thread has left its run loop and the socket files are gone, whatever way
\* the server ends, a kill in the middle of a write included.
LockOutlivesServer ==
  (running # {} \/ srv \in {"bound", "up", "killed", "closed"} \/ files # "none") => lock

\* A STOP that the connected client has sent takes the whole server down: UI,
\* which leaves its loop and serves nobody any more, has told every thread,
\* GPSmon in its own mailbox, and none of them waits for a thread that has
\* ended.  Where SIGPIPE is ignored this is false: see the README.
StopSent(c) == /\ srv = "up" /\ ready["cmd"] /\ conn["cmd"] = c
               /\ \E i \in DOMAIN up[c] : up[c][i].k = "STOP"
EverythingStops == \A c \in Clients : StopSent(c) ~> srv = "off"

\* What the GUI builds from: an answer reaches the client that asked, and only
\* after the greeting and after the entries that it completes; so the settings
\* restored at INIT_SETUP_COMPLETE find the menus filled.
AnswersInOrder ==
  \A c \in Clients :
    [k |-> "INIT_SETUP_COMPLETE", by |-> c] \in got[c]
      => /\ [k |-> "SDR_VERSION"] \in got[c]
         /\ [k |-> "SPEC_DIMS"] \in got[c]
         /\ [k |-> "entry", by |-> c] \in got[c]
=============================================================================
